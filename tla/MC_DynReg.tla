------------------------------ MODULE MC_DynReg ------------------------------
(* Model-checking instance of DynReg: int32 seeds at the edges of rand_r's *)
(* domain, decoded lengths on both sides of an AES block boundary.         *)
EXTENDS DynReg

MCSeeds == {-2147483647 - 1, -2147483647, -44488, -1, 0, 1, 44487, 44488,
            2147483646, 2147483647}
MCUptimes == {-1, 0, 1, 2147483647}
=============================================================================
