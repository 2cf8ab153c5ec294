------------------------------- MODULE DynReg -------------------------------
(***************************************************************************)
(* Dynamic device registration (src/src/dynreg/src/dynreg.c):             *)
(* qcloud_iot_dyn_reg_dev signs a request with a nonce from rand_r, posts *)
(* it over HTTP(S), and _parse_devinfo decrypts the reply and stores the  *)
(* credential it carries into the caller's DeviceInfo: the device secret  *)
(* in key modes, or the certificate and key files in AUTH_MODE_CERT_TLS.  *)
(*                                                                         *)
(* One registration call is one step.  The server's reply is abstracted   *)
(* to the fields the parser branches on; a step either fails at one of   *)
(* the checks the code makes, in the code's order, or gets a reply that    *)
(* passes all of them.  Lengths are numbers, compared with the buffer     *)
(* sizes; string contents are model values.  The auth mode is what the    *)
(* HAL store returns for this device.                                     *)
(***************************************************************************)
EXTENDS Integers

CONSTANTS
    MaxSerc,       \* MAX_SIZE_OF_DEVICE_SERC
    DecodeBufLen,  \* DECODE_BUFF_LEN_FOR_KEY / _FOR_CERT
    Lens,          \* lengths base64decode may return (<= DecodeBufLen)
    PskLens,       \* lengths of the psk a reply may carry
    Uptimes,       \* HAL_UptimeMs() values, as the int32 rand_r reads them
    Seeds,         \* int32 seeds on which rand_r is compared with its reference
    MaxCalls       \* bound on qcloud_iot_dyn_reg_dev calls

ASSUME \A l \in Lens : 0 <= l /\ l <= DecodeBufLen
ASSUME MaxCalls \in Nat

\* The constants of rand_r (Knuth, TAOCP 3.6): M = 2^31 - 1, Q = M / A,
\* R = M % A.
M == 2147483647
A == 48271
Q == 44488
R == 3399
\* UTILS_AES_BLOCK_LEN: the AES block size.
AES_BLOCK == 16

AUTH_MODE_CERT_TLS   == "AUTH_MODE_CERT_TLS"
AUTH_MODE_KEY_TLS    == "AUTH_MODE_KEY_TLS"
AUTH_MODE_KEY_NO_TLS == "AUTH_MODE_KEY_NO_TLS"
AUTH_MODE_MAX        == "AUTH_MODE_MAX"
eCERT_TYPE == 1
ePSK_TYPE  == 2
SUCCESS == 0
FAILURE == -1001

VARIABLES
    authMode,   \* the mode HAL_GetAuthMode returns on this device
    keyOk,      \* strlen(pDevInfo->product_key) >= UTILS_AES_BLOCK_LEN
    devSerc,    \* pDevInfo->devSerc: [call, len] of the psk copied in
    certFiles,  \* the .crt / .key files _cert_file_save has written
    seed,       \* _seed
    leaked,     \* heap blocks no longer reachable
    calls,      \* registration calls made
    lastOp      \* the last call's return code and datalen (history)

vars == <<authMode, keyOk, devSerc, certFiles, seed, leaked, calls, lastOp>>

-----------------------------------------------------------------------------
(* rand_r, with C's truncating division on int32 *)

\* C's `/` and `%` on a negative int32 truncate toward zero; written so
\* that -2^31 needs no intermediate 2^31.
CDiv(x, d) == IF x >= 0 THEN x \div d
              ELSE -(((-(x + 1)) \div d) + (IF (-(x + 1)) % d = d - 1 THEN 1 ELSE 0))
CMod(x, d) == x - d * CDiv(x, d)

\* Mutant: the negative intermediate is not brought back into range.
rand_r_no_wrap(x) == A * CMod(x, Q) - R * CDiv(x, Q)

\* rand_r: one step of Schrage's method; *seed becomes the result.
rand_r(x) == LET y == A * CMod(x, Q) - R * CDiv(x, Q)
             IN IF y < 0 THEN y + M ELSE y

\* Reference: (A * x) mod M by doubling, every intermediate below M.
AddMod(u, v) == IF u >= M - v THEN u - (M - v) ELSE u + v
RECURSIVE MulMod(_, _)
MulMod(a, x) == IF a = 0 THEN 0
                ELSE LET h == MulMod(a \div 2, x)
                     IN AddMod(AddMod(h, h), IF a % 2 = 1 THEN x ELSE 0)
LehmerNext(x) == MulMod(A, x % M)

-----------------------------------------------------------------------------
(* The reply and the parser *)

\* The psk field of a reply: absent, or the psk sent in call `call`, of
\* length `len`.
NoPsk == [has |-> FALSE, call |-> 0, len |-> 0]

\* _cert_file_save(fileName, data, dataLen): fopen("/name", "w+") may fail,
\* and fprintf("%s") must print dataLen (strlen) characters, which a short
\* write does not.  The save succeeds only past both.
CertSaveOutcomes == {"open_fail", "short_write", "ok"}
_cert_file_save(out) == out = "ok"

\* A reply that passes every check of _parse_devinfo, for the mode.
GoodReplies(mode, call) ==
    IF mode = AUTH_MODE_CERT_TLS
    THEN [code : {0}, payload : {TRUE}, decodeOk : {TRUE}, decryptOk : {TRUE},
          encType : {eCERT_TYPE}, psk : {NoPsk}, cert : BOOLEAN, key : BOOLEAN,
          certSaved : {_cert_file_save(o) : o \in CertSaveOutcomes},
          keySaved : {_cert_file_save(o) : o \in CertSaveOutcomes}]
    ELSE [code : {0}, payload : {TRUE}, decodeOk : {TRUE}, decryptOk : {TRUE},
          encType : {ePSK_TYPE}, psk : {NoPsk} \cup {[has |-> TRUE, call |-> call, len |-> l] : l \in PskLens},
          cert : {FALSE}, key : {FALSE}, certSaved : {FALSE}, keySaved : {FALSE}]

\* Every reply the server (or a corrupted transfer) may produce, up to the
\* first check of _parse_devinfo it fails.
Replies(mode, call) ==
    LET g == CHOOSE r \in GoodReplies(mode, call) : TRUE
    IN GoodReplies(mode, call)
       \cup {[g EXCEPT !.code = 1], [g EXCEPT !.payload = FALSE],
             [g EXCEPT !.decodeOk = FALSE], [g EXCEPT !.decryptOk = FALSE],
             [g EXCEPT !.encType = -1],
             [g EXCEPT !.encType = eCERT_TYPE + ePSK_TYPE - g.encType]}

\* The AES input length _parse_devinfo computes from the decoded length.
DataLen(len) == len + (AES_BLOCK - (len % AES_BLOCK))

\* The AUTH_MODE_CERT_TLS branch of _parse_devinfo: save the certificate,
\* then the key, each only if the reply has it; a missing item or a failed
\* save sets ret to failure, and the key is handled whatever happened to
\* the certificate.
CertBranch(j) ==
    [rc |-> IF j.cert /\ j.certSaved /\ j.key /\ j.keySaved THEN SUCCESS ELSE FAILURE,
     files |-> (IF j.cert /\ j.certSaved THEN {"crt"} ELSE {})
               \cup (IF j.key /\ j.keySaved THEN {"key"} ELSE {})]

\* The key-mode tail of _parse_devinfo: a psk, when the reply has one, is
\* copied into pDevInfo->devSerc (strcpy'd whole when it is longer than
\* MAX_SIZE_OF_DEVICE_SERC, after logging that); a missing psk is only
\* logged, and ret stays success.
PskBranch(j) == [rc |-> SUCCESS, psk |-> j.psk]

\* _parse_devinfo(jdoc): checks in the code's order; `ret` keeps the last
\* code assigned.  Returns the code, the datalen passed to utils_aes_cbc
\* (-1 if not reached) and what was stored.
ParseFail(rc, dl) == [rc |-> rc, datalen |-> dl, psk |-> NoPsk, files |-> {}]
_parse_devinfo(j, len, mode, authOk) ==
    LET cert == mode = AUTH_MODE_CERT_TLS
        dl   == DataLen(len)
    IN CASE ~authOk                 -> ParseFail(FAILURE, -1)
         [] j.code # 0     -> ParseFail(j.code, -1)
         [] ~j.payload              -> ParseFail(FAILURE, -1)
         [] ~j.decodeOk             -> ParseFail(FAILURE, -1)
         [] ~j.decryptOk            -> ParseFail(FAILURE, dl)
         [] j.encType < 0  -> ParseFail(FAILURE, dl)
         [] cert /\ j.encType # eCERT_TYPE -> ParseFail(FAILURE, dl)
         [] ~cert /\ j.encType # ePSK_TYPE -> ParseFail(FAILURE, dl)
         [] cert -> [rc |-> CertBranch(j).rc, datalen |-> dl, psk |-> NoPsk,
                     files |-> CertBranch(j).files]
         [] OTHER -> [rc |-> PskBranch(j).rc, datalen |-> dl, psk |-> PskBranch(j).psk,
                      files |-> {}]

\* _post_reg_request_by_http: read the auth mode, post, receive, parse.
\* `step` names the first step that fails ("none": all succeed).
_post_reg_request_by_http(step, j, len, mode) ==
    CASE step = "auth_post" -> ParseFail(FAILURE, -1)
      [] step = "http"      -> ParseFail(FAILURE, -1)
      [] step = "recv"      -> ParseFail(FAILURE, -1)
      [] OTHER              -> _parse_devinfo(j, len, mode, step # "auth_parse")

-----------------------------------------------------------------------------
(* Operations *)

Init ==
    /\ authMode \in {AUTH_MODE_CERT_TLS, AUTH_MODE_KEY_TLS, AUTH_MODE_KEY_NO_TLS, AUTH_MODE_MAX}
    /\ keyOk \in BOOLEAN
    /\ devSerc = [call |-> 0, len |-> 0]
    /\ certFiles = {}
    /\ seed = 1
    /\ leaked = 0
    /\ calls = 0
    /\ lastOp = [rc |-> SUCCESS, datalen |-> -1, call |-> 0, files |-> {}]

\* Mutant: the olen failure path frees pSignSource and falls through to
\* the final HAL_Free.
_cal_dynreg_sign_frees_twice(out) ==
    [rc |-> IF out = "ok" THEN SUCCESS ELSE FAILURE,
     net |-> IF out = "olen_fail" THEN -1 ELSE 0]

\* _cal_dynreg_sign: malloc the sign source (may fail), HMAC, base64, free;
\* the result says whether the encoding fitted.  `net` is the change in
\* allocated blocks.
_cal_dynreg_sign(out) ==
    [rc |-> IF out = "ok" THEN SUCCESS ELSE FAILURE, net |-> 0]

\* Where one call can stop early, in the code's order: the product-key
\* check, _cal_dynreg_sign (its buffer is freed on every path), the
\* request malloc, HAL_GetAuthMode, then the steps inside the post.
Steps == {"malloc", "auth", "auth_post", "http", "recv", "auth_parse", "none"}
SignOutcomes == {"malloc_fail", "olen_fail", "ok"}

\* qcloud_iot_dyn_reg_dev(pDevInfo).
qcloud_iot_dyn_reg_dev ==
    /\ calls < MaxCalls
    /\ calls' = calls + 1
    /\ UNCHANGED <<authMode, keyOk>>
    /\ IF ~keyOk
       THEN /\ lastOp' = [rc |-> FAILURE, datalen |-> -1, call |-> calls + 1]
            /\ UNCHANGED <<devSerc, certFiles, seed, leaked>>
       ELSE \E up \in Uptimes, out \in SignOutcomes, step \in Steps,
               j \in Replies(authMode, calls + 1), len \in Lens :
            LET sign == _cal_dynreg_sign(out)
                stop == sign.rc # SUCCESS \/ step \in {"malloc", "auth"}
                p    == _post_reg_request_by_http(step, j, len, authMode)
            IN
            /\ seed' = rand_r(up)
            /\ leaked' = leaked + sign.net
                          + (IF sign.rc = SUCCESS /\ step = "auth" THEN 1 ELSE 0)
            /\ devSerc' = IF ~stop /\ p.psk.has THEN [call |-> p.psk.call, len |-> p.psk.len]
                          ELSE devSerc
            /\ certFiles' = certFiles \cup (IF stop THEN {} ELSE p.files)
            /\ lastOp' = [rc |-> IF stop THEN FAILURE ELSE p.rc, call |-> calls + 1,
                          datalen |-> IF stop THEN -1 ELSE p.datalen,
                          files |-> IF stop THEN {} ELSE p.files]

Next == qcloud_iot_dyn_reg_dev

Spec == Init /\ [][Next]_vars

-----------------------------------------------------------------------------
(* Properties *)

TypeOK ==
    /\ devSerc \in [call : 0..MaxCalls, len : {0} \cup PskLens]
    /\ certFiles \subseteq {"crt", "key"}
    /\ seed \in 0..(M - 1)
    /\ leaked \in Nat
    /\ calls \in 0..MaxCalls

\* rand_r, run on the current _seed or on any int32 seed (HAL_UptimeMs()
\* above 2^31 reads as a negative X), returns (48271 * X) mod (2^31 - 1), in 0..2^31-2: Schrage's
\* decomposition and the final "+ M" keep it exact and in range without
\* overflowing int32.
RandRIsLehmer == \A x \in Seeds \cup {seed} : rand_r(x) = LehmerNext(x)

\* A registration in a key mode that returns success has stored the psk
\* of that call's reply in pDevInfo->devSerc.
PskSuccessStoresSecret ==
    lastOp.rc = SUCCESS /\ lastOp.call > 0 /\ authMode # AUTH_MODE_CERT_TLS
        => devSerc.call = lastOp.call

\* pDevInfo->devSerc never holds more than MAX_SIZE_OF_DEVICE_SERC
\* characters (anything longer has overrun the field).
DevSercWithinBounds == devSerc.len <= MaxSerc

\* utils_aes_cbc is never asked to process more than the decode buffer
\* holds.
DecryptWithinBuffer == lastOp.datalen <= DecodeBufLen

\* Every heap block qcloud_iot_dyn_reg_dev allocates is freed by the time
\* it returns.
NoLeak == leaked = 0

\* What a caller of qcloud_iot_dyn_reg_dev relies on in a key mode: a
\* registration reported successful has stored this call's psk in
\* pDevInfo->devSerc, and the psk fits the field.  A reply without a psk
\* and a psk longer than MAX_SIZE_OF_DEVICE_SERC both break it.
RegisteredAsReported == PskSuccessStoresSecret /\ DevSercWithinBounds

\* Memory safety of a registration call: utils_aes_cbc stays inside the
\* decode buffer, and every heap block the call allocates is freed when
\* it returns, on every exit path.
RegistrationMemorySafe == DecryptWithinBuffer /\ NoLeak

\* The contract of qcloud_iot_dyn_reg_dev as its caller (the registration
\* step before the first connect) relies on it: the call is memory safe,
\* and a success means the credential of this call's reply is stored.
DynRegContract == RegisteredAsReported /\ RegistrationMemorySafe

=============================================================================
