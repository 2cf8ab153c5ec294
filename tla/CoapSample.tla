----------------------------- MODULE CoapSample -----------------------------
(***************************************************************************)
(* main of src/samples/coap/coap_sample.c, one statement per step,        *)
(* composed with the credential store it calls (DevInfoStore, on the      *)
(* Linux HAL).  The program: HAL_SetAuthMode(AUTH_MODE_KEY_NO_TLS) with    *)
(* its result ignored; _setup_connect_init_params (auth mode, the HAL_Set* *)
(* of the branch it picks, device info); IOT_COAP_Construct; then send a  *)
(* message and yield, once, or for as long as argv[1] is "loop" and the   *)
(* yield succeeds; IOT_COAP_Destroy.                                      *)
(*                                                                         *)
(* The CoAP client library is not in this repository: Construct, Send and *)
(* Yield are the outcomes the sample branches on.  The two callbacks only *)
(* log.  The store starts as earlier programs on the device left it: up   *)
(* to MaxEarlier HAL_SetAuthMode calls happen before main starts.         *)
(***************************************************************************)
EXTENDS Naturals

CONSTANTS
    Vals, Modes, DefaultMode, CertMode, Platforms,
    PowerLoss, WriteMayFail, OpenMayFail,   \* DevInfoStore
    KeyNoTlsMode,   \* AUTH_MODE_KEY_NO_TLS
    LoopArgs,       \* argv[1]: "none" (argc < 2), "loop" or anything else
    MaxEarlier      \* HAL_SetAuthMode calls of earlier programs

ASSUME KeyNoTlsMode \in Modes \ {CertMode}
ASSUME MaxEarlier \in Nat

VARIABLES
    platform, infoFile, authFile, authCache, allowed, allowedMode, lastOp,
    pc,         \* the statement of main about to run
    loopArg,    \* argv[1]
    modeSet,    \* what main's HAL_SetAuthMode returned (history; "none" before)
    authmode,   \* the local of _setup_connect_init_params
    client,     \* coap_client: "none" or "live"
    sgDevInfo,  \* sg_devInfo: the fields HAL_GetDevInfo copied into it
    earlier     \* HAL_SetAuthMode calls made before main started

storeVars == <<platform, infoFile, authFile, authCache, allowed, allowedMode, lastOp>>
mainVars == <<pc, loopArg, modeSet, authmode, client, sgDevInfo, earlier>>
vars == <<storeVars, mainVars>>

Store == INSTANCE DevInfoStore

\* The one value the sample writes in every field.
CoapVal == CHOOSE v \in Vals : TRUE

Init ==
    /\ Store!Init
    /\ pc = "boot"
    /\ loopArg \in LoopArgs
    /\ modeSet = "none"
    /\ authmode = Store!AUTH_MODE_MAX
    /\ client = "none"
    /\ sgDevInfo = [f \in {} |-> Store!Empty]
    /\ earlier = 0

\* An earlier program on the device stores an auth mode.
Earlier ==
    /\ pc = "boot"
    /\ earlier < MaxEarlier
    /\ earlier' = earlier + 1
    /\ \E m \in Modes : Store!HAL_SetAuthMode(m)
    /\ UNCHANGED <<platform, pc, loopArg, modeSet, authmode, client, sgDevInfo>>

\* ./coap [loop] starts.
Launch ==
    /\ pc = "boot"
    /\ pc' = "set_mode"
    /\ UNCHANGED <<storeVars, loopArg, modeSet, authmode, client, earlier, sgDevInfo>>

\* HAL_SetAuthMode(AUTH_MODE_KEY_NO_TLS); the result is not looked at.  A
\* power cut in a store call of main ends the process.
SetMode ==
    /\ pc = "set_mode"
    /\ Store!HAL_SetAuthMode(KeyNoTlsMode)
    /\ modeSet' = IF lastOp'.op = "set_auth" /\ lastOp'.ok THEN "ok" ELSE "failed"
    /\ pc' = IF lastOp'.op = "crash" THEN "done" ELSE "setup_auth"
    /\ UNCHANGED <<platform, loopArg, authmode, client, earlier, sgDevInfo>>

\* ret = HAL_GetAuthMode(&authmode), only logged: a failed read leaves
\* authmode at AUTH_MODE_MAX (fread fills nothing), so the key branch.
SetupAuth ==
    /\ pc = "setup_auth"
    /\ Store!HAL_GetAuthMode
    /\ authmode' = IF lastOp'.op = "get_auth" /\ lastOp'.ok THEN lastOp'.val ELSE authmode
    /\ pc' = IF lastOp'.op = "crash" THEN "done" ELSE "setup_pid"
    /\ UNCHANGED <<platform, loopArg, modeSet, client, earlier, sgDevInfo>>

\* The HAL_Set* calls of the branch `AUTH_MODE_CERT_TLS != authmode`
\* picks, their codes ORed and only logged.
SetupCall(from, to, Call) ==
    /\ pc = from
    /\ Call
    /\ pc' = IF lastOp'.op = "crash" THEN "done" ELSE to
    /\ UNCHANGED <<platform, loopArg, modeSet, authmode, client, earlier, sgDevInfo>>

SetupSetters ==
    LET cert == authmode = CertMode IN
    \/ SetupCall("setup_pid", "setup_name", Store!HAL_SetProductID(CoapVal))
    \/ SetupCall("setup_name", IF cert THEN "setup_cert" ELSE "setup_sec",
                 Store!HAL_SetDevName(CoapVal))
    \/ SetupCall("setup_sec", "setup_info", Store!HAL_SetDevSec(CoapVal))
    \/ SetupCall("setup_cert", "setup_key", Store!HAL_SetDevCertName(CoapVal))
    \/ SetupCall("setup_key", "setup_info", Store!HAL_SetDevPrivateKeyName(CoapVal))

\* HAL_GetDevInfo(&sg_devInfo), only logged: sg_devInfo holds what its
\* reads copied, whatever they returned.  In AUTH_MODE_CERT_TLS the
\* certificate paths need getcwd, and a NULL makes _setup return
\* QCLOUD_ERR_FAILURE, which main returns.
SetupInfo ==
    /\ pc = "setup_info"
    /\ Store!HAL_GetDevInfo
    /\ \E cwdOk \in BOOLEAN :
         pc' = CASE lastOp'.op = "crash" -> "done"
                 [] authmode = CertMode /\ ~cwdOk -> "done"
                 [] OTHER -> "construct"
    /\ sgDevInfo' = IF lastOp'.op = "get_info" THEN lastOp'.val ELSE sgDevInfo
    /\ UNCHANGED <<platform, loopArg, modeSet, authmode, client, earlier>>

\* IOT_COAP_Construct(&init_params): NULL makes main return.
Construct ==
    /\ pc = "construct"
    /\ \E ok \in BOOLEAN :
         /\ client' = IF ok THEN "live" ELSE "none"
         /\ pc' = IF ok THEN "send" ELSE "done"
    /\ UNCHANGED <<storeVars, loopArg, modeSet, authmode, earlier, sgDevInfo>>

\* IOT_COAP_SendMessage: its result is only logged; then sleep(1) unless
\* looping.
SendMessage ==
    /\ pc = "send"
    /\ pc' = "yield"
    /\ UNCHANGED <<storeVars, loopArg, modeSet, authmode, client, earlier, sgDevInfo>>

\* while (argc >= 2 && !strcmp("loop", argv[1])).
LoopAgain == loopArg = "loop"

\* rc = IOT_COAP_Yield(coap_client, 200): an error breaks out of the loop;
\* otherwise the do-while condition decides.
Yield ==
    /\ pc = "yield"
    /\ \E ok \in BOOLEAN : pc' = IF ok /\ LoopAgain THEN "send" ELSE "destroy"
    /\ UNCHANGED <<storeVars, loopArg, modeSet, authmode, client, earlier, sgDevInfo>>

\* IOT_COAP_Destroy(&coap_client); main returns QCLOUD_ERR_SUCCESS.
Destroy ==
    /\ pc = "destroy"
    /\ client' = "none"
    /\ pc' = "done"
    /\ UNCHANGED <<storeVars, loopArg, modeSet, authmode, earlier, sgDevInfo>>

\* A statement of main.
Main ==
    \/ Launch \/ SetMode \/ SetupAuth \/ SetupSetters \/ SetupInfo
    \/ Construct \/ SendMessage \/ Yield \/ Destroy

Next == Main \/ Earlier

Spec == Init /\ [][Next]_vars

-----------------------------------------------------------------------------
(* Properties *)

PCs == {"boot", "set_mode", "setup_auth", "setup_pid", "setup_name", "setup_sec",
        "setup_cert", "setup_key", "setup_info", "construct", "send", "yield",
        "destroy", "done"}

TypeOK ==
    /\ Store!TypeOK
    /\ pc \in PCs
    /\ loopArg \in LoopArgs
    /\ modeSet \in {"none", "ok", "failed"}
    /\ authmode \in Modes \cup {Store!AUTH_MODE_MAX}
    /\ client \in {"none", "live"}
    /\ DOMAIN sgDevInfo \subseteq Store!Fields
    /\ \A f \in DOMAIN sgDevInfo : sgDevInfo[f] \in Vals \cup {Store!Empty}
    /\ earlier \in 0..MaxEarlier

\* spec 7 and 75: the credential store may fail, and its failures are to
\* be propagated, not used.  main sets AUTH_MODE_KEY_NO_TLS, writes the
\* device identity, reads it back into sg_devInfo and hands that to
\* IOT_COAP_Construct: whenever main gets to Construct, it does so in a
\* key mode and with the identity it wrote, whatever earlier programs left
\* in the store.
CoapConstructsAsSetUp ==
    pc = "construct" =>
        /\ authmode # CertMode
        /\ \A f \in DOMAIN sgDevInfo : sgDevInfo[f] = CoapVal

=============================================================================
