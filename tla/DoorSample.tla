----------------------------- MODULE DoorSample -----------------------------
(***************************************************************************)
(* main of src/samples/scenarized/door_mqtt_sample.c, one statement per  *)
(* step, composed with the credential store it calls (DevInfoStore, on   *)
(* the Linux HAL) and the session engine behind the client it builds     *)
(* (MQTTSession).  The program: read and overwrite the auth mode with     *)
(* atoi(argv[2]); _setup_connect_init_params (auth mode, device info,    *)
(* the HAL_Set* of the branch, device info again); Construct, Destroy,   *)
(* Construct; _publish_msg; wait for sg_has_rev_ack while connected,     *)
(* yielding; Destroy.  The server and the network act in between.        *)
(***************************************************************************)
EXTENDS Integers, Sequences

CONSTANTS
    Vals, Modes, DefaultMode, CertMode, Platforms,
    PowerLoss, WriteMayFail, OpenMayFail,          \* DevInfoStore
    MaxPacketId, CommandTimeout, MaxTime, MaxDrops, \* MQTTSession
    ArgActions,     \* argv[1]: "come_home", "leave_home" or anything else
    ContentFits     \* whether the payload built from argv fits topic_content

ASSUME ContentFits \subseteq BOOLEAN /\ ContentFits # {}

VARIABLES
    platform, infoFile, authFile, authCache, allowed, allowedMode, lastOp,
    sState, nextId, pubWait, sent, acks, now, drops, notified, fired, sRc,
    pc,         \* the statement of main about to run
    action,     \* argv[1]
    argMode,    \* atoi(argv[2])
    authmode,   \* the local of _setup_connect_init_params
    devInfo,    \* sg_devInfo: product_id and device_name as last read
    rc,         \* main's rc
    flag        \* sg_has_rev_ack

storeVars == <<platform, infoFile, authFile, authCache, allowed, allowedMode, lastOp>>
sessionVars == <<sState, nextId, pubWait, sent, acks, now, drops, notified, fired, sRc>>
mainVars == <<pc, action, argMode, authmode, devInfo, rc, flag>>
vars == <<storeVars, sessionVars, mainVars>>

Store == INSTANCE DevInfoStore
Session == INSTANCE MQTTSession

\* The one value the sample writes in every field (the model does not
\* tell "LN19CSVR64", "door1" and the secret apart).
DoorVal == CHOOSE v \in Vals : TRUE
ValidActions == {"come_home", "leave_home"}

Init ==
    /\ Store!Init
    /\ Session!SessionInit
    /\ pc = "get_mode"
    /\ action \in ArgActions
    /\ argMode \in Modes \cup {Store!AUTH_MODE_MAX}
    /\ authmode = Store!AUTH_MODE_MAX
    /\ devInfo = [product_id |-> Store!Empty, device_name |-> Store!Empty]
    /\ rc = "none"
    /\ flag = FALSE

\* main's first statements: HAL_GetAuthMode(&mode) (result ignored), then
\* HAL_SetAuthMode(atoi(argv[2])) (result ignored).
GetMode ==
    /\ pc = "get_mode"
    /\ Store!HAL_GetAuthMode
    /\ pc' = "set_mode"
    /\ UNCHANGED <<platform, sessionVars, action, argMode, authmode, devInfo, rc, flag>>

SetMode ==
    /\ pc = "set_mode"
    /\ Store!HAL_SetAuthMode(argMode)
    /\ pc' = "setup_auth"
    /\ UNCHANGED <<platform, sessionVars, action, argMode, authmode, devInfo, rc, flag>>

\* _setup_connect_init_params: HAL_GetAuthMode must succeed, or main
\* returns "init params err".
SetupAuth ==
    /\ pc = "setup_auth"
    /\ Store!HAL_GetAuthMode
    /\ IF lastOp'.op = "get_auth" /\ lastOp'.ok
       THEN /\ authmode' = lastOp'.val
            /\ pc' = "setup_info1"
            /\ UNCHANGED rc
       ELSE /\ pc' = "done"
            /\ rc' = "init_params_err"
            /\ UNCHANGED authmode
    /\ UNCHANGED <<platform, sessionVars, action, argMode, devInfo, flag>>

\* The HAL_GetDevInfo before the setters (result only logged) and the
\* setters of the branch the auth mode picks (results only logged).
SetupStoreCall(from, to, Call) ==
    /\ pc = from
    /\ Call
    /\ pc' = IF lastOp'.op = "crash" THEN "done" ELSE to
    /\ UNCHANGED <<platform, sessionVars, action, argMode, authmode, devInfo, rc, flag>>

SetupSetters ==
    LET cert == authmode = CertMode IN
    \/ SetupStoreCall("setup_info1", "setup_pid", Store!HAL_GetDevInfo)
    \/ SetupStoreCall("setup_pid", "setup_name", Store!HAL_SetProductID(DoorVal))
    \/ SetupStoreCall("setup_name", IF cert THEN "setup_cert" ELSE "setup_sec",
                      Store!HAL_SetDevName(DoorVal))
    \/ SetupStoreCall("setup_sec", "setup_info2", Store!HAL_SetDevSec(DoorVal))
    \/ SetupStoreCall("setup_cert", "setup_key", Store!HAL_SetDevCertName(DoorVal))
    \/ SetupStoreCall("setup_key", "setup_info2", Store!HAL_SetDevPrivateKeyName(DoorVal))

\* HAL_GetDevInfo into sg_devInfo (result only logged; the getters copy
\* what they read even when the read failed); the init params point into
\* sg_devInfo.  In AUTH_MODE_CERT_TLS the key and certificate paths are
\* built from getcwd, which may return NULL.
SetupInfo ==
    /\ pc = "setup_info2"
    /\ Store!HAL_GetDevInfo
    /\ \E cwdOk \in BOOLEAN :
         pc' = CASE lastOp'.op = "crash" -> "done"
                 [] authmode = CertMode /\ ~cwdOk -> "done"
                 [] OTHER -> "construct1"
    /\ devInfo' = IF lastOp'.op = "get_info"
                  THEN [f \in {"product_id", "device_name"} |-> lastOp'.val[f]]
                  ELSE devInfo
    /\ rc' = IF pc' = "done" THEN "init_params_err" ELSE rc
    /\ UNCHANGED <<platform, sessionVars, action, argMode, authmode, flag>>

\* IOT_MQTT_Construct(&init_params): product id and device name must be
\* non-empty strings; qcloud_iot_mqtt_init and Construct itself each call
\* HAL_GetAuthMode (on the Linux HAL the file exists by now, so the reads
\* leave it as it is); connect may fail.  On success main's client holds
\* a CONNECTED session whose packet-id counter starts anywhere.
Construct(from, to) ==
    /\ pc = from
    /\ \E a1 \in Store!AuthModeRead, a2 \in Store!AuthModeRead, connectOk \in BOOLEAN :
         IF /\ devInfo.product_id # Store!Empty /\ devInfo.device_name # Store!Empty
            /\ a1.ok /\ a2.ok /\ connectOk
         THEN /\ \E start \in Session!PacketIds : Session!Connect(start)
              /\ pc' = to
              /\ UNCHANGED rc
         ELSE /\ pc' = "done"
              /\ rc' = "construct_failed"
              /\ UNCHANGED sessionVars
    /\ UNCHANGED <<storeVars, action, argMode, authmode, devInfo, flag>>

\* IOT_MQTT_Destroy(&client) between the two Constructs.
Destroy1 ==
    /\ pc = "destroy1"
    /\ Session!Destroy
    /\ pc' = "construct2"
    /\ UNCHANGED <<storeVars, action, argMode, authmode, devInfo, rc, flag>>

\* The client API of mqtt_client.c the sample calls passes straight to the
\* session engine (LOG_UPLOAD is not built): IOT_MQTT_Publish to
\* qcloud_iot_mqtt_publish, IOT_MQTT_Yield to qcloud_iot_mqtt_yield, and
\* IOT_MQTT_IsConnected reads get_client_conn_state(client) == 1.
IOT_MQTT_Publish == Session!Publish
IOT_MQTT_Yield(ioErr, reconnectOk) == Session!YieldWith(ioErr, reconnectOk)
IOT_MQTT_IsConnected == Session!IsConnected

\* _publish_msg: an action other than come_home / leave_home prints the
\* usage and returns -2 without publishing; a payload HAL_Snprintf cannot
\* fit in topic_content returns -3 without publishing; otherwise
\* IOT_MQTT_Publish with QoS1 and its result.
PublishMsg ==
    /\ pc = "publish"
    /\ pc' = "wait"
    /\ \E fits \in ContentFits :
         CASE action \notin ValidActions -> rc' = "usage" /\ UNCHANGED sessionVars
           [] ~fits                     -> rc' = "too_long" /\ UNCHANGED sessionVars
           [] OTHER                     -> IOT_MQTT_Publish /\ rc' = sRc'
    /\ UNCHANGED <<storeVars, action, argMode, authmode, devInfo, flag>>

\* Mutant: the handler raises the flag for PUBLISH_SUCCESS only.
event_handler_success_only(ev) == ev = "PUBLISH_SUCCESS"

\* event_handler: sg_has_rev_ack = true, whatever the event.
event_handler(ev) == TRUE

\* The wait loop: while connected, or yield reported a reconnection in
\* progress or done: break when sg_has_rev_ack, else IOT_MQTT_Yield(200)
\* (its events go through event_handler) and sleep one tick.
WaitLoop(ioErr, reconnectOk) ==
    /\ pc = "wait"
    /\ IF (IOT_MQTT_IsConnected \/ rc \in {"attempting", "reconnected"}) /\ ~flag
       THEN /\ IOT_MQTT_Yield(ioErr, reconnectOk)
            /\ rc' = sRc'
            /\ flag' = (flag \/ \E ev \in fired' : event_handler(ev))
            /\ UNCHANGED pc
       ELSE /\ pc' = "destroy2"
            /\ UNCHANGED <<sessionVars, rc, flag>>
    /\ UNCHANGED <<storeVars, action, argMode, authmode, devInfo>>

\* The final IOT_MQTT_Destroy(&client); main returns its result.
Destroy2 ==
    /\ pc = "destroy2"
    /\ Session!Destroy
    /\ pc' = "done"
    /\ UNCHANGED <<storeVars, action, argMode, authmode, devInfo, rc, flag>>

\* A statement of main; ioErr and reconnectOk are the network's say in a
\* yield of the wait loop.
Step(ioErr, reconnectOk) ==
    \/ GetMode \/ SetMode \/ SetupAuth \/ SetupSetters \/ SetupInfo
    \/ Construct("construct1", "destroy1") \/ Destroy1
    \/ Construct("construct2", "publish") \/ PublishMsg
    \/ WaitLoop(ioErr, reconnectOk) \/ Destroy2

Main == \E ioErr, reconnectOk \in BOOLEAN : Step(ioErr, reconnectOk)

\* The server (re)sends a PUBACK.
Server ==
    /\ \E id \in Session!PacketIds : Session!ServerAck(id)
    /\ UNCHANGED <<storeVars, mainVars>>

Next == Main \/ Server

\* The process is scheduled as long as it has a statement to run; the
\* server and the network owe it nothing: fairness is on the step main
\* takes on a quiet network (no transport failure, no reconnection), so
\* no behaviour is made to fail or recover the link.  With time at its
\* bound an idle yield changes nothing, and main may yield forever.
Spec == Init /\ [][Next]_vars /\ WF_vars(Step(FALSE, FALSE))

-----------------------------------------------------------------------------
(* Properties *)

PCs == {"get_mode", "set_mode", "setup_auth", "setup_info1", "setup_pid", "setup_name",
        "setup_sec", "setup_cert", "setup_key", "setup_info2", "construct1", "destroy1",
        "construct2", "publish", "wait", "destroy2", "done"}

TypeOK ==
    /\ Store!TypeOK
    /\ Session!SessionTypeOK
    /\ pc \in PCs
    /\ action \in ArgActions
    /\ flag \in BOOLEAN

\* main returns: the wait loop ends because every publish it waits for is
\* settled by an event (PUBACK or command timeout), or the connection is
\* lost, and every earlier step either proceeds or returns.
DoorTerminates == <>(pc = "done")

=============================================================================
