----------------------------- MODULE MQTTClient -----------------------------
(***************************************************************************)
(* Life cycle of an MQTT client handle: IOT_MQTT_Construct, the           *)
(* qcloud_iot_mqtt_init it calls, and IOT_MQTT_Destroy                     *)
(* (src/src/mqtt/src/mqtt_client.c), together with the process-wide state *)
(* they write: the device identity of device.c (sg_device_info), the host *)
(* buffer s_qcloud_iot_host and the PSK buffer sg_psk_str.  A client keeps *)
(* pointers into those buffers (network_stack.host, ssl psk, psk_id and    *)
(* the client id), so what another Construct writes there is what the     *)
(* live client uses.                                                       *)
(*                                                                         *)
(* Each Construct call is one atomic step; which allocation, storage read *)
(* or connect fails is a nondeterministic choice, and the resources the    *)
(* step leaves allocated but unreachable are counted in `leaked`.  The     *)
(* auth mode is the file of the Linux HAL (HAL_GetAuthMode/SetAuthMode of  *)
(* HAL_OS_linux.c): a fresh device has no file, read back as               *)
(* AUTH_MODE_MAX.  qcloud_iot_mqtt_connect and qcloud_iot_mqtt_disconnect  *)
(* are not in this repository: only their success or failure is modelled. *)
(***************************************************************************)
EXTENDS Naturals, FiniteSets

CONSTANTS
    Clients,        \* caller variables that hold a client handle
    Products,       \* product ids passed in MQTTInitParams
    Names,          \* device names passed in MQTTInitParams
    Secrets,        \* base64 device secrets
    TooLong,        \* ids or names longer than MAX_SIZE_OF_PRODUCT_ID / _DEVICE_NAME
    BadSecrets,     \* secrets qcloud_iot_utils_base64decode rejects
    RandResidues,   \* values of rand() % 65536 the run enumerates
    MaxConstructs,  \* bound on the number of Construct calls
    NULL

ASSUME TooLong \subseteq Products \cup Names
ASSUME BadSecrets \subseteq Secrets
ASSUME RandResidues \subseteq 0..65535
ASSUME MaxConstructs \in Nat

AUTH_MODE_CERT_TLS   == "AUTH_MODE_CERT_TLS"
AUTH_MODE_KEY_TLS    == "AUTH_MODE_KEY_TLS"
AUTH_MODE_KEY_NO_TLS == "AUTH_MODE_KEY_NO_TLS"
AUTH_MODE_MAX        == "AUTH_MODE_MAX"
SettableModes == {AUTH_MODE_CERT_TLS, AUTH_MODE_KEY_TLS, AUTH_MODE_KEY_NO_TLS}

\* The mutexes and lists qcloud_iot_mqtt_init creates, in creation order.
InitAllocs == <<"lock_generic", "lock_write_buf", "lock_list_sub",
                "lock_list_pub", "list_pub_wait_ack", "list_sub_wait_ack">>
InitResources == {InitAllocs[i] : i \in 1..6}

\* The empty string a zeroed char array holds.
Empty == ""

VARIABLES
    devinfo,      \* sg_device_info and sg_devinfo_initialized of device.c
    host,         \* s_qcloud_iot_host
    psk,          \* sg_psk_str: what the last decode left there, or NULL
    authFile,     \* content of the auth mode file
    handle,       \* handle[c]: the caller's pointer, NULL or "live"
    client,       \* client[c]: the fields of the client handle[c] points to
    leaked,       \* resources allocated and no longer reachable
    constructs,   \* Construct calls made so far
    lastRc        \* where the last call returned (history, for the properties)

vars == <<devinfo, host, psk, authFile, handle, client, leaked, constructs, lastRc>>

ZeroDevInfo(init) == [initialized |-> init, product_id |-> Empty, device_name |-> Empty]

NoClient == [product |-> NULL, name |-> NULL, secret |-> NULL, mode |-> NULL,
             port |-> 0, next_packet_id |-> 0, owns |-> {}]

\* What base64-decoding a secret into sg_psk_str leaves there: the key, or
\* a partly written buffer when qcloud_iot_utils_base64decode fails.
Decoded(s) == [from |-> s, valid |-> s \notin BadSecrets]

-----------------------------------------------------------------------------
(* Helpers translated from the code *)

\* iot_device_info_set: zero the record, check lengths, copy the strings.
iot_device_info_set(info, p, n) ==
    IF p \in TooLong \/ n \in TooLong
    THEN [ok |-> FALSE, info |-> ZeroDevInfo(info.initialized)]
    ELSE [ok |-> TRUE,  info |-> [initialized |-> info.initialized,
                                  product_id |-> p, device_name |-> n]]

\* Mutant: the start id is kept as the int rand() % 65536 + 1.
StartPacketId_int(r) == r + 1

\* _get_random_start_packet_id: rand() % 65536 + 1, returned as a uint16_t.
StartPacketId(r) == (r + 1) % 65536

\* The block at the `error:` label of qcloud_iot_mqtt_init: each list and
\* mutex it tests is released when not NULL (the client was zeroed first).
ErrorLabelReleases(allocated) ==
    allocated \cap {"list_pub_wait_ack", "list_sub_wait_ack", "lock_generic",
                    "lock_list_sub", "lock_list_pub", "lock_write_buf"}

\* qcloud_iot_mqtt_init after the client block exists.  `fail` is the index
\* in InitAllocs of the creation that returns NULL (0: none fails).  The
\* host is formatted before anything can fail.
qcloud_iot_mqtt_init(p, sec, certOk, fail, authOk, mode) ==
    LET created == {InitAllocs[i] : i \in 1..(IF fail = 0 THEN 6 ELSE fail - 1)}
        tls     == mode \in {AUTH_MODE_CERT_TLS, AUTH_MODE_KEY_TLS}
    IN CASE fail = 1 ->
              [rc |-> "init_lock_generic", held |-> {}, setsPsk |-> FALSE]
         [] fail > 1 ->
              [rc |-> "init_error", held |-> created \ ErrorLabelReleases(created),
               setsPsk |-> FALSE]
         [] ~authOk ->
              [rc |-> "init_authmode", held |-> created, setsPsk |-> FALSE]
         [] mode = AUTH_MODE_CERT_TLS /\ ~certOk ->
              [rc |-> "init_cert_empty", held |-> created, setsPsk |-> FALSE]
         [] mode = AUTH_MODE_KEY_TLS /\ sec = NULL ->
              [rc |-> "init_psk_empty", held |-> created, setsPsk |-> FALSE]
         [] OTHER ->
              [rc |-> "ok", held |-> created, port |-> IF tls THEN 8883 ELSE 1883,
               setsPsk |-> mode = AUTH_MODE_KEY_TLS]

-----------------------------------------------------------------------------
(* Operations *)

Init ==
    /\ devinfo = ZeroDevInfo(FALSE)
    /\ host = Empty
    /\ psk = NULL
    /\ authFile = AUTH_MODE_MAX
    /\ handle = [c \in Clients |-> NULL]
    /\ client = [c \in Clients |-> NoClient]
    /\ leaked = 0
    /\ constructs = 0
    /\ lastRc = "none"

\* HAL_SetAuthMode (Linux): refuse AUTH_MODE_MAX, otherwise reopen the file
\* with "w+" (truncating it) and write the mode.  The open may fail (file as
\* it was) or the write may fail (file left empty).
HAL_SetAuthMode(m) ==
    /\ \/ authFile' = m
       \/ UNCHANGED authFile
       \/ authFile' = "empty"
    /\ lastRc' = "set_auth_mode"
    /\ UNCHANGED <<devinfo, host, psk, handle, client, leaked, constructs>>

\* Outcomes of one HAL_GetAuthMode: fread of an empty file returns 0 items;
\* otherwise the open or the read may still fail.
AuthModeReads == IF authFile = "empty" THEN {FALSE} ELSE BOOLEAN

\* IOT_MQTT_Construct into the caller variable c.  The caller never
\* constructs into a variable that still holds a live client.
IOT_MQTT_Construct(c) ==
    /\ handle[c] = NULL
    /\ constructs < MaxConstructs
    /\ constructs' = constructs + 1
    /\ \E p \in Products, n \in Names, sec \in Secrets \cup {NULL},
          certOk \in BOOLEAN, mallocOk \in BOOLEAN, fail \in 0..6,
          authOk1 \in AuthModeReads, authOk2 \in AuthModeReads,
          connectOk \in BOOLEAN, r \in RandResidues :
        LET set  == iot_device_info_set([devinfo EXCEPT !.initialized = TRUE], p, n)
            mode == authFile
            init == qcloud_iot_mqtt_init(p, sec, certOk, fail, authOk1, mode)
            \* what the Construct-level code decodes for AUTH_MODE_KEY_NO_TLS
            noTls == mode = AUTH_MODE_KEY_NO_TLS
            pskAfterInit == IF init.setsPsk THEN Decoded(sec) ELSE psk
        IN
        \* the device secret of a key-mode device is never NULL (strlen on it)
        /\ noTls => sec # NULL
        /\ devinfo' = set.info
        /\ CASE ~set.ok ->
                  /\ lastRc' = "devinfo_set"
                  /\ UNCHANGED <<host, psk, handle, client, leaked>>
             [] ~mallocOk ->
                  /\ lastRc' = "malloc"
                  /\ UNCHANGED <<host, psk, handle, client, leaked>>
             [] init.rc # "ok" ->
                  \* HAL_Free(mqtt_client) only
                  /\ lastRc' = init.rc
                  /\ host' = p
                  /\ psk' = pskAfterInit
                  /\ leaked' = leaked + Cardinality(init.held)
                  /\ UNCHANGED <<handle, client>>
             [] ~authOk2 ->
                  \* returns NULL without freeing anything
                  /\ lastRc' = "authmode"
                  /\ host' = p
                  /\ psk' = pskAfterInit
                  /\ leaked' = leaked + 1 + Cardinality(init.held)
                  /\ UNCHANGED <<handle, client>>
             [] noTls /\ sec \in BadSecrets ->
                  /\ lastRc' = "decode"
                  /\ host' = p
                  /\ psk' = Decoded(sec)
                  /\ leaked' = leaked + Cardinality(init.held)
                  /\ UNCHANGED <<handle, client>>
             [] ~connectOk ->
                  /\ lastRc' = "connect"
                  /\ host' = p
                  /\ psk' = IF noTls THEN Decoded(sec) ELSE pskAfterInit
                  /\ leaked' = leaked + Cardinality(init.held)
                  /\ UNCHANGED <<handle, client>>
             [] OTHER ->
                  /\ lastRc' = "ok"
                  /\ host' = p
                  /\ psk' = IF noTls THEN Decoded(sec) ELSE pskAfterInit
                  /\ handle' = [handle EXCEPT ![c] = "live"]
                  /\ client' = [client EXCEPT ![c] =
                        [product |-> p, name |-> n, secret |-> sec, mode |-> mode,
                         port |-> init.port, next_packet_id |-> StartPacketId(r),
                         owns |-> {"mqtt_client"} \cup init.held]]
                  /\ UNCHANGED leaked
    /\ UNCHANGED authFile

\* What IOT_MQTT_Destroy releases: the four mutexes, the two lists and the
\* client block.
DestroyReleases == {"lock_generic", "lock_write_buf", "lock_list_sub", "lock_list_pub",
                    "list_pub_wait_ack", "list_sub_wait_ack", "mqtt_client"}

\* IOT_MQTT_Destroy(&c): disconnect, release, and set the caller's pointer
\* to NULL; a NULL pointer is refused with QCLOUD_ERR_INVAL.
IOT_MQTT_Destroy(c) ==
    /\ handle[c] = "live"
    /\ leaked' = leaked + Cardinality(client[c].owns \ DestroyReleases)
    /\ handle' = [handle EXCEPT ![c] = NULL]
    /\ client' = [client EXCEPT ![c] = NoClient]
    /\ lastRc' = "destroy"
    /\ UNCHANGED <<devinfo, host, psk, authFile, constructs>>

Next ==
    \/ \E m \in SettableModes : HAL_SetAuthMode(m)
    \/ \E c \in Clients : IOT_MQTT_Construct(c)
    \/ \E c \in Clients : IOT_MQTT_Destroy(c)

Spec == Init /\ [][Next]_vars

-----------------------------------------------------------------------------
(* Properties *)

Live == {c \in Clients : handle[c] = "live"}

TypeOK ==
    /\ devinfo \in [initialized : BOOLEAN, product_id : Products \cup {Empty},
                    device_name : Names \cup {Empty}]
    /\ host \in Products \cup {Empty}
    /\ handle \in [Clients -> {NULL, "live"}]
    /\ authFile \in SettableModes \cup {AUTH_MODE_MAX, "empty"}
    /\ \A c \in Clients :
          /\ client[c].owns \subseteq {"mqtt_client"} \cup InitResources
          /\ client[c].port \in {0, 1883, 8883}
          /\ client[c].next_packet_id \in 0..65535
    /\ leaked \in Nat
    /\ constructs \in 0..MaxConstructs

NoLeak == leaked = 0

\* spec 3: "packet identifier is never 0" -- for the start value drawn in
\* qcloud_iot_mqtt_init.
StartPacketIdNonZero == \A c \in Live : client[c].next_packet_id # 0

\* spec 4.3: a PSK-mode client configures its transport with the decoded
\* device secret ("decode failure -> InvalidParam").
LivePskClientHasDecodedSecret ==
    \A c \in Live : client[c].mode = AUTH_MODE_KEY_TLS =>
                        Decoded(client[c].secret).valid

\* A client uses the plaintext port only if its device was set to
\* AUTH_MODE_KEY_NO_TLS (the `else` branch of the auth-mode switch in
\* qcloud_iot_mqtt_init is commented as that mode).
PlaintextOnlyInKeyNoTlsMode ==
    \A c \in Live : client[c].port = 1883 => client[c].mode = AUTH_MODE_KEY_NO_TLS

\* spec 4.3 on the transport a live client was constructed with: it is
\* secured as the device's stored auth mode says, with valid material.  A
\* PSK client holds a secret that decoded, and only a device set to
\* AUTH_MODE_KEY_NO_TLS talks plaintext.  The ignored base64 result and
\* the AUTH_MODE_MAX file the Linux HAL creates each break it.
LiveClientSecuredAsConfigured == LivePskClientHasDecodedSecret /\ PlaintextOnlyInKeyNoTlsMode

=============================================================================
