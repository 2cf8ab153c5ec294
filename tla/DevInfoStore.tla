---------------------------- MODULE DevInfoStore ----------------------------
(***************************************************************************)
(* The credential store of the FreeRTOS and Linux HALs                     *)
(* (src/src/platform/os/{freertos,linux}/HAL_OS_*.c) and of the legacy    *)
(* FreeRTOS device HAL (src/platform/os/freertos/HAL_Device_freertos.c):  *)
(* the device-info record kept as one struct in TencentDevInfo.txt and    *)
(* read-modify-written by every HAL_Set* (legacy: HAL_SetDevInfo) call,   *)
(* and the auth mode kept in TencentAuthMode.txt, on both FreeRTOS HALs   *)
(* behind the in-memory cache sg_auth_mode_soft.  The platform is fixed   *)
(* for a behaviour and chosen from Platforms by Init.                      *)
(*                                                                         *)
(* A file is abstracted to whether it exists and how many leading fields  *)
(* of the struct it holds (a short write leaves a prefix).  Faults, each   *)
(* switched by a constant: power loss (a write stops part-way and the      *)
(* device reboots, losing the cache), short or refused writes that return *)
(* an error, and vfs_open failing on a file that exists.  vfs_creat may    *)
(* hand out descriptor 0.  Every HAL call is one atomic step: the SDK      *)
(* calls them from one task.                                               *)
(***************************************************************************)
EXTENDS Integers, Sequences, FiniteSets, TLC

CONSTANTS
    Vals,           \* values a caller stores in a field
    Modes,          \* DeviceAuthMode values below AUTH_MODE_MAX
    DefaultMode,    \* the mode 0 the FreeRTOS HAL_GetAuthMode writes into a new file
    CertMode,       \* AUTH_MODE_CERT_TLS
    Platforms,      \* subset of {"freertos", "linux", "legacy"}
    PowerLoss,      \* power may be cut in the middle of a write
    WriteMayFail,   \* vfs_creat may fail, vfs_write may write short
    OpenMayFail     \* vfs_open may fail on a file that exists

ASSUME DefaultMode \in Modes /\ CertMode \in Modes
ASSUME Platforms \subseteq {"freertos", "linux", "legacy"}
ASSUME {PowerLoss, WriteMayFail, OpenMayFail} \subseteq BOOLEAN

\* The DeviceInfo fields modelled, in struct order.
FieldOrder == <<"product_id", "device_name", "devSerc">>
Fields == {FieldOrder[i] : i \in 1..Len(FieldOrder)}
NF == Len(FieldOrder)
Pos(f) == CHOOSE i \in 1..NF : FieldOrder[i] = f
AUTH_MODE_MAX == "AUTH_MODE_MAX"
Empty == ""
ZeroRec == [f \in Fields |-> Empty]

\* A file holding the first k fields of rec (k = NF: all of it).
Written(rec, k) == [present |-> TRUE, len |-> k,
                    val |-> [f \in Fields |-> IF Pos(f) <= k THEN rec[f] ELSE Empty]]
NoFile == [present |-> FALSE, len |-> 0, val |-> ZeroRec]

\* The auth mode file holds one DeviceAuthMode; `full` is FALSE after a
\* short write.
AuthWritten(m, full) == [present |-> TRUE, full |-> full, mode |-> m]
NoAuthFile == [present |-> FALSE, full |-> FALSE, mode |-> DefaultMode]

VARIABLES
    platform,     \* which HAL the program is built with
    infoFile,     \* /TencentDevInfo.txt
    authFile,     \* /TencentAuthMode.txt
    authCache,    \* sg_auth_mode_soft
    allowed,      \* allowed[f]: values a read of f may return (history)
    allowedMode,  \* modes a HAL_GetAuthMode may return (history)
    lastOp        \* the last call and its result (history)

vars == <<platform, infoFile, authFile, authCache, allowed, allowedMode, lastOp>>

-----------------------------------------------------------------------------
(* File primitives *)

\* How one write of n items can end: all written, or the first k written
\* when power is lost (the call does not return) or when the write comes
\* back short.
WriteOutcomes(n) ==
    {[k |-> n, crash |-> FALSE]}
    \cup (IF PowerLoss THEN {[k |-> i, crash |-> TRUE] : i \in 0..n-1} ELSE {})
    \cup (IF WriteMayFail THEN {[k |-> i, crash |-> FALSE] : i \in 0..n-1} ELSE {})

\* Descriptors vfs_creat may return: -1 (failure), 0, or a positive one.
CreatFds == (IF WriteMayFail THEN {-1} ELSE {}) \cup {0, 1}

\* Whether vfs_open(O_RDONLY) / fopen("r+") on a file may succeed / fail.
OpenOutcomes(present) ==
    IF ~present THEN {FALSE} ELSE IF OpenMayFail THEN BOOLEAN ELSE {TRUE}

\* FreeRTOS HAL_DevInfoFlashRead: zero the caller's record; if vfs_open
\* fails create the file (vfs_creat, "0 < fd" taken as success), write a
\* zero record and seek back; read; success only if a whole struct was read.
HAL_DevInfoFlashRead_freertos(file) ==
    UNION {
      CASE opened   -> {[ok |-> file.len = NF, rec |-> file.val, file |-> file, crash |-> FALSE]}
        [] fd < 0   -> {[ok |-> FALSE, rec |-> ZeroRec, file |-> file, crash |-> FALSE]}
        [] fd = 0   -> {[ok |-> FALSE, rec |-> ZeroRec, file |-> Written(ZeroRec, 0),
                         crash |-> FALSE]}
        [] OTHER    -> {[ok |-> w.k = NF, rec |-> ZeroRec, file |-> Written(ZeroRec, w.k),
                         crash |-> w.crash] : w \in WriteOutcomes(NF)}
    : opened \in OpenOutcomes(file.present), fd \in CreatFds}

\* Linux HAL_DevInfoFlashRead: when access() finds no file, create it with
\* fopen("w+") and write a zero record (the fwrite result is not checked);
\* then fopen("r+") and fread one struct.  A short fread still copies the
\* prefix the file holds.
HAL_DevInfoFlashRead_linux(file) ==
    LET ReadBack(f) ==
            {[ok |-> opened /\ f.len = NF, rec |-> IF opened THEN f.val ELSE ZeroRec,
              file |-> f, crash |-> FALSE] : opened \in OpenOutcomes(TRUE)}
    IN IF file.present THEN ReadBack(file)
       ELSE (IF WriteMayFail THEN {[ok |-> FALSE, rec |-> ZeroRec, file |-> file,
                                    crash |-> FALSE]} ELSE {})
            \cup UNION {IF w.crash
                        THEN {[ok |-> FALSE, rec |-> ZeroRec, file |-> Written(ZeroRec, w.k),
                               crash |-> TRUE]}
                        ELSE ReadBack(Written(ZeroRec, w.k)) : w \in WriteOutcomes(NF)}

HAL_DevInfoFlashRead(file) ==
    IF platform = "linux" THEN HAL_DevInfoFlashRead_linux(file)
    ELSE HAL_DevInfoFlashRead_freertos(file)

\* The HAL_Get* calls HAL_GetDevInfo makes in a row, each with its own
\* HAL_DevInfoFlashRead (which may re-create the file) and copying out its
\* own field: fs lists those fields in call order.  ok is the OR of the
\* return codes, val what the copies put in the caller's record.
RECURSIVE FlashReads(_, _)
FlashReads(file, fs) ==
    IF fs = <<>> THEN {[ok |-> TRUE, val |-> [g \in {} |-> Empty], file |-> file, crash |-> FALSE]}
    ELSE UNION {IF r.crash THEN {[ok |-> FALSE, val |-> [g \in {} |-> Empty], file |-> r.file,
                                 crash |-> TRUE]}
                ELSE {[s EXCEPT !.ok = r.ok /\ s.ok,
                               !.val = IF Head(fs) \in Fields
                                       THEN (Head(fs) :> r.rec[Head(fs)]) @@ s.val ELSE s.val]
                      : s \in FlashReads(r.file, Tail(fs))}
                : r \in HAL_DevInfoFlashRead(file)}

\* HAL_DevInfoFlashWrite (both HALs): create or truncate the file
\* (vfs_creat, fopen "w+"), then write the struct.
HAL_DevInfoFlashWrite(file, rec) ==
    (IF WriteMayFail THEN {[ok |-> FALSE, file |-> file, crash |-> FALSE]} ELSE {})
    \cup {[ok |-> w.k = NF, file |-> Written(rec, w.k), crash |-> w.crash] : w \in WriteOutcomes(NF)}

\* A cut write reboots the device: the in-memory cache is gone.
CacheAfter(crash, cache) == IF crash THEN AUTH_MODE_MAX ELSE cache

\* FreeRTOS HAL_GetAuthMode as the set of its outcomes: answer from
\* sg_auth_mode_soft when it is set; else read the file, creating it with
\* mode 0 when vfs_open fails ("0 < fd" taken as success), and cache what a
\* whole read returns.
AuthModeRead_freertos ==
    LET Res(ok, m, file, crash) ==
            [ok |-> ok, mode |-> m, file |-> file, crash |-> crash,
             cache |-> IF crash THEN AUTH_MODE_MAX ELSE IF ok THEN m ELSE authCache]
    IN
    IF authCache # AUTH_MODE_MAX
    THEN {Res(TRUE, authCache, authFile, FALSE)}
    ELSE UNION {
           CASE opened -> {Res(authFile.full, authFile.mode, authFile, FALSE)}
             [] fd < 0 -> {Res(FALSE, authFile.mode, authFile, FALSE)}
             [] fd = 0 -> {Res(FALSE, authFile.mode, AuthWritten(DefaultMode, FALSE), FALSE)}
             [] OTHER  -> {Res(w.k = 1, DefaultMode, AuthWritten(DefaultMode, w.k = 1), w.crash)
                           : w \in WriteOutcomes(1)}
         : opened \in OpenOutcomes(authFile.present), fd \in CreatFds}

\* Linux HAL_GetAuthMode: no cache; when access() finds no file, create it
\* with fopen("w+") holding AUTH_MODE_MAX; then fopen("r+") and fread.
AuthModeRead_linux ==
    LET Res(ok, m, file, crash) ==
            [ok |-> ok, mode |-> m, file |-> file, crash |-> crash, cache |-> authCache]
        ReadBack(f) == {Res(opened /\ f.full, f.mode, f, FALSE) : opened \in OpenOutcomes(TRUE)}
    IN IF authFile.present THEN ReadBack(authFile)
       ELSE (IF WriteMayFail THEN {Res(FALSE, authFile.mode, authFile, FALSE)} ELSE {})
            \cup UNION {IF w.crash THEN {Res(FALSE, AUTH_MODE_MAX, AuthWritten(AUTH_MODE_MAX, FALSE), TRUE)}
                        ELSE ReadBack(AuthWritten(AUTH_MODE_MAX, w.k = 1)) : w \in WriteOutcomes(1)}

\* The legacy HAL's generic HAL_FlashRead(fileName, data, dataLen) and
\* HAL_FlashWrite are the FreeRTOS HAL_DevInfoFlashRead/Write with the
\* file as a parameter: the same open, creat ("0 < fd"), zero-fill, read
\* and whole-size checks.
HAL_FlashRead(file) == HAL_DevInfoFlashRead_freertos(file)
HAL_FlashWrite(file, rec) == HAL_DevInfoFlashWrite(file, rec)

\* Legacy HAL_GetAuthMode(void): the cache when set, else HAL_FlashRead of
\* the auth-mode file (created holding the zeroed mode 0 when vfs_open
\* fails), cached when whole; a failure returns AUTH_MODE_MAX.  Its
\* outcomes are those of the FreeRTOS HAL_GetAuthMode.
AuthModeRead_legacy == AuthModeRead_freertos

AuthModeRead ==
    CASE platform = "linux"  -> AuthModeRead_linux
      [] platform = "legacy" -> AuthModeRead_legacy
      [] OTHER               -> AuthModeRead_freertos

-----------------------------------------------------------------------------
(* Operations *)

\* The mode a file-less device reports: FreeRTOS creates the file with 0,
\* Linux with AUTH_MODE_MAX.
InitialMode(p) == IF p = "linux" THEN AUTH_MODE_MAX ELSE DefaultMode

Init ==
    /\ platform \in Platforms
    /\ infoFile = NoFile
    /\ authFile = NoAuthFile
    /\ authCache = AUTH_MODE_MAX
    /\ allowed = [f \in Fields |-> {Empty}]
    /\ allowedMode = {InitialMode(platform)}
    /\ lastOp = [op |-> "none"]

\* Field f of rec set to v; the certificate and key file names are
\* DeviceInfo fields this model does not track.
Put(rec, f, v) == IF f \in Fields THEN [rec EXCEPT ![f] = v] ELSE rec
Allow(f, v, ok) ==
    IF f \in Fields THEN [allowed EXCEPT ![f] = IF ok THEN {v} ELSE @ \cup {v}] ELSE allowed

\* The body shared by HAL_SetProductID, HAL_SetDevName, HAL_SetDevSec,
\* HAL_SetDevCertName, HAL_SetDevPrivateKeyName: read the record, put the
\* field in, write the record back; the result is the OR of both return
\* codes, and the write happens whatever the read returned.
HAL_SetField(f, v) ==
    \E r \in HAL_DevInfoFlashRead(infoFile) :
        IF r.crash
        THEN /\ infoFile' = r.file
             /\ authCache' = AUTH_MODE_MAX
             /\ lastOp' = [op |-> "crash"]
             /\ UNCHANGED <<authFile, allowed, allowedMode>>
        ELSE \E w \in HAL_DevInfoFlashWrite(r.file, Put(r.rec, f, v)) :
             LET ok == r.ok /\ w.ok
             IN /\ infoFile' = w.file
                /\ authCache' = CacheAfter(w.crash, authCache)
                /\ allowed' = Allow(f, v, ok)
                /\ lastOp' = IF w.crash THEN [op |-> "crash"]
                             ELSE [op |-> "set", fields |-> {f}, ok |-> ok]
                /\ UNCHANGED <<authFile, allowedMode>>

HAL_SetProductID(v)         == HAL_SetField("product_id", v)
HAL_SetDevName(v)           == HAL_SetField("device_name", v)
HAL_SetDevSec(v)            == HAL_SetField("devSerc", v)
HAL_SetDevCertName(v)       == HAL_SetField("devCertFileName", v)
HAL_SetDevPrivateKeyName(v) == HAL_SetField("devPrivateKeyFileName", v)

\* The body shared by HAL_GetProductID, HAL_GetDevName, HAL_GetDevSec:
\* read the record and copy the field out; the result is the read's.
HAL_GetField(f) ==
    \E r \in HAL_DevInfoFlashRead(infoFile) :
        /\ infoFile' = r.file
        /\ authCache' = CacheAfter(r.crash, authCache)
        /\ lastOp' = IF r.crash THEN [op |-> "crash"]
                     ELSE [op |-> "get", read |-> {f}, ok |-> r.ok, val |-> [g \in {f} |-> r.rec[g]]]
        /\ UNCHANGED <<authFile, allowed, allowedMode>>

HAL_GetProductID == HAL_GetField("product_id")
HAL_GetDevName   == HAL_GetField("device_name")
HAL_GetDevSec    == HAL_GetField("devSerc")

HAL_GetAuthMode ==
    \E a \in AuthModeRead :
        /\ authFile' = a.file
        /\ authCache' = a.cache
        /\ lastOp' = IF a.crash THEN [op |-> "crash"]
                     ELSE [op |-> "get_auth", ok |-> a.ok, val |-> a.mode]
        /\ UNCHANGED <<infoFile, allowed, allowedMode>>

\* HAL_GetDevInfo: HAL_GetProductID, HAL_GetDevName, HAL_GetAuthMode, then
\* the two certificate-name getters in AUTH_MODE_CERT_TLS and
\* HAL_GetDevSec otherwise; every return code is ORed in and all calls are
\* made.  After a failed HAL_GetAuthMode the mode variable holds
\* AUTH_MODE_MAX or what a short read left in it, so either branch.
HAL_GetDevInfo ==
    \E r1 \in FlashReads(infoFile, <<"product_id", "device_name">>) :
    IF r1.crash
    THEN /\ infoFile' = r1.file
         /\ authCache' = AUTH_MODE_MAX
         /\ lastOp' = [op |-> "crash"]
         /\ UNCHANGED <<authFile, allowed, allowedMode>>
    ELSE \E a \in AuthModeRead :
         IF a.crash
         THEN /\ infoFile' = r1.file
              /\ authFile' = a.file
              /\ authCache' = AUTH_MODE_MAX
              /\ lastOp' = [op |-> "crash"]
              /\ UNCHANGED <<allowed, allowedMode>>
         ELSE \E cert \in (IF a.ok THEN {a.mode = CertMode} ELSE BOOLEAN) :
              \E r2 \in FlashReads(r1.file, IF cert THEN <<"devCertFileName", "devPrivateKeyFileName">>
                                                  ELSE <<"devSerc">>) :
                /\ infoFile' = r2.file
                /\ authFile' = a.file
                /\ authCache' = CacheAfter(r2.crash, a.cache)
                /\ lastOp' = IF r2.crash THEN [op |-> "crash"]
                             ELSE [op |-> "get_info", ok |-> r1.ok /\ a.ok /\ r2.ok,
                                   read |-> DOMAIN (r1.val @@ r2.val), val |-> r1.val @@ r2.val]
                /\ UNCHANGED <<allowed, allowedMode>>

\* Legacy HAL_SetDevInfo(devInfo): HAL_FlashRead the stored record, copy
\* in product id and device name, then, if HAL_GetAuthMode() returns
\* AUTH_MODE_CERT_TLS, the certificate and key names, else the secret (a
\* failed mode read returns AUTH_MODE_MAX, so the secret); HAL_FlashWrite
\* the record whatever the read returned.  The codes of the read, the
\* copies and the write are ORed in; HAL_GetAuthMode() returns a mode, not
\* a code.  The caller's record holds v in every field.
HAL_SetDevInfo(v) ==
    \E r \in HAL_FlashRead(infoFile) :
    IF r.crash
    THEN /\ infoFile' = r.file
         /\ authCache' = AUTH_MODE_MAX
         /\ lastOp' = [op |-> "crash"]
         /\ UNCHANGED <<authFile, allowed, allowedMode>>
    ELSE \E a \in AuthModeRead_legacy :
         LET set == IF a.ok /\ a.mode = CertMode THEN {"product_id", "device_name"} ELSE Fields
             rec == [g \in Fields |-> IF g \in set THEN v ELSE r.rec[g]]
         IN IF a.crash
            THEN /\ infoFile' = r.file
                 /\ authFile' = a.file
                 /\ authCache' = AUTH_MODE_MAX
                 /\ lastOp' = [op |-> "crash"]
                 /\ UNCHANGED <<allowed, allowedMode>>
            ELSE \E w \in HAL_FlashWrite(r.file, rec) :
                 LET ok == r.ok /\ w.ok
                 IN /\ infoFile' = w.file
                    /\ authFile' = a.file
                    /\ authCache' = CacheAfter(w.crash, a.cache)
                    /\ allowed' = [g \in Fields |-> IF g \in set THEN Allow(g, v, ok)[g] ELSE allowed[g]]
                    /\ lastOp' = IF w.crash THEN [op |-> "crash"]
                                 ELSE [op |-> "set", fields |-> set, ok |-> ok]
                    /\ UNCHANGED allowedMode

\* Legacy HAL_GetDevInfo(devInfo): one HAL_FlashRead of the whole record.
HAL_GetDevInfo_legacy ==
    \E r \in HAL_FlashRead(infoFile) :
        /\ infoFile' = r.file
        /\ authCache' = CacheAfter(r.crash, authCache)
        /\ lastOp' = IF r.crash THEN [op |-> "crash"]
                     ELSE [op |-> "get_info", ok |-> r.ok, read |-> Fields, val |-> r.rec]
        /\ UNCHANGED <<authFile, allowed, allowedMode>>

\* HAL_SetAuthMode past its range check: create or truncate the file,
\* write the mode, and, when `refresh` (FreeRTOS), set sg_auth_mode_soft if
\* the whole value was written.
AuthModeWrite(m, refresh) ==
    /\ \/ /\ WriteMayFail
          /\ lastOp' = [op |-> "set_auth", ok |-> FALSE]
          /\ allowedMode' = allowedMode \cup {m}
          /\ UNCHANGED <<authFile, authCache>>
       \/ \E w \in WriteOutcomes(1) :
            /\ authFile' = AuthWritten(m, w.k = 1)
            /\ authCache' = IF w.crash THEN AUTH_MODE_MAX
                            ELSE IF w.k = 1 /\ refresh THEN m ELSE authCache
            /\ allowedMode' = IF w.k = 1 THEN {m} ELSE allowedMode \cup {m}
            /\ lastOp' = IF w.crash THEN [op |-> "crash"]
                         ELSE [op |-> "set_auth", ok |-> w.k = 1]
    /\ UNCHANGED <<infoFile, allowed>>

RejectAuthMode ==
    /\ lastOp' = [op |-> "set_auth", ok |-> FALSE]
    /\ UNCHANGED <<infoFile, authFile, authCache, allowed, allowedMode>>

\* Mutant: a successful write does not refresh sg_auth_mode_soft.
HAL_SetAuthMode_keeps_cache(m) ==
    IF AUTH_MODE_MAX = m THEN RejectAuthMode ELSE AuthModeWrite(m, FALSE)

\* Mutant: the "AUTH_MODE_MAX <= mode" check is missing.
HAL_SetAuthMode_no_max_check(m) == AuthModeWrite(m, platform # "linux")

\* HAL_SetAuthMode(m): refuse m >= AUTH_MODE_MAX, otherwise store it.  The
\* legacy HAL's is the same code over HAL_FlashWrite.
HAL_SetAuthMode(m) ==
    IF AUTH_MODE_MAX = m THEN RejectAuthMode ELSE AuthModeWrite(m, platform # "linux")

\* The device restarts between two calls: the files stay, the cache is
\* gone.
Reboot ==
    /\ authCache' = AUTH_MODE_MAX
    /\ lastOp' = [op |-> "reboot"]
    /\ UNCHANGED <<infoFile, authFile, allowed, allowedMode>>

Next ==
    /\ UNCHANGED platform
    /\ \/ /\ platform # "legacy"
          /\ \/ \E v \in Vals : HAL_SetProductID(v) \/ HAL_SetDevName(v) \/ HAL_SetDevSec(v)
             \/ \E v \in Vals : HAL_SetDevCertName(v) \/ HAL_SetDevPrivateKeyName(v)
             \/ HAL_GetProductID \/ HAL_GetDevName \/ HAL_GetDevSec
             \/ HAL_GetDevInfo
       \/ /\ platform = "legacy"
          /\ \/ \E v \in Vals : HAL_SetDevInfo(v)
             \/ HAL_GetDevInfo_legacy
       \/ \E m \in Modes \cup {AUTH_MODE_MAX} : HAL_SetAuthMode(m)
       \/ HAL_GetAuthMode
       \/ Reboot

Spec == Init /\ [][Next]_vars

-----------------------------------------------------------------------------
(* Properties *)

\* Modes the auth-mode file can hold: AUTH_MODE_MAX only as the Linux
\* initial value.
StoredModes == Modes \cup (IF platform = "linux" THEN {AUTH_MODE_MAX} ELSE {})

TypeOK ==
    /\ infoFile.present \in BOOLEAN
    /\ infoFile.len \in 0..NF
    /\ infoFile.val \in [Fields -> Vals \cup {Empty}]
    /\ platform \in Platforms
    /\ authFile \in [present : BOOLEAN, full : BOOLEAN, mode : StoredModes]
    /\ authCache \in Modes \cup {AUTH_MODE_MAX}
    /\ allowed \in [Fields -> SUBSET (Vals \cup {Empty})]
    /\ allowedMode \subseteq StoredModes

\* A HAL_Get* or HAL_GetDevInfo that reports success returns, for each
\* field it reads, the value of the last successful HAL_Set* of that
\* field, or a value of a later Set that failed (a failed Set may or may
\* not have taken effect).  Broken when a Set writes back a record whose
\* read failed, or when a read re-creates an existing file.
DevInfoReadIsLastSet ==
    lastOp.op \in {"get", "get_info"} /\ lastOp.ok =>
        \A f \in lastOp.read : lastOp.val[f] \in allowed[f]

\* HAL_GetAuthMode, from the cache or from the file, never reports success
\* with a mode other than the last one HAL_SetAuthMode stored (or one a
\* failed Set may have left), across power cycles.
AuthModeReadIsLastSet ==
    lastOp.op = "get_auth" /\ lastOp.ok => lastOp.val \in allowedMode

\* A HAL_Set* (legacy: HAL_SetDevInfo) that reports success changes only
\* the fields it sets in the stored record.
SuccessfulSetPreservesOtherFields ==
    [][lastOp'.op = "set" /\ lastOp'.ok =>
         \A g \in Fields \ lastOp'.fields : infoFile'.val[g] = infoFile.val[g]]_vars

\* spec 1 and 7: the credential store is a key-value store behind get and
\* set.  What a caller relies on: every read that reports success, of a
\* device-info field (HAL_Get*, HAL_GetDevInfo) or of the auth mode
\* (HAL_GetAuthMode), returns what the last HAL_Set* of it stored, and a
\* set that reports success leaves the other fields alone; across power
\* cycles and open failures.
StoreActsAsKeyValue ==
    /\ [](DevInfoReadIsLastSet /\ AuthModeReadIsLastSet)
    /\ SuccessfulSetPreservesOtherFields

=============================================================================
