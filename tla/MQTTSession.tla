----------------------------- MODULE MQTTSession -----------------------------
(***************************************************************************)
(* The MQTT session engine as spec.md describes it (sections 4.2-4.6);    *)
(* its code (qcloud_iot_mqtt_connect, _publish, _yield, _disconnect and   *)
(* the Pub-Wait list) is not part of the source tree, so every operator   *)
(* here is modelled from the specification.  One session at a time, the  *)
(* one a caller variable holds, with QoS1 publishes only (the door        *)
(* sample's).                                                               *)
(*                                                                         *)
(* Faults: the server may never send a PUBACK (a lost one is the same to  *)
(* the client) or send one twice or late; a transport read or write may   *)
(* fail (IOError), at most MaxDrops times, which drops the connection and *)
(* the PUBACKs in transit.  Keep-alive loss is an IOError of a yield.     *)
(* Time advances by one tick per yield.                                    *)
(***************************************************************************)
EXTENDS Integers, Sequences

CONSTANTS
    MaxPacketId,     \* 65535 scaled down: the last id before wrapping to 1
    CommandTimeout,  \* ticks a Pub-Wait entry may wait for its PUBACK
    MaxTime,         \* bound on the tick counter
    MaxDrops         \* bound on transport failures in a behaviour

PacketIds == 1..MaxPacketId

VARIABLES
    sState,    \* "NONE" (no session), "CONNECTED", "DISCONNECTED"
    nextId,    \* the packet-id counter
    pubWait,   \* Pub-Wait registry: set of [id, deadline]
    sent,      \* ids published on this session (the server may ack them)
    acks,      \* ids whose PUBACK is in transit to the client
    now,       \* ticks
    drops,     \* transport failures so far
    notified,  \* notified[i]: publish outcome events delivered for id i
    fired,     \* event kinds the last call delivered to the event handler
    sRc        \* result of the last call

sessionVars == <<sState, nextId, pubWait, sent, acks, now, drops, notified, fired, sRc>>

NoEvents == [i \in PacketIds |-> <<>>]
PubIds == {e.id : e \in pubWait}
Tick == IF now < MaxTime THEN now + 1 ELSE now

SessionInit ==
    /\ sState = "NONE"
    /\ nextId = 1
    /\ pubWait = {}
    /\ sent = {}
    /\ acks = {}
    /\ now = 0
    /\ drops = 0
    /\ notified = NoEvents
    /\ fired = {}
    /\ sRc = "none"

\* Mutant: the counter runs past its last value instead of wrapping.
NextPacketId_no_wrap(id) == id + 1

\* The packet-id counter wraps from its last value to 1; 0 is never issued.
NextPacketId(id) == IF id = MaxPacketId THEN 1 ELSE id + 1

\* connect succeeded inside Construct: a fresh session, CONNECTED, the
\* counter seeded with `start`.
Connect(start) ==
    /\ sState' = "CONNECTED"
    /\ nextId' = start
    /\ pubWait' = {}
    /\ sent' = {}
    /\ acks' = {}
    /\ notified' = NoEvents
    /\ fired' = {}
    /\ sRc' = "ok"
    /\ UNCHANGED <<now, drops>>

\* publish with QoS1: refused when not connected and when the id is still
\* pending (DuplicateId); otherwise the write either succeeds, creating a
\* Pub-Wait entry and advancing the counter, or fails with an IOError,
\* which drops the connection.
Publish ==
    /\ fired' = {}
    /\ CASE sState # "CONNECTED" ->
              /\ sRc' = "no_conn"
              /\ UNCHANGED <<sState, nextId, pubWait, sent, acks, now, drops, notified>>
         [] nextId \in PubIds ->
              /\ sRc' = "dup_id"
              /\ UNCHANGED <<sState, nextId, pubWait, sent, acks, now, drops, notified>>
         [] OTHER ->
              \/ /\ pubWait' = pubWait \cup {[id |-> nextId, deadline |-> now + CommandTimeout]}
                 /\ sent' = sent \cup {nextId}
                 /\ nextId' = NextPacketId(nextId)
                 /\ notified' = [notified EXCEPT ![nextId] = <<>>]
                 /\ sRc' = "ok"
                 /\ UNCHANGED <<sState, acks, now, drops>>
              \/ /\ drops < MaxDrops
                 /\ sState' = "DISCONNECTED"
                 /\ acks' = {}
                 /\ drops' = drops + 1
                 /\ sRc' = "io_error"
                 /\ UNCHANGED <<nextId, pubWait, sent, now, notified>>

\* acknowledge(id) for every PUBACK read: the matching entries leave
\* Pub-Wait; a PUBACK with no entry (late or duplicate) is UnknownId and
\* changes nothing.
Acknowledge(wait, ids) == {e \in wait : e.id \notin ids}

\* sweep(now): the entries older than the command timeout.
Expired(wait) == {e \in wait : e.deadline < now}

\* Deliver one event per id in `ids` of kind k.
Notify(n, ids, k) == [i \in PacketIds |-> IF i \in ids THEN Append(n[i], k) ELSE n[i]]

\* yield: (a) read every PUBACK in transit and acknowledge it, unless the
\* read fails, which drops the connection (DISCONNECT event); (b) sweep
\* Pub-Wait, one PUBLISH_TIMEOUT per expired entry; (e) when disconnected,
\* try to reconnect (auto_connect_enable is set).
\* The network decides whether the read fails (ioErr) and whether a
\* reconnection attempt succeeds (reconnectOk).
YieldWith(ioErr, reconnectOk) ==
    /\ sState # "NONE"
    /\ ioErr => sState = "CONNECTED" /\ drops < MaxDrops
    /\ now' = Tick
    /\ UNCHANGED <<nextId, sent>>
    /\ LET matched == IF sState = "CONNECTED" /\ ~ioErr THEN acks \cap PubIds ELSE {}
           waiting == Acknowledge(pubWait, matched)
           expired == Expired(waiting)
           timedOut == {e.id : e \in expired}
           state == CASE ioErr -> "DISCONNECTED"
                      [] sState = "DISCONNECTED" /\ reconnectOk -> "CONNECTED"
                      [] OTHER -> sState
       IN /\ sState' = state
          /\ pubWait' = waiting \ expired
          /\ acks' = {}
          /\ drops' = IF ioErr THEN drops + 1 ELSE drops
          /\ notified' = Notify(Notify(notified, matched, "PUBLISH_SUCCESS"), timedOut, "PUBLISH_TIMEOUT")
          /\ fired' = (IF matched # {} THEN {"PUBLISH_SUCCESS"} ELSE {})
                      \cup (IF timedOut # {} THEN {"PUBLISH_TIMEOUT"} ELSE {})
                      \cup (IF ioErr THEN {"DISCONNECT"} ELSE {})
                      \cup (IF sState = "DISCONNECTED" /\ state = "CONNECTED" THEN {"RECONNECT"} ELSE {})
          /\ sRc' = CASE state = "CONNECTED" /\ sState = "DISCONNECTED" -> "reconnected"
                      [] state = "DISCONNECTED" -> "attempting"
                      [] OTHER -> "ok"

Yield == \E ioErr, reconnectOk \in BOOLEAN : YieldWith(ioErr, reconnectOk)

\* The server sends a PUBACK for a publish it received, possibly again.
ServerAck(id) ==
    /\ sState = "CONNECTED"
    /\ id \in sent \ acks
    /\ acks' = acks \cup {id}
    /\ UNCHANGED <<sState, nextId, pubWait, sent, now, drops, notified, fired, sRc>>

\* Destroy: DISCONNECT if connected, drain both registries, release the
\* session; the caller's handle becomes NULL.
Destroy ==
    /\ sState # "NONE"
    /\ sState' = "NONE"
    /\ pubWait' = {}
    /\ sent' = {}
    /\ acks' = {}
    /\ notified' = NoEvents
    /\ fired' = {}
    /\ sRc' = "ok"
    /\ UNCHANGED <<nextId, now, drops>>

IsConnected == sState = "CONNECTED"

SessionTypeOK ==
    /\ sState \in {"NONE", "CONNECTED", "DISCONNECTED"}
    /\ nextId \in PacketIds
    /\ pubWait \subseteq [id : PacketIds, deadline : 0..MaxTime + CommandTimeout]
    /\ sent \subseteq PacketIds /\ acks \subseteq sent
    /\ now \in 0..MaxTime /\ drops \in 0..MaxDrops

=============================================================================
