------------------------------- MODULE Gateway -------------------------------
(***************************************************************************)
(* The life of the gateway's device connections: tcp_server.handle_device,  *)
(* the connection cap, the three protocol handlers it calls, the shared     *)
(* device registry and the IsOnline column they keep in the database.       *)
(*                                                                          *)
(* One asyncio event loop runs a task per connection.  A task is preempted  *)
(* only at an await, so an action runs from one await to the next; pc[c]    *)
(* names the await that the task of connection c is suspended at:           *)
(*                                                                          *)
(*   idle        no connection uses this socket identity                    *)
(*   rejected    turned away by the cap; writer not yet freed               *)
(*   probe       first reader.read, under PROBE_TIMEOUT                     *)
(*   topup       fewer than 5 bytes so far, reading more                    *)
(*   loop        reader.read of the main loop (or between two frames: where *)
(*               a batch is split makes no difference to what can happen)   *)
(*   lookup      login: DeviceRepository.get_device_by_imei                 *)
(*   registered  login, GPS103 and Teltonika: reply, raw row, online write  *)
(*   event       login: remaining bookkeeping, up to the DEVICE_ONLINE row  *)
(*   send        GPS103 heartbeat: the ON reply                             *)
(*   status      a write that sets IsOnline                                 *)
(*   beat        GT06 heartbeat: update_heartbeat, its second write         *)
(*   store       writes that leave IsOnline alone (position, alarm, ...)    *)
(*   offline     finally: set_device_offline                                *)
(*   unregister  finally: that update is committed, the task not resumed    *)
(*   closed      finally: writer.wait_closed                                *)
(*   done        the task has ended; writer not yet freed                   *)
(***************************************************************************)
EXTENDS DeviceRegistry, Integers, FiniteSets

CONSTANTS
    Protocols,       \* config.ENABLED_PROTOCOLS
    MaxConnections,  \* config.MAX_CONNECTIONS
    DbFails,         \* may a database call raise?
    Rebinds,         \* may one socket log in as more than one IMEI?
    Restarts         \* may the gateway process be restarted?

ASSUME ConnsAssumption == IsFiniteSet(Conns)
ASSUME ProtocolsAssumption == Protocols \subseteq {"GT06", "GPS103", "TELTONIKA"}
ASSUME MaxAssumption == MaxConnections \in Nat
ASSUME FlagsAssumption == {DbFails, Rebinds, Restarts} \subseteq BOOLEAN

VARIABLES
    pc,        \* where the task of each connection is suspended
    protocol,  \* handle_device's local of the same name
    imei,      \* handle_device's local of the same name
    target,    \* the IMEI that the handler or the cleanup is working for
    closing,   \* writer.is_closing()
    count,     \* _connection_count
    online     \* DeviceStatuses.IsOnline, "none" without a row

taskVars == <<pc, protocol, imei, target, closing>>
vars == <<byImei, bySocket, taskVars, count, online>>

Free == {"idle", "rejected", "done"}
Finishing == {"offline", "unregister", "closed"}
Handling == {"lookup", "registered", "event", "send", "status", "beat", "store"}
PcStates == Free \cup Finishing \cup Handling \cup {"probe", "topup", "loop"}

\* Connections whose handle_device task is between acquiring and releasing.
Running == {c \in Conns : pc[c] \notin Free}

TypeOK ==
    /\ RegistryTypeOK
    /\ pc \in [Conns -> PcStates]
    /\ protocol \in [Conns -> Protocols \cup {None}]
    /\ imei \in [Conns -> Imeis \cup {None}]
    /\ target \in [Conns -> Imeis \cup {None}]
    /\ closing \in [Conns -> BOOLEAN]
    /\ count \in Int
    /\ online \in [Imeis -> {"none", "online", "offline"}]

TasksInit ==
    /\ pc = [c \in Conns |-> "idle"]
    /\ protocol = [c \in Conns |-> None]
    /\ imei = [c \in Conns |-> None]
    /\ target = [c \in Conns |-> None]
    /\ closing = [c \in Conns |-> FALSE]
    /\ count = 0

Init ==
    /\ RegistryInit
    /\ TasksInit
    /\ online = [i \in Imeis |-> "none"]

Goto(c, await) == pc' = [pc EXCEPT ![c] = await]

Aim(c, i) == target' = [target EXCEPT ![c] = i]

\* A handler returned i: "if packet_imei: imei = packet_imei".
Return(c, i) == imei' = IF i = None THEN imei ELSE [imei EXCEPT ![c] = i]

(***************************************************************************)
(* A database write may raise, and one that raises (command_timeout, a      *)
(* dropped connection) may or may not have been applied by the server.      *)
(***************************************************************************)
WriteOutcomes ==
    {o \in [applied : BOOLEAN, raised : BOOLEAN] :
        IF DbFails THEN o.applied \/ o.raised ELSE o.applied /\ ~o.raised}

MarkOnline(i, o) ==
    online' = IF o.applied THEN [online EXCEPT ![i] = "online"] ELSE online

MarkOffline(i, o) ==
    online' = IF o.applied /\ online[i] # "none"
              THEN [online EXCEPT ![i] = "offline"] ELSE online
-----------------------------------------------------------------------------
(***************************************************************************)
(* The connection cap and the start of handle_device.                       *)
(***************************************************************************)
Accept_OffByOne(c) ==
    /\ pc[c] = "idle"
    /\ count <= MaxConnections
    /\ count' = count + 1
    /\ Goto(c, "probe")
    /\ UNCHANGED <<registryVars, protocol, imei, target, closing, online>>

Accept(c) ==
    /\ pc[c] = "idle"
    /\ count < MaxConnections
    /\ count' = count + 1
    /\ Goto(c, "probe")
    /\ UNCHANGED <<registryVars, protocol, imei, target, closing, online>>

Reject(c) ==
    /\ pc[c] = "idle"
    /\ count >= MaxConnections
    /\ Goto(c, "rejected")
    /\ closing' = [closing EXCEPT ![c] = TRUE]
    /\ UNCHANGED <<registryVars, protocol, imei, target, count, online>>

\* Python frees the writer, and may reuse its id(), once nothing refers to
\* it: the task is over and no registry entry holds it.
Reuse(c) ==
    /\ pc[c] \in {"rejected", "done"}
    /\ \A i \in Imeis : byImei[i] # c
    /\ Goto(c, "idle")
    /\ protocol' = [protocol EXCEPT ![c] = None]
    /\ imei' = [imei EXCEPT ![c] = None]
    /\ target' = [target EXCEPT ![c] = None]
    /\ closing' = [closing EXCEPT ![c] = FALSE]
    /\ UNCHANGED <<registryVars, count, online>>

\* The first read returned fewer than the 5 bytes detection wants.
ShortRead(c) ==
    /\ pc[c] = "probe"
    /\ Goto(c, "topup")
    /\ UNCHANGED <<registryVars, protocol, imei, target, closing, count, online>>

\* detect_protocol recognised the bytes read so far.
Detect(c, p) ==
    /\ pc[c] \in {"probe", "topup"}
    /\ protocol' = [protocol EXCEPT ![c] = p]
    /\ Goto(c, "loop")
    /\ UNCHANGED <<registryVars, imei, target, closing, count, online>>

TakesFrame_Unchecked(c) == pc[c] = "loop"

\* The loop feeds a handler only while "writer.is_closing()" is false.  A
\* transport that the peer has reset is closing too: that break, and the end
\* of data read after it, is EnterFinally, which the loop may take at any time.
TakesFrame(c) == pc[c] = "loop" /\ ~closing[c]
-----------------------------------------------------------------------------
(***************************************************************************)
(* Login, in all three handlers.                                            *)
(***************************************************************************)
Login(c, i) ==
    /\ TakesFrame(c)
    /\ Rebinds \/ {imei[c], bySocket[c]} \subseteq {None, i}
    /\ Aim(c, i)
    /\ Goto(c, "lookup")
    /\ UNCHANGED <<registryVars, protocol, imei, closing, count, online>>

\* No device_id: GT06 only acknowledges, the others close the socket.
LoginRejected(c) ==
    /\ pc[c] = "lookup"
    /\ closing' = [closing EXCEPT ![c] = protocol[c] # "GT06"]
    /\ Aim(c, None)
    /\ Goto(c, "loop")
    /\ UNCHANGED <<registryVars, protocol, imei, count, online>>

\* The pool raised: GT06 returns None, the others get_imei_by_socket(writer).
LoginRaises(c) ==
    /\ DbFails
    /\ pc[c] = "lookup"
    /\ Return(c, IF protocol[c] = "GT06" THEN None ELSE get_imei_by_socket(c))
    /\ Aim(c, None)
    /\ Goto(c, "loop")
    /\ UNCHANGED <<registryVars, protocol, closing, count, online>>

LoginAccepted(c) ==
    /\ pc[c] = "lookup"
    /\ register_device(target[c], c)
    /\ Goto(c, IF protocol[c] = "GT06" THEN "event" ELSE "registered")
    /\ UNCHANGED <<protocol, imei, target, closing, count, online>>

\* mark_device_alive under _safely: a failure is logged and swallowed.
LoginMarksOnline(c) ==
    /\ pc[c] = "registered"
    /\ \E o \in WriteOutcomes : MarkOnline(target[c], o)
    /\ Goto(c, "event")
    /\ UNCHANGED <<registryVars, protocol, imei, target, closing, count>>

\* A GT06 login whose bookkeeping raises returns None though it registered.
LoginDone(c) ==
    /\ pc[c] = "event"
    /\ \E o \in WriteOutcomes :
          Return(c, IF protocol[c] = "GT06" /\ o.raised THEN None ELSE target[c])
    /\ Aim(c, None)
    /\ Goto(c, "loop")
    /\ UNCHANGED <<registryVars, protocol, closing, count, online>>
-----------------------------------------------------------------------------
(***************************************************************************)
(* Every other frame.                                                       *)
(***************************************************************************)

\* Data before login or after the binding was lost, a GPS103 message naming
\* another IMEI, a malformed Teltonika login: the handler closes the socket.
FrameRefused(c) ==
    /\ TakesFrame(c)
    /\ get_imei_by_socket(c) = None \/ protocol[c] \in {"GPS103", "TELTONIKA"}
    /\ closing' = [closing EXCEPT ![c] = TRUE]
    /\ UNCHANGED <<registryVars, pc, protocol, imei, target, count, online>>

\* Frames that reach no database write: a GT06 position out of range, a bad
\* CRC, an unparsable or unknown message before any row is stored for it.
\* Some return the connection's IMEI, some None.
FrameIgnored(c) ==
    /\ TakesFrame(c)
    /\ \E i \in {None, get_imei_by_socket(c)} : Return(c, i)
    /\ UNCHANGED <<registryVars, pc, protocol, target, closing, count, online>>

\* A frame that proves the device alive: GT06 status and heartbeat, GPS103
\* heartbeat (answered first), Teltonika data when LastSeen is due.
StatusFrame(c) ==
    /\ TakesFrame(c)
    /\ get_imei_by_socket(c) # None
    /\ Aim(c, get_imei_by_socket(c))
    /\ Goto(c, IF protocol[c] = "GPS103" THEN "send" ELSE "status")
    /\ UNCHANGED <<registryVars, protocol, imei, closing, count, online>>

\* After the reply the entry is read again; if it has gone, subscripting None
\* raises and the handler returns get_imei_by_socket(writer).
HeartbeatAnswered(c) ==
    /\ pc[c] = "send"
    /\ \/ /\ get_device(target[c]) # None
          /\ Goto(c, "status")
          /\ UNCHANGED <<imei, target>>
       \/ /\ get_device(target[c]) = None
          /\ Return(c, get_imei_by_socket(c))
          /\ Aim(c, None)
          /\ Goto(c, "loop")
    /\ UNCHANGED <<registryVars, protocol, closing, count, online>>

\* A GT06 handler that raises returns None; the others swallow the failure.
HandlerReturns(c, o) ==
    /\ Return(c, IF protocol[c] = "GT06" /\ o.raised THEN None ELSE target[c])
    /\ Aim(c, None)
    /\ Goto(c, "loop")

\* Teltonika goes on to store the records, a GT06 heartbeat (0x23) to its
\* second write; GT06 status (0x13) and GPS103 heartbeat return.
StatusWritten(c) ==
    /\ pc[c] = "status"
    /\ \E o \in WriteOutcomes :
          /\ MarkOnline(target[c], o)
          /\ \/ /\ protocol[c] # "TELTONIKA"
                /\ HandlerReturns(c, o)
             \/ /\ \/ protocol[c] = "TELTONIKA" /\ Goto(c, "store")
                   \/ protocol[c] = "GT06" /\ ~o.raised /\ Goto(c, "beat")
                /\ UNCHANGED <<imei, target>>
    /\ UNCHANGED <<registryVars, protocol, closing, count>>

\* update_heartbeat: a plain UPDATE, the row exists by now.
HeartbeatWritten(c) ==
    /\ pc[c] = "beat"
    /\ \E o \in WriteOutcomes :
          MarkOnline(target[c], o) /\ HandlerReturns(c, o)
    /\ UNCHANGED <<registryVars, protocol, closing, count>>

StoreFrame(c) ==
    /\ TakesFrame(c)
    /\ get_imei_by_socket(c) # None
    /\ Aim(c, get_imei_by_socket(c))
    /\ Goto(c, "store")
    /\ UNCHANGED <<registryVars, protocol, imei, closing, count, online>>

\* A GT06 message of an unknown type is stored, but returns no IMEI.
UnknownReturns(c) ==
    /\ protocol[c] = "GT06"
    /\ Return(c, None)
    /\ Aim(c, None)
    /\ Goto(c, "loop")

\* set_ignition (GPS103, Teltonika) touches IsOnline only when it inserts.
Stored(c) ==
    /\ pc[c] = "store"
    /\ \E o \in WriteOutcomes :
          /\ HandlerReturns(c, o) \/ UnknownReturns(c)
          /\ \/ UNCHANGED online
             \/ /\ protocol[c] # "GT06"
                /\ online[target[c]] = "none"
                /\ MarkOnline(target[c], o)
    /\ UNCHANGED <<registryVars, protocol, closing, count>>
-----------------------------------------------------------------------------
(***************************************************************************)
(* The finally block.                                                       *)
(***************************************************************************)
CleanupImei(c) == IF imei[c] # None THEN imei[c] ELSE get_imei_by_socket(c)

\* "if device and device['socket'] is writer"
OwnsEntry(c) == CleanupImei(c) # None /\ get_device(CleanupImei(c)) = c

\* End of data, a timeout, a reset, a framing error, an unknown protocol: the
\* try block ends and finally runs up to its first await.
EnterFinally(c) ==
    /\ pc[c] \in {"probe", "topup", "loop"}
    /\ \/ /\ OwnsEntry(c)
          /\ Aim(c, CleanupImei(c))
          /\ Goto(c, "offline")
          /\ UNCHANGED closing
       \/ /\ ~OwnsEntry(c)
          /\ closing' = [closing EXCEPT ![c] = TRUE]
          /\ Goto(c, "closed")
          /\ UNCHANGED target
    /\ UNCHANGED <<registryVars, protocol, imei, count, online>>

\* set_device_offline.  If it raises the rest of finally does not run: the
\* task ends with its entry and its slot.
OfflineWritten(c) ==
    /\ pc[c] = "offline"
    /\ \E o \in WriteOutcomes :
          /\ MarkOffline(target[c], o)
          /\ Goto(c, IF o.raised THEN "done" ELSE "unregister")
    /\ UNCHANGED <<registryVars, protocol, imei, target, closing, count>>

Unregister_Skipped(c) ==
    /\ pc[c] = "unregister"
    /\ closing' = [closing EXCEPT ![c] = TRUE]
    /\ Goto(c, "closed")
    /\ UNCHANGED <<registryVars, protocol, imei, target, count, online>>

\* unregister_device(cleanup_imei), writer.close()
Unregister(c) ==
    /\ pc[c] = "unregister"
    /\ unregister_device(target[c])
    /\ closing' = [closing EXCEPT ![c] = TRUE]
    /\ Goto(c, "closed")
    /\ UNCHANGED <<protocol, imei, target, count, online>>

Release_Forgotten(c) ==
    /\ pc[c] = "closed"
    /\ Goto(c, "done")
    /\ UNCHANGED <<registryVars, protocol, imei, target, closing, count, online>>

Release(c) ==
    /\ pc[c] = "closed"
    /\ count' = count - 1
    /\ Goto(c, "done")
    /\ UNCHANGED <<registryVars, protocol, imei, target, closing, online>>

\* A new process: the registry and the counter are empty, the database stays.
Restart ==
    /\ Restarts
    /\ byImei' = [i \in Imeis |-> None]
    /\ bySocket' = [c \in Conns |-> None]
    /\ pc' = [c \in Conns |-> "idle"]
    /\ protocol' = [c \in Conns |-> None]
    /\ imei' = [c \in Conns |-> None]
    /\ target' = [c \in Conns |-> None]
    /\ closing' = [c \in Conns |-> FALSE]
    /\ count' = 0
    /\ UNCHANGED online
-----------------------------------------------------------------------------
\* What a peer may do.
Arrive(c) == Accept(c) \/ Reject(c) \/ Reuse(c)

SendFrame(c) ==
    \/ ShortRead(c)
    \/ \E p \in Protocols : Detect(c, p)
    \/ \E i \in Imeis : Login(c, i)
    \/ FrameRefused(c) \/ FrameIgnored(c) \/ StatusFrame(c) \/ StoreFrame(c)

\* Steps that follow once the awaited call returns.
Handle(c) ==
    \/ LoginRejected(c) \/ LoginRaises(c) \/ LoginAccepted(c)
    \/ LoginMarksOnline(c) \/ LoginDone(c)
    \/ HeartbeatAnswered(c) \/ StatusWritten(c) \/ HeartbeatWritten(c) \/ Stored(c)

Finish(c) == OfflineWritten(c) \/ Unregister(c) \/ Release(c)

Next ==
    \/ \E c \in Conns : Arrive(c) \/ SendFrame(c) \/ Handle(c) \/ EnterFinally(c) \/ Finish(c)
    \/ Restart

Spec == Init /\ [][Next]_vars

(***************************************************************************)
(* What the code bounds by a timeout, or leaves to the event loop alone:    *)
(*  - reads of a closed transport, which is given no more data, end by      *)
(*    CONNECTION_TIMEOUT at the latest, reads before detection by           *)
(*    PROBE_TIMEOUT;                                                        *)
(*  - set_device_offline returns or raises (command_timeout; the pool is    *)
(*    given its connections back, module DeviceLookup);                     *)
(*  - unregister_device follows as soon as the loop resumes the task.       *)
(* Nothing is assumed of a handler, whose drains wait for a peer that may   *)
(* not read, of wait_closed (the same), or of what peers send.              *)
(***************************************************************************)
Fairness ==
    \A c \in Conns :
        /\ WF_vars((closing[c] \/ pc[c] \in {"probe", "topup"}) /\ EnterFinally(c))
        /\ WF_vars(OfflineWritten(c))
        /\ WF_vars(Unregister(c))

FairSpec == Spec /\ Fairness
-----------------------------------------------------------------------------
(***************************************************************************)
(* Properties.                                                              *)
(***************************************************************************)

(***************************************************************************)
(* _connection_count is the number of connections being served: every path  *)
(* through handle_device gives its slot back exactly once.  It needs        *)
(* ~DbFails: set_device_offline is awaited unguarded inside finally.        *)
(***************************************************************************)
SlotsMatchLive == count = Cardinality(Running)

(***************************************************************************)
(* The cap holds even when the database fails: never more than              *)
(* MAX_CONNECTIONS connections are served, and the counter covers them all. *)
(***************************************************************************)
CapRespected == Cardinality(Running) <= count /\ count <= MaxConnections

(***************************************************************************)
(* A connection that has not logged in is bound to no IMEI, although the    *)
(* key of _by_socket, id(writer), is reused: a new connection never inherits*)
(* the identity of one that used its id() before.                           *)
(***************************************************************************)
UnboundUntilLogin ==
    \A c \in Conns :
        pc[c] \in {"idle", "rejected", "probe", "topup"} => bySocket[c] = None

(***************************************************************************)
(* The registry never leads to a connection whose cleanup is over: whoever  *)
(* looks a device up (commands, poller) finds a socket still being served.  *)
(* It needs ~DbFails and ~Rebinds.                                          *)
(***************************************************************************)
NoStaleEntry ==
    \A i \in Imeis : byImei[i] # None =>
        pc[byImei[i]] \notin Free \cup {"probe", "topup", "closed"}

(***************************************************************************)
(* A connection that a handler closed (refused login, IMEI mismatch, data   *)
(* before login) never registers a device afterwards, whatever frames the   *)
(* peer had already sent in the same batch.                                 *)
(***************************************************************************)
ClosedNeverRegisters ==
    [][\A c \in Conns, i \in Imeis :
          (byImei[i] # c /\ byImei'[i] = c) => ~closing[c]]_vars

(***************************************************************************)
(* The gateway implements the abstract connection cap: a peer is turned     *)
(* away only when MAX_CONNECTIONS others are being served at that moment.   *)
(***************************************************************************)
Slots == INSTANCE ConnectionSlots
            WITH live <- Running, refused <- {c \in Conns : pc[c] = "rejected"}

RefinesSlots == Slots!SlotsSpec

(***************************************************************************)
(* A socket that the gateway has closed (refused login, IMEI mismatch, data *)
(* before login, end of the connection) disappears from the registry, so    *)
(* that commands and polls stop being written to it: finally unregisters it *)
(* before wait_closed, which a peer that does not read can hold for ever.   *)
(* It needs ~DbFails and ~Rebinds.                                          *)
(***************************************************************************)
ClosedIsForgotten ==
    \A c \in Conns : closing[c] ~> \A i \in Imeis : byImei[i] # c

(***************************************************************************)
(* What the repository says and the code does not do.                       *)
(***************************************************************************)

\* tcp_server.py, finally: "Only tear down our OWN registration."  An entry
\* disappears only in the cleanup of the connection it belongs to.
OnlyOwnTeardown ==
    [][\A i \in Imeis :
          (byImei[i] # None /\ byImei'[i] = None) => pc[byImei[i]] = "unregister"]_vars

\* docs/database.md, IsOnline: "`False` on disconnect".  Once no connection is
\* served, no device is shown as online.  Violated as an invariant of
\* GatewayLifecycle.
OfflineWhenGone ==
    Running = {} => \A i \in Imeis : online[i] # "online"
=============================================================================
