-------------------------- MODULE TeltonikaDelivery --------------------------
(***************************************************************************)
(* At-least-once delivery of Teltonika AVL records                          *)
(* (services/teltonika_handler.py, save_location in tracking_service.py).   *)
(*                                                                          *)
(* One device holds the records 1..N, numbered in the order in which it     *)
(* sends them; their timestamps (Time) may be in any other order.  It sends *)
(* a packet with the first records it still holds, waits for the count the  *)
(* gateway acknowledges and deletes that many.  When it loses the           *)
(* connection, or waits in vain, it reconnects and sends again.             *)
(*                                                                          *)
(* A session is one TCP connection of the device.  Its handler goes on with *)
(* the packet it has after the device left, so the handlers of two sessions *)
(* can work at the same time.  A restart of the gateway ends them all.      *)
(* pc[s] is the await a handler is at:                                      *)
(*                                                                          *)
(*   free      no connection                                                *)
(*   ready     waiting for a packet                                         *)
(*   raw       _save_raw                                                    *)
(*   ignition  set_ignition: the statement is on its way                    *)
(*   ignited   set_ignition has been answered, the task not resumed         *)
(*   record    _store_record of record next[s]                              *)
(*   ack       about to answer with the number of records accepted          *)
(*                                                                          *)
(* The unique index of GpsTrackings and the flag that relies on it are      *)
(* introduced while the system runs, in the order of                        *)
(* docs/gps-tracking-idempotency.md: the model starts without either.       *)
(*                                                                          *)
(* The rate-limited LastSeen refresh touches nothing modelled here; module  *)
(* Gateway has it.                                                          *)
(***************************************************************************)
EXTENDS Integers, FiniteSets

CONSTANTS
    Sessions,
    N,            \* records of the device
    MaxBatch,     \* records per packet
    Storable,     \* records with a fix, a possible position and a sane time
    Time,         \* Time[r]: the timestamp of record r
    Ignition,     \* Ignition[r]: IO 239 of record r, None when not reported
    Assigned,     \* does DeviceAssignments have a vehicle for the device?
    MaxFailures,  \* bound: database calls that raise
    MaxDrops,     \* bound: connections lost
    MaxRestarts,  \* bound: restarts of the gateway, deployment of the flag apart
    None

ASSUME NAssumption == N \in Nat \ {0}
ASSUME BatchAssumption == MaxBatch \in Nat \ {0}
ASSUME StorableAssumption == Storable \subseteq 1..N
\* (DeviceId, EventTime) identifies a record: the index relies on it.
ASSUME TimeAssumption ==
    Time \in [1..N -> Nat] /\ \A q, r \in 1..N : Time[q] = Time[r] => q = r
ASSUME AssignedAssumption == Assigned \in BOOLEAN
ASSUME IgnitionAssumption == Ignition \in [1..N -> {"on", "off", None}]
ASSUME BoundsAssumption == MaxFailures \in Nat /\ MaxDrops \in Nat /\ MaxRestarts \in Nat
ASSUME NoneAssumption == None \notin Sessions \cup Int \cup {"on", "off"}

VARIABLES
    session,    \* the session the device uses, None while disconnected
    waiting,    \* the device has a packet out and no answer yet
    deleted,    \* the device has deleted records 1..deleted
    ack,        \* ack[s]: the count on its way to the device, or None
    pc,
    first, last, next,  \* the packet of the handler and its progress
    ignition,           \* _refresh_status's local of the same name
    lastIgnition,       \* _last_ignition of this device, None when absent
    ignitionDb,         \* DeviceStatuses.IgnitionStatus
    rows,               \* rows[r]: GpsTrackings rows of record r
    live,               \* the record CurrentLocations shows, 0 at first
    uniqueIndex,        \* does GpsTrackings(DeviceId, EventTime) have a unique index?
    idempotent,         \* config.GPS_TRACKING_IDEMPOTENT of the running gateway
    overlap,            \* history: did two handlers ever work at the same time?
    failures, drops, restarts

deviceVars == <<session, waiting, deleted>>
packetVars == <<first, last, next, ignition>>
dbVars == <<ignitionDb, rows, live>>
rolloutVars == <<uniqueIndex, idempotent, restarts>>
vars == <<deviceVars, ack, pc, packetVars, lastIgnition, dbVars, rolloutVars, overlap,
          failures, drops>>

Records == 1..N
Working == {"raw", "ignition", "ignited", "record", "ack"}

TypeOK ==
    /\ session \in Sessions \cup {None}
    /\ waiting \in BOOLEAN
    /\ deleted \in 0..N
    /\ ack \in [Sessions -> 0..N \cup {None}]
    /\ pc \in [Sessions -> Working \cup {"free", "ready"}]
    /\ first \in [Sessions -> Records]
    /\ last \in [Sessions -> Records]
    /\ next \in [Sessions -> 1..(N + 1)]
    /\ ignition \in [Sessions -> {"on", "off", None}]
    /\ lastIgnition \in {"on", "off", None}
    /\ ignitionDb \in {"on", "off"}
    /\ rows \in [Records -> Nat]
    /\ live \in 0..N
    /\ failures \in 0..MaxFailures
    /\ drops \in 0..MaxDrops
    /\ restarts \in 0..MaxRestarts
    /\ uniqueIndex \in BOOLEAN /\ idempotent \in BOOLEAN /\ overlap \in BOOLEAN

Init ==
    /\ session = None
    /\ waiting = FALSE
    /\ deleted = 0
    /\ ack = [s \in Sessions |-> None]
    /\ pc = [s \in Sessions |-> "free"]
    /\ first = [s \in Sessions |-> 1]
    /\ last = [s \in Sessions |-> 1]
    /\ next = [s \in Sessions |-> 1]
    /\ ignition = [s \in Sessions |-> None]
    /\ lastIgnition = None
    /\ ignitionDb = "off"
    /\ rows = [r \in Records |-> 0]
    /\ live = 0
    /\ uniqueIndex = FALSE
    /\ idempotent = FALSE
    /\ overlap = FALSE
    /\ failures = 0
    /\ drops = 0
    /\ restarts = 0
-----------------------------------------------------------------------------
(***************************************************************************)
(* The device and its connection.                                           *)
(***************************************************************************)
\* A login: _handle_login forgets what was cached about the device.
Connect(s) ==
    /\ session = None
    /\ pc[s] = "free"
    /\ session' = s
    /\ waiting' = FALSE
    /\ pc' = [pc EXCEPT ![s] = "ready"]
    /\ lastIgnition' = None
    /\ UNCHANGED <<deleted, ack, packetVars, dbVars, failures, drops, rolloutVars, overlap>>

\* The connection is lost, or the device gives it up: an answer on its way is
\* lost with it; a handler at work does not notice.
Drop ==
    /\ session # None
    /\ drops < MaxDrops
    /\ drops' = drops + 1
    /\ session' = None
    /\ ack' = [ack EXCEPT ![session] = None]
    /\ pc' = [pc EXCEPT ![session] = IF @ = "ready" THEN "free" ELSE @]
    /\ UNCHANGED <<waiting, deleted, packetVars, lastIgnition, dbVars, failures, rolloutVars, overlap>>

\* The device sends the records it holds, up to record k.
Send(s, k) ==
    /\ session = s
    /\ pc[s] = "ready"
    /\ ~waiting
    /\ k \in (deleted + 1)..N
    /\ k <= deleted + MaxBatch
    /\ waiting' = TRUE
    /\ pc' = [pc EXCEPT ![s] = "raw"]
    /\ first' = [first EXCEPT ![s] = deleted + 1]
    /\ last' = [last EXCEPT ![s] = k]
    /\ next' = [next EXCEPT ![s] = deleted + 1]
    /\ ignition' = [ignition EXCEPT ![s] = None]
    /\ overlap' = (overlap \/ \E t \in Sessions : pc[t] \in Working)
    /\ UNCHANGED <<session, deleted, ack, lastIgnition, dbVars, rolloutVars, failures, drops>>

\* A packet with a bad CRC or an unknown codec is not answered.
SendGarbled(s) ==
    /\ session = s
    /\ pc[s] = "ready"
    /\ ~waiting
    /\ deleted < N
    /\ drops < MaxDrops
    /\ waiting' = TRUE
    /\ UNCHANGED <<session, deleted, ack, pc, packetVars, lastIgnition, dbVars,
                   failures, drops, rolloutVars, overlap>>

ReceiveAck(s) ==
    /\ session = s
    /\ ack[s] # None
    /\ deleted' = deleted + ack[s]
    /\ waiting' = FALSE
    /\ ack' = [ack EXCEPT ![s] = None]
    /\ UNCHANGED <<session, pc, packetVars, lastIgnition, dbVars, failures, drops, rolloutVars, overlap>>
-----------------------------------------------------------------------------
(***************************************************************************)
(* _handle_avl.                                                             *)
(***************************************************************************)

\* A call that raises counts against the bound.
Raise == failures < MaxFailures /\ failures' = failures + 1

\* The ignition of the newest record of the packet that reports one; newest by
\* its timestamp, wherever in the packet it is.
NewestIgnition(s) ==
    LET reporting == {r \in first[s]..last[s] : Ignition[r] # None}
        newest == {r \in reporting : \A q \in reporting : Time[q] <= Time[r]}
    IN  IF newest = {} THEN None ELSE Ignition[CHOOSE r \in newest : TRUE]

IgnitionChanged_FirstOnly(i) == i # None /\ lastIgnition = None

\* "_last_ignition.get(device_id) != ignition", for an ignition reported.
IgnitionChanged(i) == i \notin {None, lastIgnition}

\* The raw row is saved or not; _refresh_status then compares with the cache.
RefreshStatus(s) ==
    /\ pc[s] = "raw"
    /\ ignition' = [ignition EXCEPT ![s] = NewestIgnition(s)]
    /\ pc' = [pc EXCEPT ![s] = IF IgnitionChanged(NewestIgnition(s))
                               THEN "ignition" ELSE "record"]
    /\ UNCHANGED <<deviceVars, ack, first, last, next, lastIgnition,
                   dbVars, failures, drops, rolloutVars, overlap>>

SetIgnition(s) ==
    /\ pc[s] = "ignition"
    /\ pc' = [pc EXCEPT ![s] = "ignited"]
    /\ \/ /\ ignitionDb' = ignition[s]
          /\ UNCHANGED failures
       \/ /\ Raise
          /\ ignitionDb' \in {ignitionDb, ignition[s]}
    /\ UNCHANGED <<deviceVars, ack, first, last, next, ignition, lastIgnition,
                   rows, live, drops, rolloutVars, overlap>>

\* _safely swallowed the failure: the cache is set either way.
RememberIgnition(s) ==
    /\ pc[s] = "ignited"
    /\ lastIgnition' = ignition[s]
    /\ pc' = [pc EXCEPT ![s] = "record"]
    /\ UNCHANGED <<deviceVars, ack, packetVars, dbVars, failures, drops, rolloutVars, overlap>>

\* "ON CONFLICT DO NOTHING" when the gateway is told to be idempotent.
InsertRow(r) ==
    rows' = IF idempotent /\ rows[r] > 0 THEN rows ELSE [rows EXCEPT ![r] = @ + 1]

SaveLocation_LiveOnce(r) ==
    InsertRow(r) /\ live' = IF Assigned /\ live = 0 THEN r ELSE live

\* save_location: the history row and the live position, in one statement.
\* A device without a vehicle has no live position; for any other the last
\* statement wins, whatever the timestamps.
SaveLocation(r) == InsertRow(r) /\ live' = IF Assigned THEN r ELSE live

\* Without ON CONFLICT the unique index refuses a row that is already there.
Conflicts(r) == uniqueIndex /\ ~idempotent /\ rows[r] > 0

\* A record without a fix, from the future or out of bounds is dealt with.
SkipRecord(s) ==
    /\ pc[s] = "record"
    /\ next[s] <= last[s]
    /\ next[s] \notin Storable
    /\ next' = [next EXCEPT ![s] = @ + 1]
    /\ UNCHANGED <<deviceVars, ack, pc, first, last, ignition,
                   lastIgnition, dbVars, failures, drops, rolloutVars, overlap>>

StoreRecord(s) ==
    /\ pc[s] = "record"
    /\ next[s] <= last[s]
    /\ next[s] \in Storable
    /\ ~Conflicts(next[s])
    /\ SaveLocation(next[s])
    /\ next' = [next EXCEPT ![s] = @ + 1]
    /\ UNCHANGED <<deviceVars, ack, pc, first, last, ignition,
                   lastIgnition, ignitionDb, failures, drops, rolloutVars, overlap>>

StoreFails_CountsRecord(s) ==
    /\ pc[s] = "record"
    /\ next[s] <= last[s]
    /\ next[s] \in Storable
    /\ pc' = [pc EXCEPT ![s] = "ack"]
    /\ next' = [next EXCEPT ![s] = @ + 1]
    /\ Raise
    /\ UNCHANGED <<deviceVars, ack, first, last, ignition, lastIgnition,
                   dbVars, drops, rolloutVars, overlap>>

\* The statement raised, applied or not: stop and acknowledge what is stored.
StoreFails(s) ==
    /\ pc[s] = "record"
    /\ next[s] <= last[s]
    /\ next[s] \in Storable
    /\ pc' = [pc EXCEPT ![s] = "ack"]
    /\ \/ /\ Conflicts(next[s])
          /\ UNCHANGED <<rows, live, failures>>
       \/ /\ ~Conflicts(next[s])
          /\ Raise
          /\ SaveLocation(next[s]) \/ UNCHANGED <<rows, live>>
    /\ UNCHANGED <<deviceVars, ack, packetVars, lastIgnition, ignitionDb, drops, rolloutVars, overlap>>

Accepted_OneShort(s) == IF next[s] > first[s] THEN next[s] - first[s] - 1 ELSE 0

\* The count of records accepted so far.
Accepted(s) == next[s] - first[s]

\* Answer; the socket of a session the device left takes no answer.
SendAck(s) ==
    /\ pc[s] = "ack" \/ (pc[s] = "record" /\ next[s] > last[s])
    /\ \/ /\ session = s
          /\ ack' = [ack EXCEPT ![s] = Accepted(s)]
          /\ pc' = [pc EXCEPT ![s] = "ready"]
       \/ /\ session # s
          /\ pc' = [pc EXCEPT ![s] = "free"]
          /\ UNCHANGED ack
    /\ UNCHANGED <<deviceVars, packetVars, lastIgnition, dbVars, failures, drops, rolloutVars, overlap>>
-----------------------------------------------------------------------------
(***************************************************************************)
(* The process and the schema.                                              *)
(***************************************************************************)
\* Connections, handlers at work and answers on their way end with the process.
Crash ==
    /\ session' = None
    /\ ack' = [s \in Sessions |-> None]
    /\ pc' = [s \in Sessions |-> "free"]
    /\ lastIgnition' = None
    /\ UNCHANGED <<waiting, deleted, packetVars, dbVars, overlap, failures, drops>>

Restart ==
    /\ restarts < MaxRestarts
    /\ restarts' = restarts + 1
    /\ Crash
    /\ UNCHANGED <<uniqueIndex, idempotent>>

RemoveDuplicates_AllCopies ==
    /\ ~uniqueIndex
    /\ \E r \in Records : rows[r] > 1
    /\ rows' = [r \in Records |-> IF rows[r] > 1 THEN 0 ELSE rows[r]]
    /\ UNCHANGED <<deviceVars, ack, pc, packetVars, lastIgnition, ignitionDb, live,
                   rolloutVars, overlap, failures, drops>>

\* Step 3: duplicates are removed, one row of each is kept.
RemoveDuplicates ==
    /\ ~uniqueIndex
    /\ \E r \in Records : rows[r] > 1
    /\ rows' = [r \in Records |-> IF rows[r] > 1 THEN 1 ELSE rows[r]]
    /\ UNCHANGED <<deviceVars, ack, pc, packetVars, lastIgnition, ignitionDb, live,
                   rolloutVars, overlap, failures, drops>>

\* Step 4: the index cannot be built over duplicates.
CreateIndex ==
    /\ ~uniqueIndex
    /\ \A r \in Records : rows[r] <= 1
    /\ uniqueIndex' = TRUE
    /\ UNCHANGED <<deviceVars, ack, pc, packetVars, lastIgnition, dbVars, idempotent,
                   restarts, overlap, failures, drops>>

\* Step 5: GPS_TRACKING_IDEMPOTENT=true, and the gateway is deployed anew.
DeployFlag ==
    /\ uniqueIndex
    /\ ~idempotent
    /\ idempotent' = TRUE
    /\ Crash
    /\ UNCHANGED <<uniqueIndex, restarts>>
-----------------------------------------------------------------------------
Handle(s) ==
    \/ RefreshStatus(s) \/ SetIgnition(s) \/ RememberIgnition(s)
    \/ SkipRecord(s) \/ StoreRecord(s) \/ StoreFails(s) \/ SendAck(s)

Device(s) ==
    \/ Connect(s)
    \/ \E k \in Records : Send(s, k)
    \/ ReceiveAck(s)

Next ==
    \/ \E s \in Sessions : Device(s) \/ SendGarbled(s) \/ Handle(s)
    \/ Drop
    \/ Restart \/ RemoveDuplicates \/ CreateIndex \/ DeployFlag

Spec == Init /\ [][Next]_vars

(***************************************************************************)
(* Handlers run to their end (database calls return or raise); a device     *)
(* with records left reconnects, sends, takes the answers it gets, and      *)
(* gives up a connection on which it waits in vain.  Connections are lost   *)
(* and database calls raise finitely often (MaxDrops, MaxFailures).  Once   *)
(* the index is there the flag is deployed ("immediately", step 5).         *)
(***************************************************************************)
Fairness ==
    /\ \A s \in Sessions : WF_vars(Handle(s)) /\ WF_vars(Device(s))
    /\ WF_vars(waiting /\ session # None /\ pc[session] = "ready"
                 /\ ack[session] = None /\ Drop)
    /\ WF_vars(DeployFlag)

FairSpec == Spec /\ Fairness
-----------------------------------------------------------------------------
(***************************************************************************)
(* The delivery guarantee (docs/teltonika.md): a record that the device has *)
(* deleted because the gateway acknowledged it is in the database, unless   *)
(* it was skipped on purpose; whatever is lost, repeated or fails on the    *)
(* way, and with handlers of old connections still at work.                 *)
(***************************************************************************)
NothingLost == \A r \in 1..deleted : r \in Storable => rows[r] > 0

(***************************************************************************)
(* The delivery implements an abstract queue: records are stored before the *)
(* device deletes them, in order, and what is stored stays - also through   *)
(* the removal of duplicates and with handlers of old connections that      *)
(* store again what the device has long deleted.                            *)
(***************************************************************************)
Queue == INSTANCE RecordQueue WITH stored <- {r \in Records : rows[r] > 0}

RefinesQueue == Queue!QueueSpec

(***************************************************************************)
(* The device gets rid of all its records: no partial acknowledgement, lost *)
(* answer, garbled packet, restart or refused resend makes it send the same *)
(* records for ever.                                                        *)
(***************************************************************************)
AllDelivered == <>(deleted = N)

(***************************************************************************)
(* The live position of a device with a vehicle is never behind what the    *)
(* device was told: it shows no record sent before a stored one that the    *)
(* device has deleted - through partial acknowledgements, lost answers,     *)
(* resends, restarts and refused resends, unless two handlers worked at the *)
(* same time.  In the order of sending, that is: see LiveIsLatest.          *)
(***************************************************************************)
LiveKeepsUp ==
    (Assigned /\ ~overlap) => \A r \in 1..deleted : rows[r] > 0 => r <= live

(***************************************************************************)
(* _refresh_status: the ignition is "written first, so the position saved   *)
(* right after carries the right IgnitionStatus", although it is written    *)
(* only when it differs from a value remembered over packets, lost          *)
(* connections and restarts.  It needs a database that does not fail and    *)
(* handlers that do not overlap.                                            *)
(***************************************************************************)
IgnitionRight ==
    \A s \in Sessions :
        (pc[s] = "record" /\ ignition[s] # None /\ ~overlap /\ failures = 0) =>
            ignitionDb = ignition[s]
-----------------------------------------------------------------------------
(***************************************************************************)
(* What the repository says and the code does not do.                       *)
(***************************************************************************)

\* docs/protocols.md: CurrentLocations holds the "latest position per device".
\* With everything delivered and no handler at work, no stored position is
\* newer than the one shown.  Violated as an invariant of TeltonikaRollout.
LiveIsLatest ==
    (Assigned /\ deleted = N /\ \A s \in Sessions : pc[s] \notin Working) =>
        \A r \in Records : rows[r] > 0 => live # 0 /\ Time[r] <= Time[live]
=============================================================================
