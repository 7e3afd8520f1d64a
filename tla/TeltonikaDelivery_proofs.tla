----------------------- MODULE TeltonikaDelivery_proofs -----------------------
(***************************************************************************)
(* The delivery guarantee of TeltonikaDelivery, for any number of records,  *)
(* sessions, failures and lost connections.                                 *)
(***************************************************************************)
EXTENDS TeltonikaDelivery, TLAPS

\* Record r needs no further attempt.
Settled(r) == r \in Storable => rows[r] > 0

\* A handler has a position in its packet, and what it counts is settled.
PacketSettled(s) ==
    pc[s] \in Working =>
        /\ first[s] <= next[s]
        /\ next[s] <= last[s] + 1
        /\ \A r \in Records : (first[s] <= r /\ r < next[s]) => Settled(r)

\* The packet of the session the device uses starts at its oldest record.
CurrentPacket(s) ==
    (session = s /\ pc[s] \in Working) =>
        first[s] = deleted + 1 /\ ack[s] = None /\ waiting

\* An answer on its way belongs to the session in use, finds its handler
\* idle, and covers settled records only.
AckSound(s) ==
    ack[s] # None =>
        /\ session = s /\ pc[s] = "ready" /\ waiting
        /\ deleted + ack[s] <= N
        /\ \A r \in Records : (deleted < r /\ r <= deleted + ack[s]) => Settled(r)

\* A handler that updates the ignition has one to write.
IgnitionKnown(s) == pc[s] \in {"ignition", "ignited"} => ignition[s] # None

SessionOK(s) == PacketSettled(s) /\ CurrentPacket(s) /\ AckSound(s) /\ IgnitionKnown(s)

\* The inductive invariant: NothingLost is not inductive without knowing that
\* the counts under way, in handlers and in answers, are of settled records.
DeliveryInv == TypeOK /\ NothingLost /\ \A s \in Sessions : SessionOK(s)

\* The steps of one session.
Steps(s) ==
    \/ Connect(s) \/ (\E k \in Records : Send(s, k)) \/ SendGarbled(s) \/ ReceiveAck(s)
    \/ RefreshStatus(s) \/ SetIgnition(s) \/ RememberIgnition(s)
    \/ SkipRecord(s) \/ StoreRecord(s) \/ StoreFails(s) \/ SendAck(s)

\* The steps of the process and the schema.
Rollout == Restart \/ RemoveDuplicates \/ CreateIndex \/ DeployFlag

\* Every step is one of the named actions.
LEMMA NextIsStep == Next => Drop \/ Rollout \/ \E s \in Sessions : Steps(s)
BY DEF Next, Device, Handle, Steps, Rollout

\* The ignition of a packet is one of the values records report.
LEMMA IgnitionType ==
    ASSUME TypeOK, NEW s \in Sessions
    PROVE  NewestIgnition(s) \in {"on", "off", None}
<1> DEFINE reporting == {r \in first[s]..last[s] : Ignition[r] # None}
           newest == {r \in reporting : \A q \in reporting : Time[q] <= Time[r]}
<1>1. \A r \in newest : r \in 1..N
    BY NAssumption DEF TypeOK, Records
<1>2. CASE newest = {}
    BY <1>2 DEF NewestIgnition
<1>3. CASE newest # {}
    <2>1. (CHOOSE r \in newest : TRUE) \in newest
        BY <1>3
    <2> HIDE DEF newest
    <2>2. Ignition[CHOOSE r \in newest : TRUE] \in {"on", "off", None}
        BY <1>1, <2>1, IgnitionAssumption
    <2> QED BY <1>3, <2>2 DEF NewestIgnition, newest
<1> QED BY <1>2, <1>3

\* Rows are only added: a settled record stays settled.
LEMMA InsertSettles ==
    ASSUME TypeOK, NEW q \in Records, InsertRow(q)
    PROVE  /\ rows' \in [Records -> Nat]
           /\ rows'[q] > 0
           /\ \A r \in Records : Settled(r) => Settled(r)'
BY DEF TypeOK, InsertRow, Settled

\* Every step of a session keeps what is settled settled.
LEMMA SettledStays ==
    ASSUME TypeOK, NEW s \in Sessions, Steps(s)
    PROVE  rows' \in [Records -> Nat] /\ \A r \in Records : Settled(r) => Settled(r)'
<1>1. CASE StoreRecord(s)
    <2>1. next[s] \in Records /\ InsertRow(next[s])
        BY <1>1, StorableAssumption DEF StoreRecord, SaveLocation, Records
    <2> QED BY <2>1, InsertSettles
<1>2. CASE StoreFails(s)
    <2>1. CASE rows' = rows
        BY <2>1 DEF TypeOK, Settled
    <2>2. CASE next[s] \in Records /\ InsertRow(next[s])
        BY <2>2, InsertSettles
    <2> QED
        BY <1>2, <2>1, <2>2, StorableAssumption DEF StoreFails, SaveLocation, Records
<1>3. CASE ~StoreRecord(s) /\ ~StoreFails(s)
    <2>1. rows' = rows
        BY <1>3 DEF Steps, Connect, Send, SendGarbled, ReceiveAck, RefreshStatus,
                    SetIgnition, RememberIgnition, SkipRecord, SendAck, dbVars, rolloutVars
    <2> QED BY <2>1 DEF TypeOK, Settled
<1> QED BY <1>1, <1>2, <1>3

\* A step of one session leaves the other sessions alone, and the device has
\* nothing to do with them or does not move.
LEMMA OthersUnmoved ==
    ASSUME TypeOK, NEW s \in Sessions, Steps(s), NEW t \in Sessions, t # s
    PROVE  /\ pc'[t] = pc[t] /\ ack'[t] = ack[t] /\ ignition'[t] = ignition[t]
           /\ first'[t] = first[t] /\ last'[t] = last[t] /\ next'[t] = next[t]
           /\ \/ session' = session /\ deleted' = deleted /\ waiting' = waiting
              \/ session # t /\ session' # t
<1> USE DEF TypeOK, deviceVars, packetVars, dbVars, rolloutVars
<1>1. CASE Connect(s) \/ SendGarbled(s) \/ ReceiveAck(s)
    BY <1>1, NoneAssumption DEF Connect, SendGarbled, ReceiveAck
<1>2. CASE \E k \in Records : Send(s, k)
    BY <1>2 DEF Send
<1>3. CASE RefreshStatus(s) \/ SetIgnition(s) \/ RememberIgnition(s)
    BY <1>3 DEF RefreshStatus, SetIgnition, RememberIgnition
<1>4. CASE SkipRecord(s) \/ StoreRecord(s) \/ StoreFails(s) \/ SendAck(s)
    BY <1>4 DEF SkipRecord, StoreRecord, StoreFails, SendAck
<1> QED BY <1>1, <1>2, <1>3, <1>4 DEF Steps

\* So what holds of another session goes on to hold.
LEMMA OthersOK ==
    ASSUME TypeOK, NEW s \in Sessions, Steps(s), NEW t \in Sessions, t # s, SessionOK(t)
    PROVE  SessionOK(t)'
<1>1. \A r \in Records : Settled(r) => Settled(r)'
    BY SettledStays
<1>2. /\ pc'[t] = pc[t] /\ ack'[t] = ack[t] /\ ignition'[t] = ignition[t]
      /\ first'[t] = first[t] /\ last'[t] = last[t] /\ next'[t] = next[t]
      /\ \/ session' = session /\ deleted' = deleted /\ waiting' = waiting
         \/ session # t /\ session' # t
    BY OthersUnmoved
<1> USE DEF SessionOK
<1>3. PacketSettled(t)'
    BY <1>1, <1>2 DEF PacketSettled
<1>4. CurrentPacket(t)'
    BY <1>2 DEF CurrentPacket
<1>5. AckSound(t)'
    BY <1>1, <1>2 DEF AckSound
<1>6. IgnitionKnown(t)'
    BY <1>2 DEF IgnitionKnown
<1> QED BY <1>3, <1>4, <1>5, <1>6

\* What a step of session s leaves or makes true of session s itself, action
\* by action.
LEMMA ConnectOK ==
    ASSUME DeliveryInv, NEW s \in Sessions, Connect(s)
    PROVE  TypeOK' /\ SessionOK(s)' /\ deleted' = deleted
<1> USE DEF DeliveryInv, Connect, packetVars, dbVars, rolloutVars
<1>1. TypeOK'
    BY DEF TypeOK
<1>2. ack[s] = None
    BY NoneAssumption DEF SessionOK, AckSound
<1>3. pc'[s] = "ready" /\ ack'[s] = None
    BY <1>2 DEF TypeOK
<1>4. SessionOK(s)'
    BY <1>3 DEF SessionOK, PacketSettled, CurrentPacket, AckSound, IgnitionKnown, Working
<1> QED BY <1>1, <1>4

LEMMA SendOK ==
    ASSUME DeliveryInv, NEW s \in Sessions, NEW k \in Records, Send(s, k)
    PROVE  TypeOK' /\ SessionOK(s)' /\ deleted' = deleted
<1> USE DEF DeliveryInv, Send, dbVars, rolloutVars
<1>1. deleted \in 0..N /\ k \in 1..N /\ deleted + 1 \in Records /\ deleted + 1 \in 1..(N + 1)
    BY NAssumption DEF TypeOK, Records
<1>2. TypeOK'
    <2>1. overlap' \in BOOLEAN
        BY Zenon
    <2> QED BY <1>1, <2>1 DEF TypeOK, Working
<1>3. ack[s] = None
    BY DEF SessionOK, AckSound
<1>4. /\ pc'[s] = "raw" /\ ack'[s] = None /\ waiting' /\ deleted' = deleted
      /\ first'[s] = deleted + 1 /\ next'[s] = deleted + 1 /\ last'[s] = k
    BY <1>3 DEF TypeOK
<1>5. PacketSettled(s)'
    BY <1>1, <1>4 DEF PacketSettled, Records
<1>6. CurrentPacket(s)' /\ AckSound(s)' /\ IgnitionKnown(s)'
    BY <1>4 DEF CurrentPacket, AckSound, IgnitionKnown
<1> QED BY <1>2, <1>4, <1>5, <1>6 DEF SessionOK

LEMMA SendGarbledOK ==
    ASSUME DeliveryInv, NEW s \in Sessions, SendGarbled(s)
    PROVE  TypeOK' /\ SessionOK(s)' /\ deleted' = deleted
<1> USE DEF DeliveryInv, SendGarbled, packetVars, dbVars, rolloutVars
<1>1. TypeOK'
    BY DEF TypeOK
<1>2. SessionOK(s)
    OBVIOUS
<1>3. SessionOK(s)'
    BY <1>2 DEF SessionOK, PacketSettled, CurrentPacket, AckSound, IgnitionKnown, Working, Settled
<1> QED BY <1>1, <1>3

\* The only step that deletes records: they are the settled ones the answer
\* covers.
LEMMA ReceiveAckOK ==
    ASSUME DeliveryInv, NEW s \in Sessions, ReceiveAck(s)
    PROVE  TypeOK' /\ SessionOK(s)' /\ NothingLost'
<1> USE DEF DeliveryInv, ReceiveAck, packetVars, dbVars, rolloutVars
<1>1. /\ ack[s] \in 0..N /\ deleted + ack[s] <= N /\ deleted \in 0..N
      /\ \A r \in Records : (deleted < r /\ r <= deleted + ack[s]) => Settled(r)
    BY DEF TypeOK, SessionOK, AckSound
<1>2. deleted' \in 0..N
    BY <1>1, NAssumption
<1>3. TypeOK'
    BY <1>2 DEF TypeOK
<1>4. NothingLost'
    <2>1. SUFFICES ASSUME NEW r \in 1..(deleted + ack[s]), r \in Storable
                   PROVE  rows[r] > 0
        BY DEF NothingLost
    <2>2. r \in Records
        BY <2>1, StorableAssumption DEF Records
    <2>3. CASE r <= deleted
        BY <1>1, <2>1, <2>3 DEF NothingLost
    <2>4. CASE deleted < r
        BY <1>1, <2>1, <2>2, <2>4 DEF Settled
    <2> QED BY <1>1, <2>1, <2>3, <2>4
<1>5. pc'[s] = "ready" /\ ack'[s] = None
    BY DEF TypeOK, SessionOK, AckSound
<1>6. SessionOK(s)'
    BY <1>5 DEF SessionOK, PacketSettled, CurrentPacket, AckSound, IgnitionKnown, Working
<1> QED BY <1>3, <1>4, <1>6

\* A handler step that keeps its packet, its position and the answer, and
\* stays at work, keeps what is known of the session.
LEMMA StaysAtWork ==
    ASSUME NEW s \in Sessions, SessionOK(s), pc[s] \in Working, pc'[s] \in Working,
           \A r \in Records : Settled(r) => Settled(r)',
           first'[s] = first[s], last'[s] = last[s], next'[s] = next[s],
           ack' = ack, UNCHANGED deviceVars, IgnitionKnown(s)'
    PROVE  SessionOK(s)'
<1> USE DEF SessionOK, deviceVars
<1>1. PacketSettled(s)'
    BY DEF PacketSettled
<1>2. CurrentPacket(s)'
    BY DEF CurrentPacket
<1>3. ack[s] = None
    BY DEF AckSound, Working
<1>4. AckSound(s)'
    BY <1>3 DEF AckSound
<1> QED BY <1>1, <1>2, <1>4

LEMMA IgnitionStepsOK ==
    ASSUME DeliveryInv, NEW s \in Sessions,
           RefreshStatus(s) \/ SetIgnition(s) \/ RememberIgnition(s)
    PROVE  TypeOK' /\ SessionOK(s)' /\ deleted' = deleted
<1>1. TypeOK /\ SessionOK(s)
    BY DEF DeliveryInv
<1>2. NewestIgnition(s) \in {"on", "off", None}
    BY <1>1, IgnitionType
<1>3. \A r \in Records : Settled(r) => Settled(r)'
    BY <1>1, SettledStays DEF Steps
<1>4. CASE RefreshStatus(s)
    <2> USE <1>4 DEF RefreshStatus, deviceVars, dbVars, rolloutVars
    <2>1. TypeOK'
        BY <1>1, <1>2 DEF TypeOK, Working
    <2>2. /\ pc'[s] \in {"ignition", "record"} /\ ignition'[s] = NewestIgnition(s)
          /\ pc'[s] = "ignition" => IgnitionChanged(NewestIgnition(s))
        BY <1>1 DEF TypeOK
    <2>3. IgnitionKnown(s)'
        BY <2>2 DEF IgnitionKnown, IgnitionChanged
    <2>4. SessionOK(s)'
        BY <1>1, <1>3, <2>2, <2>3, StaysAtWork DEF Working
    <2> QED BY <2>1, <2>4
<1>5. CASE SetIgnition(s)
    <2> USE <1>5 DEF SetIgnition, deviceVars, rolloutVars
    <2>1. ignition[s] # None /\ ignition[s] \in {"on", "off"}
        BY <1>1 DEF SessionOK, IgnitionKnown, TypeOK
    <2>2. ignitionDb' \in {"on", "off"} /\ failures' \in 0..MaxFailures
        BY <1>1, <2>1, BoundsAssumption DEF TypeOK, Raise
    <2>4. TypeOK'
        BY <1>1, <2>2 DEF TypeOK, Working
    <2>5. pc'[s] = "ignited" /\ ignition'[s] = ignition[s]
        BY <1>1 DEF TypeOK
    <2>6. IgnitionKnown(s)'
        BY <2>1, <2>5 DEF IgnitionKnown
    <2>7. SessionOK(s)'
        BY <1>1, <1>3, <2>5, <2>6, StaysAtWork DEF Working
    <2> QED BY <2>4, <2>7
<1>6. CASE RememberIgnition(s)
    <2> USE <1>6 DEF RememberIgnition, deviceVars, packetVars, dbVars, rolloutVars
    <2>1. TypeOK'
        BY <1>1 DEF TypeOK, Working
    <2>2. pc'[s] = "record"
        BY <1>1 DEF TypeOK
    <2>3. IgnitionKnown(s)'
        BY <2>2 DEF IgnitionKnown
    <2>4. SessionOK(s)'
        BY <1>1, <1>3, <2>2, <2>3, StaysAtWork DEF Working
    <2> QED BY <2>1, <2>4
<1> QED BY <1>4, <1>5, <1>6

\* Going on to the next record counts a record that is settled by then.
LEMMA RecordCounted ==
    ASSUME DeliveryInv, NEW s \in Sessions, SkipRecord(s) \/ StoreRecord(s)
    PROVE  TypeOK' /\ SessionOK(s)' /\ deleted' = deleted
<1> USE DEF deviceVars, rolloutVars
<1>1. TypeOK /\ SessionOK(s)
    BY DEF DeliveryInv
<1>2. rows' \in [Records -> Nat] /\ \A r \in Records : Settled(r) => Settled(r)'
    BY <1>1, SettledStays DEF Steps
<1>3. /\ pc[s] = "record" /\ next[s] <= last[s] /\ next' = [next EXCEPT ![s] = @ + 1]
      /\ UNCHANGED <<session, waiting, deleted, ack, pc, first, last, ignition,
                     lastIgnition, ignitionDb, failures, drops, overlap, rolloutVars>>
    BY DEF SkipRecord, StoreRecord, dbVars, rolloutVars
<1>4. next[s] \in Records /\ next[s] \in Nat /\ last[s] \in 1..N /\ first[s] \in 1..N
    BY <1>1, <1>3, NAssumption DEF TypeOK, Records
<1>5. \A r \in Records : r = next[s] => Settled(r)'
    <2>1. CASE SkipRecord(s)
        BY <2>1 DEF SkipRecord, Settled
    <2>2. CASE StoreRecord(s)
        <3>1. InsertRow(next[s])
            BY <2>2 DEF StoreRecord, SaveLocation
        <3>2. rows'[next[s]] > 0
            BY <1>1, <1>4, <3>1, InsertSettles
        <3> QED BY <3>2 DEF Settled
    <2> QED BY <2>1, <2>2
<1>6. live' \in 0..N
    BY <1>1, <1>4 DEF SkipRecord, StoreRecord, SaveLocation, TypeOK, dbVars, rolloutVars, Records
<1>7. next' \in [Sessions -> 1..(N + 1)] /\ next'[s] = next[s] + 1
    BY <1>1, <1>3, <1>4, NAssumption DEF TypeOK
<1>8. TypeOK'
    BY <1>1, <1>2, <1>3, <1>6, <1>7 DEF TypeOK
<1>9. PacketSettled(s)'
    BY <1>1, <1>2, <1>3, <1>4, <1>5, <1>7 DEF SessionOK, PacketSettled, Working, Records
<1>10. CurrentPacket(s)' /\ IgnitionKnown(s)'
    BY <1>1, <1>3 DEF SessionOK, CurrentPacket, IgnitionKnown
<1>11. AckSound(s)'
    BY <1>1, <1>3 DEF SessionOK, AckSound
<1> QED BY <1>3, <1>8, <1>9, <1>10, <1>11 DEF SessionOK

LEMMA StoreFailsOK ==
    ASSUME DeliveryInv, NEW s \in Sessions, StoreFails(s)
    PROVE  TypeOK' /\ SessionOK(s)' /\ deleted' = deleted
<1> USE DEF deviceVars, packetVars, rolloutVars
<1>1. TypeOK /\ SessionOK(s)
    BY DEF DeliveryInv
<1>2. rows' \in [Records -> Nat] /\ \A r \in Records : Settled(r) => Settled(r)'
    BY <1>1, SettledStays DEF Steps
<1>3. next[s] \in 1..N
    BY StorableAssumption DEF StoreFails
<1>4. live' \in 0..N /\ failures' \in 0..MaxFailures
    BY <1>1, <1>3, BoundsAssumption DEF StoreFails, SaveLocation, Raise, TypeOK
<1>5. pc' \in [Sessions -> Working \cup {"free", "ready"}] /\ pc'[s] = "ack"
    BY <1>1 DEF StoreFails, TypeOK, Working
<1>6. TypeOK'
    BY <1>1, <1>2, <1>4, <1>5 DEF StoreFails, TypeOK
<1>7. IgnitionKnown(s)'
    BY <1>5 DEF IgnitionKnown
<1>8. SessionOK(s)'
    BY <1>1, <1>2, <1>5, <1>7, StaysAtWork DEF StoreFails, Working
<1> QED BY <1>6, <1>8 DEF StoreFails

\* The answer counts the settled records of the packet.
LEMMA SendAckOK ==
    ASSUME DeliveryInv, NEW s \in Sessions, SendAck(s)
    PROVE  TypeOK' /\ SessionOK(s)' /\ deleted' = deleted
<1> USE DEF deviceVars, packetVars, dbVars, rolloutVars
<1>1. TypeOK /\ SessionOK(s) /\ pc[s] \in Working /\ deleted \in 0..N
    BY DEF DeliveryInv, SendAck, Working, TypeOK
<1>2. /\ first[s] \in 1..N /\ last[s] \in 1..N /\ next[s] \in 1..(N + 1)
      /\ first[s] <= next[s] /\ next[s] <= last[s] + 1
      /\ \A r \in Records : (first[s] <= r /\ r < next[s]) => Settled(r)
    BY <1>1 DEF TypeOK, SessionOK, PacketSettled, Records
<1>3. Accepted(s) \in 0..N /\ Accepted(s) = next[s] - first[s]
    BY <1>2, NAssumption DEF Accepted
<1>4. CASE session = s
    <2>1. /\ ack' = [ack EXCEPT ![s] = Accepted(s)] /\ pc' = [pc EXCEPT ![s] = "ready"]
          /\ UNCHANGED <<session, waiting, deleted, first, last, next, ignition, rows>>
        BY <1>4 DEF SendAck
    <2>2. TypeOK'
        BY <1>1, <1>3, <2>1 DEF TypeOK, SendAck
    <2>3. pc'[s] = "ready" /\ ack'[s] = next[s] - first[s] /\ session' = s
        BY <1>1, <1>3, <1>4, <2>1 DEF TypeOK
    <2>4. first[s] = deleted + 1 /\ waiting
        BY <1>1, <1>4 DEF SessionOK, CurrentPacket
    <2>5. \A r \in Records : (deleted' < r /\ r <= deleted' + ack'[s]) => Settled(r)'
        BY <1>1, <1>2, <2>1, <2>3, <2>4 DEF Settled, Records
    <2>6. waiting' /\ deleted' + ack'[s] <= N
        BY <1>1, <1>2, <2>1, <2>3, <2>4, NAssumption
    <2>7. AckSound(s)'
        BY <2>3, <2>5, <2>6 DEF AckSound
    <2>8. PacketSettled(s)' /\ CurrentPacket(s)' /\ IgnitionKnown(s)'
        BY <2>3 DEF PacketSettled, CurrentPacket, IgnitionKnown, Working
    <2> QED BY <2>1, <2>2, <2>7, <2>8 DEF SessionOK
<1>5. CASE session # s
    <2>1. ack' = ack /\ pc' = [pc EXCEPT ![s] = "free"]
        BY <1>5 DEF SendAck
    <2>2. TypeOK'
        BY <1>1, <2>1 DEF TypeOK, SendAck
    <2>3. pc'[s] = "free" /\ ack'[s] = None
        BY <1>1, <1>5, <2>1 DEF TypeOK, SessionOK, AckSound
    <2>4. SessionOK(s)'
        BY <2>3 DEF SessionOK, PacketSettled, CurrentPacket, AckSound, IgnitionKnown, Working
    <2> QED BY <2>2, <2>4 DEF SendAck
<1> QED BY <1>4, <1>5

\* Losing the connection loses the answer on its way, and nothing else.
LEMMA DropOK ==
    ASSUME DeliveryInv, Drop
    PROVE  DeliveryInv'
<1> USE DEF packetVars, dbVars, rolloutVars
<1>1. TypeOK /\ session \in Sessions /\ session' = None /\ deleted' = deleted /\ rows' = rows
    BY DEF DeliveryInv, Drop, TypeOK
<1>2. TypeOK'
    <2>1. drops' \in 0..MaxDrops
        BY <1>1, BoundsAssumption DEF Drop, TypeOK
    <2> QED BY <1>1, <2>1 DEF Drop, TypeOK
<1>3. NothingLost'
    BY <1>1 DEF DeliveryInv, NothingLost
<1>4. ASSUME NEW t \in Sessions
      PROVE  SessionOK(t)'
    <2>1. SessionOK(t) /\ t # None
        BY NoneAssumption DEF DeliveryInv
    <2>2. /\ pc'[t] = pc[t] \/ (pc'[t] = "free" /\ pc[t] = "ready")
          /\ first'[t] = first[t] /\ last'[t] = last[t] /\ next'[t] = next[t]
          /\ ignition'[t] = ignition[t]
          /\ ack'[t] = None
        BY <1>1, <2>1 DEF Drop, TypeOK, SessionOK, AckSound
    <2>3. PacketSettled(t)'
        BY <1>1, <2>1, <2>2 DEF SessionOK, PacketSettled, Working, Settled
    <2>4. CurrentPacket(t)' /\ AckSound(t)' /\ IgnitionKnown(t)'
        BY <1>1, <2>1, <2>2 DEF SessionOK, CurrentPacket, AckSound, IgnitionKnown
    <2> QED BY <2>3, <2>4 DEF SessionOK
<1> QED BY <1>2, <1>3, <1>4 DEF DeliveryInv

\* A restart loses connections, answers and handlers at work; no count that was
\* under way is left, and the database is as it was.
LEMMA CrashOK ==
    ASSUME DeliveryInv, Crash, {uniqueIndex', idempotent'} \subseteq BOOLEAN,
           restarts' \in 0..MaxRestarts
    PROVE  DeliveryInv'
<1> USE DEF packetVars, dbVars
<1>1. TypeOK'
    BY DEF DeliveryInv, TypeOK, Crash
<1>2. NothingLost'
    BY DEF DeliveryInv, NothingLost, Crash
<1>3. ASSUME NEW t \in Sessions
      PROVE  SessionOK(t)'
    <2>1. pc'[t] = "free" /\ ack'[t] = None
        BY DEF Crash
    <2> QED
        BY <2>1 DEF SessionOK, PacketSettled, CurrentPacket, AckSound, IgnitionKnown, Working
<1> QED BY <1>1, <1>2, <1>3 DEF DeliveryInv

\* Removing duplicates keeps a row of every record that has one.
LEMMA RemoveDuplicatesOK ==
    ASSUME DeliveryInv, RemoveDuplicates
    PROVE  DeliveryInv'
<1> USE DEF deviceVars, packetVars, rolloutVars
<1>1. TypeOK /\ rows \in [Records -> Nat]
    BY DEF DeliveryInv, TypeOK
<1>2. \A r \in Records : rows'[r] \in Nat /\ (rows[r] > 0 => rows'[r] > 0)
    BY <1>1 DEF RemoveDuplicates
<1>3. TypeOK'
    BY <1>1, <1>2 DEF TypeOK, RemoveDuplicates
<1>4. \A r \in Records : Settled(r) => Settled(r)'
    BY <1>2 DEF Settled
<1>5. NothingLost'
    <2>1. \A r \in 1..deleted : r \in Records
        BY <1>1, NAssumption DEF TypeOK, Records
    <2> QED BY <1>2, <2>1 DEF DeliveryInv, NothingLost, RemoveDuplicates
<1>6. ASSUME NEW t \in Sessions
      PROVE  SessionOK(t)'
    <2>1. SessionOK(t)
        BY DEF DeliveryInv
    <2>2. UNCHANGED <<session, waiting, deleted, ack, pc, first, last, next, ignition>>
        BY DEF RemoveDuplicates
    <2>3. PacketSettled(t)'
        BY <1>4, <2>1, <2>2 DEF SessionOK, PacketSettled
    <2>4. AckSound(t)'
        BY <1>4, <2>1, <2>2 DEF SessionOK, AckSound
    <2>5. CurrentPacket(t)' /\ IgnitionKnown(t)'
        BY <2>1, <2>2 DEF SessionOK, CurrentPacket, IgnitionKnown
    <2> QED BY <2>3, <2>4, <2>5 DEF SessionOK
<1> QED BY <1>3, <1>5, <1>6 DEF DeliveryInv

LEMMA CreateIndexOK ==
    ASSUME DeliveryInv, CreateIndex
    PROVE  DeliveryInv'
<1> USE DEF deviceVars, packetVars, dbVars, CreateIndex
<1>1. TypeOK'
    BY DEF DeliveryInv, TypeOK
<1>2. NothingLost'
    BY DEF DeliveryInv, NothingLost
<1>3. ASSUME NEW t \in Sessions
      PROVE  SessionOK(t)'
    <2>1. SessionOK(t)
        BY DEF DeliveryInv
    <2> QED
        BY <2>1 DEF SessionOK, PacketSettled, CurrentPacket, AckSound, IgnitionKnown, Settled
<1> QED BY <1>1, <1>2, <1>3 DEF DeliveryInv

LEMMA RolloutOK ==
    ASSUME DeliveryInv, Rollout
    PROVE  DeliveryInv'
<1>1. CASE Restart
    <2>1. Crash /\ {uniqueIndex', idempotent'} \subseteq BOOLEAN /\ restarts' \in 0..MaxRestarts
        BY <1>1, BoundsAssumption DEF Restart, DeliveryInv, TypeOK
    <2> QED BY <2>1, CrashOK
<1>2. CASE DeployFlag
    <2>1. Crash /\ {uniqueIndex', idempotent'} \subseteq BOOLEAN /\ restarts' \in 0..MaxRestarts
        BY <1>2 DEF DeployFlag, DeliveryInv, TypeOK
    <2> QED BY <2>1, CrashOK
<1> QED BY <1>1, <1>2, RemoveDuplicatesOK, CreateIndexOK DEF Rollout

LEMMA InitOK == Init => DeliveryInv
<1> SUFFICES ASSUME Init PROVE DeliveryInv
    OBVIOUS
<1> USE DEF Init
<1>1. TypeOK
    <2>1. 0 \in 0..N /\ 1 \in Records /\ 1 \in 1..(N + 1)
        BY NAssumption DEF Records
    <2>2. 0 \in 0..MaxFailures /\ 0 \in 0..MaxDrops /\ 0 \in 0..MaxRestarts
        BY BoundsAssumption
    <2>3. /\ ack \in [Sessions -> 0..N \cup {None}]
          /\ pc \in [Sessions -> Working \cup {"free", "ready"}]
          /\ ignition \in [Sessions -> {"on", "off", None}]
          /\ rows \in [Records -> Nat]
        OBVIOUS
    <2>4. /\ first \in [Sessions -> Records] /\ last \in [Sessions -> Records]
          /\ next \in [Sessions -> 1..(N + 1)]
        BY <2>1
    <2> QED BY <2>1, <2>2, <2>3, <2>4 DEF TypeOK
<1>2. NothingLost
    BY DEF NothingLost
<1>3. ASSUME NEW s \in Sessions
      PROVE  SessionOK(s)
    <2>1. pc[s] = "free" /\ ack[s] = None
        OBVIOUS
    <2> QED
        BY <2>1 DEF SessionOK, PacketSettled, CurrentPacket, AckSound, IgnitionKnown, Working
<1> QED BY <1>1, <1>2, <1>3 DEF DeliveryInv

LEMMA StepOK ==
    ASSUME DeliveryInv, NEW s \in Sessions, Steps(s)
    PROVE  DeliveryInv'
<1>1. TypeOK' /\ SessionOK(s)' /\ (deleted' = deleted \/ NothingLost')
    <2>1. CASE Connect(s) \/ SendGarbled(s) \/ ReceiveAck(s)
        BY <2>1, ConnectOK, SendGarbledOK, ReceiveAckOK
    <2>2. CASE \E k \in Records : Send(s, k)
        BY <2>2, SendOK
    <2>3. CASE RefreshStatus(s) \/ SetIgnition(s) \/ RememberIgnition(s)
        BY <2>3, IgnitionStepsOK
    <2>4. CASE SkipRecord(s) \/ StoreRecord(s) \/ StoreFails(s) \/ SendAck(s)
        BY <2>4, RecordCounted, StoreFailsOK, SendAckOK
    <2> QED BY <2>1, <2>2, <2>3, <2>4 DEF Steps
<1>2. \A t \in Sessions : SessionOK(t)'
    <2>1. ASSUME NEW t \in Sessions, t # s
          PROVE  SessionOK(t)'
        BY <2>1, OthersOK DEF DeliveryInv
    <2> QED BY <1>1, <2>1
<1>3. NothingLost'
    <2>1. CASE deleted' = deleted
        <3>1. TypeOK /\ NothingLost
            BY DEF DeliveryInv
        <3>2. \A r \in Records : Settled(r) => Settled(r)'
            BY <3>1, SettledStays
        <3>3. \A r \in 1..deleted : r \in Records
            BY <3>1, NAssumption DEF TypeOK, Records
        <3> QED BY <2>1, <3>1, <3>2, <3>3 DEF NothingLost, Settled
    <2> QED BY <1>1, <2>1
<1> QED BY <1>1, <1>2, <1>3 DEF DeliveryInv

(***************************************************************************)
(* The counts under way, in handlers and in answers, are always counts of   *)
(* records that need no further attempt.                                    *)
(***************************************************************************)
THEOREM DeliveryInvariant == Spec => []DeliveryInv
<1>1. Init => DeliveryInv
    BY InitOK
<1>2. DeliveryInv /\ [Next]_vars => DeliveryInv'
    <2> SUFFICES ASSUME DeliveryInv, [Next]_vars
                 PROVE  DeliveryInv'
        OBVIOUS
    <2>1. CASE Next
        BY <2>1, NextIsStep, StepOK, DropOK, RolloutOK
    <2>2. CASE UNCHANGED vars
        BY <2>2 DEF vars, deviceVars, packetVars, dbVars, rolloutVars, DeliveryInv, TypeOK,
                    NothingLost, SessionOK, PacketSettled, CurrentPacket, AckSound,
                    IgnitionKnown, Settled
    <2> QED BY <2>1, <2>2
<1> QED BY <1>1, <1>2, PTL DEF Spec

(***************************************************************************)
(* Every variable of the delivery model keeps its type.                     *)
(***************************************************************************)
THEOREM DeliveryTypeCorrect == Spec => []TypeOK
<1>1. DeliveryInv => TypeOK
    BY DEF DeliveryInv
<1> QED BY <1>1, DeliveryInvariant, PTL

(***************************************************************************)
(* A record the device deletes on the gateway's acknowledgement is stored,  *)
(* or was skipped on purpose (_handle_avl's partial count), for any number  *)
(* of records, overlapping sessions, lost answers and failing statements.   *)
(***************************************************************************)
THEOREM AcknowledgedIsStored == Spec => []NothingLost
<1>1. DeliveryInv => NothingLost
    BY DEF DeliveryInv
<1> QED BY <1>1, DeliveryInvariant, PTL

-----------------------------------------------------------------------------
(***************************************************************************)
(* The abstract queue.                                                      *)
(***************************************************************************)
StoredRecords == {r \in Records : rows[r] > 0}

\* A row that is inserted is of a record the device still holds, or is there
\* already: what the device has deleted is settled.
LEMMA InsertRefines ==
    ASSUME DeliveryInv, NEW q \in Storable, InsertRow(q), UNCHANGED deleted
    PROVE  Queue!Store(q) \/ UNCHANGED Queue!queueVars
<1>1. rows \in [Records -> Nat] /\ deleted \in 0..N /\ q \in Records
    BY StorableAssumption DEF DeliveryInv, TypeOK, Records
<1>2. StoredRecords' = StoredRecords \cup {q}
    BY <1>1 DEF InsertRow, StoredRecords
<1>3. q <= deleted => q \in StoredRecords
    BY <1>1 DEF DeliveryInv, NothingLost, StoredRecords, Records
<1> QED BY <1>1, <1>2, <1>3 DEF Queue!Store, Queue!queueVars, StoredRecords, Records

\* A step of a session stores a record, deletes what an answer covers, or is
\* not seen.
LEMMA StepRefines ==
    ASSUME DeliveryInv, NEW s \in Sessions, Steps(s)
    PROVE  Queue!QueueNext \/ UNCHANGED Queue!queueVars
<1>1. CASE StoreRecord(s) \/ StoreFails(s)
    <2>1. UNCHANGED deleted
        BY <1>1 DEF StoreRecord, StoreFails, deviceVars
    <2>2. CASE rows' = rows
        BY <2>1, <2>2 DEF Queue!queueVars
    <2>3. CASE next[s] \in Storable /\ InsertRow(next[s])
        BY <2>1, <2>3, InsertRefines DEF Queue!QueueNext
    <2> QED BY <1>1, <2>2, <2>3 DEF StoreRecord, StoreFails, SaveLocation
<1>2. CASE ReceiveAck(s)
    <2>1. /\ deleted' = deleted + ack[s] /\ rows' = rows
          /\ ack[s] \in 0..N /\ deleted \in 0..N /\ deleted + ack[s] <= N
          /\ \A r \in Records : (deleted < r /\ r <= deleted + ack[s]) => Settled(r)
        BY <1>2 DEF ReceiveAck, DeliveryInv, TypeOK, SessionOK, AckSound, dbVars
    <2>2. CASE ack[s] = 0
        BY <2>1, <2>2 DEF Queue!queueVars
    <2>3. CASE ack[s] # 0
        <3>1. deleted + ack[s] \in 1..N /\ deleted + ack[s] > deleted
            BY <2>1, <2>3, NAssumption
        <3>2. \A r \in Storable : (deleted < r /\ r <= deleted + ack[s]) => r \in StoredRecords
            BY <2>1, StorableAssumption DEF Settled, StoredRecords, Records
        <3>3. Queue!Delete(deleted + ack[s])
            BY <2>1, <3>1, <3>2 DEF Queue!Delete, StoredRecords
        <3> QED BY <3>1, <3>3 DEF Queue!QueueNext
    <2> QED BY <2>2, <2>3
<1>3. CASE ~StoreRecord(s) /\ ~StoreFails(s) /\ ~ReceiveAck(s)
    <2>1. rows' = rows /\ deleted' = deleted
        BY <1>3 DEF Steps, Connect, Send, SendGarbled, RefreshStatus, SetIgnition,
                    RememberIgnition, SkipRecord, SendAck, deviceVars, dbVars
    <2> QED BY <2>1 DEF Queue!queueVars
<1> QED BY <1>1, <1>2, <1>3

(***************************************************************************)
(* _handle_avl, save_location and the device implement RecordQueue: records *)
(* are deleted in order and only when stored, and no restart, resend or     *)
(* removal of duplicates takes a stored record away.                        *)
(***************************************************************************)
THEOREM ImplementsQueue == Spec => RefinesQueue
<1>1. Init => Queue!QueueInit
    BY DEF Init, Queue!QueueInit
<1>2. DeliveryInv /\ [Next]_vars => [Queue!QueueNext]_(Queue!queueVars)
    <2> SUFFICES ASSUME DeliveryInv, [Next]_vars
                 PROVE  Queue!QueueNext \/ UNCHANGED Queue!queueVars
        BY DEF Queue!queueVars
    <2>1. CASE \E s \in Sessions : Steps(s)
        BY <2>1, StepRefines
    <2>2. CASE RemoveDuplicates
        <3>1. StoredRecords' = StoredRecords /\ deleted' = deleted
            BY <2>2 DEF RemoveDuplicates, StoredRecords, DeliveryInv, TypeOK, deviceVars
        <3> QED BY <3>1 DEF StoredRecords, Queue!queueVars
    <2>3. CASE Drop \/ Restart \/ CreateIndex \/ DeployFlag \/ UNCHANGED vars
        <3>1. rows' = rows /\ deleted' = deleted
            BY <2>3 DEF Drop, Restart, CreateIndex, DeployFlag, Crash, vars, deviceVars, dbVars
        <3> QED BY <3>1 DEF Queue!queueVars
    <2> QED BY <2>1, <2>2, <2>3, NextIsStep DEF Rollout
<1> QED BY <1>1, <1>2, DeliveryInvariant, PTL DEF Spec, RefinesQueue, Queue!QueueSpec
-----------------------------------------------------------------------------
(***************************************************************************)
(* One handler at a time.                                                   *)
(***************************************************************************)

\* While handlers never overlapped, the one at work has the device's oldest
\* records, and no answer is on its way.
OneAtWork ==
    \A s, t \in Sessions : pc[s] \in Working =>
        (pc[t] \in Working => t = s) /\ ack[t] = None /\ first[s] = deleted + 1

OneInv == ~overlap => OneAtWork

LEMMA StepKeepsOne ==
    ASSUME DeliveryInv, OneInv, NEW s \in Sessions, Steps(s)
    PROVE  OneInv'
<1> SUFFICES ASSUME ~overlap', NEW t \in Sessions, NEW u \in Sessions, pc'[t] \in Working
             PROVE  (pc'[u] \in Working => u = t) /\ ack'[u] = None /\ first'[t] = deleted' + 1
    BY DEF OneInv, OneAtWork
<1>1. TypeOK /\ SessionOK(s) /\ \A v \in Sessions : AckSound(v)
    BY DEF DeliveryInv, SessionOK
<1>2. CASE \E k \in Records : Send(s, k)
    <2>1. /\ \A v \in Sessions : pc[v] \notin Working
          /\ session = s /\ ~waiting /\ ack' = ack /\ deleted' = deleted
          /\ pc' = [pc EXCEPT ![s] = "raw"] /\ first' = [first EXCEPT ![s] = deleted + 1]
        BY <1>2 DEF Send
    <2>2. t = s /\ (pc'[u] \in Working => u = s)
        BY <1>1, <2>1 DEF TypeOK
    <2>3. ack[u] = None
        BY <1>1, <2>1 DEF AckSound
    <2> QED BY <1>1, <2>1, <2>2, <2>3 DEF TypeOK
<1>3. ASSUME ~(\E k \in Records : Send(s, k))
      PROVE  overlap' = overlap
    BY <1>3 DEF Steps, Connect, SendGarbled, ReceiveAck, RefreshStatus, SetIgnition,
                RememberIgnition, SkipRecord, StoreRecord, StoreFails, SendAck
<1>4. CASE Connect(s) \/ SendGarbled(s) \/ ReceiveAck(s)
    <2>1. /\ ~overlap /\ OneAtWork
          /\ \A v \in Sessions : pc'[v] \in Working => pc[v] \in Working
          /\ first' = first
          /\ (ack' = ack /\ deleted' = deleted) \/ ack[s] # None
        BY <1>1, <1>3, <1>4 DEF Connect, SendGarbled, ReceiveAck, Send, OneInv, TypeOK, Working,
                                packetVars
    <2> QED BY <2>1 DEF OneAtWork
<1>5. CASE \/ RefreshStatus(s) \/ SetIgnition(s) \/ RememberIgnition(s)
           \/ SkipRecord(s) \/ StoreRecord(s) \/ StoreFails(s) \/ SendAck(s)
    <2>1. ~(\E k \in Records : Send(s, k)) /\ pc[s] \in Working
        BY <1>5 DEF Send, RefreshStatus, SetIgnition, RememberIgnition, SkipRecord, StoreRecord,
                    StoreFails, SendAck, Working
    <2>2. ~overlap /\ OneAtWork
        BY <1>3, <2>1 DEF OneInv
    <2>3. \A v \in Sessions : v # s => pc'[v] = pc[v]
        BY <1>1, OthersUnmoved
    <2>4. t = s /\ (pc'[u] \in Working => u = s)
        BY <2>1, <2>2, <2>3 DEF OneAtWork
    <2>5. ~SendAck(s)
        BY <1>1, <2>4 DEF SendAck, TypeOK, Working
    <2>6. ack' = ack /\ first' = first /\ deleted' = deleted
        BY <1>5, <2>5 DEF RefreshStatus, SetIgnition, RememberIgnition, SkipRecord, StoreRecord,
                          StoreFails, deviceVars, packetVars
    <2> QED BY <2>1, <2>2, <2>4, <2>6 DEF OneAtWork
<1> QED BY <1>2, <1>4, <1>5 DEF Steps

\* The other steps: a lost connection, a restart, the schema.
LEMMA RestKeepsOne ==
    ASSUME DeliveryInv, OneInv, Drop \/ Rollout \/ UNCHANGED vars
    PROVE  OneInv'
<1> USE DEF packetVars
<1>1. CASE Drop
    <2>1. /\ overlap' = overlap /\ first' = first /\ deleted' = deleted
          /\ \A v \in Sessions : pc'[v] \in Working => pc[v] \in Working
          /\ \A v \in Sessions : ack[v] = None => ack'[v] = None
        BY <1>1 DEF Drop, DeliveryInv, TypeOK, Working
    <2> QED BY <2>1 DEF OneInv, OneAtWork
<1>2. CASE Restart \/ DeployFlag
    BY <1>2 DEF Restart, DeployFlag, Crash, OneInv, OneAtWork, Working
<1>3. CASE RemoveDuplicates \/ CreateIndex \/ UNCHANGED vars
    BY <1>3 DEF RemoveDuplicates, CreateIndex, vars, deviceVars, OneInv, OneAtWork
<1> QED BY <1>1, <1>2, <1>3 DEF Rollout

THEOREM OneInvariant == Spec => []OneInv
<1>1. Init => OneInv
    BY DEF Init, OneInv, OneAtWork, Working
<1>2. DeliveryInv /\ OneInv /\ [Next]_vars => OneInv'
    BY StepKeepsOne, RestKeepsOne, NextIsStep
<1> QED BY <1>1, <1>2, DeliveryInvariant, PTL DEF Spec
-----------------------------------------------------------------------------
(***************************************************************************)
(* The live position.                                                       *)
(***************************************************************************)

\* No stored record up to record n was sent after the live one.
ShownUpTo(n) == \A r \in Records : (rows[r] > 0 /\ r <= n) => r <= live

\* A resend sets the live position back, but never behind what is accounted
\* for: by the device, by an answer, or by the handler at work.
LiveOK ==
    /\ ShownUpTo(deleted)
    /\ \A s \in Sessions : /\ pc[s] \in Working => ShownUpTo(next[s] - 1)
                           /\ ack[s] # None => ShownUpTo(deleted + ack[s])

LiveInv == (\A r \in Records : rows[r] > 0 => r \in Storable) /\ (Assigned /\ ~overlap => LiveOK)

\* A row that is inserted becomes the live position, and was sent as late as anything
\* accounted for.
LEMMA InsertShows ==
    ASSUME DeliveryInv, OneInv, OneInv', LiveInv, NEW s \in Sessions,
           pc[s] = "record", next[s] \in Storable, SaveLocation(next[s]),
           next' = next \/ next' = [next EXCEPT ![s] = @ + 1],
           UNCHANGED <<session, deleted, ack, overlap>>,
           pc'[s] \in Working
    PROVE  LiveInv'
<1>1. /\ rows \in [Records -> Nat] /\ next[s] \in Records /\ deleted \in 0..N /\ next[s] \in Nat
      /\ next \in [Sessions -> 1..(N + 1)]
    BY StorableAssumption DEF DeliveryInv, TypeOK, Records
<1>2. (Assigned => live' = next[s]) /\ \A r \in Records : rows'[r] > 0 => rows[r] > 0 \/ r = next[s]
    BY <1>1 DEF SaveLocation, InsertRow
<1>3. \A r \in Records : rows'[r] > 0 => r \in Storable
    BY <1>2 DEF LiveInv
<1>4. ASSUME Assigned, ~overlap' PROVE LiveOK'
    <2>1. OneAtWork /\ OneAtWork'
        BY <1>4 DEF OneInv
    <2>2. \A t \in Sessions : ack'[t] = None /\ (pc'[t] \in Working => t = s)
        BY <2>1 DEF OneAtWork
    <2>3. deleted + 1 <= next[s]
        BY <2>1 DEF OneAtWork, DeliveryInv, SessionOK, PacketSettled, Working
    <2>4. next'[s] \in {next[s], next[s] + 1}
        BY <1>1
    <2>5. ShownUpTo(deleted)' /\ ShownUpTo(next[s] - 1)'
        BY <1>1, <1>2, <1>4, <2>3, <2>4 DEF ShownUpTo, Records
    <2> QED BY <2>2, <2>5 DEF LiveOK
<1> QED BY <1>3, <1>4 DEF LiveInv

\* The other steps leave rows and live position alone; what is accounted for
\* grows by a record that is not stored, or passes from one to the next.
LEMMA UnseenShows ==
    ASSUME DeliveryInv, OneInv, LiveInv, NEW s \in Sessions, Steps(s), UNCHANGED <<rows, live>>
    PROVE  LiveInv'
<1>1. \A r \in Records : rows'[r] > 0 => r \in Storable
    BY DEF LiveInv
<1>2. ASSUME Assigned, ~overlap' PROVE LiveOK'
    <2>1. TypeOK /\ SessionOK(s) /\ deleted \in Nat /\ next[s] \in Nat /\ first[s] \in Nat
        BY DEF DeliveryInv, TypeOK, Records
    <2>2. ~overlap
        BY <1>2 DEF Steps, Connect, Send, SendGarbled, ReceiveAck, RefreshStatus, SetIgnition,
                    RememberIgnition, SkipRecord, StoreRecord, StoreFails, SendAck
    <2>3. OneAtWork /\ LiveOK
        BY <1>2, <2>2 DEF OneInv, LiveInv
    <2>5. ASSUME NEW t \in Sessions, t # s
          PROVE  pc'[t] = pc[t] /\ ack'[t] = ack[t] /\ next'[t] = next[t]
        BY <2>1, <2>5, OthersUnmoved
    <2>6. CASE deleted' = deleted
        <3>1. ShownUpTo(deleted)'
            BY <2>3, <2>6 DEF LiveOK, ShownUpTo
        <3>2. ASSUME NEW t \in Sessions, t # s
              PROVE  /\ pc'[t] \in Working => ShownUpTo(next[t] - 1)'
                     /\ ack'[t] # None => ShownUpTo(deleted + ack[t])'
            BY <2>3, <2>5, <2>6, <3>2 DEF LiveOK, ShownUpTo
        <3>3. /\ pc'[s] \in Working => ShownUpTo(next[s] - 1)'
              /\ ack'[s] # None => ShownUpTo(deleted + ack[s])'
            <4>1. CASE \E k \in Records : Send(s, k)
                <5>1. next'[s] = deleted + 1 /\ ack' = ack
                    BY <2>1, <4>1 DEF Send, TypeOK
                <5>2. next'[s] - 1 = deleted
                    BY <2>1, <5>1
                <5> QED BY <2>3, <2>6, <5>1, <5>2 DEF LiveOK, ShownUpTo
            <4>2. CASE SkipRecord(s)
                <5>1. /\ next'[s] = next[s] + 1 /\ ack' = ack /\ next[s] \notin Storable
                      /\ pc[s] \in Working
                    BY <2>1, <4>2 DEF SkipRecord, TypeOK, Working
                <5>2. \A r \in Records : (rows'[r] > 0 /\ r <= next'[s] - 1) => r <= next[s] - 1
                    BY <1>1, <2>1, <5>1 DEF Records
                <5> QED BY <2>3, <2>6, <5>1, <5>2 DEF LiveOK, ShownUpTo
            <4>3. CASE SendAck(s)
                <5>1. pc'[s] \notin Working /\ pc[s] \in Working
                    BY <2>1, <4>3 DEF SendAck, TypeOK, Working
                <5>2. ack[s] = None /\ first[s] = deleted + 1
                    BY <2>3, <5>1 DEF OneAtWork
                <5>3. ack'[s] # None => ack'[s] = next[s] - first[s]
                    BY <2>1, <4>3, <5>2 DEF SendAck, Accepted, TypeOK
                <5>4. ack'[s] # None => deleted' + ack'[s] = next[s] - 1
                    BY <2>1, <2>6, <5>2, <5>3
                <5> QED BY <2>3, <5>1, <5>4 DEF LiveOK, ShownUpTo
            <4>4. CASE StoreRecord(s)
                <5>1. /\ next'[s] = next[s] + 1 /\ ack' = ack /\ live' = next[s]
                      /\ pc[s] \in Working
                    BY <1>2, <2>1, <4>4 DEF StoreRecord, SaveLocation, TypeOK, Working
                <5>2. ack[s] = None
                    BY <2>3, <5>1 DEF OneAtWork
                <5> QED BY <2>1, <5>1, <5>2 DEF ShownUpTo, Records
            <4>5. CASE \/ Connect(s) \/ SendGarbled(s) \/ ReceiveAck(s) \/ RefreshStatus(s)
                       \/ SetIgnition(s) \/ RememberIgnition(s) \/ StoreFails(s)
                <5>1. /\ next' = next /\ (ack' = ack \/ ack'[s] = None)
                      /\ pc'[s] \in Working => pc[s] \in Working
                    BY <2>1, <4>5 DEF Connect, SendGarbled, ReceiveAck, RefreshStatus, SetIgnition,
                             RememberIgnition, StoreFails, packetVars, TypeOK, Working
                <5> QED BY <2>3, <2>6, <5>1 DEF LiveOK, ShownUpTo
            <4> QED BY <4>1, <4>2, <4>3, <4>4, <4>5 DEF Steps
        <3> QED BY <3>1, <3>2, <3>3 DEF LiveOK
    <2>7. CASE deleted' # deleted
        <3>1. ReceiveAck(s)
            BY <2>7 DEF Steps, Connect, Send, SendGarbled, RefreshStatus, SetIgnition,
                        RememberIgnition, SkipRecord, StoreRecord, StoreFails, SendAck, deviceVars
        <3>2. /\ deleted' = deleted + ack[s] /\ ack[s] # None /\ session = s
              /\ pc' = pc /\ ack'[s] = None
            BY <2>1, <3>1 DEF ReceiveAck, TypeOK
        <3>3. \A t \in Sessions : pc'[t] \notin Working
            BY <2>3, <3>2 DEF OneAtWork
        <3>4. \A t \in Sessions : ack'[t] = None
            BY <2>5, <3>2 DEF DeliveryInv, SessionOK, AckSound
        <3>5. ShownUpTo(deleted)'
            BY <2>3, <3>2 DEF LiveOK, ShownUpTo
        <3> QED BY <3>3, <3>4, <3>5 DEF LiveOK
    <2> QED BY <2>6, <2>7
<1> QED BY <1>1, <1>2 DEF LiveInv

LEMMA StepKeepsLive ==
    ASSUME DeliveryInv, OneInv, OneInv', LiveInv, NEW s \in Sessions, Steps(s)
    PROVE  LiveInv'
<1>1. CASE StoreRecord(s)
    <2>1. pc' = pc /\ pc[s] \in Working
        BY <1>1 DEF StoreRecord, Working
    <2> QED BY <1>1, <2>1, InsertShows DEF StoreRecord, deviceVars
<1>2. CASE StoreFails(s) /\ SaveLocation(next[s])
    <2>1. pc'[s] \in Working
        BY <1>2 DEF StoreFails, DeliveryInv, TypeOK, Working
    <2> QED BY <1>2, <2>1, InsertShows DEF StoreFails, deviceVars, packetVars
<1>3. CASE UNCHANGED <<rows, live>>
    BY <1>3, UnseenShows
<1> QED BY <1>1, <1>2, <1>3 DEF Steps, Connect, Send, SendGarbled, ReceiveAck, RefreshStatus,
           SetIgnition, RememberIgnition, SkipRecord, StoreFails, SendAck, dbVars

LEMMA RestKeepsLive ==
    ASSUME DeliveryInv, LiveInv, Drop \/ Rollout \/ UNCHANGED vars
    PROVE  LiveInv'
<1>1. /\ overlap' = overlap /\ deleted' = deleted /\ live' = live
      /\ \A r \in Records : rows'[r] > 0 => rows[r] > 0
    BY DEF Drop, Rollout, Restart, DeployFlag, Crash, RemoveDuplicates, CreateIndex, vars,
           deviceVars, packetVars, dbVars, DeliveryInv, TypeOK
<1>2. ASSUME NEW s \in Sessions
      PROVE  /\ pc'[s] \in Working => pc[s] \in Working /\ next'[s] = next[s]
             /\ ack'[s] \in {ack[s], None}
    BY DEF Drop, Rollout, Restart, DeployFlag, Crash, RemoveDuplicates, CreateIndex, vars,
           packetVars, DeliveryInv, TypeOK, Working
<1> QED BY <1>1, <1>2 DEF LiveInv, LiveOK, ShownUpTo

\* Whatever is accounted for has been shown, unless handlers overlapped.
THEOREM LiveInvariant == Spec => []LiveInv
<1>1. Init => LiveInv
    BY NAssumption DEF Init, LiveInv, LiveOK, ShownUpTo, Records
<1>2. DeliveryInv /\ OneInv /\ OneInv' /\ LiveInv /\ [Next]_vars => LiveInv'
    BY StepKeepsLive, RestKeepsLive, NextIsStep
<1> QED BY <1>1, <1>2, DeliveryInvariant, OneInvariant, PTL DEF Spec

(***************************************************************************)
(* CurrentLocations is never behind, in the order of sending, what the      *)
(* device deleted on the gateway's word: through any number of resends,     *)
(* restarts and refused rows, and whatever the timestamps, unless two       *)
(* handlers of the device worked at the same time.                          *)
(***************************************************************************)
THEOREM LivePositionKeepsUp == Spec => []LiveKeepsUp
<1>1. DeliveryInv /\ LiveInv => LiveKeepsUp
    BY NAssumption DEF DeliveryInv, TypeOK, LiveInv, LiveOK, ShownUpTo, LiveKeepsUp, Records
<1> QED BY <1>1, DeliveryInvariant, LiveInvariant, PTL

-----------------------------------------------------------------------------
(***************************************************************************)
(* The ignition.                                                            *)
(***************************************************************************)

\* What a handler has written, and what is remembered, is in the database;
\* the memory is behind only while a handler has written and not resumed.
IgnitionOK ==
    /\ \A s \in Sessions :
          (pc[s] \in {"ignited", "record", "ack"} /\ ignition[s] # None) => ignitionDb = ignition[s]
    /\ \/ lastIgnition \in {None, ignitionDb}
       \/ \E s \in Sessions : pc[s] = "ignited"

IgnitionInv == (~overlap /\ failures = 0) => IgnitionOK

LEMMA StepKeepsIgnition ==
    ASSUME DeliveryInv, OneInv, IgnitionInv, NEW s \in Sessions, Steps(s)
    PROVE  IgnitionInv'
<1> SUFFICES ASSUME ~overlap', failures' = 0 PROVE IgnitionOK'
    BY DEF IgnitionInv
<1>1. TypeOK /\ IgnitionKnown(s) /\ s # None
    BY NoneAssumption DEF DeliveryInv, SessionOK
<1>2. ~overlap /\ failures = 0 /\ OneAtWork /\ IgnitionOK
    <2>1. ~overlap
        BY DEF Steps, Connect, Send, SendGarbled, ReceiveAck, RefreshStatus, SetIgnition,
               RememberIgnition, SkipRecord, StoreRecord, StoreFails, SendAck
    <2>2. failures' = failures \/ failures' = failures + 1
        BY DEF Steps, Connect, Send, SendGarbled, ReceiveAck, RefreshStatus, SetIgnition,
               RememberIgnition, SkipRecord, StoreRecord, StoreFails, SendAck, Raise
    <2>3. failures = 0
        BY <1>1, <2>2, BoundsAssumption DEF TypeOK
    <2> QED BY <2>1, <2>3 DEF OneInv, IgnitionInv
<1>3. \A t \in Sessions : t # s => pc'[t] = pc[t] /\ ignition'[t] = ignition[t]
    BY <1>1, OthersUnmoved
<1>4. CASE RefreshStatus(s)
    <2>1. /\ pc[s] = "raw" /\ UNCHANGED <<lastIgnition, ignitionDb>>
          /\ ignition'[s] = NewestIgnition(s)
          /\ pc'[s] = IF IgnitionChanged(NewestIgnition(s)) THEN "ignition" ELSE "record"
        BY <1>1, <1>4 DEF RefreshStatus, dbVars, TypeOK
    <2>2. \A t \in Sessions : pc[t] # "ignited"
        BY <1>2, <2>1 DEF OneAtWork, Working
    <2>3. lastIgnition \in {None, ignitionDb}
        BY <1>2, <2>2 DEF IgnitionOK
    <2>4. (pc'[s] # "ignition" /\ ignition'[s] # None) => ignitionDb' = ignition'[s]
        BY <2>1, <2>3 DEF IgnitionChanged
    <2> QED BY <1>2, <1>3, <2>1, <2>3, <2>4 DEF IgnitionOK
<1>5. CASE SetIgnition(s)
    <2>1. pc[s] = "ignition" /\ pc'[s] = "ignited" /\ ignition' = ignition
        BY <1>1, <1>5 DEF SetIgnition, TypeOK
    <2>2. ignitionDb' = ignition[s]
        BY <1>1, <1>2, <1>5 DEF SetIgnition, Raise
    <2>3. \A t \in Sessions : t # s => pc'[t] \notin Working
        BY <1>2, <1>3, <2>1 DEF OneAtWork, Working
    <2> QED BY <2>1, <2>2, <2>3 DEF IgnitionOK, Working
<1>6. CASE RememberIgnition(s)
    <2>1. /\ pc[s] = "ignited" /\ pc'[s] = "record" /\ lastIgnition' = ignition[s]
          /\ ignition' = ignition /\ ignitionDb' = ignitionDb
        BY <1>1, <1>6 DEF RememberIgnition, packetVars, dbVars, TypeOK
    <2>2. ignition[s] = ignitionDb
        BY <1>1, <1>2, <2>1 DEF IgnitionOK, IgnitionKnown
    <2> QED BY <1>2, <1>3, <2>1, <2>2 DEF IgnitionOK
<1>7. CASE Connect(s)
    <2>1. pc'[s] = "ready" /\ lastIgnition' = None /\ ignitionDb' = ignitionDb
        BY <1>1, <1>7 DEF Connect, dbVars, TypeOK
    <2> QED BY <1>2, <1>3, <2>1 DEF IgnitionOK
<1>8. CASE \E k \in Records : Send(s, k)
    <2>1. pc[s] = "ready" /\ pc'[s] = "raw" /\ UNCHANGED <<lastIgnition, ignitionDb>>
        BY <1>1, <1>8 DEF Send, dbVars, TypeOK
    <2> QED BY <1>2, <1>3, <2>1 DEF IgnitionOK
<1>9. CASE \/ SendGarbled(s) \/ ReceiveAck(s) \/ SkipRecord(s) \/ StoreRecord(s)
           \/ StoreFails(s) \/ SendAck(s)
    <2>1. /\ UNCHANGED <<lastIgnition, ignitionDb, ignition>>
          /\ pc[s] # "ignited"
          /\ pc'[s] = "ignited" => pc[s] = "ignited"
          /\ pc'[s] \in {"record", "ack"} => pc[s] \in {"record", "ack"}
        BY <1>1, <1>9 DEF SendGarbled, ReceiveAck, SkipRecord, StoreRecord, StoreFails, SendAck,
                          packetVars, dbVars, TypeOK, AckSound, SessionOK, DeliveryInv
    <2> QED BY <1>2, <1>3, <2>1 DEF IgnitionOK
<1> QED BY <1>4, <1>5, <1>6, <1>7, <1>8, <1>9 DEF Steps

LEMMA RestKeepsIgnition ==
    ASSUME DeliveryInv, IgnitionInv, Drop \/ Rollout \/ UNCHANGED vars
    PROVE  IgnitionInv'
<1>1. /\ overlap' = overlap /\ failures' = failures /\ ignitionDb' = ignitionDb
      /\ ignition' = ignition
    BY DEF Drop, Rollout, Restart, DeployFlag, Crash, RemoveDuplicates, CreateIndex, vars,
           packetVars, dbVars
<1>2. ASSUME NEW s \in Sessions
      PROVE  pc'[s] = pc[s] \/ (pc'[s] = "free" /\ (pc[s] = "ready" \/ lastIgnition' = None))
    BY DEF Drop, Rollout, Restart, DeployFlag, Crash, RemoveDuplicates, CreateIndex, vars,
           DeliveryInv, TypeOK
<1>3. lastIgnition' \in {lastIgnition, None}
    BY DEF Drop, Rollout, Restart, DeployFlag, Crash, RemoveDuplicates, CreateIndex, vars
<1> QED BY <1>1, <1>2, <1>3 DEF IgnitionInv, IgnitionOK

\* The remembered ignition is the stored one, but for a handler's own write.
THEOREM IgnitionInvariant == Spec => []IgnitionInv
<1>1. Init => IgnitionInv
    BY DEF Init, IgnitionInv, IgnitionOK
<1>2. DeliveryInv /\ OneInv /\ IgnitionInv /\ [Next]_vars => IgnitionInv'
    BY StepKeepsIgnition, RestKeepsIgnition, NextIsStep
<1> QED BY <1>1, <1>2, DeliveryInvariant, OneInvariant, PTL DEF Spec

(***************************************************************************)
(* A position is stored with the ignition of its packet in place, although  *)
(* _refresh_status writes it only when it differs from the remembered one:  *)
(* through lost connections, logins and restarts, as long as no database    *)
(* call raised and handlers did not overlap.                                *)
(***************************************************************************)
THEOREM IgnitionIsRight == Spec => []IgnitionRight
<1>1. IgnitionInv => IgnitionRight
    BY DEF IgnitionInv, IgnitionOK, IgnitionRight
<1> QED BY <1>1, IgnitionInvariant, PTL
=============================================================================
