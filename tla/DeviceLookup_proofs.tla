------------------------- MODULE DeviceLookup_proofs -------------------------
(***************************************************************************)
(* DeviceLookup's safety properties, for any number of concurrent logins    *)
(* and IMEIs and any size of the pool.                                      *)
(***************************************************************************)
EXTENDS DeviceLookup, TLAPS, FiniteSetTheorems

HoldingPcs == {"device", "setup", "insert", "refetch"}

\* A lookup under way has an IMEI and no result, and registers the device
\* only after a check of its status.
TaskOK(t) ==
    /\ pc[t] # "idle" => imei[t] \in Imeis
    /\ pc[t] # "done" => result[t] = None
    /\ pc[t] \in {"reacquire", "insert", "refetch"} => wasAllowed[t]

LookupInv ==
    TypeOK /\ OneDevicePerImei /\ OnlyAdmitted /\ PoolConserved /\ \A t \in Tasks : TaskOK(t)

LEMMA HoldingFinite == IsFiniteSet(Holding) /\ Cardinality(Holding) \in Nat
<1>1. Holding \subseteq Tasks
    BY DEF Holding
<1> QED BY <1>1, TasksAssumption, FS_Subset, FS_CardinalityType

\* A step of one lookup that moves its connection and the pool together
\* leaves the pool whole.
LEMMA PoolStep ==
    ASSUME TypeOK, PoolConserved, NEW t \in Tasks, NEW await, Goto(t, await),
           \/ free' = free /\ (pc[t] \in HoldingPcs <=> await \in HoldingPcs)
           \/ free > 0 /\ free' = free - 1 /\ pc[t] \notin HoldingPcs /\ await \in HoldingPcs
           \/ free' = free + 1 /\ pc[t] \in HoldingPcs /\ await \notin HoldingPcs
    PROVE  PoolConserved' /\ free' \in 0..PoolSize
<1>0. /\ pc'[t] = await /\ \A u \in Tasks : u # t => pc'[u] = pc[u]
      /\ free \in Nat
    BY DEF TypeOK, Goto
<1>1. Holding = {u \in Tasks : pc[u] \in HoldingPcs} /\ Holding' = {u \in Tasks : pc'[u] \in HoldingPcs}
    BY DEF Holding, HoldingPcs
<1>2. free + Cardinality(Holding) = PoolSize
    BY DEF PoolConserved
<1>3. CASE free' = free /\ (pc[t] \in HoldingPcs <=> await \in HoldingPcs)
    <2>1. Holding' = Holding
        BY <1>0, <1>1, <1>3
    <2> QED BY <1>3, <1>2, <2>1, <1>0, PoolAssumption, HoldingFinite DEF PoolConserved
<1>4. CASE free > 0 /\ free' = free - 1 /\ pc[t] \notin HoldingPcs /\ await \in HoldingPcs
    <2>1. Holding' = Holding \cup {t} /\ t \notin Holding
        BY <1>0, <1>1, <1>4
    <2>2. Cardinality(Holding') = Cardinality(Holding) + 1
        BY <2>1, HoldingFinite, FS_AddElement
    <2> QED BY <1>0, <1>4, <1>2, <2>2, PoolAssumption, HoldingFinite DEF PoolConserved
<1>5. CASE free' = free + 1 /\ pc[t] \in HoldingPcs /\ await \notin HoldingPcs
    <2>1. Holding' = Holding \ {t} /\ t \in Holding
        BY <1>0, <1>1, <1>5
    <2>2. Cardinality(Holding') = Cardinality(Holding) - 1
        BY <2>1, HoldingFinite, FS_RemoveElement
    <2>3. Cardinality(Holding) # 0
        BY <2>1, HoldingFinite, FS_EmptySet
    <2> QED BY <1>0, <1>5, <1>2, <2>2, <2>3, PoolAssumption, HoldingFinite DEF PoolConserved
<1> QED BY <1>3, <1>4, <1>5

\* A step of lookup t that returns nothing yet, or nothing at all: the row of
\* an IMEI, once there, stays.
LEMMA NoResultStep ==
    ASSUME LookupInv, NEW t \in Tasks, NEW await \in {"acquire", "device", "setup", "reacquire",
                                                      "insert", "refetch", "done"},
           Goto(t, await), result[t] = None, result'[t] = None,
           \A u \in Tasks : u # t => result'[u] = result[u] /\ wasAllowed'[u] = wasAllowed[u]
                                     /\ imei'[u] = imei[u],
           imei'[t] \in Imeis,
           await \in {"reacquire", "insert", "refetch"} => wasAllowed'[t],
           result' \in [Tasks -> Tasks \cup {None}], imei' \in [Tasks -> Imeis \cup {None}],
           wasAllowed' \in [Tasks -> BOOLEAN], free' \in 0..PoolSize,
           deviceId' \in [Imeis -> Tasks \cup {None}],
           \A i \in Imeis : deviceId[i] # None => deviceId'[i] = deviceId[i],
           status' = status, PoolConserved'
    PROVE  LookupInv'
<1>1. TypeOK /\ OneDevicePerImei /\ OnlyAdmitted /\ \A u \in Tasks : TaskOK(u)
    BY DEF LookupInv
<1>2. TypeOK'
    BY <1>1 DEF TypeOK, Goto
<1>3. pc'[t] = await /\ \A u \in Tasks : u # t => pc'[u] = pc[u]
    BY <1>1 DEF TypeOK, Goto
<1>4. ASSUME NEW u \in Tasks
      PROVE  /\ TaskOK(u)'
             /\ result'[u] # None => result'[u] = deviceId'[imei'[u]] /\ wasAllowed'[u]
    <2>1. CASE u = t
        BY <1>3, <2>1 DEF TaskOK
    <2>2. CASE u # t
        <3>1. TaskOK(u)'
            BY <1>1, <1>3, <2>2 DEF TaskOK
        <3>2. result[u] # None => imei[u] \in Imeis
            BY <1>1 DEF TaskOK
        <3> QED BY <1>1, <2>2, <3>1, <3>2 DEF OneDevicePerImei, OnlyAdmitted
    <2> QED BY <2>1, <2>2
<1> QED BY <1>2, <1>4 DEF LookupInv, OneDevicePerImei, OnlyAdmitted

\* A lookup that returns the row there is, for a device that was allowed.
LEMMA ResultStep ==
    ASSUME LookupInv, NEW t \in Tasks, pc[t] \in HoldingPcs,
           ReturnDevice(t, deviceId[imei[t]]), wasAllowed'[t],
           wasAllowed' \in [Tasks -> BOOLEAN],
           \A u \in Tasks : u # t => wasAllowed'[u] = wasAllowed[u],
           UNCHANGED <<imei, deviceId, status>>
    PROVE  LookupInv'
<1>1. /\ TypeOK /\ OneDevicePerImei /\ OnlyAdmitted /\ PoolConserved
      /\ \A u \in Tasks : TaskOK(u)
    BY DEF LookupInv
<1>2. PoolConserved' /\ free' \in 0..PoolSize
    BY <1>1, PoolStep DEF ReturnDevice, HoldingPcs
<1>3. imei[t] \in Imeis
    BY <1>1 DEF TaskOK, HoldingPcs
<1>4. TypeOK'
    BY <1>1, <1>2, <1>3 DEF TypeOK, ReturnDevice, Goto
<1>5. /\ pc'[t] = "done" /\ result'[t] = deviceId[imei[t]]
      /\ \A u \in Tasks : u # t => pc'[u] = pc[u] /\ result'[u] = result[u]
    BY <1>1 DEF TypeOK, ReturnDevice, Goto
<1>6. ASSUME NEW u \in Tasks
      PROVE  /\ TaskOK(u)'
             /\ result'[u] # None => result'[u] = deviceId'[imei'[u]] /\ wasAllowed'[u]
    <2>1. CASE u = t
        BY <1>3, <1>5, <2>1 DEF TaskOK
    <2>2. CASE u # t
        BY <1>1, <1>5, <2>2 DEF TaskOK, OneDevicePerImei, OnlyAdmitted
    <2> QED BY <2>1, <2>2
<1> QED BY <1>2, <1>4, <1>6 DEF LookupInv, OneDevicePerImei, OnlyAdmitted

LEMMA StartOK ==
    ASSUME LookupInv, NEW t \in Tasks, NEW i \in Imeis, Start(t, i)
    PROVE  LookupInv'
<1>1. TypeOK /\ PoolConserved /\ TaskOK(t)
    BY DEF LookupInv
<1>2. PoolConserved' /\ free' \in 0..PoolSize
    BY <1>1, PoolStep DEF Start, HoldingPcs
<1> QED BY <1>1, <1>2, NoResultStep DEF Start, TypeOK, TaskOK

LEMMA AcquireOK ==
    ASSUME LookupInv, NEW t \in Tasks, Acquire(t) \/ AcquireFails(t)
    PROVE  LookupInv'
<1>1. TypeOK /\ PoolConserved /\ TaskOK(t)
    BY DEF LookupInv
<1>2. CASE Acquire(t)
    <2> DEFINE await == IF pc[t] = "acquire" THEN "device" ELSE "insert"
    <2>1. /\ Goto(t, await) /\ pc[t] \in {"acquire", "reacquire"} /\ free > 0 /\ free' = free - 1
          /\ UNCHANGED <<imei, result, wasAllowed, deviceId, status>>
        BY <1>2 DEF Acquire
    <2>2. await \in {"device", "insert"} /\ (await = "insert" => pc[t] = "reacquire")
        BY <2>1
    <2> HIDE DEF await
    <2>3. PoolConserved' /\ free' \in 0..PoolSize
        BY <1>1, <2>1, <2>2, PoolStep DEF HoldingPcs
    <2> QED BY <1>1, <2>1, <2>2, <2>3, NoResultStep DEF TypeOK, TaskOK
<1>3. CASE AcquireFails(t)
    <2>1. PoolConserved' /\ free' \in 0..PoolSize
        BY <1>1, <1>3, PoolStep DEF AcquireFails, HoldingPcs
    <2> QED BY <1>1, <1>3, <2>1, NoResultStep DEF AcquireFails, TypeOK, TaskOK
<1> QED BY <1>2, <1>3

\* Giving up a lookup returns its connection and no device.
LEMMA NoDeviceOK ==
    ASSUME LookupInv, NEW t \in Tasks, pc[t] \in HoldingPcs, ReturnDevice(t, None),
           wasAllowed' \in [Tasks -> BOOLEAN],
           \A u \in Tasks : u # t => wasAllowed'[u] = wasAllowed[u],
           deviceId' \in [Imeis -> Tasks \cup {None}],
           \A i \in Imeis : deviceId[i] # None => deviceId'[i] = deviceId[i],
           UNCHANGED <<imei, status>>
    PROVE  LookupInv'
<1>1. TypeOK /\ PoolConserved /\ TaskOK(t)
    BY DEF LookupInv
<1>2. PoolConserved' /\ free' \in 0..PoolSize
    BY <1>1, PoolStep DEF ReturnDevice, HoldingPcs
<1> QED BY <1>1, <1>2, NoResultStep DEF ReturnDevice, TypeOK, TaskOK, HoldingPcs

LEMMA SelectDeviceOK ==
    ASSUME LookupInv, NEW t \in Tasks, SelectDevice(t)
    PROVE  LookupInv'
<1>1. TypeOK /\ PoolConserved /\ TaskOK(t) /\ pc[t] = "device"
    BY DEF LookupInv, SelectDevice
<1>2. CASE Goto(t, "setup") /\ UNCHANGED <<result, wasAllowed, free>>
    <2>1. PoolConserved' /\ free' \in 0..PoolSize
        BY <1>1, <1>2, PoolStep DEF HoldingPcs
    <2> QED BY <1>1, <1>2, <2>1, NoResultStep DEF SelectDevice, TypeOK, TaskOK
<1>3. CASE /\ wasAllowed' = [wasAllowed EXCEPT ![t] = status[imei[t]] # "Replaced"]
           /\ ReturnDevice(t, IF Admitted(status[imei[t]]) THEN deviceId[imei[t]] ELSE None)
    <2>1. /\ wasAllowed' \in [Tasks -> BOOLEAN]
          /\ \A u \in Tasks : u # t => wasAllowed'[u] = wasAllowed[u]
        BY <1>1, <1>3 DEF TypeOK
    <2>2. CASE Admitted(status[imei[t]])
        <3>1. wasAllowed'[t]
            BY <1>1, <1>3, <2>2, StatusAssumption DEF TypeOK, Admitted
        <3>2. ReturnDevice(t, deviceId[imei[t]])
            BY <1>3, <2>2
        <3> QED BY <1>1, <2>1, <3>1, <3>2, ResultStep DEF SelectDevice, HoldingPcs
    <2>3. CASE ~Admitted(status[imei[t]])
        <3>1. ReturnDevice(t, None)
            BY <1>3, <2>3
        <3> QED BY <1>1, <2>1, <3>1, NoDeviceOK DEF SelectDevice, HoldingPcs, TypeOK
    <2> QED BY <2>2, <2>3
<1> QED BY <1>2, <1>3 DEF SelectDevice

LEMMA SelectSetupOK ==
    ASSUME LookupInv, NEW t \in Tasks, SelectSetup(t)
    PROVE  LookupInv'
<1>1. TypeOK /\ PoolConserved /\ TaskOK(t) /\ pc[t] = "setup"
    BY DEF LookupInv, SelectSetup
<1>2. /\ wasAllowed' \in [Tasks -> BOOLEAN]
      /\ \A u \in Tasks : u # t => wasAllowed'[u] = wasAllowed[u]
      /\ wasAllowed'[t] = (status[imei[t]] = "Activated")
    BY <1>1 DEF TypeOK, SelectSetup
<1>3. CASE ReturnDevice(t, None)
    BY <1>1, <1>2, <1>3, NoDeviceOK DEF SelectSetup, HoldingPcs, TypeOK
<1>4. CASE status[imei[t]] = "Activated" /\ Goto(t, "reacquire") /\ free' = free + 1 /\ result' = result
    <2>1. PoolConserved' /\ free' \in 0..PoolSize
        BY <1>1, <1>4, PoolStep DEF HoldingPcs
    <2> QED BY <1>1, <1>2, <1>4, <2>1, NoResultStep DEF SelectSetup, TypeOK, TaskOK
<1> QED BY <1>3, <1>4 DEF SelectSetup

\* Registering fills in a missing row and leaves one that is there.
LEMMA InsertOK ==
    ASSUME LookupInv, NEW t \in Tasks, Insert(t)
    PROVE  LookupInv'
<1>1. TypeOK /\ PoolConserved /\ TaskOK(t) /\ pc[t] = "insert"
    BY DEF LookupInv, Insert
<1>2. PoolConserved' /\ free' \in 0..PoolSize
    BY <1>1, PoolStep DEF Insert, HoldingPcs
<1>3. /\ deviceId' \in [Imeis -> Tasks \cup {None}]
      /\ \A i \in Imeis : deviceId[i] # None => deviceId'[i] = deviceId[i]
    BY <1>1 DEF Insert, TypeOK, TaskOK
<1> QED BY <1>1, <1>2, <1>3, NoResultStep DEF Insert, TypeOK, TaskOK

LEMMA RefetchOK ==
    ASSUME LookupInv, NEW t \in Tasks, Refetch(t)
    PROVE  LookupInv'
<1>1. TypeOK /\ TaskOK(t) /\ pc[t] = "refetch"
    BY DEF LookupInv, Refetch
<1> QED BY <1>1, ResultStep DEF Refetch, HoldingPcs, TypeOK, TaskOK

LEMMA StatementFailsOK ==
    ASSUME LookupInv, NEW t \in Tasks, StatementFails(t)
    PROVE  LookupInv'
<1>1. TypeOK /\ TaskOK(t) /\ pc[t] \in HoldingPcs
    BY DEF LookupInv, StatementFails, Holding, HoldingPcs
<1>2. /\ deviceId' \in [Imeis -> Tasks \cup {None}]
      /\ \A i \in Imeis : deviceId[i] # None => deviceId'[i] = deviceId[i]
    BY <1>1 DEF StatementFails, TypeOK, TaskOK, HoldingPcs
<1> QED BY <1>1, <1>2, NoDeviceOK DEF StatementFails, TypeOK

(***************************************************************************)
(* Racing logins of any number agree on the device of an IMEI, and the pool *)
(* stays whole.                                                             *)
(***************************************************************************)
THEOREM LookupInvariant == Spec => []LookupInv
<1>1. Init => LookupInv
    <2> SUFFICES ASSUME Init PROVE LookupInv
        OBVIOUS
    <2> USE DEF Init
    <2>1. TypeOK
        BY PoolAssumption DEF TypeOK
    <2>2. OneDevicePerImei /\ OnlyAdmitted /\ \A t \in Tasks : TaskOK(t)
        BY DEF OneDevicePerImei, OnlyAdmitted, TaskOK
    <2>3. Holding = {}
        BY DEF Holding
    <2>4. PoolConserved
        BY <2>3, FS_EmptySet, PoolAssumption DEF PoolConserved
    <2> QED BY <2>1, <2>2, <2>4 DEF LookupInv
<1>2. LookupInv /\ [Next]_vars => LookupInv'
    <2> SUFFICES ASSUME LookupInv, [Next]_vars
                 PROVE  LookupInv'
        OBVIOUS
    <2>1. ASSUME NEW t \in Tasks, Lookup(t)
          PROVE  LookupInv'
        BY <2>1, AcquireOK, SelectDeviceOK, SelectSetupOK, InsertOK, RefetchOK,
           StatementFailsOK DEF Lookup
    <2>2. ASSUME NEW t \in Tasks, NEW i \in Imeis, Start(t, i)
          PROVE  LookupInv'
        BY <2>2, StartOK
    <2>3. CASE UNCHANGED <<pc, imei, result, wasAllowed, free, deviceId>>
               /\ status' \in [Imeis -> Statuses]
        <3>1. TypeOK'
            BY <2>3 DEF LookupInv, TypeOK
        <3>2. OneDevicePerImei' /\ OnlyAdmitted' /\ \A t \in Tasks : TaskOK(t)'
            BY <2>3 DEF LookupInv, OneDevicePerImei, OnlyAdmitted, TaskOK
        <3>3. Holding' = Holding
            BY <2>3 DEF Holding
        <3>4. PoolConserved'
            BY <2>3, <3>3 DEF LookupInv, PoolConserved
        <3> QED BY <3>1, <3>2, <3>4 DEF LookupInv
    <2>4. ASSUME NEW i \in Imeis, NEW s \in Statuses, SetStatus(i, s)
          PROVE  LookupInv'
        BY <2>3, <2>4 DEF SetStatus, LookupInv, TypeOK
    <2>5. CASE UNCHANGED vars
        BY <2>3, <2>5 DEF vars, LookupInv, TypeOK
    <2> QED BY <2>1, <2>2, <2>4, <2>5 DEF Next
<1> QED BY <1>1, <1>2, PTL DEF Spec

(***************************************************************************)
(* The lookups and the pool keep their types; in particular the number of   *)
(* free connections stays between zero and the size of the pool.            *)
(***************************************************************************)
THEOREM LookupTypeCorrect == Spec => []TypeOK
<1>1. LookupInv => TypeOK
    BY DEF LookupInv
<1> QED BY <1>1, LookupInvariant, PTL

(***************************************************************************)
(* get_device_by_imei never returns an id other than the one stored: the    *)
(* re-fetch after ON CONFLICT DO NOTHING makes racing first logins agree.   *)
(***************************************************************************)
THEOREM LoginsAgree == Spec => []OneDevicePerImei
<1>1. LookupInv => OneDevicePerImei
    BY DEF LookupInv
<1> QED BY <1>1, LookupInvariant, PTL

(***************************************************************************)
(* Every path through get_device_by_imei returns what it took from the pool.*)
(***************************************************************************)
THEOREM PoolStaysWhole == Spec => []PoolConserved
<1>1. LookupInv => PoolConserved
    BY DEF LookupInv
<1> QED BY <1>1, LookupInvariant, PTL

(***************************************************************************)
(* No login is accepted without a check of the status that allowed it.      *)
(***************************************************************************)
THEOREM AdmittedOnly == Spec => []OnlyAdmitted
<1>1. LookupInv => OnlyAdmitted
    BY DEF LookupInv
<1> QED BY <1>1, LookupInvariant, PTL
=============================================================================
