----------------------------- MODULE DeviceLookup -----------------------------
(***************************************************************************)
(* repositories/device_repository.py on the connection pool of database.py: *)
(* which DeviceId an IMEI gets at login, when several logins of the same    *)
(* IMEI look it up, and register it, at the same time.                      *)
(*                                                                          *)
(* pc[t] is the await that lookup t is at:                                  *)
(*   idle, done                                                             *)
(*   acquire    get_db_connection, outside the try                          *)
(*   device     SELECT from GpsDevices, with the setup row's status         *)
(*   setup      SELECT from SetupShalotrackDevices                          *)
(*   reacquire  managed_connection, the first connection given back         *)
(*   insert     INSERT ... ON CONFLICT DO NOTHING                           *)
(*   refetch    SELECT the row that is there now                            *)
(***************************************************************************)
EXTENDS Integers, FiniteSets

CONSTANTS
    Tasks,     \* logins; each has a uuid4 of its own
    Imeis,
    PoolSize,  \* DB_POOL_MAX
    None

ASSUME TasksAssumption == IsFiniteSet(Tasks) /\ None \notin Tasks
ASSUME PoolAssumption == PoolSize \in Nat \ {0}
ASSUME ImeisAssumption == None \notin Imeis
ASSUME StatusAssumption == None # "Replaced"

VARIABLES
    pc, imei,
    result,      \* the DeviceId returned, None when rejected
    wasAllowed,  \* did the IMEI pass a check of its status in this lookup?
    free,        \* idle connections of the pool
    deviceId,    \* GpsDevices: DeviceId by ImeiNumber (unique), None if no row
    status       \* SetupShalotrackDevices.Status by ImeiNumber, None if no row

vars == <<pc, imei, result, wasAllowed, free, deviceId, status>>

Statuses == {"Activated", "Replaced", None}

\* The lookups that hold a connection.
Holding == {t \in Tasks : pc[t] \in {"device", "setup", "insert", "refetch"}}

TypeOK ==
    /\ pc \in [Tasks -> {"idle", "acquire", "device", "setup", "reacquire",
                         "insert", "refetch", "done"}]
    /\ imei \in [Tasks -> Imeis \cup {None}]
    /\ result \in [Tasks -> Tasks \cup {None}]
    /\ wasAllowed \in [Tasks -> BOOLEAN]
    /\ free \in 0..PoolSize
    /\ deviceId \in [Imeis -> Tasks \cup {None}]
    /\ status \in [Imeis -> Statuses]

Init ==
    /\ pc = [t \in Tasks |-> "idle"]
    /\ imei = [t \in Tasks |-> None]
    /\ result = [t \in Tasks |-> None]
    /\ wasAllowed = [t \in Tasks |-> FALSE]
    /\ free = PoolSize
    /\ deviceId = [i \in Imeis |-> None]
    /\ status \in [Imeis -> Statuses]

Goto(t, await) == pc' = [pc EXCEPT ![t] = await]

\* Return id to the caller and the connection to the pool.
ReturnDevice(t, id) ==
    /\ Goto(t, "done")
    /\ result' = [result EXCEPT ![t] = id]
    /\ free' = free + 1
-----------------------------------------------------------------------------
Start(t, i) ==
    /\ pc[t] = "idle"
    /\ imei' = [imei EXCEPT ![t] = i]
    /\ Goto(t, "acquire")
    /\ UNCHANGED <<result, wasAllowed, free, deviceId, status>>

\* pool.acquire waits, without a limit, for a connection to be free.
Acquire(t) ==
    /\ pc[t] \in {"acquire", "reacquire"}
    /\ free > 0
    /\ free' = free - 1
    /\ Goto(t, IF pc[t] = "acquire" THEN "device" ELSE "insert")
    /\ UNCHANGED <<imei, result, wasAllowed, deviceId, status>>

\* A new connection that cannot be opened makes acquire raise.  Only the
\* second acquire is inside a try, but neither login gets a DeviceId.
AcquireFails(t) ==
    /\ pc[t] \in {"acquire", "reacquire"}
    /\ free > 0
    /\ Goto(t, "done")
    /\ UNCHANGED <<imei, result, wasAllowed, free, deviceId, status>>

Admitted_AnyStatus(s) == TRUE

\* A registered device is refused only when a setup row says so.
Admitted(s) == s \in {None, "Activated"}

SelectDevice(t) ==
    /\ pc[t] = "device"
    /\ \/ /\ deviceId[imei[t]] = None
          /\ Goto(t, "setup")
          /\ UNCHANGED <<result, wasAllowed, free>>
       \/ /\ deviceId[imei[t]] # None
          /\ wasAllowed' = [wasAllowed EXCEPT ![t] = status[imei[t]] # "Replaced"]
          /\ ReturnDevice(t, IF Admitted(status[imei[t]]) THEN deviceId[imei[t]] ELSE None)
    /\ UNCHANGED <<imei, deviceId, status>>

SelectSetup_KeepsConnection(t) ==
    /\ pc[t] = "setup"
    /\ wasAllowed' = [wasAllowed EXCEPT ![t] = status[imei[t]] = "Activated"]
    /\ \/ /\ status[imei[t]] = "Activated"
          /\ Goto(t, "reacquire")
          /\ UNCHANGED <<result, free>>
       \/ /\ status[imei[t]] # "Activated"
          /\ ReturnDevice(t, None)
    /\ UNCHANGED <<imei, deviceId, status>>

\* The finally gives the connection back, before another one is asked for.
SelectSetup(t) ==
    /\ pc[t] = "setup"
    /\ wasAllowed' = [wasAllowed EXCEPT ![t] = status[imei[t]] = "Activated"]
    /\ \/ /\ status[imei[t]] = "Activated"
          /\ Goto(t, "reacquire")
          /\ free' = free + 1
          /\ UNCHANGED result
       \/ /\ status[imei[t]] # "Activated"
          /\ ReturnDevice(t, None)
    /\ UNCHANGED <<imei, deviceId, status>>

Insert(t) ==
    /\ pc[t] = "insert"
    /\ deviceId' = [deviceId EXCEPT ![imei[t]] = IF @ = None THEN t ELSE @]
    /\ Goto(t, "refetch")
    /\ UNCHANGED <<imei, result, wasAllowed, free, status>>

Refetch_OwnId(t) ==
    /\ pc[t] = "refetch"
    /\ ReturnDevice(t, t)
    /\ UNCHANGED <<imei, wasAllowed, deviceId, status>>

\* The row that is there, the own one or that of a concurrent login.
Refetch(t) ==
    /\ pc[t] = "refetch"
    /\ ReturnDevice(t, deviceId[imei[t]])
    /\ UNCHANGED <<imei, wasAllowed, deviceId, status>>

StatementFails_KeepsConnection(t) ==
    /\ t \in Holding
    /\ Goto(t, "done")
    /\ UNCHANGED <<imei, result, wasAllowed, free, deviceId, status>>

\* A statement raises (an INSERT perhaps after it took effect): the lookup
\* returns None, and finally or __aexit__ gives the connection back.
StatementFails(t) ==
    /\ t \in Holding
    /\ ReturnDevice(t, None)
    /\ \/ UNCHANGED deviceId
       \/ pc[t] = "insert" /\ deviceId[imei[t]] = None
          /\ deviceId' = [deviceId EXCEPT ![imei[t]] = t]
    /\ UNCHANGED <<imei, wasAllowed, status>>

\* The portal activates, replaces or removes a device at any time.
SetStatus(i, s) ==
    /\ status' = [status EXCEPT ![i] = s]
    /\ UNCHANGED <<pc, imei, result, wasAllowed, free, deviceId>>
-----------------------------------------------------------------------------
Lookup(t) ==
    \/ Acquire(t) \/ AcquireFails(t) \/ SelectDevice(t) \/ SelectSetup(t)
    \/ Insert(t) \/ Refetch(t) \/ StatementFails(t)

Next ==
    \/ \E t \in Tasks : Lookup(t) \/ \E i \in Imeis : Start(t, i)
    \/ \E i \in Imeis, s \in Statuses : SetStatus(i, s)

Spec == Init /\ [][Next]_vars

\* Statements return or raise within command_timeout, and the pool serves its
\* waiters in turn.
FairSpec == Spec /\ \A t \in Tasks : SF_vars(Lookup(t))
-----------------------------------------------------------------------------
(***************************************************************************)
(* Every login of an IMEI, at the same time or later, gets the one DeviceId *)
(* that GpsDevices has for it: racing first logins never leave a connection *)
(* working for a device that does not exist.                                *)
(***************************************************************************)
OneDevicePerImei == \A t \in Tasks : result[t] # None => result[t] = deviceId[imei[t]]

(***************************************************************************)
(* A device is let in only if its status allowed it at some moment of that  *)
(* lookup: the status may change between the check and the registration.    *)
(***************************************************************************)
OnlyAdmitted == \A t \in Tasks : result[t] # None => wasAllowed[t]

(***************************************************************************)
(* Every connection taken from the pool is given back exactly once, on      *)
(* every path through the lookup: the pool never shrinks.                   *)
(***************************************************************************)
PoolConserved == free + Cardinality(Holding) = PoolSize

(***************************************************************************)
(* A lookup never holds one connection while it waits for another, so even  *)
(* a pool of one connection serves any number of first logins.              *)
(***************************************************************************)
LookupsEnd == \A t \in Tasks : pc[t] = "acquire" ~> pc[t] = "done"
=============================================================================
