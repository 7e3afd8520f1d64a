------------------------- MODULE Gps103Poller_proofs -------------------------
(***************************************************************************)
(* The poller asks only trackers, and not too often, for any number of      *)
(* devices and sockets and any two intervals.                               *)
(***************************************************************************)
EXTENDS Gps103Poller, TLAPS

\* The socket of an entry is bound to its IMEI and of one of its families.
EntriesOK ==
    \A i \in Imeis : byImei[i] # None =>
        bySocket[byImei[i]] = i /\ Family[byImei[i]] \in ImeiFamilies[i]

\* What is on the list has not been asked of late, however old the list is,
\* and the device being asked is not on it.
ListOK ==
    /\ \A c \in Conns : silent[c] <= sinceAsked[c]
    /\ \A i \in due : /\ "GPS103" \in ImeiFamilies[i]
                      /\ byImei[i] # None => sinceAsked[byImei[i]] >= PollTicks
    /\ at = "drain" => bySocket[asked] \notin due

PollerInv == TypeOK /\ EntriesOK /\ ListOK

USE NoneAssumption, TicksAssumption

LEMMA TickOK == ASSUME PollerInv, Tick PROVE PollerInv'
<1> USE DEF PollerInv, Tick, registryVars, pollerVars
<1>1. TypeOK'
    BY DEF TypeOK, RegistryTypeOK
<1>2. EntriesOK'
    BY DEF EntriesOK
<1>3. ListOK'
    BY DEF TypeOK, RegistryTypeOK, ListOK
<1> QED BY <1>1, <1>2, <1>3

\* A connection that is new, or logs in again, starts with a fresh entry.
LEMMA RegisterOK ==
    ASSUME PollerInv, NEW i \in Imeis, NEW c \in Conns, Register(i, c)
    PROVE  PollerInv'
<1> USE DEF PollerInv, Register, register_device
<1>1. TypeOK'
    BY DEF TypeOK, RegistryTypeOK
<1>2. ASSUME NEW j \in Imeis, j # i, byImei[j] # None
      PROVE  byImei'[j] = byImei[j] /\ byImei[j] # c /\ byImei[j] # byImei[i]
    BY <1>2 DEF TypeOK, RegistryTypeOK, EntriesOK
<1>3. EntriesOK'
    BY <1>2 DEF TypeOK, RegistryTypeOK, EntriesOK
<1>4. ListOK'
    <2>1. \A d \in Conns : silent'[d] <= sinceAsked'[d]
        BY DEF TypeOK, ListOK
    <2>2. ASSUME NEW j \in due
          PROVE  /\ "GPS103" \in ImeiFamilies[j]
                 /\ byImei'[j] # None => sinceAsked'[byImei'[j]] >= PollTicks
        BY <1>2 DEF TypeOK, RegistryTypeOK, ListOK
    <2>3. at = "drain" => bySocket'[asked] \notin due
        BY DEF TypeOK, RegistryTypeOK, ListOK
    <2> QED BY <2>1, <2>2, <2>3 DEF ListOK
<1> QED BY <1>1, <1>3, <1>4

LEMMA LeaveOK ==
    ASSUME PollerInv, NEW i \in Imeis, Leave(i)
    PROVE  PollerInv'
<1> USE DEF PollerInv, Leave, unregister_device, get_device, entryVars, pollerVars
<1>1. TypeOK'
    BY DEF TypeOK, RegistryTypeOK
<1>2. EntriesOK'
    BY DEF TypeOK, RegistryTypeOK, EntriesOK
<1>3. ListOK'
    BY DEF TypeOK, RegistryTypeOK, ListOK
<1> QED BY <1>1, <1>2, <1>3

LEMMA PositionOK ==
    ASSUME PollerInv, NEW i \in Imeis, NEW fast \in BOOLEAN, note_position(i, fast)
    PROVE  PollerInv'
<1> USE DEF PollerInv, note_position, get_device, registryVars, pollerVars
<1>1. TypeOK'
    BY DEF TypeOK, RegistryTypeOK
<1>2. EntriesOK'
    BY DEF EntriesOK
<1>3. ListOK'
    BY DEF TypeOK, RegistryTypeOK, ListOK
<1> QED BY <1>1, <1>2, <1>3

\* The list is made: a device that has been silent has not been asked.
LEMMA WakeOK == ASSUME PollerInv, Wake PROVE PollerInv'
<1> USE DEF PollerInv, Wake, registryVars, entryVars
<1>1. TypeOK'
    BY DEF TypeOK, RegistryTypeOK, due_devices
<1>2. EntriesOK'
    BY DEF EntriesOK
<1>3. ListOK'
    BY DEF TypeOK, RegistryTypeOK, ListOK, EntriesOK, due_devices, get_device, interval_for
<1> QED BY <1>1, <1>2, <1>3

LEMMA AskOK ==
    ASSUME PollerInv, NEW i \in Imeis, Ask(i)
    PROVE  PollerInv'
<1> USE DEF PollerInv, Ask, get_device, registryVars, entryVars
<1>1. TypeOK'
    BY DEF TypeOK, RegistryTypeOK
<1>2. EntriesOK'
    BY DEF EntriesOK
<1>3. ListOK'
    BY DEF TypeOK, RegistryTypeOK, ListOK, EntriesOK
<1> QED BY <1>1, <1>2, <1>3

\* The stamp of the device that was asked touches none on the list.
LEMMA DrainOK ==
    ASSUME PollerInv, Drained \/ DrainFails \/ RoundDone
    PROVE  PollerInv'
<1> USE DEF PollerInv, Drained, DrainFails, RoundDone, registryVars, entryVars
<1>1. TypeOK'
    BY DEF TypeOK, RegistryTypeOK
<1>2. EntriesOK'
    BY DEF EntriesOK
<1>3. \A i \in due : at = "drain" => byImei[i] # asked
    BY DEF TypeOK, RegistryTypeOK, EntriesOK, ListOK
<1>4. ListOK'
    BY <1>3 DEF TypeOK, RegistryTypeOK, ListOK
<1> QED BY <1>1, <1>2, <1>4

(***************************************************************************)
(* The list due_devices returned stays fit to be worked through, however    *)
(* the registry changes during the drains of poll_once.                     *)
(***************************************************************************)
THEOREM PollerInvariant == Spec => []PollerInv
<1>1. Init => PollerInv
    BY DEF Init, RegistryInit, PollerInv, TypeOK, RegistryTypeOK, EntriesOK, ListOK
<1>2. PollerInv /\ [Next]_vars => PollerInv'
    <2> SUFFICES ASSUME PollerInv, [Next]_vars PROVE PollerInv'
        OBVIOUS
    <2>1. CASE UNCHANGED vars
        BY <2>1 DEF vars, registryVars, entryVars, pollerVars, PollerInv, TypeOK, RegistryTypeOK,
                    EntriesOK, ListOK
    <2>2. CASE Tick
        BY <2>2, TickOK
    <2>3. CASE \E i \in Imeis, c \in Conns : Register(i, c)
        BY <2>3, RegisterOK
    <2>4. CASE \E i \in Imeis : Leave(i) \/ \E fast \in BOOLEAN : note_position(i, fast)
        BY <2>4, LeaveOK, PositionOK
    <2>5. CASE Poller
        BY <2>5, WakeOK, AskOK, DrainOK DEF Poller
    <2> QED BY <2>1, <2>2, <2>3, <2>4, <2>5 DEF Next
<1> QED BY <1>1, <1>2, PTL DEF Spec

(***************************************************************************)
(* Registry, entries and poller keep their types.                           *)
(***************************************************************************)
THEOREM PollerTypeCorrect == Spec => []TypeOK
<1>1. PollerInv => TypeOK
    BY DEF PollerInv
<1> QED BY <1>1, PollerInvariant, PTL

(***************************************************************************)
(* poll_once writes to GPS103 sockets only, and to none that took a poll    *)
(* within the shortest interval, if every IMEI that connects as a tracker   *)
(* always does.                                                             *)
(***************************************************************************)
THEOREM PollsAreSpaced ==
    ASSUME \A i \in Imeis : "GPS103" \in ImeiFamilies[i] => ImeiFamilies[i] = {"GPS103"}
    PROVE  Spec => PollsSpaced
<1>1. PollerInv /\ [Next]_vars =>
        [\A c \in Conns : (asked = None /\ asked' = c) =>
            Family[c] = "GPS103" /\ sinceAsked[c] >= PollTicks]_vars
    <2> SUFFICES ASSUME PollerInv, Next, NEW c \in Conns, asked = None, asked' = c
                 PROVE  Family[c] = "GPS103" /\ sinceAsked[c] >= PollTicks
        BY DEF vars
    <2>1. PICK i \in Imeis : Ask(i)
        BY DEF Next, Poller, Tick, Register, Leave, note_position, Wake, Drained, DrainFails,
               RoundDone, pollerVars
    <2>2. i \in due /\ byImei[i] = c
        BY <2>1 DEF Ask, get_device
    <2> QED BY <2>2 DEF PollerInv, EntriesOK, ListOK
<1> QED BY <1>1, PollerInvariant, PTL DEF Spec, PollsSpaced
=============================================================================
