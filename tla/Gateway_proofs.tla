--------------------------- MODULE Gateway_proofs ---------------------------
(***************************************************************************)
(* Theorems about Gateway, for every set of connections, IMEIs and          *)
(* protocols, every connection cap and every setting of the environment.    *)
(***************************************************************************)
EXTENDS Gateway, FiniteSetTheorems, TLAPS

(***************************************************************************)
(* The registry operations preserve the agreement of the two dictionaries.  *)
(***************************************************************************)

\* register_device: the socket that held the IMEI is unbound with its entry.
LEMMA RegisterAgrees ==
    ASSUME RegistryTypeOK, BindingAgrees,
           NEW i \in Imeis, NEW c \in Conns, register_device(i, c)
    PROVE  RegistryTypeOK' /\ BindingAgrees'
<1>1. RegistryTypeOK'
    BY DEF RegistryTypeOK, register_device
<1>2. BindingAgrees'
    <2> SUFFICES ASSUME NEW s \in Conns, bySocket'[s] # None
                 PROVE  byImei'[bySocket'[s]] = s
        BY DEF BindingAgrees
    <2>1. CASE s = c
        BY <2>1 DEF RegistryTypeOK, register_device
    <2>2. CASE s # c
        <3>1. bySocket'[s] = bySocket[s] /\ s # byImei[i]
            BY <2>2, NoneAssumption DEF RegistryTypeOK, register_device
        <3>2. byImei[bySocket[s]] = s /\ bySocket[s] \in Imeis
            BY <3>1 DEF RegistryTypeOK, BindingAgrees
        <3> QED BY <3>1, <3>2 DEF RegistryTypeOK, register_device
    <2> QED BY <2>1, <2>2
<1> QED BY <1>1, <1>2

\* unregister_device: the socket of the removed entry is unbound with it.
LEMMA UnregisterAgrees ==
    ASSUME RegistryTypeOK, BindingAgrees, NEW i \in Imeis, unregister_device(i)
    PROVE  RegistryTypeOK' /\ BindingAgrees'
<1>1. RegistryTypeOK'
    BY DEF RegistryTypeOK, unregister_device
<1>2. BindingAgrees'
    <2> SUFFICES ASSUME NEW s \in Conns, bySocket'[s] # None
                 PROVE  byImei'[bySocket'[s]] = s
        BY DEF BindingAgrees
    <2>1. bySocket'[s] = bySocket[s] /\ s # byImei[i]
        BY DEF RegistryTypeOK, unregister_device
    <2>2. byImei[bySocket[s]] = s /\ bySocket[s] \in Imeis
        BY <2>1 DEF RegistryTypeOK, BindingAgrees
    <2> QED BY <2>1, <2>2 DEF RegistryTypeOK, unregister_device
<1> QED BY <1>1, <1>2
-----------------------------------------------------------------------------
(***************************************************************************)
(* Next as a flat disjunction: one case per action.                         *)
(***************************************************************************)
Steps(c) ==
    \/ Accept(c) \/ Reject(c) \/ Reuse(c) \/ ShortRead(c)
    \/ \E p \in Protocols : Detect(c, p)
    \/ \E i \in Imeis : Login(c, i)
    \/ LoginRejected(c) \/ LoginRaises(c) \/ LoginAccepted(c)
    \/ LoginMarksOnline(c) \/ LoginDone(c)
    \/ FrameRefused(c) \/ FrameIgnored(c) \/ StatusFrame(c)
    \/ HeartbeatAnswered(c) \/ StatusWritten(c) \/ HeartbeatWritten(c)
    \/ StoreFrame(c) \/ Stored(c)
    \/ EnterFinally(c) \/ OfflineWritten(c) \/ Unregister(c) \/ Release(c)

\* Every step of the gateway is one of the named actions of some connection,
\* or a restart.
LEMMA NextIsStep == Next => Restart \/ \E c \in Conns : Steps(c)
BY DEF Next, Steps, Arrive, SendFrame, Handle, Finish

\* A write outcome is a record of two Booleans.
LEMMA OutcomeType ==
    \A o \in WriteOutcomes : o \in [applied : BOOLEAN, raised : BOOLEAN]
BY DEF WriteOutcomes

\* The initial state is type-correct.
LEMMA TypeInit == Init => TypeOK
BY DEF Init, RegistryInit, TasksInit, TypeOK, RegistryTypeOK, PcStates, Free

\* Every action preserves the types.
LEMMA TypeStep == TypeOK /\ [Next]_vars => TypeOK'
<1> SUFFICES ASSUME TypeOK, [Next]_vars PROVE TypeOK'
    OBVIOUS
<1> USE DEF TypeOK, RegistryTypeOK, PcStates, Free, Finishing, Handling,
            Goto, Aim, Return, registryVars, get_imei_by_socket, get_device
<1>1. CASE UNCHANGED vars
    BY <1>1 DEF vars, taskVars
<1>2. CASE Restart
    BY <1>2 DEF Restart
<1>3. ASSUME NEW c \in Conns, Steps(c) PROVE TypeOK'
    <2>1. CASE Accept(c) \/ ShortRead(c)
        BY <2>1 DEF Accept, ShortRead
    <2>18. CASE Reject(c)
        BY <2>18 DEF Reject
    <2>19. CASE Reuse(c)
        BY <2>19 DEF Reuse
    <2>2. CASE \E p \in Protocols : Detect(c, p)
        BY <2>2 DEF Detect
    <2>3. CASE \E i \in Imeis : Login(c, i)
        BY <2>3 DEF Login, TakesFrame
    <2>4. CASE LoginRejected(c) \/ LoginRaises(c)
        BY <2>4 DEF LoginRejected, LoginRaises
    <2>5. CASE LoginAccepted(c)
        BY <2>5 DEF LoginAccepted, register_device
    <2>6. CASE LoginMarksOnline(c)
        BY <2>6 DEF LoginMarksOnline, MarkOnline
    <2>7. CASE LoginDone(c)
        BY <2>7 DEF LoginDone
    <2>8. CASE FrameRefused(c) \/ FrameIgnored(c)
        BY <2>8 DEF FrameRefused, FrameIgnored, TakesFrame
    <2>9. CASE StatusFrame(c) \/ StoreFrame(c)
        BY <2>9 DEF StatusFrame, StoreFrame, TakesFrame
    <2>10. CASE HeartbeatAnswered(c)
        BY <2>10 DEF HeartbeatAnswered
    <2>11. CASE StatusWritten(c)
        BY <2>11 DEF StatusWritten, MarkOnline, HandlerReturns
    <2>12. CASE HeartbeatWritten(c)
        BY <2>12 DEF HeartbeatWritten, MarkOnline, HandlerReturns
    <2>13. CASE Stored(c)
        BY <2>13 DEF Stored, MarkOnline, HandlerReturns, UnknownReturns
    <2>14. CASE EnterFinally(c)
        BY <2>14 DEF EnterFinally, OwnsEntry, CleanupImei
    <2>15. CASE OfflineWritten(c)
        BY <2>15 DEF OfflineWritten, MarkOffline
    <2>16. CASE Unregister(c)
        BY <2>16 DEF Unregister, unregister_device
    <2>17. CASE Release(c)
        BY <2>17 DEF Release
    <2> QED
        BY <1>3, <2>1, <2>2, <2>3, <2>4, <2>5, <2>6, <2>7, <2>8, <2>9, <2>10,
           <2>11, <2>12, <2>13, <2>14, <2>15, <2>16, <2>17, <2>18, <2>19 DEF Steps
<1> QED
    BY <1>1, <1>2, <1>3, NextIsStep

\* Type correctness: every reachable state satisfies TypeOK.
THEOREM TypeCorrect == Spec => []TypeOK
BY TypeInit, TypeStep, PTL DEF Spec
-----------------------------------------------------------------------------
(***************************************************************************)
(* The registry.                                                            *)
(***************************************************************************)

\* While a handler or the cleanup works for a device, target names it.
TargetKnown ==
    \A c \in Conns :
        pc[c] \in Handling \cup {"offline", "unregister"} => target[c] \in Imeis

\* A step moves the task of one connection only.
LEMMA OthersUnmoved ==
    ASSUME TypeOK, NEW c \in Conns, Steps(c), NEW s \in Conns, s # c
    PROVE  /\ pc'[s] = pc[s]
           /\ imei'[s] = imei[s]
           /\ target'[s] = target[s]
           /\ closing'[s] = closing[s]
<1> USE DEF TypeOK, RegistryTypeOK, Goto, Aim, Return
<1>1. CASE Accept(c) \/ Reject(c) \/ Reuse(c) \/ ShortRead(c)
           \/ (\E p \in Protocols : Detect(c, p))
    BY <1>1 DEF Accept, Reject, Reuse, ShortRead, Detect
<1>2. CASE \/ \E i \in Imeis : Login(c, i)
           \/ LoginRejected(c) \/ LoginRaises(c) \/ LoginAccepted(c)
           \/ LoginMarksOnline(c) \/ LoginDone(c)
    BY <1>2 DEF Login, LoginRejected, LoginRaises, LoginAccepted,
                LoginMarksOnline, LoginDone
<1>3. CASE FrameRefused(c) \/ FrameIgnored(c) \/ StatusFrame(c) \/ StoreFrame(c)
           \/ HeartbeatAnswered(c)
    BY <1>3 DEF FrameRefused, FrameIgnored, StatusFrame, StoreFrame,
                HeartbeatAnswered
<1>4. CASE StatusWritten(c) \/ HeartbeatWritten(c) \/ Stored(c)
    BY <1>4 DEF StatusWritten, HeartbeatWritten, Stored, HandlerReturns, UnknownReturns
<1>5. CASE EnterFinally(c) \/ OfflineWritten(c) \/ Unregister(c) \/ Release(c)
    BY <1>5 DEF EnterFinally, OfflineWritten, Unregister, Release
<1> QED BY <1>1, <1>2, <1>3, <1>4, <1>5 DEF Steps

\* Only an accepted login and the end of a cleanup change the registry.
LEMMA RegistryWriters ==
    ASSUME NEW c \in Conns, Steps(c), ~LoginAccepted(c), ~Unregister(c)
    PROVE  UNCHANGED registryVars
BY DEF Steps, registryVars, Accept, Reject, Reuse, ShortRead, Detect, Login,
       LoginRejected, LoginRaises, LoginMarksOnline, LoginDone, FrameRefused,
       FrameIgnored, StatusFrame, HeartbeatAnswered, StatusWritten,
       HeartbeatWritten, StoreFrame, Stored, EnterFinally, OfflineWritten, Release

\* A task starts working for a device only with that device in target.
LEMMA TargetStep == TypeOK /\ TargetKnown /\ [Next]_vars => TargetKnown'
<1> SUFFICES ASSUME TypeOK, TargetKnown, [Next]_vars, NEW s \in Conns,
                    pc'[s] \in Handling \cup {"offline", "unregister"}
             PROVE  target'[s] \in Imeis
    BY DEF TargetKnown
<1>1. CASE UNCHANGED vars
    BY <1>1 DEF vars, taskVars, TargetKnown
<1>2. CASE Restart
    BY <1>2 DEF Restart, Handling
<1>3. ASSUME NEW c \in Conns, Steps(c) PROVE target'[s] \in Imeis
    <2>1. CASE s # c
        BY <1>3, <2>1, OthersUnmoved DEF TargetKnown
    <2>2. CASE s = c
        <3> USE <2>2 DEF TypeOK, RegistryTypeOK, Handling, Goto, Aim, TargetKnown,
                         get_imei_by_socket
        <3>1. CASE \/ Accept(c) \/ Reject(c) \/ Reuse(c) \/ ShortRead(c)
                   \/ \E p \in Protocols : Detect(c, p)
            BY <3>1 DEF Accept, Reject, Reuse, ShortRead, Detect
        <3>2. CASE \/ \E i \in Imeis : Login(c, i)
                   \/ LoginRejected(c) \/ LoginRaises(c) \/ LoginAccepted(c)
                   \/ LoginMarksOnline(c) \/ LoginDone(c)
            BY <3>2 DEF Login, LoginRejected, LoginRaises, LoginAccepted,
                        LoginMarksOnline, LoginDone
        <3>3. CASE \/ FrameRefused(c) \/ FrameIgnored(c)
                   \/ StatusFrame(c) \/ StoreFrame(c)
            BY <3>3 DEF FrameRefused, FrameIgnored, StatusFrame, StoreFrame, TakesFrame
        <3>4. CASE HeartbeatAnswered(c) \/ StatusWritten(c) \/ HeartbeatWritten(c)
                   \/ Stored(c)
            BY <3>4 DEF HeartbeatAnswered, StatusWritten, HeartbeatWritten, Stored,
                        HandlerReturns, UnknownReturns
        <3>5. CASE EnterFinally(c)
            BY <3>5 DEF EnterFinally, OwnsEntry, CleanupImei
        <3>6. CASE OfflineWritten(c) \/ Unregister(c) \/ Release(c)
            BY <3>6 DEF OfflineWritten, Unregister, Release
        <3> QED BY <1>3, <3>1, <3>2, <3>3, <3>4, <3>5, <3>6 DEF Steps
    <2> QED BY <2>1, <2>2
<1> QED BY <1>1, <1>2, <1>3, NextIsStep

\* The inductive invariant of the registry.
RegistryInv == TypeOK /\ TargetKnown /\ BindingAgrees /\ UnboundUntilLogin

\* It holds initially.
LEMMA RegistryInvInit == Init => RegistryInv
<1> SUFFICES ASSUME Init PROVE RegistryInv
    OBVIOUS
<1>1. TypeOK
    BY TypeInit
<1>2. TargetKnown
    BY DEF Init, TasksInit, TargetKnown, Handling
<1>3. BindingAgrees /\ UnboundUntilLogin
    BY DEF Init, RegistryInit, BindingAgrees, UnboundUntilLogin
<1> QED BY <1>1, <1>2, <1>3 DEF RegistryInv

\* Every step preserves the agreement of the two dictionaries.
LEMMA BindingStep == RegistryInv /\ [Next]_vars => BindingAgrees'
<1> SUFFICES ASSUME RegistryInv, [Next]_vars PROVE BindingAgrees'
    OBVIOUS
<1> USE DEF RegistryInv
<1>1. CASE UNCHANGED vars
    BY <1>1 DEF vars, BindingAgrees
<1>2. CASE Restart
    BY <1>2 DEF Restart, BindingAgrees
<1>3. ASSUME NEW c \in Conns, Steps(c) PROVE BindingAgrees'
    <2>1. CASE LoginAccepted(c)
        <3>1. target[c] \in Imeis /\ register_device(target[c], c)
            BY <2>1 DEF LoginAccepted, TargetKnown, Handling
        <3> QED BY <3>1, RegisterAgrees DEF TypeOK
    <2>2. CASE Unregister(c)
        <3>1. target[c] \in Imeis /\ unregister_device(target[c])
            BY <2>2 DEF Unregister, TargetKnown
        <3> QED BY <3>1, UnregisterAgrees DEF TypeOK
    <2>3. CASE ~LoginAccepted(c) /\ ~Unregister(c)
        BY <1>3, <2>3, RegistryWriters DEF registryVars, BindingAgrees
    <2> QED BY <2>1, <2>2, <2>3
<1> QED BY <1>1, <1>2, <1>3, NextIsStep

\* Every step keeps connections that have not logged in unbound; Reuse needs
\* BindingAgrees, since a socket that no entry holds cannot be bound.
LEMMA UnboundStep == RegistryInv /\ [Next]_vars => UnboundUntilLogin'
<1> DEFINE Early == {"idle", "rejected", "probe", "topup"}
<1> SUFFICES ASSUME RegistryInv, [Next]_vars, NEW s \in Conns, pc'[s] \in Early
             PROVE  bySocket'[s] = None
    BY DEF UnboundUntilLogin
<1> USE DEF RegistryInv
<1>1. CASE UNCHANGED vars
    BY <1>1 DEF vars, taskVars, UnboundUntilLogin
<1>2. CASE Restart
    BY <1>2 DEF Restart
<1>3. ASSUME NEW c \in Conns, Steps(c) PROVE bySocket'[s] = None
    <2>1. CASE LoginAccepted(c)
        <3>1. s # c /\ pc'[s] = pc[s]
            BY <1>3, <2>1, OthersUnmoved DEF LoginAccepted, Goto, TypeOK
        <3>2. bySocket[s] = None
            BY <3>1 DEF UnboundUntilLogin
        <3> QED BY <2>1, <3>1, <3>2 DEF LoginAccepted, register_device
    <2>2. CASE Unregister(c)
        <3>1. s # c /\ pc'[s] = pc[s]
            BY <1>3, <2>2, OthersUnmoved DEF Unregister, Goto, TypeOK
        <3>2. bySocket[s] = None
            BY <3>1 DEF UnboundUntilLogin
        <3> QED BY <2>2, <3>2 DEF Unregister, unregister_device
    <2>3. CASE ~LoginAccepted(c) /\ ~Unregister(c)
        <3>1. bySocket'[s] = bySocket[s]
            BY <1>3, <2>3, RegistryWriters DEF registryVars
        <3>2. CASE s # c
            BY <1>3, <3>1, <3>2, OthersUnmoved DEF UnboundUntilLogin
        <3>3. CASE s = c
            <4> USE <3>3 DEF TypeOK, RegistryTypeOK, Goto, UnboundUntilLogin
            <4>1. CASE Reuse(c)
                BY <3>1, <4>1 DEF Reuse, BindingAgrees
            <4>2. CASE \/ Accept(c) \/ Reject(c) \/ ShortRead(c)
                       \/ \E p \in Protocols : Detect(c, p)
                BY <3>1, <4>2 DEF Accept, Reject, ShortRead, Detect
            <4>3. CASE \/ \E i \in Imeis : Login(c, i)
                       \/ LoginRejected(c) \/ LoginRaises(c)
                       \/ LoginMarksOnline(c) \/ LoginDone(c)
                BY <4>3 DEF Login, LoginRejected, LoginRaises, LoginMarksOnline,
                            LoginDone
            <4>4. CASE \/ FrameRefused(c) \/ FrameIgnored(c)
                       \/ StatusFrame(c) \/ StoreFrame(c)
                BY <4>4 DEF FrameRefused, FrameIgnored, StatusFrame, StoreFrame,
                            TakesFrame
            <4>5. CASE \/ HeartbeatAnswered(c) \/ StatusWritten(c)
                       \/ HeartbeatWritten(c) \/ Stored(c)
                BY <4>5 DEF HeartbeatAnswered, StatusWritten, HeartbeatWritten,
                            Stored, HandlerReturns, UnknownReturns
            <4>6. CASE EnterFinally(c) \/ OfflineWritten(c) \/ Release(c)
                BY <4>6 DEF EnterFinally, OfflineWritten, Release
            <4> QED
                BY <1>3, <2>3, <4>1, <4>2, <4>3, <4>4, <4>5, <4>6 DEF Steps
        <3> QED BY <3>2, <3>3
    <2> QED BY <2>1, <2>2, <2>3
<1> QED BY <1>1, <1>2, <1>3, NextIsStep

\* The registry invariant holds of every behaviour.
THEOREM RegistryInvariant == Spec => []RegistryInv
<1>1. RegistryInv /\ [Next]_vars => RegistryInv'
    BY TypeStep, TargetStep, BindingStep, UnboundStep DEF RegistryInv
<1> QED BY <1>1, RegistryInvInit, PTL DEF Spec

\* The binding of a socket always agrees with the entry of its IMEI, whatever
\* the database, the devices and the operator do.
THEOREM BindingsAgree == Spec => []BindingAgrees
<1>1. RegistryInv => BindingAgrees
    BY DEF RegistryInv
<1> QED BY <1>1, RegistryInvariant, PTL

\* No connection starts with the identity of one that used its id() before.
THEOREM NoInheritedIdentity == Spec => []UnboundUntilLogin
<1>1. RegistryInv => UnboundUntilLogin
    BY DEF RegistryInv
<1> QED BY <1>1, RegistryInvariant, PTL
-----------------------------------------------------------------------------
(***************************************************************************)
(* The connection cap.                                                      *)
(***************************************************************************)

\* Accept, Release and a raising OfflineWritten are the only steps that begin
\* or end a task.
TaskEnds(c) == Release(c) \/ (OfflineWritten(c) /\ pc'[c] = "done")

\* The served connections after a step of connection c.
LEMMA RunningStep ==
    ASSUME TypeOK, NEW c \in Conns, Steps(c)
    PROVE  /\ Accept(c) => c \notin Running /\ Running' = Running \cup {c}
           /\ TaskEnds(c) => c \in Running /\ Running' = Running \ {c}
           /\ ~Accept(c) /\ ~TaskEnds(c) => Running' = Running
<1>1. \A s \in Conns : s # c => pc'[s] = pc[s]
    BY OthersUnmoved
<1> USE DEF TypeOK, Goto, Running, Free
<1>2. ASSUME Accept(c) PROVE c \notin Running /\ Running' = Running \cup {c}
    BY <1>1, <1>2 DEF Accept
<1>3. ASSUME TaskEnds(c) PROVE c \in Running /\ Running' = Running \ {c}
    BY <1>1, <1>3 DEF TaskEnds, Release, OfflineWritten
<1>4. ASSUME ~Accept(c), ~TaskEnds(c) PROVE Running' = Running
    <2> SUFFICES pc'[c] \in Free <=> pc[c] \in Free
        BY <1>1
    <2>1. CASE Reject(c) \/ Reuse(c) \/ ShortRead(c)
               \/ (\E p \in Protocols : Detect(c, p))
        BY <2>1 DEF Reject, Reuse, ShortRead, Detect
    <2>2. CASE \/ \E i \in Imeis : Login(c, i)
               \/ LoginRejected(c) \/ LoginRaises(c) \/ LoginAccepted(c)
               \/ LoginMarksOnline(c) \/ LoginDone(c)
        BY <2>2 DEF Login, LoginRejected, LoginRaises, LoginAccepted,
                    LoginMarksOnline, LoginDone, TakesFrame
    <2>3. CASE FrameRefused(c) \/ FrameIgnored(c) \/ StatusFrame(c) \/ StoreFrame(c)
        BY <2>3 DEF FrameRefused, FrameIgnored, StatusFrame, StoreFrame, TakesFrame
    <2>4. CASE HeartbeatAnswered(c) \/ StatusWritten(c) \/ HeartbeatWritten(c)
               \/ Stored(c)
        BY <2>4 DEF HeartbeatAnswered, StatusWritten, HeartbeatWritten, Stored,
                    HandlerReturns, UnknownReturns
    <2>5. CASE EnterFinally(c) \/ Unregister(c)
        BY <2>5 DEF EnterFinally, Unregister
    <2>6. CASE OfflineWritten(c)
        BY <1>4, <2>6 DEF OfflineWritten, TaskEnds
    <2> QED
        BY <1>4, <2>1, <2>2, <2>3, <2>4, <2>5, <2>6 DEF Steps, TaskEnds
<1> QED BY <1>2, <1>3, <1>4

\* _connection_count changes in Accept and Release only.
LEMMA CountStep ==
    ASSUME NEW c \in Conns, Steps(c)
    PROVE  /\ Accept(c) => count < MaxConnections /\ count' = count + 1
           /\ Release(c) => count' = count - 1
           /\ ~Accept(c) /\ ~Release(c) => count' = count
BY DEF Steps, Accept, Release, Reject, Reuse, ShortRead, Detect, Login,
       LoginRejected, LoginRaises, LoginAccepted, LoginMarksOnline, LoginDone,
       FrameRefused, FrameIgnored, StatusFrame, HeartbeatAnswered, StatusWritten,
       HeartbeatWritten, StoreFrame, Stored, EnterFinally, OfflineWritten, Unregister

\* The inductive invariant of the cap: the counter never falls below the
\* number of served connections, and equals it while the database answers.
CapInv == TypeOK /\ CapRespected /\ (~DbFails => SlotsMatchLive)

\* The served connections are finitely many.
LEMMA RunningFinite == IsFiniteSet(Running) /\ Cardinality(Running) \in Nat
<1>1. Running \subseteq Conns
    BY DEF Running
<1> QED BY <1>1, ConnsAssumption, FS_Subset, FS_CardinalityType

\* A task that ends without Release was ended by a failing database call.
LEMMA EndsByFailure ==
    ASSUME TypeOK, NEW c \in Conns, TaskEnds(c), ~Release(c)
    PROVE  DbFails
BY DEF TaskEnds, OfflineWritten, WriteOutcomes, Goto, TypeOK

\* It is preserved by every step.
LEMMA CapStep == CapInv /\ [Next]_vars => CapInv'
<1> SUFFICES ASSUME CapInv, [Next]_vars PROVE CapInv'
    OBVIOUS
<1> USE DEF CapInv, CapRespected, SlotsMatchLive
<1>0. TypeOK'
    BY TypeStep
<1>1. CASE UNCHANGED vars
    BY <1>0, <1>1 DEF vars, taskVars, Running
<1>2. CASE Restart
    <2>1. Running' = {} /\ count' = 0
        BY <1>2 DEF Restart, Running, Free
    <2> QED BY <1>0, <2>1, FS_EmptySet, MaxAssumption
<1>3. ASSUME NEW c \in Conns, Steps(c) PROVE CapInv'
    <2>1. CASE Accept(c)
        <3>1. Cardinality(Running') = Cardinality(Running) + 1
            BY <1>3, <2>1, RunningStep, RunningFinite, FS_AddElement
        <3>2. count < MaxConnections /\ count' = count + 1
            BY <1>3, <2>1, CountStep
        <3> QED BY <1>0, <3>1, <3>2, RunningFinite, MaxAssumption DEF TypeOK
    <2>2. CASE TaskEnds(c)
        <3>1. Cardinality(Running') = Cardinality(Running) - 1
            BY <1>3, <2>2, RunningStep, RunningFinite, FS_RemoveElement
        <3>2. CASE Release(c)
            <4>1. count' = count - 1
                BY <1>3, <3>2, CountStep
            <4> QED BY <1>0, <3>1, <4>1, RunningFinite, MaxAssumption DEF TypeOK
        <3>3. CASE ~Release(c)
            <4>1. DbFails
                BY <2>2, <3>3, EndsByFailure
            <4>2. count' = count
                BY <2>2, <3>3 DEF TaskEnds, OfflineWritten
            <4> QED BY <1>0, <3>1, <4>1, <4>2, RunningFinite, MaxAssumption DEF TypeOK
        <3> QED BY <3>2, <3>3
    <2>3. CASE ~Accept(c) /\ ~TaskEnds(c)
        <3>1. Running' = Running
            BY <1>3, <2>3, RunningStep
        <3>2. count' = count
            BY <1>3, <2>3, CountStep DEF TaskEnds
        <3> QED BY <1>0, <3>1, <3>2
    <2> QED BY <2>1, <2>2, <2>3
<1> QED BY <1>1, <1>2, <1>3, NextIsStep

\* It holds of every behaviour.
THEOREM CapInvariant == Spec => []CapInv
<1>1. Init => CapInv
    <2> SUFFICES ASSUME Init PROVE CapInv
        OBVIOUS
    <2>1. Running = {} /\ count = 0
        BY DEF Init, TasksInit, Running, Free
    <2> QED
        BY <2>1, TypeInit, FS_EmptySet, MaxAssumption
        DEF CapInv, CapRespected, SlotsMatchLive
<1> QED BY <1>1, CapStep, PTL DEF Spec

\* Never more than MAX_CONNECTIONS connections are served, whether or not the
\* database answers.
THEOREM CapIsRespected == Spec => []CapRespected
<1>1. CapInv => CapRespected
    BY DEF CapInv
<1> QED BY <1>1, CapInvariant, PTL

\* While no database call raises, every slot taken is given back exactly once.
THEOREM SlotsAreAccounted ==
    ASSUME ~DbFails
    PROVE  Spec => []SlotsMatchLive
<1>1. CapInv => SlotsMatchLive
    BY DEF CapInv
<1> QED BY <1>1, CapInvariant, PTL
-----------------------------------------------------------------------------
(***************************************************************************)
(* The gateway implements the abstract connection cap.                      *)
(***************************************************************************)

\* The connections turned away, as the refinement mapping reads them.
Refused == {c \in Conns : pc[c] = "rejected"}

\* Only Reject and Reuse change who is turned away.
LEMMA RefusedStep ==
    ASSUME TypeOK, NEW c \in Conns, Steps(c)
    PROVE  /\ Reject(c) => Refused' = Refused \cup {c}
           /\ Reuse(c) => Refused' = Refused \ {c}
           /\ ~Reject(c) /\ ~Reuse(c) => Refused' = Refused
<1>1. \A s \in Conns : s # c => pc'[s] = pc[s]
    BY OthersUnmoved
<1> USE DEF TypeOK, Goto, Refused
<1>2. ASSUME Reject(c) PROVE Refused' = Refused \cup {c}
    BY <1>1, <1>2 DEF Reject
<1>3. ASSUME Reuse(c) PROVE Refused' = Refused \ {c}
    BY <1>1, <1>3 DEF Reuse
<1>4. ASSUME ~Reject(c), ~Reuse(c) PROVE Refused' = Refused
    <2> SUFFICES pc'[c] = "rejected" <=> pc[c] = "rejected"
        BY <1>1
    <2>1. CASE Accept(c) \/ ShortRead(c) \/ (\E p \in Protocols : Detect(c, p))
        BY <2>1 DEF Accept, ShortRead, Detect
    <2>2. CASE \/ \E i \in Imeis : Login(c, i)
               \/ LoginRejected(c) \/ LoginRaises(c) \/ LoginAccepted(c)
               \/ LoginMarksOnline(c) \/ LoginDone(c)
        BY <2>2 DEF Login, LoginRejected, LoginRaises, LoginAccepted,
                    LoginMarksOnline, LoginDone, TakesFrame
    <2>3. CASE FrameRefused(c) \/ FrameIgnored(c) \/ StatusFrame(c) \/ StoreFrame(c)
        BY <2>3 DEF FrameRefused, FrameIgnored, StatusFrame, StoreFrame, TakesFrame
    <2>4. CASE HeartbeatAnswered(c) \/ StatusWritten(c) \/ HeartbeatWritten(c)
               \/ Stored(c)
        BY <2>4 DEF HeartbeatAnswered, StatusWritten, HeartbeatWritten, Stored,
                    HandlerReturns, UnknownReturns
    <2>5. CASE EnterFinally(c) \/ OfflineWritten(c) \/ Unregister(c) \/ Release(c)
        BY <2>5 DEF EnterFinally, OfflineWritten, Unregister, Release
    <2> QED BY <1>4, <2>1, <2>2, <2>3, <2>4, <2>5 DEF Steps
<1> QED BY <1>2, <1>3, <1>4

\* A task ends from one of the awaits of its finally block.
LEMMA EndsFinishing ==
    ASSUME NEW c \in Conns, TaskEnds(c)
    PROVE  pc[c] \in {"offline", "closed"}
BY DEF TaskEnds, Release, OfflineWritten

\* Cardinality means the same in the instantiated module.
LEMMA SameCardinality == Slots!Cardinality(Running) = Cardinality(Running)
BY DEF Cardinality, Slots!Cardinality

\* Each step is a step of the abstract cap or leaves it unchanged: Accept is
\* Admit, Reject is Refuse (CapInv: the counter is the number served), the
\* release is Leave, reuse of a refused socket is Forget.
LEMMA SlotsStep ==
    ASSUME ~DbFails, CapInv, [Next]_vars
    PROVE  [Slots!SlotsNext]_(<<Running, Refused>>)
<1> USE DEF CapInv
<1>1. CASE UNCHANGED vars
    BY <1>1 DEF vars, taskVars, Running, Refused
<1>2. CASE Restart
    <2>1. Running' = {} /\ Refused' = {}
        BY <1>2 DEF Restart, Running, Refused, Free
    <2> QED BY <2>1 DEF Slots!SlotsNext, Slots!Reset, Refused
<1>3. ASSUME NEW c \in Conns, Steps(c)
      PROVE  [Slots!SlotsNext]_(<<Running, Refused>>)
    <2>1. CASE Accept(c)
        <3>1. c \notin Running \cup Refused
            BY <2>1 DEF Accept, Running, Refused, Free
        <3>2. Cardinality(Running) < MaxConnections
            BY <2>1 DEF Accept, SlotsMatchLive
        <3>3. Running' = Running \cup {c} /\ Refused' = Refused
            BY <1>3, <2>1, RunningStep, RefusedStep DEF Accept, Reject, Reuse
        <3>4. Slots!Admit(c)
            BY <3>1, <3>2, <3>3, SameCardinality DEF Slots!Admit, Refused
        <3> QED BY <3>4 DEF Slots!SlotsNext
    <2>2. CASE Reject(c)
        <3>1. c \notin Running \cup Refused
            BY <2>2 DEF Reject, Running, Refused, Free
        <3>2. Cardinality(Running) = MaxConnections
            BY <2>2, MaxAssumption DEF Reject, SlotsMatchLive, CapRespected, TypeOK
        <3>3. ~Accept(c) /\ ~TaskEnds(c)
            BY <2>2, EndsFinishing, MaxAssumption DEF Reject, Accept, TypeOK
        <3>4. Refused' = Refused \cup {c} /\ Running' = Running
            BY <1>3, <2>2, <3>3, RunningStep, RefusedStep
        <3>5. Slots!Refuse(c)
            BY <3>1, <3>2, <3>4, SameCardinality DEF Slots!Refuse, Refused
        <3> QED BY <3>5 DEF Slots!SlotsNext
    <2>3. CASE Reuse(c)
        <3>1. ~Accept(c) /\ ~TaskEnds(c)
            BY <2>3, EndsFinishing DEF Reuse, Accept
        <3>2. Refused' = Refused \ {c} /\ Running' = Running
            BY <1>3, <2>3, <3>1, RunningStep, RefusedStep
        <3>3. CASE c \in Refused
            BY <3>2, <3>3 DEF Slots!SlotsNext, Slots!Forget, Refused
        <3>4. CASE c \notin Refused
            BY <3>2, <3>4
        <3> QED BY <3>3, <3>4
    <2>4. CASE TaskEnds(c)
        <3>1. ~Reject(c) /\ ~Reuse(c)
            BY <2>4, EndsFinishing DEF Reject, Reuse
        <3>2. c \in Running /\ Running' = Running \ {c} /\ Refused' = Refused
            BY <1>3, <2>4, <3>1, RunningStep, RefusedStep
        <3> QED BY <3>2 DEF Slots!SlotsNext, Slots!Leave, Refused
    <2>5. CASE ~Accept(c) /\ ~Reject(c) /\ ~Reuse(c) /\ ~TaskEnds(c)
        BY <1>3, <2>5, RunningStep, RefusedStep
    <2> QED BY <2>1, <2>2, <2>3, <2>4, <2>5
<1> QED BY <1>1, <1>2, <1>3, NextIsStep

\* While no database call raises, the gateway implements ConnectionSlots: a
\* peer is turned away only when MAX_CONNECTIONS others are being served.
THEOREM ImplementsSlots ==
    ASSUME ~DbFails
    PROVE  Spec => RefinesSlots
<1>1. Init => Slots!SlotsInit
    BY DEF Init, TasksInit, Slots!SlotsInit, Running, Free
<1>2. CapInv /\ [Next]_vars => [Slots!SlotsNext]_(Slots!slotVars)
    BY SlotsStep DEF Slots!slotVars, Refused
<1> QED BY <1>1, <1>2, CapInvariant, PTL DEF Spec, RefinesSlots, Slots!SlotsSpec
-----------------------------------------------------------------------------
(***************************************************************************)
(* A closed connection takes no frame.                                      *)
(***************************************************************************)

\* A handler works for a socket that is not closing: handlers close a socket
\* only as they return, and the loop checks is_closing before the next frame.
HandlingOpen == \A c \in Conns : pc[c] \in Handling => ~closing[c]

\* It is preserved by every step.
LEMMA HandlingOpenStep == TypeOK /\ HandlingOpen /\ [Next]_vars => HandlingOpen'
<1> SUFFICES ASSUME TypeOK, HandlingOpen, [Next]_vars, NEW s \in Conns,
                    pc'[s] \in Handling
             PROVE  ~closing'[s]
    BY DEF HandlingOpen
<1>1. CASE UNCHANGED vars
    BY <1>1 DEF vars, taskVars, HandlingOpen
<1>2. CASE Restart
    BY <1>2 DEF Restart
<1>3. ASSUME NEW c \in Conns, Steps(c) PROVE ~closing'[s]
    <2>1. CASE s # c
        BY <1>3, <2>1, OthersUnmoved DEF HandlingOpen
    <2>2. CASE s = c
        <3> USE <2>2 DEF TypeOK, Handling, Goto, HandlingOpen
        <3>1. CASE \/ Accept(c) \/ Reject(c) \/ Reuse(c) \/ ShortRead(c)
                   \/ \E p \in Protocols : Detect(c, p)
            BY <3>1 DEF Accept, Reject, Reuse, ShortRead, Detect
        <3>2. CASE \E i \in Imeis : Login(c, i)
            BY <3>2 DEF Login, TakesFrame
        <3>3. CASE \/ LoginRejected(c) \/ LoginRaises(c) \/ LoginAccepted(c)
                   \/ LoginMarksOnline(c) \/ LoginDone(c)
            BY <3>3 DEF LoginRejected, LoginRaises, LoginAccepted,
                        LoginMarksOnline, LoginDone
        <3>4. CASE \/ FrameRefused(c) \/ FrameIgnored(c)
                   \/ StatusFrame(c) \/ StoreFrame(c)
            BY <3>4 DEF FrameRefused, FrameIgnored, StatusFrame, StoreFrame, TakesFrame
        <3>5. CASE \/ HeartbeatAnswered(c) \/ StatusWritten(c)
                   \/ HeartbeatWritten(c) \/ Stored(c)
            BY <3>5 DEF HeartbeatAnswered, StatusWritten, HeartbeatWritten, Stored,
                        HandlerReturns, UnknownReturns
        <3>6. CASE EnterFinally(c) \/ OfflineWritten(c) \/ Unregister(c) \/ Release(c)
            BY <3>6 DEF EnterFinally, OfflineWritten, Unregister, Release
        <3> QED BY <1>3, <3>1, <3>2, <3>3, <3>4, <3>5, <3>6 DEF Steps
    <2> QED BY <2>1, <2>2
<1> QED BY <1>1, <1>2, <1>3, NextIsStep

\* A connection closed by a handler never registers a device.
THEOREM ClosedNeverRegister == Spec => ClosedNeverRegisters
<1>1. Init => HandlingOpen
    BY DEF Init, TasksInit, HandlingOpen
<1>2. Spec => [](TypeOK /\ HandlingOpen)
    BY <1>1, TypeInit, TypeStep, HandlingOpenStep, PTL DEF Spec
<1>3. TypeOK /\ HandlingOpen /\ [Next]_vars =>
        [\A c \in Conns, i \in Imeis :
            (byImei[i] # c /\ byImei'[i] = c) => ~closing[c]]_vars
    <2> SUFFICES ASSUME TypeOK, HandlingOpen, Next, NEW s \in Conns, NEW i \in Imeis,
                        byImei[i] # s, byImei'[i] = s
                 PROVE  ~closing[s]
        OBVIOUS
    <2>1. CASE Restart
        BY <2>1, NoneAssumption DEF Restart
    <2>2. ASSUME NEW c \in Conns, Steps(c) PROVE ~closing[s]
        <3>1. CASE LoginAccepted(c)
            BY <3>1 DEF LoginAccepted, register_device, HandlingOpen, Handling,
                        TypeOK, RegistryTypeOK
        <3>2. CASE Unregister(c)
            BY <3>2, NoneAssumption DEF Unregister, unregister_device, TypeOK,
                        RegistryTypeOK
        <3>3. CASE ~LoginAccepted(c) /\ ~Unregister(c)
            BY <2>2, <3>3, RegistryWriters DEF registryVars
        <3> QED BY <3>1, <3>2, <3>3
    <2> QED BY <2>1, <2>2, NextIsStep
<1> QED BY <1>2, <1>3, PTL DEF Spec, ClosedNeverRegisters
-----------------------------------------------------------------------------
(***************************************************************************)
(* The registry leads only to connections still being served.               *)
(***************************************************************************)

\* Every entry is mirrored by the binding of its socket.
EntryMirrored == \A i \in Imeis : byImei[i] # None => bySocket[byImei[i]] = i

\* The local imei of a bound connection is its IMEI, or not yet assigned, so
\* that finally looks at the right entry.
ImeiMatchesBinding ==
    \A c \in Conns : bySocket[c] # None => imei[c] \in {None, bySocket[c]}

\* A handler or a cleanup works for the IMEI its connection is bound to; the
\* binding may be lost to another connection meanwhile, never changed.
WorksForOwnImei ==
    \A c \in Conns :
        pc[c] \in Handling \cup {"offline", "unregister"} =>
            {imei[c], bySocket[c]} \subseteq {None, target[c]}

\* Connections that have finished, or not started, are bound to nothing.
BoundIsServed ==
    \A c \in Conns : bySocket[c] # None =>
        pc[c] \in Handling \cup {"loop", "offline", "unregister"}

OwnerInv == EntryMirrored /\ ImeiMatchesBinding /\ WorksForOwnImei /\ BoundIsServed

\* An accepted login keeps the two dictionaries inverse to each other.
LEMMA MirrorRegister ==
    ASSUME RegistryTypeOK, EntryMirrored, NEW i \in Imeis, NEW c \in Conns,
           bySocket[c] \in {None, i}, register_device(i, c)
    PROVE  EntryMirrored'
<1> SUFFICES ASSUME NEW j \in Imeis, byImei'[j] # None
             PROVE  bySocket'[byImei'[j]] = j
    BY DEF EntryMirrored
<1>1. CASE j = i
    BY <1>1 DEF RegistryTypeOK, register_device
<1>2. CASE j # i
    <2>1. byImei'[j] = byImei[j] /\ byImei[j] \in Conns /\ bySocket[byImei[j]] = j
        BY <1>2 DEF RegistryTypeOK, register_device, EntryMirrored
    <2>2. byImei[j] # c
        BY <1>2, <2>1, NoneAssumption
    <2>3. byImei[j] # byImei[i]
        BY <1>2, <2>1, NoneAssumption DEF EntryMirrored
    <2> QED BY <2>1, <2>2, <2>3 DEF register_device
<1> QED BY <1>1, <1>2

\* So does the end of a cleanup.
LEMMA MirrorUnregister ==
    ASSUME RegistryTypeOK, EntryMirrored, NEW i \in Imeis, unregister_device(i)
    PROVE  EntryMirrored'
<1> SUFFICES ASSUME NEW j \in Imeis, byImei'[j] # None
             PROVE  bySocket'[byImei'[j]] = j
    BY DEF EntryMirrored
<1>1. j # i
    BY DEF RegistryTypeOK, unregister_device
<1>2. byImei'[j] = byImei[j] /\ byImei[j] \in Conns /\ bySocket[byImei[j]] = j
    BY <1>1 DEF RegistryTypeOK, unregister_device, EntryMirrored
<1>3. byImei[j] # byImei[i]
    BY <1>1, <1>2, NoneAssumption DEF EntryMirrored
<1> QED BY <1>2, <1>3 DEF unregister_device

\* A step leaves the binding of every other connection alone or removes it.
LEMMA OtherBindings ==
    ASSUME TypeOK, NEW c \in Conns, Steps(c), NEW s \in Conns, s # c
    PROVE  bySocket'[s] \in {None, bySocket[s]}
<1>1. CASE LoginAccepted(c)
    BY <1>1 DEF LoginAccepted, register_device
<1>2. CASE Unregister(c)
    BY <1>2 DEF Unregister, unregister_device
<1>3. CASE ~LoginAccepted(c) /\ ~Unregister(c)
    BY <1>3, RegistryWriters DEF registryVars
<1> QED BY <1>1, <1>2, <1>3

\* What a step of c does to the parts of OwnerInv that speak of c itself.
OwnerOf(c) ==
    /\ bySocket[c] # None => imei[c] \in {None, bySocket[c]}
    /\ pc[c] \in Handling \cup {"offline", "unregister"} =>
          {imei[c], bySocket[c]} \subseteq {None, target[c]}
    /\ bySocket[c] # None =>
          pc[c] \in Handling \cup {"loop", "offline", "unregister"}

\* The parts of OwnerInv that speak of single connections.
LEMMA OwnerInvParts ==
    OwnerInv <=> EntryMirrored /\ \A c \in Conns : OwnerOf(c)
BY DEF OwnerInv, ImeiMatchesBinding, WorksForOwnImei, BoundIsServed, OwnerOf

\* The stepping connection keeps its part, action by action.
LEMMA OwnerStep ==
    ASSUME ~DbFails, ~Rebinds, RegistryInv, OwnerInv, NEW c \in Conns, Steps(c)
    PROVE  OwnerOf(c)'
<1>0. OwnerOf(c) /\ EntryMirrored
    BY OwnerInvParts
<1>t. TypeOK /\ (pc[c] \in Handling \cup {"offline", "unregister"}
                 => target[c] \in Imeis)
    BY DEF RegistryInv, TargetKnown
<1> USE <1>0, <1>t DEF TypeOK, RegistryTypeOK, OwnerOf, Handling, Goto, Aim, Return,
                       registryVars, get_imei_by_socket
<1>1. CASE \/ Accept(c) \/ Reject(c) \/ Reuse(c) \/ ShortRead(c)
           \/ \E p \in Protocols : Detect(c, p)
    <2>1. bySocket'[c] = bySocket[c]
        BY <1>1 DEF Accept, Reject, Reuse, ShortRead, Detect
    <2>2. bySocket[c] = None
        BY <1>1 DEF Accept, Reject, Reuse, ShortRead, Detect, RegistryInv,
                    UnboundUntilLogin
    <2> QED BY <1>1, <2>1, <2>2 DEF Accept, Reject, Reuse, ShortRead, Detect
<1>2. CASE \E i \in Imeis : Login(c, i)
    BY <1>2 DEF Login, TakesFrame
<1>3. CASE LoginRejected(c)
    BY <1>3 DEF LoginRejected
<1>4. CASE LoginRaises(c)
    BY <1>4 DEF LoginRaises
<1>5. CASE LoginAccepted(c)
    BY <1>5 DEF LoginAccepted, register_device
<1>6. CASE LoginMarksOnline(c)
    BY <1>6 DEF LoginMarksOnline
<1>7. CASE LoginDone(c)
    BY <1>7 DEF LoginDone
<1>8. CASE FrameRefused(c) \/ FrameIgnored(c)
    BY <1>8 DEF FrameRefused, FrameIgnored, TakesFrame
<1>9. CASE StatusFrame(c) \/ StoreFrame(c)
    BY <1>9 DEF StatusFrame, StoreFrame, TakesFrame
<1>10. CASE HeartbeatAnswered(c)
    BY <1>10 DEF HeartbeatAnswered
<1>11. CASE StatusWritten(c)
    BY <1>11 DEF StatusWritten, HandlerReturns
<1>12. CASE HeartbeatWritten(c) \/ Stored(c)
    BY <1>12 DEF HeartbeatWritten, Stored, HandlerReturns, UnknownReturns
<1>13. CASE EnterFinally(c)
    <2>1. CASE OwnsEntry(c)
        <3>0. CleanupImei(c) \in Imeis /\ byImei[CleanupImei(c)] = c
            BY <2>1 DEF OwnsEntry, CleanupImei, get_device
        <3>1. bySocket[c] = CleanupImei(c) /\ CleanupImei(c) \in Imeis
            BY <3>0, NoneAssumption DEF EntryMirrored
        <3> QED BY <1>13, <2>1, <3>1 DEF EnterFinally, CleanupImei
    <2>2. CASE ~OwnsEntry(c)
        <3>1. bySocket[c] = None
            <4> SUFFICES ASSUME bySocket[c] # None PROVE FALSE
                OBVIOUS
            <4>1. CleanupImei(c) = bySocket[c]
                BY DEF CleanupImei
            <4>2. byImei[bySocket[c]] = c
                BY DEF RegistryInv, BindingAgrees
            <4> QED BY <2>2, <4>1, <4>2 DEF OwnsEntry, get_device
        <3> QED BY <1>13, <2>2, <3>1 DEF EnterFinally
    <2> QED BY <2>1, <2>2
<1>14. CASE OfflineWritten(c)
    BY <1>14 DEF OfflineWritten, WriteOutcomes
<1>15. CASE Unregister(c)
    <2>1. bySocket'[c] = None
        <3>1. bySocket[c] # None => byImei[bySocket[c]] = c
            BY DEF RegistryInv, BindingAgrees
        <3>2. bySocket[c] \in {None, target[c]}
            BY <1>15 DEF Unregister
        <3> QED BY <1>15, <3>1, <3>2 DEF Unregister, unregister_device
    <2> QED BY <1>15, <2>1 DEF Unregister
<1>16. CASE Release(c)
    BY <1>16 DEF Release
<1> QED
    BY <1>1, <1>2, <1>3, <1>4, <1>5, <1>6, <1>7, <1>8, <1>9, <1>10, <1>11, <1>12,
       <1>13, <1>14, <1>15, <1>16 DEF Steps

\* Every step preserves OwnerInv while no database call raises and a socket
\* logs in as one device.
LEMMA OwnerInvStep ==
    ASSUME ~DbFails, ~Rebinds, RegistryInv, OwnerInv, [Next]_vars
    PROVE  OwnerInv'
<1>1. CASE UNCHANGED vars
    BY <1>1 DEF vars, taskVars, OwnerInv, EntryMirrored, ImeiMatchesBinding,
                WorksForOwnImei, BoundIsServed
<1>2. CASE Restart
    BY <1>2 DEF Restart, OwnerInv, EntryMirrored, ImeiMatchesBinding,
                WorksForOwnImei, BoundIsServed, Handling
<1>3. ASSUME NEW c \in Conns, Steps(c) PROVE OwnerInv'
    <2>0. TypeOK /\ EntryMirrored /\ \A s \in Conns : OwnerOf(s)
        BY OwnerInvParts DEF RegistryInv
    <2>1. EntryMirrored'
        <3>1. CASE LoginAccepted(c)
            <4>1. target[c] \in Imeis /\ bySocket[c] \in {None, target[c]}
                BY <2>0, <3>1 DEF LoginAccepted, RegistryInv, TargetKnown, OwnerOf,
                                  Handling
            <4> QED BY <2>0, <3>1, <4>1, MirrorRegister DEF LoginAccepted, TypeOK
        <3>2. CASE Unregister(c)
            <4>1. target[c] \in Imeis
                BY <3>2 DEF Unregister, RegistryInv, TargetKnown
            <4> QED BY <2>0, <3>2, <4>1, MirrorUnregister DEF Unregister, TypeOK
        <3>3. CASE ~LoginAccepted(c) /\ ~Unregister(c)
            BY <1>3, <2>0, <3>3, RegistryWriters DEF registryVars, EntryMirrored
        <3> QED BY <3>1, <3>2, <3>3
    <2>2. ASSUME NEW s \in Conns PROVE OwnerOf(s)'
        <3>1. CASE s = c
            BY <1>3, <3>1, OwnerStep
        <3>2. CASE s # c
            BY <1>3, <2>0, <3>2, OthersUnmoved, OtherBindings DEF OwnerOf
        <3> QED BY <3>1, <3>2
    <2> QED
        BY <2>1, <2>2 DEF OwnerInv, ImeiMatchesBinding, WorksForOwnImei,
                          BoundIsServed, OwnerOf
<1> QED BY <1>1, <1>2, <1>3, NextIsStep

\* While no database call raises and a socket logs in as one device, whoever
\* looks a device up finds a connection that is still being served.
THEOREM EntriesAreServed ==
    ASSUME ~DbFails, ~Rebinds
    PROVE  Spec => []NoStaleEntry
<1>1. Init => OwnerInv
    BY DEF Init, RegistryInit, TasksInit, OwnerInv, EntryMirrored,
           ImeiMatchesBinding, WorksForOwnImei, BoundIsServed, Handling
<1>2. RegistryInv /\ OwnerInv /\ [Next]_vars => OwnerInv'
    BY OwnerInvStep
<1>3. RegistryInv /\ OwnerInv => NoStaleEntry
    BY NoneAssumption DEF RegistryInv, TypeOK, RegistryTypeOK, OwnerInv,
           EntryMirrored, BoundIsServed, NoStaleEntry, Free, Handling
<1> QED BY <1>1, <1>2, <1>3, RegistryInvariant, PTL DEF Spec
=============================================================================
