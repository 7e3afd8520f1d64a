------------------------ MODULE HealthService_proofs ------------------------
(***************************************************************************)
(* HealthService's safety properties, for any number of HTTP threads and    *)
(* any timeouts and lifetimes that are ordered as those of the code are.    *)
(***************************************************************************)
EXTENDS HealthService, TLAPS

\* How long a thread may have waited for the lock: as long as the probe under
\* way, or a whole probe if its result is in the cache now.
LockWait ==
    IF holder # None THEN spent[holder] ELSE IF Fresh THEN ProbeTimeout ELSE 0

\* The lock, the cache, and what they say of the past.
CacheOK ==
    /\ \A t \in Threads : pc[t] = "probe" <=> holder = t
    /\ holder = None => IF cache = None THEN sinceProbe = TtlOk ELSE cacheAge <= sinceProbe
    /\ cache \in {"ok", "slow"} => downFor <= cacheAge
    /\ cache = "failed" => upFor <= cacheAge
    /\ upFor # 0 => loop = "turning" /\ db = "up"
    /\ downFor # 0 => db = "down"

\* How far a request is, how long it took, and what its result still says.
ThreadOK(t) ==
    /\ pc[t] = "idle" => elapsed[t] = 0 /\ spent[t] = 0
    /\ pc[t] = "done" => elapsed[t] = 0
    /\ pc[t] = "loop" => /\ spent[t] <= LoopTimeout /\ elapsed[t] = spent[t]
                         /\ spent[t] # 0 => upFor = 0
    /\ pc[t] = "lock" => elapsed[t] <= LoopTimeout + LockWait
    /\ pc[t] = "probe" => /\ spent[t] <= ProbeTimeout /\ spent[t] <= sinceProbe
                          /\ elapsed[t] <= LoopTimeout + spent[t]
                          /\ spent[t] # 0 => upFor = 0
    /\ pc[t] = "report" => /\ elapsed[t] <= Bound
                           /\ found[t] \in {"ok", "slow"} => downFor < TtlOk
                           /\ found[t] \in {"failed", None} => upFor < TtlFail
    /\ pc[t] # "report" => found[t] = None
    /\ answer[t] \in {"ok", "degraded"} => downFor < TtlOk
    /\ answer[t] = "down" => upFor < TtlFail

HealthInv == TypeOK /\ CacheOK /\ \A t \in Threads : ThreadOK(t)

LEMMA Times ==
    /\ LoopTimeout \in Nat /\ SlowTicks \in Nat /\ DbProbeTimeout \in Nat /\ ProbeTimeout \in Nat
    /\ TtlFail \in Nat /\ TtlOk \in Nat
    /\ LoopTimeout > 0 /\ ProbeTimeout > 0 /\ ProbeTimeout < TtlFail /\ TtlFail <= TtlOk
BY TimeAssumption

USE Times, NoneAssumption

LEMMA LockWaitType == HealthInv => LockWait \in Nat
BY DEF HealthInv, TypeOK, LockWait

\* Loop and database change: the histories start again.
LEMMA SurroundingsOK ==
    ASSUME HealthInv, LoopChanges \/ DbChanges
    PROVE  HealthInv'
<1> USE DEF HealthInv, LoopChanges, DbChanges, dbVars
<1>1. TypeOK'
    BY DEF TypeOK
<1>2. CacheOK'
    BY DEF TypeOK, CacheOK
<1>3. LockWait' = LockWait
    BY DEF LockWait, Fresh
<1>4. ASSUME NEW t \in Threads PROVE ThreadOK(t)'
    BY <1>3 DEF TypeOK, ThreadOK
<1> QED BY <1>1, <1>2, <1>4

\* Time passes only while every thread has something to wait for.
LEMMA TickOK == ASSUME HealthInv, Tick PROVE HealthInv'
<1> USE DEF HealthInv, Tick, envVars
<1>1. TypeOK'
    BY DEF TypeOK, Older
<1>2. \A t \in Threads : pc'[t] = "probe" <=> pc[t] = "probe"
    BY DEF TypeOK
<1>3. ASSUME holder # None
      PROVE  /\ holder \in Threads /\ pc[holder] = "probe"
             /\ spent[holder] # ProbeTimeout /\ ~(loop = "turning" /\ db = "up")
    BY <1>3 DEF TypeOK, CacheOK, Urgent
<1>4. CacheOK'
    BY <1>2 DEF TypeOK, CacheOK, Older
<1>5. ASSUME NEW t \in Threads PROVE ThreadOK(t)'
    <2>1. ~Urgent(t) /\ answer'[t] = None /\ found'[t] = found[t]
        BY DEF TypeOK
    <2>2. CASE pc[t] \in {"idle", "done"}
        BY <2>1, <2>2 DEF TypeOK, ThreadOK, Waiting
    <2>3. CASE pc[t] = "loop"
        BY <2>1, <2>3 DEF TypeOK, ThreadOK, Waiting, Urgent
    <2>4. CASE pc[t] = "lock"
        <3>1. holder # None
            BY <2>1, <2>4 DEF Urgent
        <3>2. LockWait' = LockWait + 1
            BY <3>1, <1>3 DEF TypeOK, LockWait
        <3> QED BY <2>1, <2>4, <3>2, LockWaitType DEF TypeOK, ThreadOK, Waiting
    <2>5. CASE pc[t] = "probe"
        BY <2>1, <2>5 DEF TypeOK, ThreadOK, Waiting, Urgent, Older
    <2>6. pc[t] # "report"
        BY <2>1 DEF Urgent
    <2> QED BY <2>2, <2>3, <2>4, <2>5, <2>6 DEF TypeOK
<1> QED BY <1>1, <1>4, <1>5

\* A step of thread t that touches neither the lock nor the cache nor the
\* histories disturbs no other thread.
LEMMA OwnStep ==
    ASSUME HealthInv, NEW t \in Threads, NEW to \in {"loop", "lock", "report", "done"},
           pc[t] # "probe", pc' = [pc EXCEPT ![t] = to],
           spent' \in {spent, [spent EXCEPT ![t] = 0]},
           elapsed' \in {elapsed, [elapsed EXCEPT ![t] = 0]},
           \E r \in Results \cup {None} : found' = [found EXCEPT ![t] = r],
           \E a \in States \cup {None} : answer' = [answer EXCEPT ![t] = a],
           UNCHANGED <<envVars, dbVars, historyVars>>
    PROVE  /\ TypeOK' /\ CacheOK' /\ LockWait' = LockWait
           /\ \A u \in Threads \ {t} : ThreadOK(u)'
<1> USE DEF HealthInv, envVars, dbVars, historyVars
<1>1. TypeOK'
    BY DEF TypeOK
<1>2. CacheOK'
    BY DEF TypeOK, CacheOK
<1>3. LockWait' = LockWait
    BY DEF TypeOK, CacheOK, LockWait, Fresh
<1>4. ASSUME NEW u \in Threads \ {t} PROVE ThreadOK(u)'
    <2>1. /\ pc'[u] = pc[u] /\ spent'[u] = spent[u] /\ elapsed'[u] = elapsed[u]
          /\ found'[u] = found[u] /\ answer'[u] = answer[u]
        BY DEF TypeOK
    <2> QED BY <1>3, <2>1 DEF TypeOK, ThreadOK
<1> QED BY <1>1, <1>2, <1>3, <1>4

\* The request, and the probe of the loop.
LEMMA LoopOK ==
    ASSUME HealthInv, NEW t \in Threads, Get(t) \/ LoopAnswers(t) \/ LoopFails(t)
    PROVE  HealthInv'
<1> DEFINE to == pc'[t]
<1>1. /\ pc' = [pc EXCEPT ![t] = to] /\ to \in {"loop", "lock", "report"}
      /\ (pc[t] = "idle" /\ to = "loop") \/ (pc[t] = "loop" /\ to \in {"lock", "report"})
    <2>1. CASE Get(t)
        BY <2>1 DEF Get, HealthInv, TypeOK
    <2>2. CASE LoopAnswers(t)
        BY <2>2 DEF LoopAnswers, HealthInv, TypeOK
    <2>3. CASE LoopFails(t)
        BY <2>3 DEF LoopFails, HealthInv, TypeOK
    <2> QED BY <2>1, <2>2, <2>3
<1>2. spent' \in {spent, [spent EXCEPT ![t] = 0]} /\ (pc[t] = "idle" => spent' = spent)
    BY DEF Get, LoopAnswers, LoopFails
<1>3. UNCHANGED <<elapsed, found, answer, envVars, dbVars, historyVars>>
    BY DEF Get, LoopAnswers, LoopFails
<1>4. /\ found' = [found EXCEPT ![t] = found[t]] /\ found[t] \in Results \cup {None}
      /\ answer' = [answer EXCEPT ![t] = answer[t]] /\ answer[t] \in States \cup {None}
    BY <1>3 DEF HealthInv, TypeOK
<1>5. /\ TypeOK' /\ CacheOK' /\ LockWait' = LockWait
      /\ \A u \in Threads \ {t} : ThreadOK(u)'
    BY <1>1, <1>2, <1>3, <1>4, OwnStep
<1>6. ThreadOK(t)'
    <2>1. pc'[t] = to /\ found[t] = None
        BY <1>1 DEF HealthInv, TypeOK, ThreadOK
    <2>2. CASE to = "loop"
        BY <1>1, <1>2, <1>3, <2>1, <2>2 DEF HealthInv, TypeOK, ThreadOK, historyVars
    <2>3. CASE to = "lock"
        BY <1>1, <1>3, <1>5, <2>1, <2>3, LockWaitType DEF HealthInv, TypeOK, ThreadOK, historyVars
    <2>4. CASE to = "report"
        <3>1. LoopFails(t)
            BY <1>1, <2>4, <2>1 DEF Get, LoopAnswers, HealthInv, TypeOK
        <3>2. upFor = 0
            BY <3>1 DEF LoopFails, HealthInv, TypeOK, CacheOK, ThreadOK
        <3> QED BY <1>1, <1>3, <2>1, <2>4, <3>2
              DEF HealthInv, TypeOK, ThreadOK, historyVars, Bound
    <2> QED BY <1>1, <2>2, <2>3, <2>4
<1> QED BY <1>5, <1>6 DEF HealthInv

LEMMA ServeCachedOK ==
    ASSUME HealthInv, NEW t \in Threads, ServeCached(t)
    PROVE  HealthInv'
<1> USE DEF HealthInv, ServeCached
<1>1. found' = [found EXCEPT ![t] = cache] /\ cache \in Results \cup {None} /\ cache # None
    BY DEF TypeOK, Fresh
<1>2. answer' = [answer EXCEPT ![t] = answer[t]] /\ answer[t] \in States \cup {None}
    BY DEF TypeOK
<1>3. /\ TypeOK' /\ CacheOK' /\ LockWait' = LockWait
      /\ \A u \in Threads \ {t} : ThreadOK(u)'
    BY <1>1, <1>2, OwnStep
<1>4. ThreadOK(t)'
    BY <1>1 DEF TypeOK, ThreadOK, CacheOK, Fresh, LockWait, Bound, Results, historyVars
<1> QED BY <1>3, <1>4

LEMMA ReportOK ==
    ASSUME HealthInv, NEW t \in Threads, Report(t)
    PROVE  HealthInv'
<1>1. PICK warned \in BOOLEAN : answer' = [answer EXCEPT ![t] = StatusOf(found[t], warned)]
    BY DEF Report
<1>2. /\ StatusOf(found[t], warned) \in States
      /\ StatusOf(found[t], warned) = "down" => found[t] \in {"failed", None}
      /\ StatusOf(found[t], warned) # "down" => found[t] \in {"ok", "slow"}
    BY DEF StatusOf, States, HealthInv, TypeOK, Results
<1>3. found' = [found EXCEPT ![t] = None]
    BY DEF Report
<1>4. /\ TypeOK' /\ CacheOK' /\ LockWait' = LockWait
      /\ \A u \in Threads \ {t} : ThreadOK(u)'
    BY <1>1, <1>2, <1>3, OwnStep DEF Report
<1>5. ThreadOK(t)'
    BY <1>1, <1>2, <1>3 DEF Report, HealthInv, TypeOK, ThreadOK, historyVars
<1> QED BY <1>4, <1>5 DEF HealthInv

LEMMA StartProbeOK ==
    ASSUME HealthInv, NEW t \in Threads, StartProbe(t)
    PROVE  HealthInv'
<1> USE DEF HealthInv, StartProbe, envVars
<1>1. TypeOK'
    BY DEF TypeOK
<1>2. CacheOK'
    BY DEF TypeOK, CacheOK
<1>3. LockWait = 0 /\ LockWait' = 0
    BY DEF TypeOK, LockWait
<1>4. ASSUME NEW u \in Threads PROVE ThreadOK(u)'
    <2>1. pc[u] # "probe"
        BY DEF CacheOK
    <2>2. CASE u = t
        BY <1>3, <2>2 DEF TypeOK, ThreadOK
    <2>3. CASE u # t
        BY <1>3, <2>1, <2>3 DEF TypeOK, ThreadOK
    <2> QED BY <2>2, <2>3
<1> QED BY <1>1, <1>2, <1>4

\* The end of a probe, whatever its result says truly.
LEMMA StoreOK ==
    ASSUME HealthInv, NEW t \in Threads, NEW result \in Results, pc[t] = "probe", Store(t, result),
           result \in {"ok", "slow"} => downFor = 0,
           result = "failed" => upFor = 0
    PROVE  HealthInv'
<1> USE DEF HealthInv, Store, envVars, historyVars
<1>0. holder = t
    BY DEF CacheOK
<1>1. TypeOK'
    BY DEF TypeOK, ThreadOK
<1>2. CacheOK'
    BY <1>0 DEF TypeOK, CacheOK, ThreadOK, Results
<1>3. LockWait = spent[t] /\ LockWait' = ProbeTimeout /\ spent[t] <= ProbeTimeout
    BY <1>0 DEF TypeOK, LockWait, Fresh, ThreadOK, Results
<1>4. ASSUME NEW u \in Threads PROVE ThreadOK(u)'
    <2>1. CASE u = t
        BY <1>3, <2>1 DEF TypeOK, ThreadOK, Bound, Results
    <2>2. CASE u # t
        <3>1. pc[u] # "probe"
            BY <1>0, <2>2 DEF CacheOK
        <3> QED BY <1>3, <2>2, <3>1 DEF TypeOK, ThreadOK
    <2> QED BY <2>1, <2>2
<1> QED BY <1>1, <1>2, <1>4

LEMMA ProbeOK ==
    ASSUME HealthInv, NEW t \in Threads, ProbeAnswers(t) \/ ProbeFails(t)
    PROVE  HealthInv'
<1>1. CASE ProbeAnswers(t)
    <2>1. downFor = 0
        BY <1>1 DEF ProbeAnswers, HealthInv, CacheOK
    <2> DEFINE result == IF spent[t] > SlowTicks THEN "slow" ELSE "ok"
    <2>2. result \in {"ok", "slow"} /\ Store(t, result) /\ pc[t] = "probe"
        BY <1>1 DEF ProbeAnswers
    <2> HIDE DEF result
    <2> QED BY <2>1, <2>2, StoreOK DEF Results
<1>2. CASE ProbeFails(t)
    <2>1. upFor = 0
        BY <1>2 DEF ProbeFails, HealthInv, TypeOK, CacheOK, ThreadOK
    <2> QED BY <1>2, <2>1, StoreOK DEF ProbeFails, Results
<1> QED BY <1>1, <1>2

(***************************************************************************)
(* Lock, cache and threads agree on what is known of the database and since *)
(* when, in every reachable state.                                          *)
(***************************************************************************)
THEOREM HealthInvariant == Spec => []HealthInv
<1>1. Init => HealthInv
    BY DEF Init, HealthInv, TypeOK, CacheOK, ThreadOK, LockWait, Fresh, Results, States
<1>2. HealthInv /\ [Next]_vars => HealthInv'
    <2> SUFFICES ASSUME HealthInv, [Next]_vars PROVE HealthInv'
        OBVIOUS
    <2>1. CASE UNCHANGED vars
        BY <2>1 DEF vars, envVars, dbVars, historyVars, HealthInv, TypeOK, CacheOK, ThreadOK,
                    LockWait, Fresh
    <2>2. CASE LoopChanges \/ DbChanges
        BY <2>2, SurroundingsOK
    <2>3. CASE Tick
        BY <2>3, TickOK
    <2>4. ASSUME NEW t \in Threads, Get(t) \/ Serve(t) PROVE HealthInv'
        BY <2>4, LoopOK, ServeCachedOK, ReportOK, StartProbeOK, ProbeOK DEF Serve
    <2> QED BY <2>1, <2>2, <2>3, <2>4 DEF Next
<1> QED BY <1>1, <1>2, PTL DEF Spec

(***************************************************************************)
(* Threads, lock and cache keep their types.                                *)
(***************************************************************************)
THEOREM HealthTypeCorrect == Spec => []TypeOK
<1>1. HealthInv => TypeOK
    BY DEF HealthInv
<1> QED BY <1>1, HealthInvariant, PTL

(***************************************************************************)
(* get_health answers within one loop probe and one database probe, however *)
(* many threads queue for _db_lock.                                         *)
(***************************************************************************)
THEOREM AnswersInTime == Spec => []AnsweredInTime
<1>1. HealthInv => AnsweredInTime
    <2> SUFFICES ASSUME HealthInv, NEW t \in Threads PROVE elapsed[t] <= Bound
        BY DEF AnsweredInTime
    <2>1. LockWait <= ProbeTimeout
        BY DEF HealthInv, TypeOK, CacheOK, ThreadOK, LockWait
    <2> QED BY <2>1, LockWaitType DEF HealthInv, TypeOK, ThreadOK, Bound
<1> QED BY <1>1, HealthInvariant, PTL

(***************************************************************************)
(* No report of get_health is staler than the lifetimes of its cache.       *)
(***************************************************************************)
THEOREM ReportsAreCurrent == Spec => []ReportIsCurrent
<1>1. HealthInv => ReportIsCurrent
    BY DEF HealthInv, ThreadOK, ReportIsCurrent
<1> QED BY <1>1, HealthInvariant, PTL

(***************************************************************************)
(* However many requests _db_check serves, its probes of the database are   *)
(* DB_CACHE_FAIL_SECONDS apart.                                             *)
(***************************************************************************)
THEOREM ProbesAreSpaced == Spec => ProbesSpaced
<1>1. HealthInv /\ [Next]_vars => [holder' \notin {None, holder} => sinceProbe >= TtlFail]_vars
    <2> SUFFICES ASSUME HealthInv, Next, holder' \notin {None, holder}
                 PROVE  sinceProbe >= TtlFail
        BY DEF vars
    <2>1. PICK t \in Threads : StartProbe(t)
        BY DEF Next, Serve, LoopChanges, DbChanges, Tick, Get, LoopAnswers, LoopFails, ServeCached,
               ProbeAnswers, ProbeFails, Store, Report, dbVars
    <2> QED BY <2>1 DEF StartProbe, Fresh, HealthInv, TypeOK, CacheOK, Results
<1> QED BY <1>1, HealthInvariant, PTL DEF Spec, ProbesSpaced
=============================================================================
