---------------------------- MODULE HealthService ----------------------------
(***************************************************************************)
(* GET /health (services/health_service.py), served by the threads of the   *)
(* Command API's ThreadingHTTPServer while the event loop and the database  *)
(* go through good and bad times.                                           *)
(*                                                                          *)
(* pc[t] is what the thread of a request waits for:                         *)
(*                                                                          *)
(*   idle    no request                                                     *)
(*   loop    _call_on_loop(_noop), at most LoopTimeout                      *)
(*   lock    _db_lock                                                       *)
(*   probe   _call_on_loop(_db_probe) with _db_lock held, at most           *)
(*           ProbeTimeout                                                   *)
(*   report  nothing: builds the report and answers                         *)
(*   done    answered; the next request comes with the next tick            *)
(*                                                                          *)
(* Time passes in ticks and only while threads wait: computing takes no     *)
(* time, and a free lock is taken before the next tick.  Ages are counted   *)
(* up to the largest value any comparison distinguishes.  What is logged is *)
(* left out.                                                                *)
(***************************************************************************)
EXTENDS Integers

CONSTANTS
    Threads,
    LoopTimeout,     \* LOOP_PROBE_TIMEOUT
    SlowTicks,       \* SLOW_DB_MS
    DbProbeTimeout,  \* DB_PROBE_TIMEOUT
    ProbeTimeout,    \* DB_PROBE_TIMEOUT + 0.5, what _db_check waits
    TtlFail,         \* DB_CACHE_FAIL_SECONDS
    TtlOk,           \* DB_CACHE_OK_SECONDS
    None

ASSUME TimeAssumption ==
    /\ {LoopTimeout, SlowTicks, DbProbeTimeout, ProbeTimeout, TtlFail, TtlOk} \subseteq Nat
    /\ LoopTimeout > 0
    /\ SlowTicks < DbProbeTimeout /\ DbProbeTimeout < ProbeTimeout
    /\ ProbeTimeout < TtlFail /\ TtlFail <= TtlOk
ASSUME NoneAssumption == None \notin Threads \cup {"ok", "slow", "failed", "degraded", "down"}

VARIABLES
    loop,       \* the gateway's event loop: "turning", "stuck" or "closed"
    db,         \* the database: "up", "slow" (may or may not answer) or "down"
    pc,
    spent,      \* spent[t]: ticks of the wait thread t is in
    elapsed,    \* elapsed[t]: ticks since the request of t came in
    holder,     \* the thread that holds _db_lock, or None
    cache,      \* _db_cache: "ok", "slow" (ok, but over SLOW_DB_MS) or "failed"
    cacheAge,   \* ticks since its "at"
    found,      \* found[t]: what t knows of the database, None if it never asked
    answer,     \* answer[t]: the status of t's report, None before
    sinceProbe, \* ticks since the last probe of the database was posted
    upFor,      \* ticks since when the loop turns and the database is up
    downFor     \* ticks since when the database is down

envVars == <<loop, db>>
historyVars == <<sinceProbe, upFor, downFor>>
dbVars == <<holder, cache, cacheAge>>
vars == <<envVars, pc, spent, elapsed, dbVars, found, answer, historyVars>>

States == {"ok", "degraded", "down"}
Waiting == {"loop", "lock", "probe"}
Results == {"ok", "slow", "failed"}
Bound == LoopTimeout + ProbeTimeout

TypeOK ==
    /\ loop \in {"turning", "stuck", "closed"}
    /\ db \in {"up", "slow", "down"}
    /\ pc \in [Threads -> {"idle", "loop", "lock", "probe", "report", "done"}]
    /\ spent \in [Threads -> Nat]
    /\ elapsed \in [Threads -> Nat]
    /\ holder \in Threads \cup {None}
    /\ cache \in Results \cup {None}
    /\ cacheAge \in 0..TtlOk
    /\ found \in [Threads -> Results \cup {None}]
    /\ answer \in [Threads -> States \cup {None}]
    /\ sinceProbe \in 0..TtlOk /\ upFor \in 0..TtlOk /\ downFor \in 0..TtlOk

Init ==
    /\ loop = "turning"
    /\ db \in {"up", "down"}
    /\ pc = [t \in Threads |-> "idle"]
    /\ spent = [t \in Threads |-> 0]
    /\ elapsed = [t \in Threads |-> 0]
    /\ holder = None
    /\ cache = None
    /\ cacheAge = 0
    /\ found = [t \in Threads |-> None]
    /\ answer = [t \in Threads |-> None]
    /\ sinceProbe = TtlOk
    /\ upFor = 0
    /\ downFor = 0
-----------------------------------------------------------------------------
(***************************************************************************)
(* The surroundings.                                                        *)
(***************************************************************************)

\* The loop is blocked by one of its callbacks, goes on, or is closed.
LoopChanges ==
    /\ loop # "closed"
    /\ loop' \in {"turning", "stuck", "closed"} \ {loop}
    /\ upFor' = 0
    /\ UNCHANGED <<db, pc, spent, elapsed, dbVars, found, answer, sinceProbe, downFor>>

DbChanges ==
    /\ db' \in {"up", "slow", "down"} \ {db}
    /\ upFor' = 0
    /\ downFor' = 0
    /\ UNCHANGED <<loop, pc, spent, elapsed, dbVars, found, answer, sinceProbe>>

\* A thread that need not wait.
Urgent(t) ==
    \/ pc[t] = "report"
    \/ pc[t] = "lock" /\ holder = None
    \/ pc[t] = "loop" /\ (loop = "turning" \/ spent[t] = LoopTimeout)
    \/ pc[t] = "probe" /\ ((loop = "turning" /\ db = "up") \/ spent[t] = ProbeTimeout)

Older(age) == IF age < TtlOk THEN age + 1 ELSE age

Tick ==
    /\ \A t \in Threads : ~Urgent(t)
    /\ spent' = [t \in Threads |-> IF pc[t] \in {"loop", "probe"} THEN spent[t] + 1 ELSE 0]
    /\ elapsed' = [t \in Threads |-> IF pc[t] \in Waiting THEN elapsed[t] + 1 ELSE 0]
    /\ pc' = [t \in Threads |-> IF pc[t] = "done" THEN "idle" ELSE pc[t]]
    /\ cacheAge' = IF cache = None THEN 0 ELSE Older(cacheAge)
    /\ sinceProbe' = Older(sinceProbe)
    /\ upFor' = IF loop = "turning" /\ db = "up" THEN Older(upFor) ELSE 0
    /\ downFor' = IF db = "down" THEN Older(downFor) ELSE 0
    /\ answer' = [t \in Threads |-> None]
    /\ UNCHANGED <<envVars, holder, cache, found>>
-----------------------------------------------------------------------------
(***************************************************************************)
(* get_health.                                                              *)
(***************************************************************************)

\* do_GET: get_health posts _noop to the loop.
Get(t) ==
    /\ pc[t] = "idle"
    /\ pc' = [pc EXCEPT ![t] = "loop"]
    /\ UNCHANGED <<envVars, spent, elapsed, dbVars, found, answer, historyVars>>

LoopAnswers(t) ==
    /\ pc[t] = "loop"
    /\ loop = "turning"
    /\ pc' = [pc EXCEPT ![t] = "lock"]
    /\ spent' = [spent EXCEPT ![t] = 0]
    /\ UNCHANGED <<envVars, elapsed, dbVars, found, answer, historyVars>>

\* _noop did not run in time, or could not be posted: the database is not asked.
LoopFails(t) ==
    /\ pc[t] = "loop"
    /\ (loop = "closed" /\ spent[t] = 0) \/ spent[t] = LoopTimeout
    /\ pc' = [pc EXCEPT ![t] = "report"]
    /\ spent' = [spent EXCEPT ![t] = 0]
    /\ UNCHANGED <<envVars, elapsed, dbVars, found, answer, historyVars>>

Fresh_OkOnly == cache # None /\ cache # "failed" /\ cacheAge < TtlOk

\* Is the cached result younger than its lifetime?
Fresh == cache # None /\ cacheAge < (IF cache = "failed" THEN TtlFail ELSE TtlOk)

ServeCached_Renews(t) ==
    /\ pc[t] = "lock"
    /\ holder = None
    /\ Fresh
    /\ found' = [found EXCEPT ![t] = cache]
    /\ pc' = [pc EXCEPT ![t] = "report"]
    /\ cacheAge' = 0
    /\ UNCHANGED <<envVars, spent, elapsed, holder, cache, answer, historyVars>>

\* _db_check takes the lock and finds a result that still counts.
ServeCached(t) ==
    /\ pc[t] = "lock"
    /\ holder = None
    /\ Fresh
    /\ found' = [found EXCEPT ![t] = cache]
    /\ pc' = [pc EXCEPT ![t] = "report"]
    /\ UNCHANGED <<envVars, spent, elapsed, dbVars, answer, historyVars>>

StartProbe_NoLock(t) ==
    /\ pc[t] = "lock"
    /\ ~Fresh
    /\ holder' = t
    /\ pc' = [pc EXCEPT ![t] = "probe"]
    /\ spent' = [spent EXCEPT ![t] = 0]
    /\ sinceProbe' = 0
    /\ UNCHANGED <<envVars, elapsed, cache, cacheAge, found, answer, upFor, downFor>>

\* _db_check takes the lock and posts a probe; "now" is taken here.
StartProbe(t) ==
    /\ pc[t] = "lock"
    /\ holder = None
    /\ ~Fresh
    /\ holder' = t
    /\ pc' = [pc EXCEPT ![t] = "probe"]
    /\ spent' = [spent EXCEPT ![t] = 0]
    /\ sinceProbe' = 0
    /\ UNCHANGED <<envVars, elapsed, cache, cacheAge, found, answer, upFor, downFor>>

\* The probe's result goes to the cache with the time it was started at.
Store(t, result) ==
    /\ cache' = result
    /\ cacheAge' = spent[t]
    /\ holder' = None
    /\ found' = [found EXCEPT ![t] = result]
    /\ pc' = [pc EXCEPT ![t] = "report"]
    /\ spent' = [spent EXCEPT ![t] = 0]
    /\ UNCHANGED <<envVars, elapsed, answer, historyVars>>

ProbeAnswers(t) ==
    /\ pc[t] = "probe"
    /\ loop = "turning"
    /\ db # "down"
    /\ Store(t, IF spent[t] > SlowTicks THEN "slow" ELSE "ok")

ProbeFails_NoTimeout(t) ==
    /\ pc[t] = "probe"
    /\ \/ loop = "turning" /\ db = "down"
       \/ loop = "turning" /\ db = "slow" /\ spent[t] >= DbProbeTimeout
       \/ loop = "closed" /\ spent[t] = 0
    /\ Store(t, "failed")

\* The probe raised, wait_for gave up on the loop, or the thread gave up.
ProbeFails(t) ==
    /\ pc[t] = "probe"
    /\ \/ loop = "turning" /\ db = "down"
       \/ loop = "turning" /\ db = "slow" /\ spent[t] >= DbProbeTimeout
       \/ loop = "closed" /\ spent[t] = 0
       \/ spent[t] = ProbeTimeout
    /\ Store(t, "failed")

\* The worst of all flags; warned tells whether pool, capacity or silence
\* raise one.
StatusOf(result, warned) ==
    IF result \in {None, "failed"} THEN "down"
    ELSE IF result = "slow" \/ warned THEN "degraded" ELSE "ok"

\* The report is built and sent.
Report(t) ==
    /\ pc[t] = "report"
    /\ \E warned \in BOOLEAN : answer' = [answer EXCEPT ![t] = StatusOf(found[t], warned)]
    /\ pc' = [pc EXCEPT ![t] = "done"]
    /\ elapsed' = [elapsed EXCEPT ![t] = 0]
    /\ found' = [found EXCEPT ![t] = None]
    /\ UNCHANGED <<envVars, spent, dbVars, historyVars>>
-----------------------------------------------------------------------------
Serve(t) ==
    \/ LoopAnswers(t) \/ LoopFails(t)
    \/ ServeCached(t) \/ StartProbe(t) \/ ProbeAnswers(t) \/ ProbeFails(t)
    \/ Report(t)

Next ==
    \/ \E t \in Threads : Get(t) \/ Serve(t)
    \/ LoopChanges \/ DbChanges \/ Tick

Spec == Init /\ [][Next]_vars

(***************************************************************************)
(* The threads are the operating system's to schedule and the clock runs on.*)
(* Nothing is assumed of the loop, the database or the clients.             *)
(***************************************************************************)
Fairness == SF_vars(Tick) /\ \A t \in Threads : SF_vars(Serve(t))

FairSpec == Spec /\ Fairness
-----------------------------------------------------------------------------
(***************************************************************************)
(* A request is answered within one loop probe and one database probe, even *)
(* if it finds the lock taken: whoever waits through another thread's probe *)
(* is served from its result ("Worst case runtime is ~3 s", get_health).    *)
(***************************************************************************)
AnsweredInTime == \A t \in Threads : elapsed[t] <= Bound

(***************************************************************************)
(* A report is not staler than the lifetimes of the cache: a database that  *)
(* has been down for the lifetime of a good result is not reported as       *)
(* reachable; and ("re-test a failure sooner than a success") once loop and *)
(* database have been well for the lifetime of a failure, no report is      *)
(* "down".                                                                  *)
(***************************************************************************)
ReportIsCurrent ==
    \A t \in Threads :
        /\ answer[t] \in {"ok", "degraded"} => downFor < TtlOk
        /\ answer[t] = "down" => upFor < TtlFail

(***************************************************************************)
(* "a polling client cannot drain the pool": however many requests come in, *)
(* two probes of the database are at least DB_CACHE_FAIL_SECONDS apart.     *)
(***************************************************************************)
ProbesSpaced == [][holder' \notin {None, holder} => sinceProbe >= TtlFail]_vars

(***************************************************************************)
(* Every request is answered, also when the loop never turns again and the  *)
(* database never answers.                                                  *)
(***************************************************************************)
EveryPollAnswered == \A t \in Threads : pc[t] = "loop" ~> pc[t] = "done"
=============================================================================
