---------------------------- MODULE WorkerPool ----------------------------
(***************************************************************************)
(* Worker processes over the shared tables: the fetch-loop threads with    *)
(* their JobExecutor, the heartbeat, the dead-worker detector, graceful    *)
(* shutdown, crash and restart.  A step is one database transaction or the *)
(* local work between two of them, so every interleaving of the processes' *)
(* transactions is a behaviour.                                            *)
(***************************************************************************)
EXTENDS JobStore

CONSTANTS
  Threads,      \* every fetch thread of every process
  HostOf,       \* the process a thread belongs to
  Outcomes,     \* how perform() may end
  OnTime,       \* processes whose beats never lapse while _running
  Troubles,     \* the kinds of trouble that may strike ...
  MaxTroubles   \* ... and the bound on how often

AllPhases   == {"new", "up", "draining", "closing", "returned", "down"}
LivePhases  == {"up", "draining", "closing", "returned"}
AllOutcomes == {"return", "retry", "raise", "exit"}

\* stop: SIGTERM or crash; autostop, timeout: the joins in run() give up
\* before, after shutdown(); lapse: no beat of a live process for the
\* threshold; restart: the id of a process that is down is used again;
\* fault: a database call raises.
AllTroubles == {"stop", "autostop", "timeout", "lapse", "restart", "fault"}

ASSUME PoolAssumption ==
  /\ None \notin Threads
  /\ HostOf \in [Threads -> Workers]
  /\ Outcomes \subseteq AllOutcomes
  /\ OnTime \subseteq Workers
  /\ Troubles \subseteq AllTroubles
  /\ MaxTroubles \in Nat

VARIABLES
  phase,    \* of a process: _running is TRUE exactly in phase "up"
  pc,       \* of a thread
  held,     \* the JobRecord a thread works on: its id ...
  attempt,  \* ... and the attempts it was fetched with
  stale,    \* detector: stale workers read and not yet handled
  victim,   \* detector: the stale worker being handled
  found,    \* detector: its active jobs as read, not yet handled
  ran,      \* history: the attempts of a job whose perform() was started
  troubles  \* how often trouble has struck

threadVars   == <<pc, held, attempt>>
detectorVars == <<stale, victim, found>>
vars == <<storeVars, phase, threadVars, detectorVars, ran, troubles>>

PC == {"off", "loop", "fetch", "claimed", "running", "complete", "retry", "fail"}
JobSnapshot == [job : Jobs, attempts : Nat]

TypeOK ==
  /\ StoreTypeOK
  /\ phase   \in [Workers -> AllPhases]
  /\ pc      \in [Threads -> PC]
  /\ held    \in [Threads -> Jobs \cup {None}]
  /\ attempt \in [Threads -> Nat]
  /\ stale   \in [Workers -> SUBSET Workers]
  /\ victim  \in [Workers -> Workers \cup {None}]
  /\ found   \in [Workers -> SUBSET JobSnapshot]
  /\ ran     \in [Jobs -> SUBSET Nat]
  /\ troubles \in 0..MaxTroubles

Init ==
  /\ StoreInit
  /\ phase   = [w \in Workers |-> "new"]
  /\ pc      = [t \in Threads |-> "off"]
  /\ held    = [t \in Threads |-> None]
  /\ attempt = [t \in Threads |-> 0]
  /\ stale   = [w \in Workers |-> {}]
  /\ victim  = [w \in Workers |-> None]
  /\ found   = [w \in Workers |-> {}]
  /\ ran     = [j \in Jobs |-> {}]
  /\ troubles = 0

Live(w)      == phase[w] \in LivePhases
ThreadsOf(w) == {t \in Threads : HostOf[t] = w}
Working(t)   == pc[t] \notin {"off", "loop", "fetch"}
LastAttempt(t) == attempt[t] >= MaxAttempts[held[t]]
Expired(t)     == attempt[t] > MaxAttempts[held[t]]

Goto(t, l) == pc' = [pc EXCEPT ![t] = l]

\* The thread is done with its job and goes to l.
Release(t, l) ==
  /\ Goto(t, l)
  /\ held'    = [held EXCEPT ![t] = None]
  /\ attempt' = [attempt EXCEPT ![t] = 0]

Strikes(kind) ==
  /\ kind \in Troubles /\ troubles < MaxTroubles
  /\ troubles' = troubles + 1

---------------------------------------------------------------------------
(* The application and the clock *)

Submit(j) ==
  /\ \E delayed \in BOOLEAN : Enqueue(j, delayed)
  /\ UNCHANGED <<phase, threadVars, detectorVars, ran, troubles>>

Withdraw(j) ==
  /\ Cancel(j)
  /\ UNCHANGED <<phase, threadVars, detectorVars, ran, troubles>>

TimePasses(j) ==
  /\ RunAtPasses(j)
  /\ UNCHANGED <<phase, threadVars, detectorVars, ran, troubles>>

---------------------------------------------------------------------------
(* A worker process: Worker.run, shutdown, heartbeat *)

Start(w) ==
  /\ \/ phase[w] = "new" /\ UNCHANGED troubles
     \/ phase[w] = "down" /\ Strikes("restart")
  /\ RegisterWorker(w)
  /\ phase' = [phase EXCEPT ![w] = "up"]
  /\ pc' = [t \in Threads |-> IF HostOf[t] = w THEN "loop" ELSE pc[t]]
  /\ UNCHANGED <<held, attempt, detectorVars, ran>>

Heartbeat(w) ==
  /\ phase[w] = "up"
  /\ HeartbeatRow(w)
  /\ UNCHANGED <<phase, threadVars, detectorVars, ran, troubles>>

\* dead_worker_threshold seconds pass without a beat: always so when the
\* process is down, and when a live one is slow or has left phase "up".
BeatExpires(w) ==
  /\ registered[w] # "absent" /\ beat[w] = "fresh"
  /\ IF Live(w) THEN Strikes("lapse") /\ ~(phase[w] = "up" /\ w \in OnTime)
                ELSE UNCHANGED troubles
  /\ beat' = [beat EXCEPT ![w] = "stale"]
  /\ UNCHANGED <<registered, jobVars, phase, threadVars, detectorVars, ran>>

\* shutdown(), from SIGTERM or SIGINT: _running becomes FALSE.
Shutdown(w) ==
  /\ phase[w] = "up"
  /\ Strikes("stop")
  /\ phase' = [phase EXCEPT ![w] = "draining"]
  /\ UNCHANGED <<storeVars, threadVars, detectorVars, ran>>

\* Mutated form: run() goes on without waiting for its fetch threads.
StopJoiningAtOnce(w) ==
  /\ phase[w] \in {"up", "draining"}
  /\ phase' = [phase EXCEPT ![w] = "closing"]
  /\ UNCHANGED <<storeVars, threadVars, detectorVars, ran, troubles>>

\* The joins at the end of run() have returned.  Their timeouts run from the
\* start of the process, whether or not shutdown() was called.
StopJoining(w) ==
  /\ phase[w] \in {"up", "draining"}
  /\ IF \A t \in ThreadsOf(w) : pc[t] = "off"
     THEN UNCHANGED troubles
     ELSE Strikes(IF phase[w] = "up" THEN "autostop" ELSE "timeout")
  /\ phase' = [phase EXCEPT ![w] = "closing"]
  /\ UNCHANGED <<storeVars, threadVars, detectorVars, ran>>

Deregister(w) ==
  /\ phase[w] = "closing"
  /\ DeregisterWorker(w)
  /\ phase' = [phase EXCEPT ![w] = "returned"]
  /\ UNCHANGED <<threadVars, detectorVars, ran, troubles>>

\* The exception is swallowed; the row stays, whatever became of the DELETE.
DeregisterFails(w) ==
  /\ phase[w] = "closing"
  /\ Strikes("fault")
  /\ DeregisterWorker(w) \/ UNCHANGED storeVars
  /\ phase' = [phase EXCEPT ![w] = "returned"]
  /\ UNCHANGED <<threadVars, detectorVars, ran>>

\* Every thread is a daemon: it dies with the process, mid-job or mid-scan.
Halt(w) ==
  /\ phase'   = [phase EXCEPT ![w] = "down"]
  /\ pc'      = [t \in Threads |-> IF HostOf[t] = w THEN "off" ELSE pc[t]]
  /\ held'    = [t \in Threads |-> IF HostOf[t] = w THEN None ELSE held[t]]
  /\ attempt' = [t \in Threads |-> IF HostOf[t] = w THEN 0 ELSE attempt[t]]
  /\ stale'   = [stale EXCEPT ![w] = {}]
  /\ victim'  = [victim EXCEPT ![w] = None]
  /\ found'   = [found EXCEPT ![w] = {}]
  /\ UNCHANGED <<storeVars, ran>>

Exit(w)  == phase[w] = "returned" /\ Halt(w) /\ UNCHANGED troubles
Crash(w) == Live(w) /\ Strikes("stop") /\ Halt(w)

---------------------------------------------------------------------------
(* Dead-worker detection: reads, then writes that do not look again *)

DetectScan(w) ==
  /\ phase[w] = "up" /\ victim[w] = None /\ stale[w] = {}
  /\ StaleWorkers # {}
  /\ stale' = [stale EXCEPT ![w] = StaleWorkers]
  /\ UNCHANGED <<storeVars, phase, threadVars, victim, found, ran, troubles>>

DetectPick(w, v) ==
  /\ Live(w) /\ victim[w] = None /\ v \in stale[w]
  /\ stale'  = [stale EXCEPT ![w] = @ \ {v}]
  /\ victim' = [victim EXCEPT ![w] = v]
  /\ found'  = [found EXCEPT ![w] =
                  {[job |-> j, attempts |-> attempts[j]] : j \in ActiveJobsOf(v)}]
  /\ UNCHANGED <<storeVars, phase, threadVars, ran, troubles>>

\* Mutated form: an off-by-one in the attempts test.
RecoverEarly(r) ==
  IF r.attempts + 1 >= MaxAttempts[r.job] THEN MoveToDead(r.job)
                                          ELSE ReenqueueJob(r.job)

\* What the detector does with one row it read.
Recover(r) ==
  IF r.attempts >= MaxAttempts[r.job] THEN MoveToDead(r.job)
                                      ELSE ReenqueueJob(r.job)

DetectJob(w, r) ==
  /\ Live(w) /\ r \in found[w]
  /\ Recover(r)
  /\ found' = [found EXCEPT ![w] = @ \ {r}]
  /\ UNCHANGED <<phase, threadVars, stale, victim, ran, troubles>>

\* Mutated form: the worker is marked before its jobs are handled.
DetectDoneFirst(w) ==
  /\ Live(w) /\ victim[w] # None
  /\ MarkWorkerStopped(victim[w])
  /\ victim' = [victim EXCEPT ![w] = None]
  /\ found'  = [found EXCEPT ![w] = {}]
  /\ UNCHANGED <<phase, threadVars, stale, ran, troubles>>

DetectDone(w) ==
  /\ Live(w) /\ victim[w] # None /\ found[w] = {}
  /\ MarkWorkerStopped(victim[w])
  /\ victim' = [victim EXCEPT ![w] = None]
  /\ UNCHANGED <<phase, threadVars, stale, found, ran, troubles>>

\* A call of the pass raises, its transaction committed or not; the loop logs
\* it and forgets the pass.
DetectAborts(w) ==
  /\ Live(w)
  /\ Strikes("fault")
  /\ \/ \E r \in found[w] : Recover(r)
     \/ victim[w] # None /\ found[w] = {} /\ MarkWorkerStopped(victim[w])
     \/ (victim[w] # None \/ stale[w] # {}) /\ UNCHANGED storeVars
  /\ stale'  = [stale EXCEPT ![w] = {}]
  /\ victim' = [victim EXCEPT ![w] = None]
  /\ found'  = [found EXCEPT ![w] = {}]
  /\ UNCHANGED <<phase, threadVars, ran>>

---------------------------------------------------------------------------
(* A fetch thread: _run_loop and JobExecutor.execute *)

\* while self._running
Poll(t) ==
  /\ pc[t] = "loop" /\ phase[HostOf[t]] = "up"
  /\ Goto(t, "fetch")
  /\ UNCHANGED <<storeVars, phase, held, attempt, detectorVars, ran, troubles>>

ThreadEnds(t) ==
  /\ pc[t] = "loop" /\ phase[HostOf[t]] # "up"
  /\ Goto(t, "off")
  /\ UNCHANGED <<storeVars, phase, held, attempt, detectorVars, ran, troubles>>

FetchNothing(t) ==
  /\ pc[t] = "fetch" /\ \A j \in Jobs : ~Eligible(j)
  /\ Goto(t, "loop")
  /\ UNCHANGED <<storeVars, phase, held, attempt, detectorVars, ran, troubles>>

Claim(t, j) ==
  /\ pc[t] = "fetch"
  /\ FetchNext(HostOf[t], j)
  /\ Goto(t, "claimed")
  /\ held'    = [held EXCEPT ![t] = j]
  /\ attempt' = [attempt EXCEPT ![t] = attempts[j] + 1]
  /\ UNCHANGED <<phase, detectorVars, ran, troubles>>

\* fetch_next is outside the try of _run_loop: the thread dies of it, whether
\* or not the claim was committed.
FetchFails(t) ==
  /\ pc[t] = "fetch"
  /\ Strikes("fault")
  /\ (\E j \in Jobs : FetchNext(HostOf[t], j)) \/ UNCHANGED storeVars
  /\ Goto(t, "off")
  /\ UNCHANGED <<phase, held, attempt, detectorVars, ran>>

\* Over the limit before any user code: straight to the dead letters.
Expire(t) ==
  /\ pc[t] = "claimed" /\ Expired(t)
  /\ MoveToDead(held[t])
  /\ Release(t, "loop")
  /\ UNCHANGED <<phase, detectorVars, ran, troubles>>

\* That call is outside the try as well.
ExpireFails(t) ==
  /\ pc[t] = "claimed" /\ Expired(t)
  /\ Strikes("fault")
  /\ MoveToDead(held[t]) \/ UNCHANGED storeVars
  /\ Release(t, "off")
  /\ UNCHANGED <<phase, detectorVars, ran>>

\* Mutated form: the attempts test of _run_loop is dropped.
PerformUnchecked(t) ==
  /\ pc[t] = "claimed"
  /\ ran' = [ran EXCEPT ![held[t]] = @ \cup {attempt[t]}]
  /\ Goto(t, "running")
  /\ UNCHANGED <<storeVars, phase, held, attempt, detectorVars, troubles>>

Perform(t) ==
  /\ pc[t] = "claimed" /\ ~Expired(t)
  /\ ran' = [ran EXCEPT ![held[t]] = @ \cup {attempt[t]}]
  /\ Goto(t, "running")
  /\ UNCHANGED <<storeVars, phase, held, attempt, detectorVars, troubles>>

\* Mutated form: a job whose class cannot be loaded counts as performed.
LoadIgnored(t) ==
  /\ pc[t] = "claimed" /\ ~Expired(t)
  /\ Goto(t, "complete")
  /\ UNCHANGED <<storeVars, phase, held, attempt, detectorVars, ran, troubles>>

\* The class cannot be loaded or a before_perform raises, which may be a
\* Retry: no user code runs.
LoadFails(t) ==
  /\ pc[t] = "claimed" /\ ~Expired(t)
  /\ \E l \in {"fail", "retry"} : Goto(t, l)
  /\ UNCHANGED <<storeVars, phase, held, attempt, detectorVars, ran, troubles>>

NextPc(outcome) == CASE outcome = "return" -> "complete"
                     [] outcome = "retry"  -> "retry"
                     [] outcome = "raise"  -> "fail"

PerformEnds(t) ==
  /\ pc[t] = "running"
  /\ \E o \in Outcomes \ {"exit"} : Goto(t, NextPc(o))
  /\ UNCHANGED <<storeVars, phase, held, attempt, detectorVars, ran, troubles>>

\* perform() calls sys.exit: no except clause sees it and the thread ends.
PerformExits(t) ==
  /\ pc[t] = "running" /\ "exit" \in Outcomes
  /\ Release(t, "off")
  /\ UNCHANGED <<storeVars, phase, detectorVars, ran, troubles>>

Complete(t) ==
  /\ pc[t] = "complete"
  /\ MarkCompleted(held[t])
  /\ Release(t, "loop")
  /\ UNCHANGED <<phase, detectorVars, ran, troubles>>

\* mark_completed raises inside the same try as perform(): a failed job.
CompleteFails(t) ==
  /\ pc[t] = "complete"
  /\ Strikes("fault")
  /\ MarkCompleted(held[t]) \/ UNCHANGED storeVars
  /\ Goto(t, "fail")
  /\ UNCHANGED <<phase, held, attempt, detectorVars, ran>>

\* except Retry: no attempts test here.
RetryWrite(t) == \E now \in BOOLEAN : MarkFailed(held[t], now)

\* Mutated form: >= read as > MaxAttempts - 2.
FailureWriteEarly(t) ==
  IF attempt[t] + 1 >= MaxAttempts[held[t]] THEN MoveToDead(held[t])
                                            ELSE MarkFailed(held[t], FALSE)

\* _handle_failure
FailureWrite(t) ==
  IF LastAttempt(t) THEN MoveToDead(held[t]) ELSE MarkFailed(held[t], FALSE)

RetryRequested(t) ==
  /\ pc[t] = "retry"
  /\ RetryWrite(t)
  /\ Release(t, "loop")
  /\ UNCHANGED <<phase, detectorVars, ran, troubles>>

HandleFailure(t) ==
  /\ pc[t] = "fail"
  /\ FailureWrite(t)
  /\ Release(t, "loop")
  /\ UNCHANGED <<phase, detectorVars, ran, troubles>>

\* The write raises (or the backoff policy does): _run_loop logs it, the job
\* is left as it is.
WriteFails(t) ==
  /\ pc[t] \in {"retry", "fail"}
  /\ Strikes("fault")
  /\ \/ pc[t] = "retry" /\ RetryWrite(t)
     \/ pc[t] = "fail" /\ FailureWrite(t)
     \/ UNCHANGED storeVars
  /\ Release(t, "loop")
  /\ UNCHANGED <<phase, detectorVars, ran>>

---------------------------------------------------------------------------

FetchStep(t) ==
  \/ Poll(t) \/ ThreadEnds(t) \/ FetchNothing(t)
  \/ \E j \in Jobs : Claim(t, j)

ExecuteStep(t) ==
  \/ Expire(t) \/ Perform(t) \/ LoadFails(t)
  \/ PerformEnds(t) \/ PerformExits(t)
  \/ Complete(t) \/ RetryRequested(t) \/ HandleFailure(t)

FaultStep(t) ==
  FetchFails(t) \/ ExpireFails(t) \/ CompleteFails(t) \/ WriteFails(t)

DetectStep(w) ==
  \/ DetectScan(w) \/ DetectDone(w)
  \/ \E v \in Workers : DetectPick(w, v)
  \/ \E r \in found[w] : DetectJob(w, r)

StopStep(w) == StopJoining(w) \/ Deregister(w) \/ Exit(w)

Next ==
  \/ \E j \in Jobs : Submit(j) \/ Withdraw(j) \/ TimePasses(j)
  \/ \E w \in Workers :
       \/ Start(w) \/ Heartbeat(w) \/ BeatExpires(w) \/ Shutdown(w)
       \/ Crash(w) \/ DeregisterFails(w) \/ DetectAborts(w)
       \/ StopStep(w) \/ DetectStep(w)
  \/ \E t \in Threads : FetchStep(t) \/ ExecuteStep(t) \/ FaultStep(t)

Spec == Init /\ [][Next]_vars

(***************************************************************************)
(* Fairness: the operating system schedules the threads, perform() ends,   *)
(* the clock advances, and every worker of the deployment is started once. *)
(* Nothing is assumed of Submit, Withdraw, Shutdown, Crash or faults.      *)
(***************************************************************************)
Fairness ==
  /\ \A j \in Jobs : WF_vars(TimePasses(j))
  /\ \A w \in Workers : /\ WF_vars(Start(w)) /\ WF_vars(BeatExpires(w))
                        /\ WF_vars(StopStep(w)) /\ WF_vars(DetectStep(w))
  /\ \A t \in Threads : WF_vars(FetchStep(t)) /\ WF_vars(ExecuteStep(t))

FairSpec == Spec /\ Fairness

---------------------------------------------------------------------------
(* What survives anything: lost beats, early stops, id reuse, faults *)

\* Queue poisoning protection: user code of a job is never started under an
\* attempt number above max_attempts, however often workers die under it.
PoisonBound == \A j \in Jobs : ran[j] \subseteq 1..MaxAttempts[j]

\* Two threads may come to hold the same row, but never as the same attempt:
\* fetch_next counts each claim before anyone can run it.
DistinctClaims ==
  \A t1, t2 \in Threads :
    held[t1] # None /\ held[t1] = held[t2] /\ attempt[t1] = attempt[t2] => t1 = t2

\* A job is in the dead letters only when its attempts are used up, whether a
\* worker or a detector acting on an old read put it there.
DeadIsExhausted ==
  \A j \in Jobs : status[j] = "dead" => attempts[j] >= MaxAttempts[j]

\* A completed row stands for user code that was started, even when the row
\* was reclaimed, buried or re-enqueued by others in between.
CompletedRan == \A j \in Jobs : status[j] = "completed" => ran[j] # {}

\* A dead row always has its snapshot in cj_dead_letters.
DeadHasLetter == \A j \in Jobs : status[j] = "dead" => letters[j] > 0

\* Seen from the outside the pool is the ledger of attempts.
Ledger == INSTANCE AttemptLedger WITH claimed <- attempts
LedgerSpec == Ledger!Spec

---------------------------------------------------------------------------
(* What holds of a deployment without lost beats, id reuse or faults *)

\* "SKIP LOCKED guarantees each job is picked up by exactly one worker":
\* no two threads are inside the execution of the same job.
ExclusiveRun ==
  \A t1, t2 \in Threads : held[t1] # None /\ held[t1] = held[t2] => t1 = t2

\* A job is buried at most once.
OneLetter == \A j \in Jobs : letters[j] <= 1

Detectable(w) == registered[w] = "idle" /\ ~Live(w)

\* An active row is in somebody's hands: a thread executing it, a detector
\* that has read it, or a registry row whose beat can still grow stale.
Recoverable ==
  \A j \in Jobs : status[j] = "active" =>
    \/ \E t \in Threads : held[t] = j
    \/ Detectable(workerId[j])
    \/ \E w \in Workers : \E r \in found[w] : r.job = j

\* run() "blocks until shutdown": it leaves its joins without a shutdown()
\* only when all of its threads have ended.
BlocksUntilShutdown ==
  [][\A w \in Workers : phase[w] = "up" /\ phase'[w] = "closing"
        => \A t \in ThreadsOf(w) : pc[t] = "off"]_vars

\* Seen from the outside every job goes through the documented lifecycle and
\* completed, dead and cancelled jobs stay what they are.
LifeOf(j) == CASE status[j] = "absent"    -> "new"
               [] status[j] \in {"enqueued", "scheduled", "retrying"} -> "waiting"
               [] status[j] = "active"    -> "running"
               [] status[j] = "completed" -> "done"
               [] status[j] = "dead"      -> "dead"
               [] status[j] = "deleted"   -> "gone"
Lifecycle == INSTANCE JobLifecycle WITH life  <- [j \in Jobs |-> LifeOf(j)],
                                        tries <- attempts
LifecycleSpec == Lifecycle!Spec

\* Every job enqueued to run now ends completed, buried or cancelled, crashes
\* and retries notwithstanding.
Settles ==
  \A j \in Jobs : status[j] = "enqueued"
    ~> status[j] \in {"completed", "dead", "deleted"}

\* A job enqueued with a delay is run, buried or cancelled.
DelayedJobsRun ==
  \A j \in Jobs : status[j] = "scheduled" ~> status[j] # "scheduled"
===========================================================================
