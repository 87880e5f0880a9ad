----------------------------- MODULE Middleware -----------------------------
(***************************************************************************)
(* One thread executing one job, attempt after attempt: the class is       *)
(* loaded, the hooks of the middlewares run around perform(), and what     *)
(* comes out of them decides which write ends the attempt.  A step is one  *)
(* hook call, or one transaction; WorkerPool has the same thread without   *)
(* its hooks, and PoolSteps says that this module implements it.           *)
(***************************************************************************)
EXTENDS JobStore

CONSTANTS
  Me, Thread, Job,   \* the worker, its fetch thread and the job
  N,                 \* how many middlewares the pipeline has
  MaxFaults          \* bound on the calls of the driver that raise

ASSUME MiddlewareAssumption ==
  /\ Me \in Workers /\ Jobs = {Job} /\ Thread # None
  /\ N \in Nat /\ MaxFaults \in Nat

VARIABLES
  policyKnown,  \* the retry_backoff of the class gives a delay: get_backoff_policy
                \* knows it, and what it computes is within a timedelta
  stage,        \* where the thread is
  mw,           \* the next middleware whose hook is called
  error,        \* the exception on its way up: none, error or retry
  attempt,      \* attempts of the JobRecord in hand, 0 for no record
  begun, passed, alerted,  \* middlewares whose before_perform, after_perform,
                           \* on_failure has returned in this execution
  raised,       \* what has raised in this execution
  thrown,       \* history: what perform() raised in this execution
  ran,          \* history: the attempts whose perform_fn was called
  faults        \* how often a call of the driver has raised

hookVars == <<begun, passed, alerted, raised, thrown>>
vars == <<storeVars, policyKnown, stage, mw, error, attempt, hookVars, ran, faults>>

Chain  == 1..N
Errors == {"error", "retry"}
Stages == {"loop", "fetch", "claimed", "before", "perform", "after", "failing",
           "settle", "off"}

TypeOK ==
  /\ StoreTypeOK
  /\ policyKnown \in BOOLEAN
  /\ stage \in Stages /\ mw \in 1..(N + 1) /\ error \in Errors \cup {"none"}
  /\ attempt \in Nat /\ ran \subseteq 1..attempts[Job]
  /\ begun \subseteq Chain /\ passed \subseteq Chain /\ alerted \subseteq Chain
  /\ raised \subseteq {"load", "before", "perform", "context", "after", "failure",
                       "database", "delay"}
  /\ thrown \in Errors \cup {"none"} /\ faults \in 0..MaxFaults

Init ==
  /\ StoreInit
  /\ policyKnown \in BOOLEAN
  /\ stage = "loop" /\ mw = 1 /\ error = "none" /\ attempt = 0
  /\ begun = {} /\ passed = {} /\ alerted = {} /\ raised = {} /\ thrown = "none"
  /\ ran = {} /\ faults = 0

\* What hooks and perform() do leaves the tables alone.
InMemory == UNCHANGED <<storeVars, policyKnown, attempt, faults>>

Goto(s) == stage' = s /\ mw' = 1

\* An exception of kind e raised by what sends the thread to s.
Throw(what, e, s) ==
  /\ Goto(s)
  /\ error' = e
  /\ raised' = raised \cup {what}

---------------------------------------------------------------------------
(* The thread takes the job *)

Submit ==
  /\ Enqueue(Job, FALSE)
  /\ UNCHANGED <<policyKnown, stage, mw, error, attempt, hookVars, ran, faults>>

TimePasses ==
  /\ RunAtPasses(Job)
  /\ UNCHANGED <<policyKnown, stage, mw, error, attempt, hookVars, ran, faults>>

Poll ==
  /\ stage = "loop" /\ Goto("fetch")
  /\ InMemory /\ UNCHANGED <<error, hookVars, ran>>

FetchNothing ==
  /\ stage = "fetch" /\ ~Eligible(Job) /\ Goto("loop")
  /\ InMemory /\ UNCHANGED <<error, hookVars, ran>>

Claim ==
  /\ stage = "fetch" /\ FetchNext(Me, Job) /\ Goto("claimed")
  /\ attempt' = attempts[Job] + 1
  /\ error' = "none"
  /\ begun' = {} /\ passed' = {} /\ alerted' = {} /\ raised' = {} /\ thrown' = "none"
  /\ UNCHANGED <<policyKnown, ran, faults>>

\* The thread lets go of the record.
Release(s) ==
  /\ Goto(s) /\ attempt' = 0 /\ error' = "none"
  /\ UNCHANGED <<policyKnown, begun, passed, alerted, thrown, ran>>

\* An attempt above the limit is buried without calling any hook.
Expire ==
  /\ stage = "claimed" /\ attempt > MaxAttempts[Job]
  /\ MoveToDead(Job) /\ Release("loop")
  /\ UNCHANGED <<raised, faults>>

---------------------------------------------------------------------------
(* MiddlewarePipeline.run *)

\* Mutated form: the limit is not looked at once a row is claimed.
LoadExpired ==
  /\ stage = "claimed" /\ Goto("before") /\ UNCHANGED <<error, raised>>
  /\ InMemory /\ UNCHANGED <<begun, passed, alerted, thrown, ran>>

Load ==
  /\ stage = "claimed" /\ attempt <= MaxAttempts[Job]
  /\ \/ Goto("before") /\ UNCHANGED <<error, raised>>
     \/ Throw("load", "error", "settle")
  /\ InMemory /\ UNCHANGED <<begun, passed, alerted, thrown, ran>>

\* Mutated form: the loop over before_perform is inside the try.
BeforeGuarded ==
  /\ stage = "before" /\ mw \in Chain
  /\ \/ mw' = mw + 1 /\ begun' = begun \cup {mw} /\ UNCHANGED <<stage, error, raised>>
     \/ \E e \in Errors : Throw("before", e, "failing") /\ UNCHANGED begun
  /\ InMemory /\ UNCHANGED <<passed, alerted, thrown, ran>>

\* Outside the try: an exception goes straight to execute().
Before ==
  /\ stage = "before" /\ mw \in Chain
  /\ \/ mw' = mw + 1 /\ begun' = begun \cup {mw} /\ UNCHANGED <<stage, error, raised>>
     \/ \E e \in Errors : Throw("before", e, "settle") /\ UNCHANGED begun
  /\ InMemory /\ UNCHANGED <<passed, alerted, thrown, ran>>

Perform ==
  /\ stage = "before" /\ mw > N /\ Goto("perform")
  /\ ran' = ran \cup {attempt}
  /\ InMemory /\ UNCHANGED <<error, hookVars>>

\* perform() returns, or the application context around it fails to open or close.
PerformReturns ==
  /\ stage = "perform"
  /\ \/ Goto("after") /\ UNCHANGED <<error, raised>>
     \/ Throw("context", "error", "failing")
  /\ InMemory /\ UNCHANGED <<begun, passed, alerted, thrown, ran>>

\* The context closes here too: an error of its own replaces what perform() raised.
PerformRaises ==
  /\ stage = "perform"
  /\ \E e \in Errors :
       /\ thrown' = e
       /\ \/ Throw("perform", e, "failing")
          \/ Throw("context", "error", "failing")
  /\ InMemory /\ UNCHANGED <<begun, passed, alerted, ran>>

\* sys.exit: no except clause sees it, the thread ends and the row is left.
PerformExits ==
  /\ stage = "perform" /\ Release("off")
  /\ UNCHANGED <<storeVars, raised, faults>>

\* Mutated form: the loop over after_perform follows the try.
AfterUnguarded ==
  /\ stage = "after" /\ mw \in Chain
  /\ \/ mw' = mw + 1 /\ passed' = passed \cup {mw} /\ UNCHANGED <<stage, error, raised>>
     \/ \E e \in Errors : Throw("after", e, "settle") /\ UNCHANGED passed
  /\ InMemory /\ UNCHANGED <<begun, alerted, thrown, ran>>

\* Inside the try: a hook that raises makes the execution a failure.
After ==
  /\ stage = "after" /\ mw \in Chain
  /\ \/ mw' = mw + 1 /\ passed' = passed \cup {mw} /\ UNCHANGED <<stage, error, raised>>
     \/ \E e \in Errors : Throw("after", e, "failing") /\ UNCHANGED passed
  /\ InMemory /\ UNCHANGED <<begun, alerted, thrown, ran>>

\* An on_failure that raises replaces the exception and silences the rest.
OnFailure ==
  /\ stage = "failing" /\ mw \in Chain
  /\ \/ mw' = mw + 1 /\ alerted' = alerted \cup {mw} /\ UNCHANGED <<stage, error, raised>>
     \/ \E e \in Errors : Throw("failure", e, "settle") /\ UNCHANGED alerted
  /\ InMemory /\ UNCHANGED <<begun, passed, thrown, ran>>

\* Mutated form: the pipeline ends with a JobFailed of its own.
PipelineWraps ==
  /\ stage \in {"after", "failing"} /\ mw > N /\ Goto("settle")
  /\ error' = IF stage = "failing" THEN "error" ELSE "none"
  /\ InMemory /\ UNCHANGED <<hookVars, ran>>

\* return result, or raise
PipelineEnds ==
  /\ stage \in {"after", "failing"} /\ mw > N /\ Goto("settle")
  /\ InMemory /\ UNCHANGED <<error, hookVars, ran>>

---------------------------------------------------------------------------
(* JobExecutor.execute and _handle_failure *)

Complete ==
  /\ stage = "settle" /\ error = "none"
  /\ MarkCompleted(Job) /\ Release("loop")
  /\ UNCHANGED <<raised, faults>>

Fault == faults < MaxFaults /\ faults' = faults + 1

\* Mutated form: mark_completed is called by the pipeline, inside its try.
CompleteRaisesInside ==
  /\ stage = "settle" /\ error = "none" /\ Fault
  /\ Throw("database", "error", "failing")
  /\ UNCHANGED <<storeVars, policyKnown, attempt, begun, passed, alerted, thrown, ran>>

\* mark_completed raises, committed or not: a failure no hook hears of.
CompleteRaises ==
  /\ stage = "settle" /\ error = "none" /\ Fault
  /\ MarkCompleted(Job) \/ UNCHANGED storeVars
  /\ Throw("database", "error", "settle")
  /\ UNCHANGED <<policyKnown, attempt, begun, passed, alerted, thrown, ran>>

Last == attempt >= MaxAttempts[Job]

\* The class tells the policy, unless it could not be loaded.
Policy == policyKnown \/ "load" \in raised

SettleWrite ==
  \/ error = "retry" /\ \E now \in BOOLEAN : MarkFailed(Job, now)
  \/ error = "error" /\ Last /\ MoveToDead(Job)
  \/ error = "error" /\ ~Last /\ Policy /\ MarkFailed(Job, FALSE)

\* Mutated form: nothing is written for a Retry.
SettleIgnoringRetry ==
  /\ stage = "settle"
  /\ \/ SettleWrite
     \/ error = "retry" /\ UNCHANGED storeVars
  /\ Release("loop")
  /\ UNCHANGED <<raised, faults>>

Settle ==
  /\ stage = "settle"
  /\ SettleWrite /\ Release("loop")
  /\ UNCHANGED <<raised, faults>>

\* The seconds of a Retry overflow a timedelta, or the policy gives no delay:
\* the loop logs it and the row stays active.
NoDelay ==
  /\ stage = "settle" /\ Release("loop")
  /\ \/ error = "retry"
     \/ error = "error" /\ ~Last /\ ~Policy
  /\ raised' = raised \cup {"delay"}
  /\ UNCHANGED <<storeVars, faults>>

\* The write raises, committed or not.
SettleRaises ==
  /\ stage = "settle" /\ error # "none" /\ Fault
  /\ \/ SettleWrite
     \/ (error = "retry" \/ Last \/ Policy) /\ UNCHANGED storeVars
  /\ Release("loop")
  /\ raised' = raised \cup {"database"}

Next ==
  \/ Submit \/ TimePasses \/ Poll \/ FetchNothing \/ Claim \/ Expire
  \/ Load \/ Before \/ Perform \/ PerformReturns \/ PerformRaises \/ PerformExits
  \/ After \/ OnFailure \/ PipelineEnds
  \/ Complete \/ CompleteRaises \/ Settle \/ NoDelay \/ SettleRaises

Spec == Init /\ [][Next]_vars

---------------------------------------------------------------------------

\* on_failure and after_perform are only called on middlewares that are all
\* set up: every before_perform has returned before the first of them.
HooksPaired == passed \cup alerted # {} => begun = Chain

\* Only hooks can make a middleware see one execution both succeed and fail.
OneVerdict == passed \cap alerted # {} => "after" \in raised

\* Once perform() was called, every failure of the pipeline, wherever it
\* comes from, reaches every on_failure, unless one of them raises itself.
FailureHeard ==
  /\ stage = "settle" /\ error # "none"
  /\ raised \cap {"load", "before", "failure", "database"} = {}
  => alerted = Chain

\* A Retry that perform() raises, on the last attempt too, puts the job back
\* to wait, unless the application context fails to close around it, an
\* on_failure raises in its place, its seconds overflow, or the driver fails.
RetryKept ==
  /\ thrown = "retry" /\ attempt = 0
  /\ raised \cap {"context", "failure", "delay", "database"} = {}
  /\ stage = "loop"
  => status[Job] = "retrying"

\* A thread that goes on after an execution leaves its row active, where only a
\* detector would find it after the death of this worker, when no delay could
\* be computed for its retry or a call of the driver raised, and never else.
NotStranded ==
  /\ stage \in {"loop", "fetch"} /\ status[Job] = "active"
  => raised \cap {"delay", "database"} # {}

\* Seen without its hooks this is a thread of the worker pool.
PcOfStage == CASE stage \in {"loop", "fetch", "off"} -> stage
               [] stage \in {"claimed", "before"} -> "claimed"
               [] stage \in {"perform", "after", "failing"} -> "running"
               [] stage = "settle" /\ error = "none" -> "complete"
               [] stage = "settle" /\ error = "error" -> "fail"
               [] stage = "settle" /\ error = "retry" -> "retry"

Pool == INSTANCE WorkerPool WITH
  Threads <- {Thread}, HostOf <- [t \in {Thread} |-> Me],
  Outcomes <- {"return", "retry", "raise", "exit"}, OnTime <- Workers,
  Troubles <- {"fault"}, MaxTroubles <- MaxFaults + 1,
  phase <- [w \in Workers |-> "up"], pc <- [t \in {Thread} |-> PcOfStage],
  held <- [t \in {Thread} |-> IF attempt = 0 THEN None ELSE Job],
  attempt <- [t \in {Thread} |-> attempt],
  stale <- [w \in Workers |-> {}], victim <- [w \in Workers |-> None],
  found <- [w \in Workers |-> {}], ran <- [j \in Jobs |-> ran],
  troubles <- IF "delay" \in raised THEN faults + 1 ELSE faults
PoolSteps == [][Pool!Next]_(Pool!vars)
===========================================================================
