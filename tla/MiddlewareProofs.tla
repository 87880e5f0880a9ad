------------------------- MODULE MiddlewareProofs -------------------------
(* Proofs about Middleware, for every number of middlewares, every limit   *)
(* of the job and every bound on the faults.                               *)
EXTENDS Middleware, TLAPS

---------------------------------------------------------------------------
(* The invariant: what is true in each stage of an execution *)

Typed ==
  /\ status \in [Jobs -> JobStatus]
  /\ stage \in Stages /\ mw \in 1..(N + 1) /\ error \in Errors \cup {"none"}
  /\ attempts \in [Jobs -> Nat] /\ attempt \in Nat
  /\ thrown \in Errors \cup {"none"}

\* Nothing has gone wrong, and no hook after perform() has been called.
Fresh == passed = {} /\ alerted = {} /\ raised = {} /\ error = "none" /\ thrown = "none"

\* The stages before the pipeline has an outcome.
Forward ==
  /\ stage = "claimed" => Fresh /\ begun = {} /\ mw = 1
  /\ stage = "before"  => Fresh /\ begun = 1..(mw - 1)
  /\ stage = "perform" => Fresh /\ begun = Chain
  /\ stage = "after"   => /\ begun = Chain /\ passed = 1..(mw - 1)
                          /\ alerted = {} /\ raised = {} /\ error = "none"
                          /\ thrown = "none"

\* The except clause of the pipeline.
Backward ==
  stage = "failing" =>
    /\ begun = Chain /\ alerted = 1..(mw - 1)
    /\ error # "none" /\ raised \subseteq {"perform", "context", "after"}
    /\ passed # {} => "after" \in raised
    /\ thrown = "retry" /\ "context" \notin raised => error = "retry"

\* The execution is out of the pipeline.
Settling ==
  stage = "settle" =>
    /\ passed \cup alerted # {} => begun = Chain
    /\ passed \cap alerted # {} => "after" \in raised
    /\ error # "none" /\ raised \cap {"load", "before", "failure", "database"} = {}
         => alerted = Chain
    /\ thrown = "retry" /\ raised \cap {"context", "failure", "delay", "database"} = {}
         => error = "retry"

\* A record is in hand from the claim to the last write, and its row is active
\* unless a failing mark_completed was committed.
Holding ==
  /\ stage \in {"loop", "fetch", "off"} <=> attempt = 0
  /\ attempt # 0 => \/ status[Job] = "active"
                    \/ status[Job] = "completed" /\ "database" \in raised

\* What hooks have seen in the execution that is over, and what became of it.
Over ==
  stage \in {"loop", "fetch", "off"} =>
    /\ passed \cup alerted # {} => begun = Chain
    /\ passed \cap alerted # {} => "after" \in raised
    /\ stage # "off" /\ thrown = "retry"
       /\ raised \cap {"context", "failure", "delay", "database"} = {}
         => status[Job] = "retrying"
    /\ stage # "off" /\ status[Job] = "active" => raised \cap {"delay", "database"} # {}

IInv == Typed /\ Forward /\ Backward /\ Settling /\ Holding /\ Over

\* Before the client submits the job there is no row and nothing in hand.
LEMMA InitInvariant == Init => IInv
BY MiddlewareAssumption
   DEF Init, StoreInit, IInv, Typed, Forward, Backward, Settling, Holding, Over,
       JobStatus, Stages

\* The client and the clock: neither touches the row of a job in hand.
LEMMA OutsideSteps == IInv /\ (Submit \/ TimePasses) => IInv'
<1> SUFFICES ASSUME IInv, Submit \/ TimePasses PROVE IInv'
  OBVIOUS
<1> USE MiddlewareAssumption
    DEF IInv, Typed, Forward, Fresh, Backward, Settling, Holding, Over, JobStatus,
        hookVars
<1>1. CASE Submit BY <1>1 DEF Submit, Enqueue
<1>2. CASE TimePasses BY <1>2 DEF TimePasses, RunAtPasses
<1> QED BY <1>1, <1>2

\* The loop, up to the claim, which forgets all of the last execution.
LEMMA LoopSteps == IInv /\ (Poll \/ FetchNothing \/ Claim \/ Expire) => IInv'
<1> SUFFICES ASSUME IInv, Poll \/ FetchNothing \/ Claim \/ Expire PROVE IInv'
  OBVIOUS
<1> USE MiddlewareAssumption
    DEF IInv, Typed, Forward, Fresh, Backward, Settling, Holding, Over, JobStatus,
        hookVars, storeVars, jobVars, Goto, InMemory, Stages, Errors
<1>1. CASE Poll BY <1>1 DEF Poll
<1>2. CASE FetchNothing BY <1>2 DEF FetchNothing
<1>3. CASE Claim BY <1>3 DEF Claim, FetchNext
<1>4. CASE Expire BY <1>4 DEF Expire, MoveToDead, Update, InTable, Release
<1> QED BY <1>1, <1>2, <1>3, <1>4

\* The middlewares before the next one: none, one more, all.
LEMMA Spans ==
  /\ 1..(1 - 1) = {}
  /\ \A k \in Chain : 1..((k + 1) - 1) = 1..(k - 1) \cup {k}
  /\ \A k \in 1..(N + 1) : k > N => 1..(k - 1) = Chain
  /\ \A k \in Chain : k + 1 \in 1..(N + 1)
BY MiddlewareAssumption DEF Chain

\* The pipeline moves through its hooks in order, one middleware at a time.
LEMMA PipelineSteps ==
  /\ IInv
  /\ \/ Load \/ Before \/ Perform \/ PerformReturns \/ PerformRaises
     \/ PerformExits \/ After \/ OnFailure \/ PipelineEnds
  => IInv'
<1> SUFFICES ASSUME IInv,
                    \/ Load \/ Before \/ Perform \/ PerformReturns \/ PerformRaises
                    \/ PerformExits \/ After \/ OnFailure \/ PipelineEnds
             PROVE  IInv'
  OBVIOUS
<1>a. 1 \in 1..(N + 1)
  BY MiddlewareAssumption
<1> USE <1>a, Spans
    DEF IInv, Typed, Forward, Fresh, Backward, Settling, Holding, Over, hookVars,
        storeVars, jobVars, Goto, InMemory, Stages, Errors, Throw
<1>1. CASE Load BY <1>1 DEF Load
<1>2. CASE Before BY <1>2 DEF Before
<1>3. CASE Perform BY <1>3 DEF Perform
<1>4. CASE PerformReturns BY <1>4 DEF PerformReturns
<1>5. CASE PerformRaises BY <1>5 DEF PerformRaises
<1>6. CASE PerformExits BY <1>6 DEF PerformExits, Release
<1>7. CASE After BY <1>7 DEF After
<1>8. CASE OnFailure BY <1>8 DEF OnFailure
<1>9. CASE PipelineEnds BY <1>9 DEF PipelineEnds
<1> QED BY <1>1, <1>2, <1>3, <1>4, <1>5, <1>6, <1>7, <1>8, <1>9

\* The writes that end an execution.
LEMMA OutcomeSteps ==
  IInv /\ (Complete \/ CompleteRaises \/ Settle \/ NoDelay \/ SettleRaises) => IInv'
<1> SUFFICES ASSUME IInv,
                    Complete \/ CompleteRaises \/ Settle \/ NoDelay \/ SettleRaises
             PROVE  IInv'
  OBVIOUS
<1> USE MiddlewareAssumption
    DEF IInv, Typed, Forward, Fresh, Backward, Settling, Holding, Over, JobStatus,
        hookVars, storeVars, jobVars, Goto, Stages, Errors, Chain, Throw, Release
<1>1. CASE Complete BY <1>1 DEF Complete, MarkCompleted, Update, InTable
<1>2. CASE CompleteRaises BY <1>2 DEF CompleteRaises, MarkCompleted, Update, InTable
<1>3. ASSUME stage = "settle", SettleWrite
      PROVE  /\ status' \in [Jobs -> JobStatus] /\ attempts' = attempts
             /\ status'[Job] \in {"retrying", "dead"}
             /\ error = "retry" => status'[Job] = "retrying"
  BY <1>3 DEF SettleWrite, MarkFailed, MoveToDead, Update, InTable
<1>4. CASE Settle BY <1>3, <1>4 DEF Settle
<1>5. CASE NoDelay
  <2>1. stage = "settle" /\ stage' = "loop" /\ "delay" \in raised'
    BY <1>5 DEF NoDelay
  <2>2. Typed'
    BY <1>5 DEF NoDelay
  <2>3. Forward' /\ Backward' /\ Settling'
    BY <2>1
  <2>4. Holding'
    BY <1>5 DEF NoDelay
  <2>5. Over'
    BY <1>5, <2>1 DEF NoDelay
  <2> QED BY <2>2, <2>3, <2>4, <2>5
<1>6. CASE SettleRaises BY <1>3, <1>6 DEF SettleRaises
<1> QED BY <1>1, <1>2, <1>4, <1>5, <1>6

\* IInv is an invariant of every execution.
THEOREM ExecutionInvariance == Spec => []IInv
<1>1. IInv /\ UNCHANGED vars => IInv'
  BY DEF vars, hookVars, storeVars, jobVars, IInv, Typed, Forward, Fresh, Backward,
         Settling, Holding, Over
<1>2. IInv /\ [Next]_vars => IInv'
  BY <1>1, OutsideSteps, LoopSteps, PipelineSteps, OutcomeSteps DEF Next
<1> QED BY InitInvariant, <1>2, PTL DEF Spec

---------------------------------------------------------------------------
(* What a middleware may rely on *)

\* MiddlewarePipeline.run calls after_perform and on_failure of a middleware
\* only when every before_perform has returned.
THEOREM HooksInOrder == Spec => []HooksPaired
<1>1. IInv => HooksPaired
  BY DEF IInv, Typed, Stages, Forward, Fresh, Backward, Settling, Over, HooksPaired
<1> QED BY <1>1, ExecutionInvariance, PTL

\* A middleware hears of both outcomes of one execution only when an
\* after_perform raised.
THEOREM VerdictsAreSingle == Spec => []OneVerdict
<1>1. IInv => OneVerdict
  BY DEF IInv, Typed, Stages, Forward, Fresh, Backward, Settling, Over, OneVerdict
<1> QED BY <1>1, ExecutionInvariance, PTL

\* A failure after perform_fn was called reaches every on_failure.
THEOREM FailuresAreHeard == Spec => []FailureHeard
<1>1. IInv => FailureHeard
  BY DEF IInv, Settling, FailureHeard
<1> QED BY <1>1, ExecutionInvariance, PTL

\* A Retry from perform() puts the job back to wait, whatever the limit, when
\* no application context, on_failure, timedelta or call of the driver raises after.
THEOREM RetriesAreKept == Spec => []RetryKept
<1>1. IInv => RetryKept
  BY DEF IInv, Over, RetryKept
<1> QED BY <1>1, ExecutionInvariance, PTL

\* An execution whose thread lives on leaves no active row unless there was no
\* delay for its retry or a call of the driver raised.
THEOREM NothingIsStranded == Spec => []NotStranded
<1>1. IInv => NotStranded
  BY DEF IInv, Over, NotStranded
<1> QED BY <1>1, ExecutionInvariance, PTL
---------------------------------------------------------------------------
(* The thread with its hooks implements the thread of WorkerPool *)

\* What the mapping relies on: an execution past the claim is within the limit,
\* and a job whose policy cannot be resolved is never claimed again.
Mapped ==
  /\ faults \in 0..MaxFaults
  /\ stage \notin {"loop", "fetch", "claimed", "off"} => attempt <= MaxAttempts[Job]
  /\ "delay" \in raised => /\ stage \in {"loop", "fetch"}
                            /\ status[Job] \in {"active", "completed"}

\* It is preserved by every step.
LEMMA MappedStep == IInv /\ Mapped /\ [Next]_vars => Mapped'
<1> SUFFICES ASSUME IInv, Mapped, [Next]_vars PROVE Mapped'
  OBVIOUS
<1>a. MaxAttempts[Job] \in Nat \ {0} /\ attempt \in Nat /\ faults \in Nat /\ Job \in Jobs
  BY StoreAssumption, MiddlewareAssumption DEF IInv, Typed, Mapped
<1> USE <1>a, MiddlewareAssumption
    DEF IInv, Typed, Forward, Fresh, Backward, Settling, Mapped, hookVars, storeVars,
        jobVars, Goto, InMemory, Throw
<1>1. CASE Submit BY <1>1 DEF Submit, Enqueue
<1>2. CASE TimePasses BY <1>2 DEF TimePasses, RunAtPasses
<1>3. CASE Poll BY <1>3 DEF Poll
<1>4. CASE FetchNothing BY <1>4 DEF FetchNothing
<1>5. CASE Claim BY <1>5 DEF Claim, FetchNext, Eligible
<1>6. CASE Expire BY <1>6 DEF Expire, Release
<1>7. CASE Load BY <1>7 DEF Load
<1>8. CASE Before BY <1>8 DEF Before
<1>9. CASE Perform BY <1>9 DEF Perform
<1>10. CASE PerformReturns BY <1>10 DEF PerformReturns
<1>11. CASE PerformRaises BY <1>11 DEF PerformRaises
<1>12. CASE PerformExits BY <1>12 DEF PerformExits, Release
<1>13. CASE After BY <1>13 DEF After
<1>14. CASE OnFailure BY <1>14 DEF OnFailure
<1>15. CASE PipelineEnds BY <1>15 DEF PipelineEnds
<1>16. CASE Complete BY <1>16 DEF Complete, Release
<1>17. CASE CompleteRaises BY <1>17 DEF CompleteRaises, Fault
<1>18. CASE Settle BY <1>18 DEF Settle, Release
<1>19. CASE NoDelay BY <1>19 DEF NoDelay, Release, Holding
<1>20. CASE SettleRaises BY <1>20 DEF SettleRaises, Release, Fault
<1>21. CASE UNCHANGED vars BY <1>21 DEF vars
<1> QED
  BY <1>1, <1>2, <1>3, <1>4, <1>5, <1>6, <1>7, <1>8, <1>9, <1>10, <1>11, <1>12, <1>13,
     <1>14, <1>15, <1>16, <1>17, <1>18, <1>19, <1>20, <1>21 DEF Next

\* Where the thread is for the pool.
LEMMA Places ==
  /\ stage \in {"loop", "fetch", "off"} => PcOfStage = stage
  /\ stage \in {"claimed", "before"} => PcOfStage = "claimed"
  /\ stage \in {"perform", "after", "failing"} => PcOfStage = "running"
  /\ stage = "settle" /\ error = "none" => PcOfStage = "complete"
  /\ stage = "settle" /\ error = "error" => PcOfStage = "fail"
  /\ stage = "settle" /\ error = "retry" => PcOfStage = "retry"
BY DEF PcOfStage

\* The same after a step.
LEMMA PlacesNext ==
  /\ stage' \in {"loop", "fetch", "off"} => PcOfStage' = stage'
  /\ stage' \in {"claimed", "before"} => PcOfStage' = "claimed"
  /\ stage' \in {"perform", "after", "failing"} => PcOfStage' = "running"
  /\ stage' = "settle" /\ error' = "none" => PcOfStage' = "complete"
  /\ stage' = "settle" /\ error' = "error" => PcOfStage' = "fail"
  /\ stage' = "settle" /\ error' = "retry" => PcOfStage' = "retry"
BY DEF PcOfStage

\* Both modules have the statements of one job store.
LEMMA SameStatements ==
  /\ \A b \in BOOLEAN : /\ Enqueue(Job, b) => Pool!Enqueue(Job, b)
                        /\ MarkFailed(Job, b) => Pool!MarkFailed(Job, b)
  /\ RunAtPasses(Job) => Pool!RunAtPasses(Job)
  /\ FetchNext(Me, Job) => Pool!FetchNext(Me, Job)
  /\ Eligible(Job) <=> Pool!Eligible(Job)
  /\ MarkCompleted(Job) => Pool!MarkCompleted(Job)
  /\ MoveToDead(Job) => Pool!MoveToDead(Job)
  /\ UNCHANGED storeVars <=> UNCHANGED Pool!storeVars
BY DEF Enqueue, Pool!Enqueue, MarkFailed, Pool!MarkFailed, RunAtPasses, Pool!RunAtPasses,
       FetchNext, Pool!FetchNext, Eligible, Pool!Eligible, MarkCompleted,
       Pool!MarkCompleted, MoveToDead, Pool!MoveToDead, Update, Pool!Update, InTable,
       Pool!InTable, registryVars, Pool!registryVars, jobVars, Pool!jobVars, storeVars,
       Pool!storeVars
\* Every step is a step of the pool's thread, of its client or its clock, or is
\* none that the pool can see.
LEMMA PoolStep == IInv /\ Mapped /\ [Next]_vars => [Pool!Next]_(Pool!vars)
<1> SUFFICES ASSUME IInv, Mapped, [Next]_vars PROVE [Pool!Next]_(Pool!vars)
  OBVIOUS
<1> DEFINE Unseen == UNCHANGED Pool!vars
<1>a. /\ MaxAttempts[Job] \in Nat \ {0} /\ attempt \in Nat /\ faults \in Nat
      /\ Job \in Jobs /\ Jobs = {Job} /\ None # Job /\ Me \in Workers
  BY StoreAssumption, MiddlewareAssumption DEF IInv, Typed, Mapped
<1>b. /\ stage \in Stages /\ error \in Errors \cup {"none"} /\ faults <= MaxFaults
      /\ stage \notin {"loop", "fetch", "off"} => attempt # 0 /\ "delay" \notin raised
      /\ stage \notin {"loop", "fetch", "claimed", "off"} => attempt <= MaxAttempts[Job]
  BY DEF IInv, Typed, Holding, Mapped
<1>c. stage' = stage /\ error' = error => PcOfStage' = PcOfStage
  BY DEF PcOfStage
<1> USE <1>a, <1>b, <1>c, Places, PlacesNext, SameStatements
    DEF hookVars, InMemory, Goto, Pool!threadVars, Pool!detectorVars, Pool!Goto
<1>1. Submit => Pool!Submit(Job)
  BY DEF Submit, Pool!Submit
<1>2. TimePasses => Pool!TimePasses(Job)
  BY DEF TimePasses, Pool!TimePasses
<1>3. Poll => Pool!Poll(Thread)
  BY DEF Poll, Pool!Poll
<1>4. FetchNothing => Pool!FetchNothing(Thread)
  BY DEF FetchNothing, Pool!FetchNothing
<1>5. Claim => Pool!Claim(Thread, Job)
  <2>1. Claim => "delay" \notin raised /\ "delay" \notin raised'
    BY DEF Claim, Mapped, FetchNext, Eligible
  <2>2. Claim => attempt' = attempts[Job] + 1 /\ attempt' # 0
    BY DEF Claim, IInv, Typed
  <2> QED BY <2>1, <2>2 DEF Claim, Pool!Claim
<1>6. Expire => Pool!Expire(Thread)
  BY DEF Expire, Pool!Expire, Release, Pool!Release, Pool!Expired
<1>7. Load => Unseen \/ Pool!LoadFails(Thread)
  <2>1. Load => stage = "claimed" /\ attempt <= MaxAttempts[Job]
    BY DEF Load
  <2>2. Load => /\ PcOfStage' \in {"claimed", "fail"} /\ "delay" \notin raised'
                /\ UNCHANGED <<storeVars, attempt, ran, faults>>
    BY DEF Load, Throw
  <2>3. Load /\ PcOfStage' = "claimed" => Unseen
    BY <2>1, <2>2 DEF Pool!vars
  <2>4. ASSUME Load, PcOfStage' = "fail" PROVE Pool!LoadFails(Thread)
    <3>1. PcOfStage = "claimed" /\ ~Pool!Expired(Thread)
      BY <2>1, <2>4 DEF Pool!Expired
    <3>2. \E l \in {"fail", "retry"} : Pool!Goto(Thread, l)
      BY <2>4
    <3> QED BY <2>2, <2>4, <3>1, <3>2 DEF Pool!LoadFails
  <2> QED BY <2>2, <2>3, <2>4
<1>8. Before => Unseen \/ Pool!LoadFails(Thread)
  <2>1. Before => stage = "before"
    BY DEF Before
  <2>2. Before => /\ PcOfStage' \in {"claimed", "fail", "retry"} /\ "delay" \notin raised'
                  /\ UNCHANGED <<storeVars, attempt, ran, faults>>
    BY DEF Before, Throw, Errors
  <2>3. Before /\ PcOfStage' = "claimed" => Unseen
    BY <2>1, <2>2 DEF Pool!vars
  <2>4. ASSUME Before, PcOfStage' \in {"fail", "retry"} PROVE Pool!LoadFails(Thread)
    <3>1. PcOfStage = "claimed" /\ ~Pool!Expired(Thread)
      BY <2>1, <2>4 DEF Pool!Expired
    <3>2. \E l \in {"fail", "retry"} : Pool!Goto(Thread, l)
      BY <2>4
    <3> QED BY <2>2, <2>4, <3>1, <3>2 DEF Pool!LoadFails
  <2> QED BY <2>2, <2>3, <2>4
<1>9. Perform => Pool!Perform(Thread)
  BY DEF Perform, Pool!Perform, Pool!Expired, Mapped
<1>10. PerformReturns \/ PerformRaises \/ After => Unseen
  BY DEF PerformReturns, PerformRaises, After, Pool!vars, Throw, Mapped
<1>11. PerformExits => Pool!PerformExits(Thread)
  BY DEF PerformExits, Pool!PerformExits, Release, Pool!Release
<1>12. OnFailure => Unseen \/ Pool!PerformEnds(Thread)
  BY DEF OnFailure, Pool!PerformEnds, Pool!NextPc, Pool!vars, Throw, Mapped, Errors
<1>13. PipelineEnds => Pool!PerformEnds(Thread)
  BY DEF PipelineEnds, Pool!PerformEnds, Pool!NextPc, IInv, Typed, Errors
<1>14. Complete => Pool!Complete(Thread)
  BY DEF Complete, Pool!Complete, Release, Pool!Release
<1>15. CompleteRaises => Pool!CompleteFails(Thread)
  <2>1. CompleteRaises => /\ "delay" \notin raised /\ "delay" \notin raised'
                          /\ faults < MaxFaults + 1 /\ faults' = faults + 1
    BY MiddlewareAssumption DEF CompleteRaises, Throw, Fault
  <2> QED BY <2>1 DEF CompleteRaises, Pool!CompleteFails, Throw, Pool!Strikes
<1>16. Settle => Pool!RetryRequested(Thread) \/ Pool!HandleFailure(Thread)
  BY DEF Settle, SettleWrite, Last, Pool!RetryRequested, Pool!RetryWrite,
         Pool!HandleFailure, Pool!FailureWrite, Pool!LastAttempt, Release, Pool!Release
<1>17. NoDelay \/ SettleRaises => Pool!WriteFails(Thread)
  <2>1. NoDelay => Pool!Strikes("fault")
    BY MiddlewareAssumption DEF NoDelay, Pool!Strikes
  <2>2. SettleRaises => Pool!Strikes("fault")
    BY MiddlewareAssumption DEF SettleRaises, Fault, Pool!Strikes
  <2>3. stage = "settle" /\ SettleWrite =>
          IF error = "retry" THEN Pool!RetryWrite(Thread)
                             ELSE error = "error" /\ Pool!FailureWrite(Thread)
    BY DEF SettleWrite, Last, Pool!RetryWrite, Pool!FailureWrite, Pool!LastAttempt
  <2>4. NoDelay => Pool!WriteFails(Thread)
    BY <2>1 DEF NoDelay, Pool!WriteFails, Release, Pool!Release
  <2>5. SettleRaises => Pool!WriteFails(Thread)
    BY <2>2, <2>3 DEF SettleRaises, Pool!WriteFails, Release, Pool!Release, Errors
  <2> QED BY <2>4, <2>5
<1>18. UNCHANGED vars => Unseen
  BY DEF vars, Pool!vars, PcOfStage
<1>19. \/ Pool!Submit(Job) \/ Pool!TimePasses(Job) \/ Pool!FetchStep(Thread)
       \/ Pool!ExecuteStep(Thread) \/ Pool!FaultStep(Thread)
       => Pool!Next
  BY DEF Pool!Next
<1> QED
  BY <1>1, <1>2, <1>3, <1>4, <1>5, <1>6, <1>7, <1>8, <1>9, <1>10, <1>11, <1>12, <1>13,
     <1>14, <1>15, <1>16, <1>17, <1>18, <1>19
     DEF Next, Pool!FetchStep, Pool!ExecuteStep, Pool!FaultStep

\* What MiddlewarePipeline.run and its callers do around the hooks are steps
\* of the worker pool: what is proved of its threads' writes and claims is true
\* of threads that run middlewares.
THEOREM ImplementsPoolThread == Spec => PoolSteps
<1>1. Init => Mapped
  BY MiddlewareAssumption DEF Init, Mapped
<1>2. IInv /\ Mapped /\ [Next]_vars => Mapped' /\ [Pool!Next]_(Pool!vars)
  BY MappedStep, PoolStep
<1> QED BY <1>1, <1>2, ExecutionInvariance, PTL DEF Spec, PoolSteps
===========================================================================
