------------------------- MODULE WorkerPoolProofs -------------------------
(* Proofs about WorkerPool, for every value of its constants. *)
EXTENDS WorkerPool, TLAPS

---------------------------------------------------------------------------
(* Type correctness *)

\* The columns stay in their types through every statement on cj_jobs.
LEMMA JobStatementsTyped ==
  ASSUME StoreTypeOK, NEW j \in Jobs, NEW b \in BOOLEAN,
         \/ Enqueue(j, b) \/ RunAtPasses(j) \/ MarkCompleted(j)
         \/ MarkFailed(j, b) \/ MoveToDead(j) \/ ReenqueueJob(j) \/ Cancel(j)
  PROVE  StoreTypeOK'
<1> USE DEF StoreTypeOK, JobStatus, registryVars, Update
<1>1. CASE Enqueue(j, b) BY <1>1 DEF Enqueue
<1>2. CASE RunAtPasses(j) BY <1>2 DEF RunAtPasses
<1>3. CASE MarkCompleted(j) BY <1>3 DEF MarkCompleted
<1>4. CASE MarkFailed(j, b) BY <1>4 DEF MarkFailed
<1>5. CASE MoveToDead(j) BY <1>5 DEF MoveToDead
<1>6. CASE ReenqueueJob(j) BY <1>6 DEF ReenqueueJob
<1>7. CASE Cancel(j) BY <1>7 DEF Cancel
<1> QED BY <1>1, <1>2, <1>3, <1>4, <1>5, <1>6, <1>7

\* So they do through a claim and every statement on cj_workers.
LEMMA WorkerStatementsTyped ==
  ASSUME StoreTypeOK, NEW w \in Workers,
         \/ \E j \in Jobs : FetchNext(w, j)
         \/ RegisterWorker(w) \/ HeartbeatRow(w) \/ DeregisterWorker(w)
         \/ MarkWorkerStopped(w) \/ UNCHANGED storeVars
  PROVE  StoreTypeOK'
<1> USE DEF StoreTypeOK, JobStatus, jobVars, registryVars, storeVars
<1>1. CASE \E j \in Jobs : FetchNext(w, j) BY <1>1 DEF FetchNext
<1>2. CASE RegisterWorker(w) BY <1>2 DEF RegisterWorker
<1>3. CASE HeartbeatRow(w) BY <1>3 DEF HeartbeatRow
<1>4. CASE DeregisterWorker(w) BY <1>4 DEF DeregisterWorker
<1>5. CASE MarkWorkerStopped(w) BY <1>5 DEF MarkWorkerStopped
<1>6. CASE UNCHANGED storeVars BY <1>6
<1> QED BY <1>1, <1>2, <1>3, <1>4, <1>5, <1>6

\* A thread past its fetch and before its write holds a job, and only then;
\* the threads of a process that is not running are off.
Holding == \A t \in Threads : /\ Working(t) <=> held[t] # None
                              /\ pc[t] # "off" => Live(HostOf[t])

\* Every step of the system keeps every variable in its type.
LEMMA TypeStep == TypeOK /\ Holding /\ [Next]_vars => TypeOK'
<1> SUFFICES ASSUME TypeOK, Holding, [Next]_vars PROVE TypeOK'
  OBVIOUS
<1> USE StoreAssumption, PoolAssumption
    DEF TypeOK, AllPhases, LivePhases, PC, threadVars, detectorVars, Strikes
<1>1. ASSUME NEW j \in Jobs, Submit(j) \/ Withdraw(j) \/ TimePasses(j)
      PROVE  TypeOK'
  <2>1. StoreTypeOK'
    <3>1. CASE Submit(j)
      BY <3>1, JobStatementsTyped DEF Submit
    <3>2. CASE Withdraw(j)
      BY <3>2, JobStatementsTyped DEF Withdraw
    <3>3. CASE TimePasses(j)
      BY <3>3, JobStatementsTyped DEF TimePasses
    <3> QED BY <1>1, <3>1, <3>2, <3>3
  <2> QED BY <1>1, <2>1 DEF Submit, Withdraw, TimePasses
<1>2. ASSUME NEW w \in Workers, Start(w) PROVE TypeOK'
  BY <1>2, WorkerStatementsTyped DEF Start
<1>3. ASSUME NEW w \in Workers, Heartbeat(w) PROVE TypeOK'
  BY <1>3, WorkerStatementsTyped DEF Heartbeat
<1>4. ASSUME NEW w \in Workers, BeatExpires(w) PROVE TypeOK'
  BY <1>4 DEF BeatExpires, Live, StoreTypeOK, jobVars
<1>5. ASSUME NEW w \in Workers, Shutdown(w) \/ StopJoining(w) PROVE TypeOK'
  BY <1>5 DEF Shutdown, StopJoining, StoreTypeOK, storeVars, jobVars, registryVars
<1>6. ASSUME NEW w \in Workers, Deregister(w) \/ DeregisterFails(w)
      PROVE  TypeOK'
  BY <1>6, WorkerStatementsTyped DEF Deregister, DeregisterFails
<1>7. ASSUME NEW w \in Workers, Exit(w) \/ Crash(w) PROVE TypeOK'
  <2>1. StoreTypeOK' /\ ran' = ran /\ troubles' \in 0..MaxTroubles
    BY <1>7, WorkerStatementsTyped DEF Exit, Crash, Halt
  <2>2. phase' \in [Workers -> AllPhases]
    BY <1>7 DEF Exit, Crash, Halt
  <2>3. /\ pc'      \in [Threads -> PC]
        /\ held'    \in [Threads -> Jobs \cup {None}]
        /\ attempt' \in [Threads -> Nat]
    BY <1>7 DEF Exit, Crash, Halt
  <2>4. /\ stale'  \in [Workers -> SUBSET Workers]
        /\ victim' \in [Workers -> Workers \cup {None}]
        /\ found'  \in [Workers -> SUBSET JobSnapshot]
    BY <1>7 DEF Exit, Crash, Halt
  <2> QED BY <2>1, <2>2, <2>3, <2>4
<1>8. ASSUME NEW w \in Workers, DetectScan(w) PROVE TypeOK'
  BY <1>8 DEF DetectScan, StaleWorkers, StoreTypeOK, storeVars, jobVars, registryVars
<1>9. ASSUME NEW w \in Workers, NEW v \in Workers, DetectPick(w, v)
      PROVE  TypeOK'
  BY <1>9 DEF DetectPick, ActiveJobsOf, JobSnapshot, StoreTypeOK, storeVars, jobVars,
              registryVars
<1>10. ASSUME NEW w \in Workers, NEW r \in found[w], Recover(r)
       PROVE  StoreTypeOK'
  <2>1. r.job \in Jobs
    BY DEF JobSnapshot
  <2> QED BY <1>10, <2>1, JobStatementsTyped DEF Recover
<1>11. ASSUME NEW w \in Workers, NEW r \in found[w], DetectJob(w, r)
       PROVE  TypeOK'
  BY <1>10, <1>11 DEF DetectJob
<1>12. ASSUME NEW w \in Workers, victim[w] # None, MarkWorkerStopped(victim[w])
       PROVE  StoreTypeOK'
  BY <1>12, WorkerStatementsTyped
<1>13. ASSUME NEW w \in Workers, DetectDone(w) PROVE TypeOK'
  BY <1>12, <1>13 DEF DetectDone
<1>14. ASSUME NEW w \in Workers, DetectAborts(w) PROVE TypeOK'
  <2>1. StoreTypeOK'
    BY <1>10, <1>12, <1>14, WorkerStatementsTyped DEF DetectAborts
  <2> QED BY <1>14, <2>1 DEF DetectAborts
<1>15. ASSUME NEW t \in Threads, Poll(t) \/ ThreadEnds(t) \/ FetchNothing(t)
       PROVE  TypeOK'
  BY <1>15 DEF Poll, ThreadEnds, FetchNothing, Goto, StoreTypeOK, storeVars, jobVars,
               registryVars
<1>16. ASSUME NEW t \in Threads, NEW j \in Jobs, Claim(t, j) PROVE TypeOK'
  <2>1. StoreTypeOK'
    BY <1>16, WorkerStatementsTyped DEF Claim
  <2>2. attempts[j] + 1 \in Nat
    BY DEF StoreTypeOK
  <2> QED BY <1>16, <2>1, <2>2 DEF Claim, Goto
<1>17. ASSUME NEW t \in Threads, FetchFails(t) PROVE TypeOK'
  <2>1. StoreTypeOK'
    BY <1>17, WorkerStatementsTyped DEF FetchFails
  <2> QED BY <1>17, <2>1 DEF FetchFails, Goto
<1>18. ASSUME NEW t \in Threads, held[t] # None,
              \/ MoveToDead(held[t]) \/ MarkCompleted(held[t])
              \/ RetryWrite(t) \/ FailureWrite(t) \/ UNCHANGED storeVars
       PROVE  StoreTypeOK'
  <2>1. StoreTypeOK /\ held[t] \in Jobs /\ HostOf[t] \in Workers
    BY <1>18
  <2>2. CASE MoveToDead(held[t]) \/ MarkCompleted(held[t])
    BY <2>1, <2>2, JobStatementsTyped
  <2>3. CASE RetryWrite(t)
    BY <2>1, <2>3, JobStatementsTyped DEF RetryWrite
  <2>4. CASE FailureWrite(t)
    BY <2>1, <2>4, JobStatementsTyped DEF FailureWrite
  <2>5. CASE UNCHANGED storeVars
    BY <2>1, <2>5, WorkerStatementsTyped
  <2> QED BY <1>18, <2>2, <2>3, <2>4, <2>5
<1>19. ASSUME NEW t \in Threads, Expire(t) \/ ExpireFails(t) PROVE TypeOK'
  <2>1. StoreTypeOK'
    BY <1>18, <1>19 DEF Expire, ExpireFails, Holding, Working
  <2>2. /\ pc' \in [Threads -> PC] /\ held' \in [Threads -> Jobs \cup {None}]
        /\ attempt' \in [Threads -> Nat]
    BY <1>19 DEF Expire, ExpireFails, Release, Goto
  <2>3. troubles' \in 0..MaxTroubles
    BY <1>19 DEF Expire, ExpireFails, Strikes
  <2>4. UNCHANGED <<phase, detectorVars, ran>>
    BY <1>19 DEF Expire, ExpireFails
  <2>5. /\ phase' \in [Workers -> AllPhases] /\ ran' \in [Jobs -> SUBSET Nat]
        /\ stale' \in [Workers -> SUBSET Workers]
        /\ victim' \in [Workers -> Workers \cup {None}]
        /\ found' \in [Workers -> SUBSET JobSnapshot]
    BY <2>4
  <2> QED BY <2>1, <2>2, <2>3, <2>5
<1>20. ASSUME NEW t \in Threads, Perform(t) \/ LoadFails(t) PROVE TypeOK'
  <2>1. StoreTypeOK' /\ troubles' \in 0..MaxTroubles
    BY <1>20, WorkerStatementsTyped DEF Perform, LoadFails
  <2>2. pc' \in [Threads -> PC]
    BY <1>20 DEF Perform, LoadFails, Goto
  <2>3. ran' \in [Jobs -> SUBSET Nat]
    BY <1>20 DEF Perform, LoadFails, Holding, Working
  <2>4. UNCHANGED <<phase, held, attempt, detectorVars>>
    BY <1>20 DEF Perform, LoadFails
  <2> QED BY <2>1, <2>2, <2>3, <2>4
<1>21. ASSUME NEW t \in Threads, PerformEnds(t) \/ PerformExits(t) PROVE TypeOK'
  <2>1. \A o \in Outcomes \ {"exit"} : NextPc(o) \in PC
    BY DEF NextPc, AllOutcomes
  <2>2. StoreTypeOK'
    BY <1>21 DEF PerformEnds, PerformExits, StoreTypeOK, storeVars, jobVars,
                 registryVars
  <2> QED BY <1>21, <2>1, <2>2 DEF PerformEnds, PerformExits, Release, Goto
<1>22. ASSUME NEW t \in Threads, Complete(t) \/ CompleteFails(t) PROVE TypeOK'
  <2>1. StoreTypeOK'
    BY <1>18, <1>22 DEF Complete, CompleteFails, Holding, Working
  <2> QED BY <1>22, <2>1 DEF Complete, CompleteFails, Release, Goto
<1>23. ASSUME NEW t \in Threads,
              RetryRequested(t) \/ HandleFailure(t) \/ WriteFails(t)
       PROVE  TypeOK'
  <2>1. StoreTypeOK'
    BY <1>18, <1>23 DEF RetryRequested, HandleFailure, WriteFails, Holding, Working
  <2> QED BY <1>23, <2>1 DEF RetryRequested, HandleFailure, WriteFails, Release, Goto
<1>24. CASE UNCHANGED vars
  BY <1>24 DEF vars, StoreTypeOK, storeVars, jobVars, registryVars
<1> QED
  BY <1>1, <1>2, <1>3, <1>4, <1>5, <1>6, <1>7, <1>8, <1>9, <1>11, <1>13, <1>14,
     <1>15, <1>16, <1>17, <1>19, <1>20, <1>21, <1>22, <1>23, <1>24
  DEF Next, StopStep, DetectStep, FetchStep, ExecuteStep, FaultStep

---------------------------------------------------------------------------
(* The inductive invariant *)

\* A claim is one of those counted in the row.
ClaimBounds ==
  \A t \in Threads : held[t] # None => attempt[t] \in 1..attempts[held[t]]

\* Past the test of _run_loop the claim is within the limit.
WithinLimit ==
  \A t \in Threads : pc[t] \in {"running", "complete", "retry", "fail"}
                       => attempt[t] <= MaxAttempts[held[t]]

\* What a detector has read of a row is not ahead of the row.
FoundBounds == \A w \in Workers : \A r \in found[w] : r.attempts <= attempts[r.job]

\* User code was started only under claims the row has counted.
RanBounds == \A j \in Jobs : ran[j] \subseteq 1..attempts[j]

\* A claimed job has not been started under this claim.
NotYetRun == \A t \in Threads : pc[t] = "claimed" => attempt[t] \notin ran[held[t]]

\* perform() has been started before it ends or its result is written.
RanUnderway ==
  \A t \in Threads : pc[t] \in {"running", "complete"} => ran[held[t]] # {}

ClaimInv == /\ ClaimBounds /\ WithinLimit /\ FoundBounds /\ RanBounds
            /\ PoisonBound /\ NotYetRun /\ RanUnderway /\ DistinctClaims
RowInv   == CompletedRan /\ DeadIsExhausted /\ DeadHasLetter
IInv     == TypeOK /\ Holding /\ ClaimInv /\ RowInv

LEMMA InitInv == Init => IInv
<1> SUFFICES ASSUME Init PROVE IInv
  OBVIOUS
<1> USE StoreAssumption, PoolAssumption DEF Init, StoreInit
<1>1. TypeOK
  BY DEF TypeOK, StoreTypeOK, JobStatus, AllPhases, PC
<1>2. Holding
  BY DEF Holding, Working
<1>3. ClaimInv
  BY DEF ClaimInv, ClaimBounds, WithinLimit, FoundBounds, RanBounds, PoisonBound,
         NotYetRun, RanUnderway, DistinctClaims
<1>4. RowInv
  BY DEF RowInv, CompletedRan, DeadIsExhausted, DeadHasLetter
<1> QED BY <1>1, <1>2, <1>3, <1>4 DEF IInv

\* No statement but the claim touches the attempts column.
LEMMA WritesKeepAttempts ==
  ASSUME NEW j, NEW b, NEW w,
         \/ Enqueue(j, b) \/ RunAtPasses(j) \/ MarkCompleted(j)
         \/ MarkFailed(j, b) \/ MoveToDead(j) \/ ReenqueueJob(j) \/ Cancel(j)
         \/ RegisterWorker(w) \/ HeartbeatRow(w) \/ DeregisterWorker(w)
         \/ MarkWorkerStopped(w) \/ UNCHANGED storeVars
  PROVE  attempts' = attempts
BY DEF Enqueue, RunAtPasses, MarkCompleted, MarkFailed, MoveToDead, ReenqueueJob,
       Cancel, RegisterWorker, HeartbeatRow, DeregisterWorker, MarkWorkerStopped,
       storeVars, jobVars

LEMMA HoldingStep == TypeOK /\ Holding /\ [Next]_vars => Holding'
<1> SUFFICES ASSUME TypeOK, Holding, [Next]_vars PROVE Holding'
  OBVIOUS
<1> USE StoreAssumption, PoolAssumption
    DEF TypeOK, Holding, Working, PC, Live, LivePhases, threadVars
<1>1. CASE UNCHANGED <<threadVars, phase>>
  BY <1>1
<1>2. ASSUME NEW w \in Workers, Start(w) PROVE Holding'
  BY <1>2 DEF Start
<1>3. ASSUME NEW w \in Workers, Exit(w) \/ Crash(w) PROVE Holding'
  BY <1>3 DEF Exit, Crash, Halt
<1>4. ASSUME NEW t \in Threads, FetchStep(t) PROVE Holding'
  BY <1>4 DEF FetchStep, Poll, ThreadEnds, FetchNothing, Claim, Goto
<1>5. ASSUME NEW t \in Threads, ExecuteStep(t) PROVE Holding'
  <2>1. CASE Perform(t) \/ LoadFails(t) \/ PerformEnds(t)
    <3>1. \A o \in Outcomes \ {"exit"} : NextPc(o) \in {"complete", "retry", "fail"}
      BY DEF NextPc, AllOutcomes
    <3> QED BY <2>1, <3>1 DEF Perform, LoadFails, PerformEnds, Goto
  <2>2. CASE Expire(t) \/ PerformExits(t) \/ Complete(t) \/ RetryRequested(t)
             \/ HandleFailure(t)
    BY <2>2 DEF Expire, PerformExits, Complete, RetryRequested, HandleFailure,
                Release, Goto
  <2> QED BY <1>5, <2>1, <2>2 DEF ExecuteStep
<1>6. ASSUME NEW t \in Threads, FaultStep(t) PROVE Holding'
  BY <1>6 DEF FaultStep, FetchFails, ExpireFails, CompleteFails, WriteFails,
              Release, Goto
<1>7. ASSUME NEW j \in Jobs, Submit(j) \/ Withdraw(j) \/ TimePasses(j)
      PROVE  Holding'
  BY <1>1, <1>7 DEF Submit, Withdraw, TimePasses
<1>8. ASSUME NEW w \in Workers,
             Shutdown(w) \/ StopJoining(w) \/ Deregister(w) \/ DeregisterFails(w)
      PROVE  Holding'
  BY <1>8 DEF Shutdown, StopJoining, Deregister, DeregisterFails
<1>9. ASSUME NEW w \in Workers,
             Heartbeat(w) \/ BeatExpires(w) \/ DetectAborts(w) \/ DetectStep(w)
      PROVE  Holding'
  BY <1>1, <1>9 DEF Heartbeat, BeatExpires, DetectAborts, DetectStep, DetectScan,
                    DetectDone, DetectPick, DetectJob
<1> QED
  BY <1>1, <1>2, <1>3, <1>4, <1>5, <1>6, <1>7, <1>8, <1>9 DEF Next, StopStep, vars

\* A thread drops its job, keeps it as it is, or moves on in executing it.
Onward(t) ==
  \/ held'[t] = None /\ pc'[t] \in {"off", "loop", "fetch"}
  \/ /\ held'[t] = held[t] /\ attempt'[t] = attempt[t]
     /\ \/ pc'[t] = pc[t]
        \/ pc[t] \in {"running", "complete"} /\ pc'[t] \in {"complete", "retry", "fail"}
        \/ held[t] # None /\ ~Expired(t) /\ pc'[t] \in {"fail", "retry"}

\* Without a new claim and without starting user code the claims stay sound.
LEMMA ClaimsKept ==
  ASSUME TypeOK, TypeOK', ClaimInv, UNCHANGED <<attempts, ran>>,
         \A t \in Threads : Onward(t),
         \A w \in Workers : \A r \in found'[w] :
           r \in found[w] \/ r.attempts <= attempts[r.job]
  PROVE  ClaimInv'
<1> USE DEF ClaimInv
<1>1. ClaimBounds'
  BY DEF ClaimBounds, Onward
<1>2. WithinLimit'
  <2> SUFFICES ASSUME NEW t \in Threads,
                      pc'[t] \in {"running", "complete", "retry", "fail"}
               PROVE  attempt'[t] <= MaxAttempts[held'[t]]
    BY DEF WithinLimit
  <2>1. CASE pc[t] \in {"running", "complete", "retry", "fail"}
    BY <2>1 DEF WithinLimit, Onward
  <2>2. CASE held[t] # None /\ ~Expired(t) /\ pc'[t] \in {"fail", "retry"}
    <3>1. held[t] \in Jobs /\ attempt[t] \in Nat /\ MaxAttempts[held[t]] \in Nat
      BY <2>2, StoreAssumption DEF TypeOK
    <3> QED BY <2>2, <3>1 DEF Onward, Expired
  <2> QED BY <2>1, <2>2 DEF Onward
<1>3. FoundBounds'
  BY DEF FoundBounds
<1>4. RanBounds' /\ PoisonBound'
  BY DEF RanBounds, PoisonBound
<1>5. NotYetRun'
  BY DEF NotYetRun, Onward
<1>6. RanUnderway'
  BY DEF RanUnderway, Onward
<1>7. DistinctClaims'
  BY DEF DistinctClaims, Onward
<1> QED BY <1>1, <1>2, <1>3, <1>4, <1>5, <1>6, <1>7

\* Claims, their bounds and their history through every step.
LEMMA ClaimStep ==
  TypeOK /\ TypeOK' /\ Holding /\ ClaimInv /\ [Next]_vars => ClaimInv'
<1> SUFFICES ASSUME TypeOK, TypeOK', Holding, ClaimInv, [Next]_vars PROVE ClaimInv'
  OBVIOUS
<1>a. CASE UNCHANGED <<attempts, threadVars, found, ran>>
  BY <1>a, ClaimsKept DEF Onward, threadVars
<1>1. ASSUME NEW j \in Jobs, Submit(j) \/ Withdraw(j) \/ TimePasses(j)
      PROVE  ClaimInv'
  BY <1>a, <1>1, WritesKeepAttempts DEF Submit, Withdraw, TimePasses, detectorVars
<1>2. ASSUME NEW w \in Workers, Start(w) PROVE ClaimInv'
  <2>1. UNCHANGED <<attempts, held, attempt, found, ran>>
    BY <1>2, WritesKeepAttempts DEF Start, detectorVars
  <2>2. \A t \in Threads : Onward(t)
    BY <1>2, <2>1 DEF Start, Onward, Holding, Working, Live, LivePhases
  <2> QED BY <2>1, <2>2, ClaimsKept
<1>3. ASSUME NEW w \in Workers,
             \/ Heartbeat(w) \/ BeatExpires(w) \/ Shutdown(w) \/ StopJoining(w)
             \/ Deregister(w) \/ DeregisterFails(w) \/ DetectScan(w)
             \/ DetectDone(w)
      PROVE  ClaimInv'
  BY <1>a, <1>3, WritesKeepAttempts
  DEF Heartbeat, BeatExpires, Shutdown, StopJoining, Deregister, DeregisterFails,
      DetectScan, DetectDone, storeVars, jobVars, detectorVars
<1>4. ASSUME NEW w \in Workers, Exit(w) \/ Crash(w) PROVE ClaimInv'
  <2>1. UNCHANGED <<attempts, ran>>
    BY <1>4 DEF Exit, Crash, Halt, storeVars, jobVars
  <2>2. \A t \in Threads : Onward(t)
    BY <1>4 DEF Exit, Crash, Halt, Onward
  <2>3. found' = [found EXCEPT ![w] = {}]
    BY <1>4 DEF Exit, Crash, Halt
  <2>4. \A v \in Workers : \A r \in found'[v] : r \in found[v]
    BY <2>3 DEF TypeOK
  <2> QED BY <2>1, <2>2, <2>4, ClaimsKept
<1>5. ASSUME NEW w \in Workers, NEW v \in Workers, DetectPick(w, v)
      PROVE  ClaimInv'
  <2>1. UNCHANGED <<attempts, threadVars, ran>>
    BY <1>5 DEF DetectPick, storeVars, jobVars
  <2>2. \A u \in Workers : \A r \in found'[u] :
          r \in found[u] \/ r.attempts <= attempts[r.job]
    BY <1>5 DEF DetectPick, ActiveJobsOf, TypeOK, StoreTypeOK
  <2> QED BY <2>1, <2>2, ClaimsKept DEF Onward, threadVars
<1>6. ASSUME NEW w \in Workers,
             DetectAborts(w) \/ \E r \in found[w] : DetectJob(w, r)
      PROVE  ClaimInv'
  <2>1. UNCHANGED <<attempts, threadVars, ran>>
    BY <1>6, WritesKeepAttempts DEF DetectAborts, DetectJob, Recover
  <2>2. \A v \in Workers : \A r \in found'[v] : r \in found[v]
    BY <1>6 DEF DetectAborts, DetectJob, TypeOK
  <2> QED BY <2>1, <2>2, ClaimsKept DEF Onward, threadVars
<1>7. ASSUME NEW t \in Threads,
             Poll(t) \/ ThreadEnds(t) \/ FetchNothing(t) \/ LoadFails(t)
      PROVE  ClaimInv'
  <2>1. UNCHANGED <<attempts, held, attempt, found, ran>>
    BY <1>7 DEF Poll, ThreadEnds, FetchNothing, LoadFails, storeVars, jobVars,
                detectorVars
  <2>2. \A u \in Threads : Onward(u)
    BY <1>7, <2>1 DEF Poll, ThreadEnds, FetchNothing, LoadFails, Goto, Onward,
                      Holding, Working, TypeOK
  <2> QED BY <2>1, <2>2, ClaimsKept
<1>8. ASSUME NEW t \in Threads, PerformEnds(t) \/ CompleteFails(t)
      PROVE  ClaimInv'
  <2>1. UNCHANGED <<attempts, held, attempt, found, ran>>
    BY <1>8, WritesKeepAttempts DEF PerformEnds, CompleteFails, storeVars, jobVars,
                                    detectorVars
  <2>2. \A o \in Outcomes \ {"exit"} : NextPc(o) \in {"complete", "retry", "fail"}
    BY PoolAssumption DEF NextPc, AllOutcomes
  <2>3. \A u \in Threads : Onward(u)
    BY <1>8, <2>1, <2>2 DEF PerformEnds, CompleteFails, Goto, Onward, TypeOK
  <2> QED BY <2>1, <2>3, ClaimsKept
<1>9. ASSUME NEW t \in Threads,
             \/ Expire(t) \/ ExpireFails(t) \/ PerformExits(t) \/ Complete(t)
             \/ RetryRequested(t) \/ HandleFailure(t) \/ WriteFails(t)
      PROVE  ClaimInv'
  <2>1. UNCHANGED <<attempts, found, ran>>
    BY <1>9, WritesKeepAttempts
    DEF Expire, ExpireFails, PerformExits, Complete, RetryRequested, HandleFailure,
        WriteFails, RetryWrite, FailureWrite, storeVars, jobVars, detectorVars
  <2>2. Release(t, "loop") \/ Release(t, "off")
    BY <1>9 DEF Expire, ExpireFails, PerformExits, Complete, RetryRequested,
                HandleFailure, WriteFails
  <2>3. \A u \in Threads : Onward(u)
    BY <2>2 DEF Release, Goto, Onward, TypeOK
  <2> QED BY <2>1, <2>3, ClaimsKept
<1>10. ASSUME NEW t \in Threads, Perform(t) PROVE ClaimInv'
  <2>1. /\ UNCHANGED <<attempts, held, attempt, found>>
        /\ pc[t] = "claimed" /\ ~Expired(t)
        /\ pc' = [pc EXCEPT ![t] = "running"]
        /\ ran' = [ran EXCEPT ![held[t]] = @ \cup {attempt[t]}]
    BY <1>10 DEF Perform, Goto, storeVars, jobVars, detectorVars
  <2>2. held[t] \in Jobs /\ held[t] # None
    BY <2>1 DEF Holding, Working, TypeOK
  <2>3. /\ attempt[t] \in 1..attempts[held[t]]
        /\ attempt[t] \in 1..MaxAttempts[held[t]]
    <3>1. attempt[t] \in 1..attempts[held[t]] /\ attempts[held[t]] \in Nat
      BY <2>2 DEF ClaimInv, ClaimBounds, TypeOK, StoreTypeOK
    <3>2. MaxAttempts[held[t]] \in Nat /\ ~(attempt[t] > MaxAttempts[held[t]])
      BY <2>1, <2>2, StoreAssumption DEF Expired
    <3> QED BY <3>1, <3>2
  <2>4. ClaimBounds' /\ FoundBounds' /\ DistinctClaims'
    BY <2>1 DEF ClaimInv, ClaimBounds, FoundBounds, DistinctClaims
  <2>5. WithinLimit'
    BY <2>1, <2>3 DEF ClaimInv, WithinLimit, TypeOK
  <2>6. RanBounds' /\ PoisonBound'
    BY <2>1, <2>2, <2>3 DEF ClaimInv, RanBounds, PoisonBound, TypeOK
  <2>7. NotYetRun'
    <3> SUFFICES ASSUME NEW u \in Threads, pc'[u] = "claimed"
                 PROVE  attempt[u] \notin ran'[held[u]]
      BY <2>1 DEF NotYetRun
    <3>1. u # t /\ pc[u] = "claimed"
      BY <2>1 DEF TypeOK
    <3>2. attempt[u] \notin ran[held[u]]
      BY <3>1 DEF ClaimInv, NotYetRun
    <3>3. held[u] # held[t] \/ attempt[u] # attempt[t]
      BY <2>2, <3>1 DEF ClaimInv, DistinctClaims
    <3>4. held[u] \in Jobs
      BY <3>1 DEF Holding, Working, TypeOK
    <3> QED BY <2>1, <2>2, <3>2, <3>3, <3>4 DEF TypeOK
  <2>8. RanUnderway'
    BY <2>1, <2>2 DEF ClaimInv, RanUnderway, Holding, Working, TypeOK
  <2> QED BY <2>4, <2>5, <2>6, <2>7, <2>8 DEF ClaimInv
<1>11. ASSUME NEW t \in Threads, NEW j \in Jobs, Claim(t, j) PROVE ClaimInv'
  <2>1. /\ UNCHANGED <<found, ran>>
        /\ attempts' = [attempts EXCEPT ![j] = @ + 1]
        /\ pc'       = [pc EXCEPT ![t] = "claimed"]
        /\ held'     = [held EXCEPT ![t] = j]
        /\ attempt'  = [attempt EXCEPT ![t] = attempts[j] + 1]
    BY <1>11 DEF Claim, FetchNext, Goto, detectorVars
  <2>2. /\ attempts[j] \in Nat
        /\ \A i \in Jobs : attempts'[i] \in Nat /\ attempts[i] <= attempts'[i]
    BY <2>1 DEF TypeOK, StoreTypeOK
  <2>3. \A u \in Threads : held[u] # None => held[u] \in Jobs /\ attempt[u] \in Nat
    BY DEF TypeOK
  <2>4. ClaimBounds'
    BY <2>1, <2>2, <2>3 DEF ClaimInv, ClaimBounds, TypeOK, StoreTypeOK
  <2>5. WithinLimit'
    BY <2>1 DEF ClaimInv, WithinLimit, TypeOK
  <2>6. FoundBounds'
    BY <2>1, <2>2 DEF ClaimInv, FoundBounds, TypeOK, StoreTypeOK, JobSnapshot
  <2>7. RanBounds' /\ PoisonBound'
    BY <2>1, <2>2 DEF ClaimInv, RanBounds, PoisonBound, TypeOK, StoreTypeOK
  <2>8. NotYetRun'
    BY <2>1, <2>2 DEF ClaimInv, NotYetRun, RanBounds, TypeOK
  <2>9. RanUnderway'
    BY <2>1 DEF ClaimInv, RanUnderway, TypeOK
  <2>10. DistinctClaims'
    <3>1. \A u \in Threads : held[u] = j => attempt[u] # attempts[j] + 1
      BY <2>2, <2>3, StoreAssumption DEF ClaimInv, ClaimBounds
    <3> QED BY <2>1, <3>1 DEF ClaimInv, DistinctClaims, TypeOK
  <2> QED BY <2>4, <2>5, <2>6, <2>7, <2>8, <2>9, <2>10 DEF ClaimInv
<1>12. ASSUME NEW t \in Threads, FetchFails(t) PROVE ClaimInv'
  <2>1. /\ UNCHANGED <<held, attempt, found, ran>>
        /\ pc' = [pc EXCEPT ![t] = "off"]
    BY <1>12 DEF FetchFails, Goto, detectorVars
  <2>2. \A i \in Jobs : /\ attempts[i] \in Nat /\ attempts'[i] \in Nat
                        /\ attempts[i] <= attempts'[i]
    <3>1. \/ \E j \in Jobs : attempts' = [attempts EXCEPT ![j] = @ + 1]
          \/ attempts' = attempts
      BY <1>12 DEF FetchFails, FetchNext, storeVars, jobVars
    <3>2. attempts \in [Jobs -> Nat]
      BY DEF TypeOK, StoreTypeOK
    <3> QED BY <3>1, <3>2
  <2>3. \A u \in Threads : held[u] # None => held[u] \in Jobs /\ attempt[u] \in Nat
    BY DEF TypeOK
  <2>4. ClaimBounds'
    BY <2>1, <2>2, <2>3 DEF ClaimInv, ClaimBounds
  <2>5. WithinLimit'
    BY <2>1 DEF ClaimInv, WithinLimit, TypeOK
  <2>6. FoundBounds'
    BY <2>1, <2>2 DEF ClaimInv, FoundBounds, TypeOK, JobSnapshot
  <2>7. RanBounds' /\ PoisonBound'
    BY <2>1, <2>2 DEF ClaimInv, RanBounds, PoisonBound
  <2>8. NotYetRun' /\ RanUnderway'
    BY <2>1 DEF ClaimInv, NotYetRun, RanUnderway, TypeOK
  <2>9. DistinctClaims'
    BY <2>1 DEF ClaimInv, DistinctClaims
  <2> QED BY <2>4, <2>5, <2>6, <2>7, <2>8, <2>9 DEF ClaimInv
<1> QED
  BY <1>a, <1>1, <1>2, <1>3, <1>4, <1>5, <1>6, <1>7, <1>8, <1>9, <1>10, <1>11, <1>12
  DEF Next, StopStep, DetectStep, FetchStep, ExecuteStep, FaultStep, vars, storeVars,
      jobVars, detectorVars

---------------------------------------------------------------------------
(* Completed and dead rows *)

\* What a step may do to a row: leave it, complete it when its code has been
\* started, bury it when its attempts are used up, or give it another status.
RowMoves(j) ==
  /\ letters'[j] >= letters[j] /\ attempts'[j] >= attempts[j]
  /\ \/ status'[j] = status[j]
     \/ status'[j] = "completed" /\ ran[j] # {}
     \/ status'[j] = "dead" /\ attempts[j] >= MaxAttempts[j] /\ letters'[j] > 0
     \/ status'[j] \notin {"completed", "dead"}

LEMMA RowsKept ==
  ASSUME TypeOK, TypeOK', RowInv, \A j \in Jobs : RowMoves(j) /\ ran[j] \subseteq ran'[j]
  PROVE  RowInv'
<1>1. \A j \in Jobs : /\ attempts[j] \in Nat /\ attempts'[j] \in Nat
                      /\ letters[j] \in Nat /\ letters'[j] \in Nat
                      /\ MaxAttempts[j] \in Nat
  BY StoreAssumption DEF TypeOK, StoreTypeOK
<1>2. CompletedRan'
  BY DEF RowInv, CompletedRan, RowMoves
<1>3. DeadIsExhausted'
  BY <1>1 DEF RowInv, DeadIsExhausted, RowMoves
<1>4. DeadHasLetter'
  BY <1>1 DEF RowInv, DeadHasLetter, RowMoves
<1> QED BY <1>2, <1>3, <1>4 DEF RowInv

\* Every statement moves its row that way, a write to 'completed' or 'dead'
\* under the condition its callers establish.
LEMMA StatementsMoveRows ==
  ASSUME TypeOK, NEW j \in Jobs, NEW b,
         \/ Enqueue(j, b) \/ RunAtPasses(j) \/ Cancel(j)
         \/ MarkFailed(j, b) \/ ReenqueueJob(j)
         \/ MarkCompleted(j) /\ ran[j] # {}
         \/ MoveToDead(j) /\ attempts[j] >= MaxAttempts[j]
  PROVE  \A i \in Jobs : RowMoves(i)
<1> USE DEF TypeOK, StoreTypeOK, Update, InTable, RowMoves
<1>1. CASE Enqueue(j, b) BY <1>1 DEF Enqueue
<1>2. CASE RunAtPasses(j) BY <1>2 DEF RunAtPasses
<1>3. CASE Cancel(j) BY <1>3 DEF Cancel
<1>4. CASE MarkFailed(j, b) BY <1>4 DEF MarkFailed
<1>5. CASE ReenqueueJob(j) BY <1>5 DEF ReenqueueJob
<1>6. CASE MarkCompleted(j) /\ ran[j] # {} BY <1>6 DEF MarkCompleted
<1>7. CASE MoveToDead(j) /\ attempts[j] >= MaxAttempts[j] BY <1>7 DEF MoveToDead
<1> QED BY <1>1, <1>2, <1>3, <1>4, <1>5, <1>6, <1>7

LEMMA WorkerStatementsMoveRows ==
  ASSUME TypeOK, NEW w,
         \/ \E j \in Jobs : FetchNext(w, j)
         \/ RegisterWorker(w) \/ HeartbeatRow(w) \/ DeregisterWorker(w)
         \/ MarkWorkerStopped(w) \/ UNCHANGED storeVars
  PROVE  \A i \in Jobs : RowMoves(i)
<1> USE DEF TypeOK, StoreTypeOK, RowMoves, storeVars, jobVars
<1>1. CASE \E j \in Jobs : FetchNext(w, j) BY <1>1 DEF FetchNext
<1>2. CASE RegisterWorker(w) \/ HeartbeatRow(w) \/ DeregisterWorker(w)
           \/ MarkWorkerStopped(w)
  BY <1>2 DEF RegisterWorker, HeartbeatRow, DeregisterWorker, MarkWorkerStopped
<1>3. CASE UNCHANGED storeVars BY <1>3
<1> QED BY <1>1, <1>2, <1>3

\* Every step moves the rows that way.
LEMMA RowsMove ==
  TypeOK /\ Holding /\ ClaimInv /\ [Next]_vars => \A i \in Jobs : RowMoves(i)
<1> SUFFICES ASSUME TypeOK, Holding, ClaimInv, [Next]_vars
             PROVE  \A i \in Jobs : RowMoves(i)
  OBVIOUS
<1> DEFINE Moved == \A i \in Jobs : RowMoves(i)
<1>1. ASSUME NEW j \in Jobs, Submit(j) \/ Withdraw(j) \/ TimePasses(j) PROVE Moved
  BY <1>1, StatementsMoveRows DEF Submit, Withdraw, TimePasses
<1>2. ASSUME NEW w \in Workers,
             \/ Start(w) \/ Heartbeat(w) \/ Shutdown(w) \/ StopJoining(w)
             \/ Deregister(w) \/ DeregisterFails(w) \/ Exit(w) \/ Crash(w)
             \/ DetectScan(w) \/ DetectDone(w) \/ \E v \in Workers : DetectPick(w, v)
      PROVE  Moved
  BY <1>2, WorkerStatementsMoveRows
  DEF Start, Heartbeat, Shutdown, StopJoining, Deregister, DeregisterFails, Exit,
      Crash, Halt, DetectScan, DetectDone, DetectPick
<1>3. ASSUME NEW w \in Workers, BeatExpires(w) PROVE Moved
  BY <1>3 DEF BeatExpires, jobVars, RowMoves, TypeOK, StoreTypeOK
<1>4. ASSUME NEW w \in Workers, NEW r \in found[w], Recover(r) PROVE Moved
  <2>1. r.job \in Jobs /\ r.attempts \in Nat /\ r.attempts <= attempts[r.job]
    BY DEF TypeOK, JobSnapshot, ClaimInv, FoundBounds
  <2>2. attempts[r.job] \in Nat /\ MaxAttempts[r.job] \in Nat
    BY <2>1, StoreAssumption DEF TypeOK, StoreTypeOK
  <2>3. CASE r.attempts >= MaxAttempts[r.job]
    <3>1. attempts[r.job] >= MaxAttempts[r.job]
      BY <2>1, <2>2, <2>3
    <3> QED BY <1>4, <2>1, <2>3, <3>1, StatementsMoveRows DEF Recover
  <2>4. CASE ~(r.attempts >= MaxAttempts[r.job])
    BY <1>4, <2>1, <2>4, StatementsMoveRows DEF Recover
  <2> QED BY <2>3, <2>4
<1>5. ASSUME NEW w \in Workers,
             DetectAborts(w) \/ \E r \in found[w] : DetectJob(w, r)
      PROVE  Moved
  BY <1>4, <1>5, WorkerStatementsMoveRows DEF DetectAborts, DetectJob
<1>6. ASSUME NEW t \in Threads, FetchStep(t) \/ FetchFails(t) PROVE Moved
  BY <1>6, WorkerStatementsMoveRows
  DEF FetchStep, Poll, ThreadEnds, FetchNothing, Claim, FetchFails
<1>7. ASSUME NEW t \in Threads,
             Perform(t) \/ LoadFails(t) \/ PerformEnds(t) \/ PerformExits(t)
      PROVE  Moved
  BY <1>7, WorkerStatementsMoveRows
  DEF Perform, LoadFails, PerformEnds, PerformExits
<1>8. ASSUME NEW t \in Threads, Working(t),
             \/ MoveToDead(held[t]) /\ attempt[t] >= MaxAttempts[held[t]]
             \/ MarkCompleted(held[t]) /\ pc[t] = "complete"
             \/ RetryWrite(t) \/ FailureWrite(t) \/ UNCHANGED storeVars
      PROVE  Moved
  <2>1. held[t] \in Jobs /\ attempt[t] \in 1..attempts[held[t]]
    BY <1>8 DEF Holding, TypeOK, ClaimInv, ClaimBounds
  <2>2. attempts[held[t]] \in Nat /\ MaxAttempts[held[t]] \in Nat
    BY <2>1, StoreAssumption DEF TypeOK, StoreTypeOK
  <2>3. attempt[t] >= MaxAttempts[held[t]] => attempts[held[t]] >= MaxAttempts[held[t]]
    BY <2>1, <2>2
  <2>4. CASE MoveToDead(held[t]) /\ attempt[t] >= MaxAttempts[held[t]]
    BY <2>1, <2>3, <2>4, StatementsMoveRows
  <2>5. CASE MarkCompleted(held[t]) /\ pc[t] = "complete"
    <3>1. ran[held[t]] # {}
      BY <2>5 DEF ClaimInv, RanUnderway
    <3> QED BY <2>1, <2>5, <3>1, StatementsMoveRows
  <2>6. CASE RetryWrite(t)
    BY <2>1, <2>6, StatementsMoveRows DEF RetryWrite
  <2>7. CASE FailureWrite(t)
    BY <2>1, <2>3, <2>7, StatementsMoveRows DEF FailureWrite, LastAttempt
  <2>8. CASE UNCHANGED storeVars
    BY <2>8, WorkerStatementsMoveRows
  <2> QED BY <1>8, <2>4, <2>5, <2>6, <2>7, <2>8
<1>9. ASSUME NEW t \in Threads, Expire(t) \/ ExpireFails(t) PROVE Moved
  <2>1. Working(t) /\ Expired(t) /\ (MoveToDead(held[t]) \/ UNCHANGED storeVars)
    BY <1>9 DEF Expire, ExpireFails, Working
  <2>2. attempt[t] \in Nat /\ MaxAttempts[held[t]] \in Nat
    BY <2>1, StoreAssumption DEF Holding, TypeOK
  <2>3. attempt[t] >= MaxAttempts[held[t]]
    BY <2>1, <2>2 DEF Expired
  <2> QED BY <1>8, <2>1, <2>3
<1>10. ASSUME NEW t \in Threads,
              \/ Complete(t) \/ CompleteFails(t) \/ RetryRequested(t)
              \/ HandleFailure(t) \/ WriteFails(t)
       PROVE  Moved
  BY <1>8, <1>10
  DEF Complete, CompleteFails, RetryRequested, HandleFailure, WriteFails, Working
<1>11. CASE UNCHANGED vars
  BY <1>11, WorkerStatementsMoveRows DEF vars
<1> QED
  BY <1>1, <1>2, <1>3, <1>5, <1>6, <1>7, <1>9, <1>10, <1>11
  DEF Next, StopStep, DetectStep, ExecuteStep, FaultStep

---------------------------------------------------------------------------
(* The pool implements the ledger of attempts *)

\* Every step of the pool is a counted claim, the start of user code under a
\* counted and unused claim within the limit, or invisible to the ledger.
LEMMA LedgerStep ==
  TypeOK /\ Holding /\ ClaimInv /\ [Next]_vars
    => [Ledger!Next]_<<attempts, ran>>
<1> SUFFICES ASSUME TypeOK, Holding, ClaimInv, [Next]_vars
             PROVE  Ledger!Next \/ UNCHANGED <<attempts, ran>>
  OBVIOUS
<1>1. ASSUME NEW j \in Jobs, Submit(j) \/ Withdraw(j) \/ TimePasses(j)
      PROVE  UNCHANGED <<attempts, ran>>
  BY <1>1, WritesKeepAttempts DEF Submit, Withdraw, TimePasses
<1>2. ASSUME NEW w \in Workers,
             \/ Start(w) \/ Heartbeat(w) \/ BeatExpires(w) \/ Shutdown(w)
             \/ StopJoining(w) \/ Deregister(w) \/ DeregisterFails(w) \/ Exit(w)
             \/ Crash(w) \/ DetectAborts(w) \/ DetectStep(w)
      PROVE  UNCHANGED <<attempts, ran>>
  BY <1>2, WritesKeepAttempts
  DEF Start, Heartbeat, BeatExpires, Shutdown, StopJoining, Deregister,
      DeregisterFails, Exit, Crash, Halt, DetectAborts, DetectStep, DetectScan,
      DetectDone, DetectPick, DetectJob, Recover, storeVars, jobVars
<1>3. ASSUME NEW t \in Threads,
             \/ Poll(t) \/ ThreadEnds(t) \/ FetchNothing(t) \/ LoadFails(t)
             \/ PerformEnds(t) \/ PerformExits(t) \/ Expire(t) \/ ExpireFails(t)
             \/ Complete(t) \/ CompleteFails(t) \/ RetryRequested(t)
             \/ HandleFailure(t) \/ WriteFails(t)
      PROVE  UNCHANGED <<attempts, ran>>
  BY <1>3, WritesKeepAttempts
  DEF Poll, ThreadEnds, FetchNothing, LoadFails, PerformEnds, PerformExits, Expire,
      ExpireFails, Complete, CompleteFails, RetryRequested, HandleFailure,
      WriteFails, RetryWrite, FailureWrite, storeVars, jobVars
<1>4. ASSUME NEW w, NEW j \in Jobs, FetchNext(w, j), UNCHANGED ran
      PROVE  Ledger!Next
  <2>1. Ledger!Claim(j)
    BY <1>4 DEF FetchNext, Ledger!Claim
  <2> QED BY <2>1 DEF Ledger!Next
<1>5. ASSUME NEW t \in Threads, (\E j \in Jobs : Claim(t, j)) \/ FetchFails(t)
      PROVE  Ledger!Next \/ UNCHANGED <<attempts, ran>>
  BY <1>4, <1>5 DEF Claim, FetchFails, storeVars, jobVars
<1>6. ASSUME NEW t \in Threads, Perform(t)
      PROVE  Ledger!Next
  <2>1. /\ held[t] \in Jobs /\ attempt[t] \in 1..attempts[held[t]]
        /\ attempt[t] \notin ran[held[t]]
    BY <1>6 DEF Perform, Holding, Working, TypeOK, ClaimInv, ClaimBounds, NotYetRun
  <2>2. attempts[held[t]] \in Nat /\ MaxAttempts[held[t]] \in Nat
    BY <2>1, StoreAssumption DEF TypeOK, StoreTypeOK
  <2>3. attempt[t] <= MaxAttempts[held[t]]
    BY <1>6, <2>1, <2>2 DEF Perform, Expired
  <2>4. Ledger!Run(held[t], attempt[t])
    BY <1>6, <2>1, <2>3 DEF Perform, Ledger!Run, storeVars, jobVars
  <2> QED BY <2>1, <2>4 DEF Ledger!Next
<1>7. CASE UNCHANGED vars
  BY <1>7 DEF vars, storeVars, jobVars
<1> QED
  BY <1>1, <1>2, <1>3, <1>5, <1>6, <1>7
  DEF Next, StopStep, FetchStep, ExecuteStep, FaultStep

---------------------------------------------------------------------------
(* Theorems of the specification *)

\* The invariant is inductive.
LEMMA InvStep == IInv /\ [Next]_vars => IInv'
<1> SUFFICES ASSUME IInv, [Next]_vars PROVE IInv'
  OBVIOUS
<1>1. TypeOK' /\ Holding'
  BY TypeStep, HoldingStep DEF IInv
<1>2. ClaimInv'
  BY <1>1, ClaimStep DEF IInv
<1>3. \A j \in Jobs : ran[j] \subseteq ran'[j]
  BY LedgerStep, <1>1 DEF IInv, TypeOK, Ledger!Next, Ledger!Claim, Ledger!Run
<1>4. RowInv'
  BY <1>1, <1>3, RowsMove, RowsKept DEF IInv
<1> QED BY <1>1, <1>2, <1>4 DEF IInv

\* IInv holds in every state of every pool, whatever strikes it.
THEOREM Invariance == Spec => []IInv
BY InitInv, InvStep, PTL DEF Spec

\* Type correctness of every variable of the pool and of the tables.
THEOREM TypeCorrect == Spec => []TypeOK
<1>1. IInv => TypeOK
  BY DEF IInv
<1> QED BY <1>1, Invariance, PTL

\* Queue poisoning protection: for any number of workers, whatever crashes,
\* lapses and errors, user code never starts under an attempt above the limit.
THEOREM NoPoisoning == Spec => []PoisonBound
<1>1. IInv => PoisonBound
  BY DEF IInv, ClaimInv
<1> QED BY <1>1, Invariance, PTL

\* No two threads ever hold the same attempt of a job.
THEOREM AttemptsAreExclusive == Spec => []DistinctClaims
<1>1. IInv => DistinctClaims
  BY DEF IInv, ClaimInv
<1> QED BY <1>1, Invariance, PTL

\* mark_completed is only ever written after user code was started, even when
\* zombies and detectors overwrite each other.
THEOREM CompletionsAreEarned == Spec => []CompletedRan
<1>1. IInv => CompletedRan
  BY DEF IInv, RowInv
<1> QED BY <1>1, Invariance, PTL

\* Whoever buries a job, its holder or a detector with an old snapshot, the
\* row has used up its attempts.
THEOREM BurialsAreEarned == Spec => []DeadIsExhausted
<1>1. IInv => DeadIsExhausted
  BY DEF IInv, RowInv
<1> QED BY <1>1, Invariance, PTL

\* No dead row is without the letter that resurrects it.
THEOREM BurialsLeaveLetters == Spec => []DeadHasLetter
<1>1. IInv => DeadHasLetter
  BY DEF IInv, RowInv
<1> QED BY <1>1, Invariance, PTL

\* The worker pool implements the ledger of attempts.
THEOREM ImplementsLedger == Spec => LedgerSpec
<1>1. Init => Ledger!Init
  BY DEF Init, StoreInit, Ledger!Init
<1>2. IInv /\ [Next]_vars => [Ledger!Next]_<<attempts, ran>>
  BY LedgerStep DEF IInv
<1> QED BY <1>1, <1>2, Invariance, PTL DEF Spec, LedgerSpec, Ledger!Spec

---------------------------------------------------------------------------
(* Who owns a row: deployments in which a worker taken for dead is dead *)

\* No live worker lets its beat lapse and no id is used twice: what a detector
\* finds stale has died, for good.
DeathsAreReal == Troubles \cap {"lapse", "restart"} = {}

\* No two detectors go through the jobs of the same dead worker at a time.
SoleRescuer ==
  \A v, w \in Workers : victim[v] # None /\ victim[v] = victim[w] => v = w

\* A dead worker has one survivor at most.
TwoWorkers == \A u, v, w \in Workers : u = v \/ v = w \/ u = w

\* A stale beat, and all that a detector has read of one, is that of a process
\* that is down.
Deaths ==
  /\ \A w \in Workers : phase[w] = "new" => registered[w] = "absent"
  /\ \A w \in Workers : beat[w] = "stale" => phase[w] = "down"
  /\ \A w \in Workers : \A v \in stale[w] : phase[v] = "down"
  /\ \A w \in Workers : victim[w] # None => phase[victim[w]] = "down"

\* A thread holds the row that the row says its worker holds, under the attempt
\* the row counts; it stays active but for a mark_completed that raised.
Owned ==
  \A t \in Threads : held[t] # None =>
    /\ workerId[held[t]] = HostOf[t] /\ attempt[t] = attempts[held[t]]
    /\ \/ status[held[t]] = "active"
       \/ /\ status[held[t]] = "completed" /\ pc[t] = "fail" /\ "fault" \in Troubles

\* What a detector has read of a row is still so when it comes to write it.
Snapshots ==
  \A w \in Workers : \A r \in found[w] :
    /\ victim[w] # None /\ status[r.job] = "active"
    /\ workerId[r.job] = victim[w] /\ r.attempts = attempts[r.job]

\* A job has its letter exactly when it is dead.
BuriedOnce == \A j \in Jobs : letters[j] = IF status[j] = "dead" THEN 1 ELSE 0

\* A row that waits has an attempt left, or was given up within its limit.
WaitsWithinLimit ==
  \A j \in Jobs :
    status[j] \in {"absent", "enqueued", "scheduled", "retrying"}
      => attempts[j] <= MaxAttempts[j]

Ownership == Owned /\ ExclusiveRun /\ Snapshots /\ BuriedOnce /\ WaitsWithinLimit

\* Nobody is taken for dead at the start.
LEMMA DeathsInit == Init => Deaths
BY DEF Init, StoreInit, Deaths

\* When deaths are real, so is everything a detector takes for one.
LEMMA DeathsStep ==
  ASSUME DeathsAreReal, TypeOK, Deaths, [Next]_vars PROVE Deaths'
<1> USE DEF Deaths, TypeOK, StoreTypeOK
<1>1. CASE UNCHANGED <<phase, registryVars, stale, victim>>
  BY <1>1 DEF registryVars
<1>2. ASSUME NEW w \in Workers, Start(w) PROVE Deaths'
  <2>1. phase[w] = "new"
    BY <1>2 DEF Start, Strikes, DeathsAreReal
  <2>2. /\ registered' = [registered EXCEPT ![w] = "idle"]
        /\ beat' = [beat EXCEPT ![w] = "fresh"]
        /\ phase' = [phase EXCEPT ![w] = "up"]
        /\ UNCHANGED <<stale, victim>>
    BY <1>2 DEF Start, RegisterWorker, detectorVars
  <2> QED BY <2>1, <2>2
<1>3. ASSUME NEW w \in Workers, BeatExpires(w) PROVE Deaths'
  <2>1. phase[w] = "down"
    BY <1>3 DEF BeatExpires, Strikes, DeathsAreReal, Live, LivePhases, AllPhases
  <2> QED BY <1>3, <2>1 DEF BeatExpires, detectorVars
<1>4. ASSUME NEW w \in Workers, Heartbeat(w) PROVE Deaths'
  BY <1>4 DEF Heartbeat, HeartbeatRow, detectorVars
<1>5. ASSUME NEW w \in Workers, Shutdown(w) \/ StopJoining(w) PROVE Deaths'
  BY <1>5 DEF Shutdown, StopJoining, detectorVars, storeVars, registryVars
<1>6. ASSUME NEW w \in Workers, Deregister(w) \/ DeregisterFails(w) PROVE Deaths'
  BY <1>6 DEF Deregister, DeregisterFails, DeregisterWorker, detectorVars, storeVars,
              registryVars
<1>7. ASSUME NEW w \in Workers, Exit(w) \/ Crash(w) PROVE Deaths'
  <2>1. /\ phase[w] # "new" /\ phase' = [phase EXCEPT ![w] = "down"]
        /\ UNCHANGED registryVars
        /\ \A u \in Workers : /\ stale'[u] \subseteq stale[u]
                              /\ victim'[u] \in {None, victim[u]}
    BY <1>7 DEF Exit, Crash, Halt, Live, LivePhases, storeVars
  <2> QED BY <2>1 DEF registryVars
<1>8. ASSUME NEW w \in Workers, DetectScan(w) PROVE Deaths'
  BY <1>8 DEF DetectScan, StaleWorkers, storeVars, registryVars
<1>9. ASSUME NEW w \in Workers, NEW v \in Workers, DetectPick(w, v) PROVE Deaths'
  BY <1>9 DEF DetectPick, storeVars, registryVars
<1>10. ASSUME NEW w \in Workers, NEW r \in found[w], Recover(r)
       PROVE  UNCHANGED registryVars
  BY <1>10 DEF Recover, MoveToDead, ReenqueueJob
<1>11. ASSUME NEW w \in Workers, NEW v \in Workers, v # None, phase[v] = "down",
              MarkWorkerStopped(v), UNCHANGED <<phase>>,
              \A u \in Workers : /\ stale'[u] \subseteq stale[u]
                                 /\ victim'[u] \in {None, victim[u]}
       PROVE  Deaths'
  BY <1>11 DEF MarkWorkerStopped
<1>12. ASSUME NEW w \in Workers, DetectDone(w) PROVE Deaths'
  <2>1. victim[w] \in Workers /\ victim[w] # None /\ phase[victim[w]] = "down"
    BY <1>12 DEF DetectDone
  <2> QED BY <1>11, <1>12, <2>1 DEF DetectDone
<1>13. ASSUME NEW w \in Workers, NEW r \in found[w], DetectJob(w, r) PROVE Deaths'
  BY <1>1, <1>10, <1>13 DEF DetectJob
<1>14. ASSUME NEW w \in Workers, DetectAborts(w) PROVE Deaths'
  <2>1. /\ \A u \in Workers : /\ stale'[u] \subseteq stale[u]
                              /\ victim'[u] \in {None, victim[u]}
        /\ UNCHANGED phase
    BY <1>14 DEF DetectAborts
  <2>2. CASE UNCHANGED registryVars
    BY <2>1, <2>2 DEF registryVars
  <2>3. CASE victim[w] # None /\ MarkWorkerStopped(victim[w])
    BY <1>11, <2>1, <2>3
  <2> QED BY <1>10, <1>14, <2>2, <2>3 DEF DetectAborts, storeVars
<1>15. ASSUME NEW j \in Jobs, Submit(j) \/ Withdraw(j) \/ TimePasses(j) PROVE Deaths'
  BY <1>1, <1>15 DEF Submit, Withdraw, TimePasses, Enqueue, Cancel, RunAtPasses,
                     detectorVars
<1>16. ASSUME NEW t \in Threads, FetchStep(t) \/ ExecuteStep(t) \/ FaultStep(t)
       PROVE  Deaths'
  <2>1. UNCHANGED <<phase, detectorVars>>
    BY <1>16 DEF FetchStep, Poll, ThreadEnds, FetchNothing, Claim, ExecuteStep, Expire,
                 Perform, LoadFails, PerformEnds, PerformExits, Complete,
                 RetryRequested, HandleFailure, FaultStep, FetchFails, ExpireFails,
                 CompleteFails, WriteFails
  <2>2. UNCHANGED registryVars
    BY <1>16 DEF FetchStep, Poll, ThreadEnds, FetchNothing, Claim, ExecuteStep, Expire,
                 Perform, LoadFails, PerformEnds, PerformExits, Complete,
                 RetryRequested, HandleFailure, FaultStep, FetchFails, ExpireFails,
                 CompleteFails, WriteFails, FetchNext, MoveToDead, MarkCompleted,
                 MarkFailed, RetryWrite, FailureWrite, storeVars
  <2> QED BY <1>1, <2>1, <2>2 DEF detectorVars
<1>17. CASE UNCHANGED vars
  BY <1>1, <1>17 DEF vars, storeVars, detectorVars
<1> QED
  BY <1>2, <1>3, <1>4, <1>5, <1>6, <1>7, <1>8, <1>9, <1>12, <1>13, <1>14, <1>15,
     <1>16, <1>17 DEF Next, StopStep, DetectStep

\* What a step without a claim may do to a thread.
Keeps(t) ==
  \/ held'[t] = None
  \/ /\ held'[t] = held[t] /\ attempt'[t] = attempt[t]
     /\ pc'[t] = pc[t] \/ status[held[t]] = "active"

\* Nobody holds a row at the start.
LEMMA OwnershipInit == Init => Ownership
BY StoreAssumption
   DEF Init, StoreInit, Ownership, Owned, ExclusiveRun, Snapshots, BuriedOnce,
       WaitsWithinLimit

\* No row changes: threads drop their jobs or go on, detectors forget what they
\* have read or read what is so.
LEMMA RowsAtRest ==
  ASSUME Ownership, UNCHANGED <<status, attempts, workerId, letters>>,
         \A t \in Threads : Keeps(t),
         \A w \in Workers : \A r \in found'[w] :
           /\ victim'[w] # None
           /\ \/ r \in found[w] /\ victim'[w] = victim[w]
              \/ /\ r.attempts = attempts[r.job] /\ status[r.job] = "active"
                 /\ workerId[r.job] = victim'[w]
  PROVE  Ownership'
<1> USE DEF Ownership, Keeps
<1>1. Owned'
  BY DEF Owned
<1>2. ExclusiveRun'
  BY DEF ExclusiveRun
<1>3. Snapshots'
  BY DEF Snapshots
<1>4. BuriedOnce' /\ WaitsWithinLimit'
  BY DEF BuriedOnce, WaitsWithinLimit
<1> QED BY <1>1, <1>2, <1>3, <1>4

\* One row changes, in nobody's hands from then on: no thread works on it and no
\* detector has it among those it has read.
LEMMA RowWritten ==
  ASSUME TypeOK, TypeOK', Ownership, NEW j \in Jobs,
         \A i \in Jobs \ {j} : UNCHANGED <<status[i], workerId[i], letters[i]>>,
         UNCHANGED attempts,
         \A t \in Threads : Keeps(t) /\ held'[t] # j,
         \A w \in Workers : \A r \in found'[w] :
           r \in found[w] /\ r.job # j /\ victim'[w] = victim[w],
         letters'[j] = IF status'[j] = "dead" THEN 1 ELSE 0,
         status'[j] \in {"enqueued", "scheduled", "retrying"}
           => attempts[j] <= MaxAttempts[j],
         status'[j] # "absent"
  PROVE  Ownership'
<1> USE DEF Ownership, Keeps
<1>1. Owned'
  BY DEF Owned, TypeOK
<1>2. ExclusiveRun'
  BY DEF ExclusiveRun
<1>3. Snapshots'
  BY DEF Snapshots, TypeOK, JobSnapshot
<1>4. BuriedOnce'
  BY DEF BuriedOnce
<1>5. WaitsWithinLimit'
  BY DEF WaitsWithinLimit
<1> QED BY <1>1, <1>2, <1>3, <1>4, <1>5

\* The writes that end an execution, of a row that is there and not yet dead.
LEMMA EndingWrites ==
  ASSUME TypeOK, BuriedOnce, NEW j \in Jobs, status[j] \in {"active", "completed"},
         \/ MoveToDead(j) \/ MarkCompleted(j) \/ ReenqueueJob(j)
         \/ \E b \in BOOLEAN : MarkFailed(j, b)
  PROVE  /\ \A i \in Jobs \ {j} : UNCHANGED <<status[i], workerId[i], letters[i]>>
         /\ UNCHANGED <<attempts, registryVars>>
         /\ letters'[j] = IF status'[j] = "dead" THEN 1 ELSE 0
         /\ \/ status'[j] \in {"dead", "completed"}
            \/ /\ status'[j] \in {"retrying", "enqueued"}
               /\ ReenqueueJob(j) \/ \E b \in BOOLEAN : MarkFailed(j, b)
<1> USE DEF TypeOK, StoreTypeOK, Update, InTable
<1>1. InTable(j) /\ letters[j] = 0
  BY DEF BuriedOnce
<1>2. CASE MoveToDead(j)
  BY <1>1, <1>2 DEF MoveToDead
<1>3. CASE MarkCompleted(j)
  BY <1>1, <1>3 DEF MarkCompleted
<1>4. ASSUME NEW b \in BOOLEAN, MarkFailed(j, b)
      PROVE  /\ status' = [status EXCEPT ![j] = "retrying"]
             /\ UNCHANGED <<attempts, workerId, letters, registryVars>>
  BY <1>1, <1>4 DEF MarkFailed
<1>5. CASE \E b \in BOOLEAN : MarkFailed(j, b)
  BY <1>1, <1>4, <1>5
<1>6. CASE ReenqueueJob(j)
  BY <1>1, <1>6 DEF ReenqueueJob
<1> QED BY <1>2, <1>3, <1>5, <1>6

\* What a live worker's thread holds no detector has read.
LEMMA HeldIsNotFound ==
  ASSUME Holding, Deaths, Ownership, NEW t \in Threads, Working(t),
         NEW w \in Workers, NEW r \in found[w]
  PROVE  r.job # held[t]
<1>1. HostOf[t] # victim[w]
  BY DEF Holding, Working, Live, LivePhases, Deaths, Ownership, Snapshots
<1>2. workerId[r.job] = victim[w]
  BY DEF Ownership, Snapshots
<1>3. held[t] # None /\ workerId[held[t]] = HostOf[t]
  BY DEF Holding, Ownership, Owned
<1> QED BY <1>1, <1>2, <1>3

\* A thread that writes its result and lets go of the job.
LEMMA OwnerWrites ==
  ASSUME TypeOK, TypeOK', Holding, Deaths, Ownership, NEW t \in Threads, Working(t),
         \/ MoveToDead(held[t]) \/ MarkCompleted(held[t])
         \/ /\ \E b \in BOOLEAN : MarkFailed(held[t], b)
            /\ attempt[t] <= MaxAttempts[held[t]]
         \/ UNCHANGED storeVars,
         \/ Release(t, "loop") \/ Release(t, "off"),
         UNCHANGED detectorVars
  PROVE  Ownership'
<1> DEFINE j == held[t]
<1>1. /\ j \in Jobs /\ held[t] # None /\ status[j] \in {"active", "completed"}
      /\ attempt[t] = attempts[j]
  BY DEF Holding, TypeOK, Ownership, Owned
<1>2. \A u \in Threads : Keeps(u) /\ held'[u] # j
  BY <1>1, StoreAssumption DEF Release, Goto, Keeps, TypeOK, Ownership, ExclusiveRun
<1>3. \A w \in Workers : \A r \in found'[w] :
        r \in found[w] /\ r.job # j /\ victim'[w] = victim[w]
  BY HeldIsNotFound DEF detectorVars
<1>4. CASE UNCHANGED storeVars
  BY <1>2, <1>3, <1>4, RowsAtRest
  DEF storeVars, jobVars, Ownership, Snapshots
<1>5. CASE ~UNCHANGED storeVars
  <2>1. BuriedOnce
    BY DEF Ownership
  <2>2. \/ MoveToDead(j) \/ MarkCompleted(j)
        \/ (\E b \in BOOLEAN : MarkFailed(j, b)) /\ attempt[t] <= MaxAttempts[j]
    BY <1>5
  <2>3. /\ \A i \in Jobs \ {j} : UNCHANGED <<status[i], workerId[i], letters[i]>>
        /\ UNCHANGED attempts
        /\ letters'[j] = IF status'[j] = "dead" THEN 1 ELSE 0
        /\ \/ status'[j] \in {"dead", "completed"}
           \/ status'[j] = "retrying" /\ attempts[j] <= MaxAttempts[j]
    <3>1. CASE MoveToDead(j)
      BY <1>1, <2>1, <3>1, EndingWrites
      DEF MoveToDead, Update, InTable, TypeOK, StoreTypeOK
    <3>2. CASE MarkCompleted(j)
      BY <1>1, <2>1, <3>2, EndingWrites
      DEF MarkCompleted, Update, InTable, TypeOK, StoreTypeOK
    <3>3. CASE (\E b \in BOOLEAN : MarkFailed(j, b)) /\ attempt[t] <= MaxAttempts[j]
      <4>1. status'[j] = "retrying"
        BY <1>1, <3>3 DEF MarkFailed, Update, InTable, TypeOK, StoreTypeOK
      <4> QED BY <1>1, <2>1, <3>3, <4>1, EndingWrites
    <3> QED BY <2>2, <3>1, <3>2, <3>3
  <2> HIDE DEF j
  <2> QED BY <1>1, <1>2, <1>3, <2>3, RowWritten
<1> QED BY <1>4, <1>5

\* A detector that handles a row it has read, the only detector to have it.
LEMMA DetectorWrites ==
  ASSUME TypeOK, TypeOK', Holding, Deaths, SoleRescuer, Ownership,
         NEW w \in Workers, NEW r \in found[w], Recover(r), UNCHANGED threadVars,
         \A v \in Workers : \A s \in found'[v] :
           s \in found[v] /\ victim'[v] = victim[v],
         r \notin found'[w]
  PROVE  Ownership'
<1> DEFINE j == r.job
<1>1. /\ j \in Jobs /\ r \in JobSnapshot /\ status[j] = "active"
      /\ r.attempts = attempts[j] /\ victim[w] # None /\ workerId[j] = victim[w]
  BY DEF TypeOK, JobSnapshot, Ownership, Snapshots
<1>2. \A u \in Threads : Keeps(u) /\ held'[u] # j
  BY <1>1, HeldIsNotFound, StoreAssumption DEF threadVars, Keeps, Holding
<1>3. \A v \in Workers : \A s \in found'[v] :
        s \in found[v] /\ s.job # j /\ victim'[v] = victim[v]
  <2> SUFFICES ASSUME NEW v \in Workers, NEW s \in found'[v], s.job = j PROVE FALSE
    OBVIOUS
  <2>1. /\ s \in found[v] /\ s \in JobSnapshot /\ victim[v] # None
        /\ s.attempts = attempts[j] /\ victim[v] = victim[w]
    BY <1>1 DEF TypeOK, Ownership, Snapshots
  <2>2. v = w
    BY <1>1, <2>1 DEF SoleRescuer
  <2>3. s = r
    BY <1>1, <2>1 DEF JobSnapshot
  <2> QED BY <2>2, <2>3
<1>4. BuriedOnce /\ attempts[j] \in Nat /\ MaxAttempts[j] \in Nat
  BY <1>1, StoreAssumption DEF Ownership, TypeOK, StoreTypeOK
<1>5. /\ \A i \in Jobs \ {j} : UNCHANGED <<status[i], workerId[i], letters[i]>>
      /\ UNCHANGED attempts
      /\ letters'[j] = IF status'[j] = "dead" THEN 1 ELSE 0
      /\ \/ status'[j] = "dead"
         \/ status'[j] = "enqueued" /\ attempts[j] <= MaxAttempts[j]
  <2>1. CASE r.attempts >= MaxAttempts[j]
    <3>1. MoveToDead(j)
      BY <2>1 DEF Recover
    <3>2. status'[j] = "dead"
      BY <1>1, <3>1 DEF MoveToDead, Update, InTable, TypeOK, StoreTypeOK
    <3> QED BY <1>1, <1>4, <3>1, <3>2, EndingWrites
  <2>2. CASE ~(r.attempts >= MaxAttempts[j])
    <3>1. ReenqueueJob(j)
      BY <2>2 DEF Recover
    <3>2. status'[j] = "enqueued"
      BY <1>1, <3>1 DEF ReenqueueJob, Update, InTable, TypeOK, StoreTypeOK
    <3>3. attempts[j] <= MaxAttempts[j]
      BY <1>1, <1>4, <2>2
    <3> QED BY <1>1, <1>4, <3>1, <3>2, <3>3, EndingWrites
  <2> QED BY <2>1, <2>2
<1> HIDE DEF j
<1> QED BY <1>1, <1>2, <1>3, <1>5, RowWritten

\* A claim: the row was nobody's and is the thread's from then on.
LEMMA RowClaimed ==
  ASSUME TypeOK, TypeOK', Holding, Ownership, NEW t \in Threads, NEW j \in Jobs,
         pc[t] = "fetch", FetchNext(HostOf[t], j), UNCHANGED detectorVars,
         \A u \in Threads \ {t} : UNCHANGED <<held[u], attempt[u], pc[u]>>,
         \/ held'[t] = None
         \/ held'[t] = j /\ attempt'[t] = attempts[j] + 1
  PROVE  Ownership'
<1>1. /\ status[j] \in {"enqueued", "retrying"} /\ attempts[j] \in Nat
      /\ status'   = [status EXCEPT ![j] = "active"]
      /\ workerId' = [workerId EXCEPT ![j] = HostOf[t]]
      /\ attempts' = [attempts EXCEPT ![j] = @ + 1]
      /\ letters'  = letters
  BY DEF FetchNext, Eligible, TypeOK, StoreTypeOK
<1>2. \A u \in Threads : held[u] # j
  BY <1>1, StoreAssumption DEF Ownership, Owned
<1>3. \A w \in Workers : \A r \in found[w] : r.job \in Jobs /\ r.job # j
  BY <1>1 DEF Ownership, Snapshots, TypeOK, JobSnapshot
<1>4. Owned'
  BY <1>1, <1>2 DEF Owned, Ownership, TypeOK, StoreTypeOK
<1>5. ExclusiveRun'
  BY <1>2 DEF ExclusiveRun, Ownership
<1>6. Snapshots'
  BY <1>1, <1>3 DEF Snapshots, Ownership, detectorVars, TypeOK, StoreTypeOK
<1>7. BuriedOnce' /\ WaitsWithinLimit'
  BY <1>1 DEF BuriedOnce, WaitsWithinLimit, Ownership, TypeOK, StoreTypeOK
<1> QED BY <1>4, <1>5, <1>6, <1>7 DEF Ownership

\* A job that waits, or does not exist yet, is in nobody's hands.
LEMMA WaitingIsFree ==
  ASSUME TypeOK, Ownership, NEW j \in Jobs, status[j] \notin {"active", "completed"}
  PROVE  /\ \A t \in Threads : held[t] # j
         /\ \A w \in Workers : \A r \in found[w] : r.job # j
BY StoreAssumption DEF Ownership, Owned, Snapshots

\* Ownership through every step, with one detector per dead worker before it.
LEMMA OwnershipStep ==
  ASSUME DeathsAreReal, IInv, TypeOK', Deaths, SoleRescuer, Ownership, [Next]_vars
  PROVE  Ownership'
<1> USE DEF IInv
<1>a. CASE UNCHANGED <<jobVars, threadVars, detectorVars>>
  BY <1>a, RowsAtRest
  DEF jobVars, threadVars, detectorVars, Keeps, Ownership, Snapshots
<1>1. ASSUME NEW j \in Jobs, Submit(j) \/ Withdraw(j) \/ TimePasses(j)
      PROVE  Ownership'
  <2>1. UNCHANGED <<threadVars, detectorVars>>
    BY <1>1 DEF Submit, Withdraw, TimePasses
  <2>2. CASE TimePasses(j)
    BY <2>1, <2>2, RowsAtRest
    DEF TimePasses, RunAtPasses, threadVars, detectorVars, Keeps, Ownership, Snapshots
  <2>3. CASE Submit(j) \/ Withdraw(j)
    <3>1. status[j] \in {"absent", "enqueued"}
      BY <2>3 DEF Submit, Withdraw, Enqueue, Cancel
    <3>2. /\ \A t \in Threads : Keeps(t) /\ held'[t] # j
          /\ \A w \in Workers : \A r \in found'[w] :
               r \in found[w] /\ r.job # j /\ victim'[w] = victim[w]
      BY <2>1, <3>1, WaitingIsFree DEF threadVars, detectorVars, Keeps
    <3>3. letters[j] = 0 /\ attempts[j] <= MaxAttempts[j]
      BY <3>1 DEF Ownership, BuriedOnce, WaitsWithinLimit
    <3>4. /\ \A i \in Jobs \ {j} : UNCHANGED <<status[i], workerId[i], letters[i]>>
          /\ UNCHANGED <<attempts, letters>>
          /\ status'[j] \in {"enqueued", "scheduled", "deleted"}
      BY <2>3 DEF Submit, Withdraw, Enqueue, Cancel, TypeOK, StoreTypeOK
    <3> QED BY <3>2, <3>3, <3>4, RowWritten
  <2> QED BY <1>1, <2>2, <2>3
<1>2. ASSUME NEW w \in Workers, Start(w) PROVE Ownership'
  <2>1. UNCHANGED <<jobVars, held, attempt, detectorVars>> /\ phase[w] = "new"
    BY <1>2 DEF Start, RegisterWorker, Strikes, DeathsAreReal
  <2>2. \A t \in Threads : Keeps(t)
    BY <1>2, <2>1 DEF Start, Keeps, Holding, Working, Live, LivePhases
  <2> QED BY <2>1, <2>2, RowsAtRest DEF jobVars, detectorVars, Ownership, Snapshots
<1>3. ASSUME NEW w \in Workers,
             \/ Heartbeat(w) \/ BeatExpires(w) \/ Shutdown(w) \/ StopJoining(w)
             \/ Deregister(w) \/ DeregisterFails(w)
      PROVE  Ownership'
  BY <1>a, <1>3
  DEF Heartbeat, HeartbeatRow, BeatExpires, Shutdown, StopJoining, Deregister,
      DeregisterFails, DeregisterWorker, storeVars
<1>4. ASSUME NEW w \in Workers, Exit(w) \/ Crash(w) PROVE Ownership'
  <2>1. UNCHANGED jobVars
    BY <1>4 DEF Exit, Crash, Halt, storeVars
  <2>2. \A t \in Threads : Keeps(t)
    BY <1>4 DEF Exit, Crash, Halt, Keeps
  <2>3. /\ found'  = [found EXCEPT ![w] = {}]
        /\ victim' = [victim EXCEPT ![w] = None]
    BY <1>4 DEF Exit, Crash, Halt
  <2>4. \A v \in Workers : \A r \in found'[v] :
          victim'[v] # None /\ r \in found[v] /\ victim'[v] = victim[v]
    BY <2>3 DEF TypeOK, Ownership, Snapshots
  <2> QED BY <2>1, <2>2, <2>4, RowsAtRest DEF jobVars
<1>5. ASSUME NEW w \in Workers, DetectScan(w) \/ DetectDone(w) PROVE Ownership'
  <2>1. UNCHANGED <<jobVars, threadVars, found>>
    BY <1>5 DEF DetectScan, DetectDone, MarkWorkerStopped, storeVars
  <2>2. \A v \in Workers : \A r \in found[v] :
          victim'[v] # None /\ r \in found[v] /\ victim'[v] = victim[v]
    BY <1>5 DEF DetectScan, DetectDone, TypeOK, Ownership, Snapshots
  <2> QED BY <2>1, <2>2, RowsAtRest DEF jobVars, threadVars, Keeps
<1>6. ASSUME NEW w \in Workers, NEW v \in Workers, DetectPick(w, v)
      PROVE  Ownership'
  <2>1. UNCHANGED <<jobVars, threadVars>>
    BY <1>6 DEF DetectPick, storeVars
  <2>2. \A u \in Workers : \A r \in found'[u] :
          /\ victim'[u] # None
          /\ \/ r \in found[u] /\ victim'[u] = victim[u]
             \/ /\ r.attempts = attempts[r.job] /\ status[r.job] = "active"
                /\ workerId[r.job] = victim'[u]
    BY <1>6, StoreAssumption
    DEF DetectPick, ActiveJobsOf, TypeOK, Ownership, Snapshots
  <2> QED BY <2>1, <2>2, RowsAtRest DEF jobVars, threadVars, Keeps
<1>7. ASSUME NEW w \in Workers, NEW r \in found[w], DetectJob(w, r)
      PROVE  Ownership'
  <2>1. /\ Recover(r) /\ UNCHANGED <<threadVars, victim>>
        /\ found' = [found EXCEPT ![w] = @ \ {r}]
    BY <1>7 DEF DetectJob
  <2>2. /\ r \notin found'[w]
        /\ \A v \in Workers : \A s \in found'[v] :
             s \in found[v] /\ victim'[v] = victim[v]
    BY <2>1 DEF TypeOK
  <2> QED BY <2>1, <2>2, DetectorWrites
<1>8. ASSUME NEW w \in Workers, DetectAborts(w) PROVE Ownership'
  <2>1. /\ UNCHANGED threadVars
        /\ found'  = [found EXCEPT ![w] = {}]
        /\ victim' = [victim EXCEPT ![w] = None]
    BY <1>8 DEF DetectAborts
  <2>2. /\ found'[w] = {}
        /\ \A v \in Workers : \A s \in found'[v] :
             victim'[v] # None /\ s \in found[v] /\ victim'[v] = victim[v]
    BY <2>1 DEF TypeOK, Ownership, Snapshots
  <2>3. CASE \E r \in found[w] : Recover(r)
    BY <2>1, <2>2, <2>3, DetectorWrites
  <2>4. CASE UNCHANGED jobVars
    BY <2>1, <2>2, <2>4, RowsAtRest DEF jobVars, threadVars, Keeps
  <2> QED BY <1>8, <2>3, <2>4 DEF DetectAborts, MarkWorkerStopped, storeVars
<1>9. ASSUME NEW t \in Threads,
             \/ Poll(t) \/ ThreadEnds(t) \/ FetchNothing(t) \/ Perform(t)
             \/ LoadFails(t) \/ PerformEnds(t)
      PROVE  Ownership'
  <2>1. /\ UNCHANGED <<jobVars, held, attempt, detectorVars>>
        /\ pc[t] # "fail" /\ \A u \in Threads \ {t} : pc'[u] = pc[u]
    BY <1>9 DEF Poll, ThreadEnds, FetchNothing, Perform, LoadFails, PerformEnds, Goto,
                storeVars, TypeOK
  <2>2. \A u \in Threads : Keeps(u)
    BY <2>1 DEF Keeps, Ownership, Owned
  <2> QED BY <2>1, <2>2, RowsAtRest DEF jobVars, detectorVars, Ownership, Snapshots
<1>10. ASSUME NEW t \in Threads, NEW j \in Jobs, Claim(t, j) PROVE Ownership'
  BY <1>10, RowClaimed DEF Claim, Goto, TypeOK
<1>11. ASSUME NEW t \in Threads, FetchFails(t) PROVE Ownership'
  <2>1. /\ pc[t] = "fetch" /\ held[t] = None
        /\ UNCHANGED <<held, attempt, detectorVars>>
        /\ \A u \in Threads \ {t} : pc'[u] = pc[u]
    BY <1>11 DEF FetchFails, Goto, Holding, Working, TypeOK
  <2>2. CASE \E j \in Jobs : FetchNext(HostOf[t], j)
    BY <2>1, <2>2, RowClaimed
  <2>3. CASE UNCHANGED storeVars
    BY <2>1, <2>3, RowsAtRest
    DEF storeVars, jobVars, detectorVars, Keeps, Ownership, Snapshots
  <2> QED BY <1>11, <2>2, <2>3 DEF FetchFails
<1>12. ASSUME NEW t \in Threads,
              \/ Expire(t) \/ ExpireFails(t) \/ PerformExits(t) \/ Complete(t)
              \/ RetryRequested(t) \/ HandleFailure(t) \/ WriteFails(t)
       PROVE  Ownership'
  <2>1. /\ Working(t) /\ (Release(t, "loop") \/ Release(t, "off"))
        /\ UNCHANGED detectorVars
    BY <1>12 DEF Expire, ExpireFails, PerformExits, Complete, RetryRequested,
                 HandleFailure, WriteFails, Working
  <2>2. \/ MoveToDead(held[t]) \/ MarkCompleted(held[t])
        \/ /\ \E b \in BOOLEAN : MarkFailed(held[t], b)
           /\ pc[t] \in {"retry", "fail"}
        \/ UNCHANGED storeVars
    BY <1>12 DEF Expire, ExpireFails, PerformExits, Complete, RetryRequested,
                 HandleFailure, WriteFails, RetryWrite, FailureWrite
  <2>3. pc[t] \in {"retry", "fail"} => attempt[t] <= MaxAttempts[held[t]]
    BY DEF ClaimInv, WithinLimit
  <2> QED BY <2>1, <2>2, <2>3, OwnerWrites
<1>13. ASSUME NEW t \in Threads, CompleteFails(t) PROVE Ownership'
  <2>1. /\ pc[t] = "complete" /\ pc' = [pc EXCEPT ![t] = "fail"]
        /\ UNCHANGED <<held, attempt, detectorVars>> /\ "fault" \in Troubles
        /\ MarkCompleted(held[t]) \/ UNCHANGED storeVars
    BY <1>13 DEF CompleteFails, Goto, Strikes
  <2>2. /\ held[t] \in Jobs /\ held[t] # None /\ status[held[t]] = "active"
        /\ letters[held[t]] = 0
    BY <2>1 DEF Holding, Working, TypeOK, Ownership, Owned, BuriedOnce
  <2>3. CASE UNCHANGED storeVars
    BY <2>1, <2>2, <2>3, RowsAtRest
    DEF storeVars, jobVars, detectorVars, Keeps, Ownership, Snapshots, Owned, TypeOK
  <2>4. CASE MarkCompleted(held[t])
    <3>1. /\ status' = [status EXCEPT ![held[t]] = "completed"]
          /\ UNCHANGED <<attempts, workerId, letters>>
      BY <2>2, <2>4 DEF MarkCompleted, Update, InTable
    <3>2. \A u \in Threads \ {t} : held[u] # held[t] /\ pc'[u] = pc[u]
      BY <2>1, <2>2 DEF Ownership, ExclusiveRun, TypeOK
    <3>3. Owned'
      BY <2>1, <2>2, <3>1, <3>2 DEF Owned, Ownership, TypeOK, StoreTypeOK
    <3>4. ExclusiveRun'
      BY <2>1 DEF ExclusiveRun, Ownership
    <3>5. Snapshots'
      <4>1. \A w \in Workers : \A r \in found[w] : r.job # held[t]
        BY <2>1, HeldIsNotFound DEF Working
      <4> QED BY <2>1, <3>1, <4>1
              DEF Snapshots, Ownership, detectorVars, TypeOK, StoreTypeOK
    <3>6. BuriedOnce' /\ WaitsWithinLimit'
      BY <2>2, <3>1 DEF BuriedOnce, WaitsWithinLimit, Ownership, TypeOK, StoreTypeOK
    <3> QED BY <3>3, <3>4, <3>5, <3>6 DEF Ownership
  <2> QED BY <2>1, <2>3, <2>4
<1>14. CASE UNCHANGED vars
  BY <1>a, <1>14 DEF vars, storeVars
<1> QED
  BY <1>1, <1>2, <1>3, <1>4, <1>5, <1>6, <1>7, <1>8, <1>9, <1>10, <1>11, <1>12, <1>13,
     <1>14
  DEF Next, StopStep, DetectStep, FetchStep, ExecuteStep, FaultStep

\* A detector at work on a worker is alive.
RescuersLive == \A w \in Workers : victim[w] # None => Live(w)

\* A detector dies with its process.
LEMMA RescuersStep ==
  ASSUME TypeOK, RescuersLive, [Next]_vars PROVE RescuersLive'
<1> USE DEF TypeOK, RescuersLive, Live, LivePhases
<1>1. CASE UNCHANGED <<phase, victim>>
  BY <1>1
<1>2. ASSUME NEW j \in Jobs, Submit(j) \/ Withdraw(j) \/ TimePasses(j)
      PROVE  RescuersLive'
  BY <1>1, <1>2 DEF Submit, Withdraw, TimePasses, detectorVars
<1>3. ASSUME NEW w \in Workers,
             \/ Start(w) \/ Heartbeat(w) \/ BeatExpires(w) \/ Shutdown(w)
             \/ StopJoining(w) \/ Deregister(w) \/ DeregisterFails(w)
      PROVE  RescuersLive'
  BY <1>3 DEF Start, Heartbeat, BeatExpires, Shutdown, StopJoining, Deregister,
              DeregisterFails, detectorVars
<1>4. ASSUME NEW w \in Workers, Exit(w) \/ Crash(w) PROVE RescuersLive'
  BY <1>4 DEF Exit, Crash, Halt
<1>5. ASSUME NEW w \in Workers, DetectStep(w) \/ DetectAborts(w)
      PROVE  RescuersLive'
  BY <1>5 DEF DetectStep, DetectScan, DetectPick, DetectJob, DetectDone, DetectAborts
<1>6. ASSUME NEW t \in Threads, FetchStep(t) \/ ExecuteStep(t) \/ FaultStep(t)
      PROVE  RescuersLive'
  BY <1>1, <1>6
  DEF FetchStep, Poll, ThreadEnds, FetchNothing, Claim, ExecuteStep, Expire, Perform,
      LoadFails, PerformEnds, PerformExits, Complete, RetryRequested, HandleFailure,
      FaultStep, FetchFails, ExpireFails, CompleteFails, WriteFails, detectorVars
<1>7. CASE UNCHANGED vars
  BY <1>1, <1>7 DEF vars, detectorVars
<1> QED
  BY <1>2, <1>3, <1>4, <1>5, <1>6, <1>7 DEF Next, StopStep

\* The dead worker has one survivor, which is the one detector.
LEMMA OneSurvivor ==
  ASSUME TwoWorkers, TypeOK, Deaths, RescuersLive PROVE SoleRescuer
BY DEF TwoWorkers, TypeOK, Deaths, RescuersLive, Live, LivePhases, SoleRescuer

\* While no two detectors are at work on the same dead worker, ownership holds.
LEMMA OwnershipHolds ==
  ASSUME DeathsAreReal
  PROVE  Spec /\ []SoleRescuer => [](IInv /\ Deaths /\ Ownership)
<1>1. Init => IInv /\ Deaths /\ Ownership
  BY InitInv, DeathsInit, OwnershipInit
<1>2. IInv /\ Deaths /\ Ownership /\ SoleRescuer /\ [Next]_vars
        => (IInv /\ Deaths /\ Ownership)'
  <2> SUFFICES ASSUME IInv, Deaths, Ownership, SoleRescuer, [Next]_vars
               PROVE  (IInv /\ Deaths /\ Ownership)'
    OBVIOUS
  <2>1. IInv'
    BY InvStep
  <2>2. Deaths'
    BY DeathsStep DEF IInv
  <2>3. Ownership'
    BY <2>1, OwnershipStep DEF IInv
  <2> QED BY <2>1, <2>2, <2>3
<1> QED BY <1>1, <1>2, PTL DEF Spec

\* Two workers are never two detectors of one death.
LEMMA TwoWorkersSuffice ==
  ASSUME DeathsAreReal, TwoWorkers PROVE Spec => []SoleRescuer
<1> DEFINE Alone == IInv /\ Deaths /\ RescuersLive
<1>1. Init => Alone
  BY InitInv, DeathsInit DEF Init, RescuersLive
<1>2. Alone /\ [Next]_vars => Alone'
  BY InvStep, DeathsStep, RescuersStep DEF IInv
<1>3. Alone => SoleRescuer
  BY OneSurvivor DEF IInv
<1> QED BY <1>1, <1>2, <1>3, PTL DEF Spec

\* "SKIP LOCKED guarantees each job is picked up by exactly one worker": with any
\* number of workers, crashes, early and late ends of the joins, exits of the
\* interpreter and failing database calls, no two threads execute the same job,
\* as long as no two detectors handle the same dead worker.
THEOREM ExclusiveWhileSoleRescuer ==
  ASSUME DeathsAreReal PROVE Spec /\ []SoleRescuer => []ExclusiveRun
<1>1. Ownership => ExclusiveRun
  BY DEF Ownership
<1> QED BY <1>1, OwnershipHolds, PTL

\* Under the same condition a job gets at most one dead letter.
THEOREM OneLetterWhileSoleRescuer ==
  ASSUME DeathsAreReal PROVE Spec /\ []SoleRescuer => []OneLetter
<1>1. Ownership => OneLetter
  <2> SUFFICES ASSUME BuriedOnce, NEW j \in Jobs PROVE letters[j] <= 1
    BY DEF Ownership, OneLetter
  <2>1. letters[j] = 0 \/ letters[j] = 1
    BY DEF BuriedOnce
  <2> QED BY <2>1
<1> QED BY <1>1, OwnershipHolds, PTL

\* A pair of workers needs no such condition: its jobs run exclusively.
THEOREM TwoWorkersRunExclusively ==
  ASSUME DeathsAreReal, TwoWorkers PROVE Spec => []ExclusiveRun
BY ExclusiveWhileSoleRescuer, TwoWorkersSuffice, PTL

\* Nor do their jobs get a second dead letter.
THEOREM TwoWorkersBuryOnce ==
  ASSUME DeathsAreReal, TwoWorkers PROVE Spec => []OneLetter
BY OneLetterWhileSoleRescuer, TwoWorkersSuffice, PTL

---------------------------------------------------------------------------
(* No job is lost to a worker that dies *)

\* A deployment whose only trouble is a stopped or killed process, and whose
\* jobs do not exit the interpreter.
OnlyStops == Troubles \subseteq {"stop"} /\ "exit" \notin Outcomes

\* A process that has not left its joins is registered; one that has left them
\* has no thread at work.
Posts ==
  /\ \A w \in Workers : phase[w] \in {"up", "draining", "closing"}
                          => registered[w] = "idle"
  /\ \A t \in Threads : phase[HostOf[t]] \in {"closing", "returned"} => pc[t] = "off"

\* An active row is held by a thread of the worker it names, or that worker has
\* died and its row is one a detector will find.
Reachable ==
  \A j \in Jobs : status[j] = "active" =>
    \/ \E t \in Threads : held[t] = j /\ workerId[j] = HostOf[t]
    \/ /\ workerId[j] \in Workers
       /\ phase[workerId[j]] = "down" /\ registered[workerId[j]] = "idle"

\* A detector has in hand every row the dead worker still owns.
Covered ==
  \A w \in Workers : victim[w] # None =>
    \A j \in ActiveJobsOf(victim[w]) : \E r \in found[w] : r.job = j

RecoveryInv == Deaths /\ Posts /\ Reachable /\ Covered

\* At the start no row is active.
LEMMA RecoveryInit == Init => RecoveryInv
BY DeathsInit DEF Init, StoreInit, RecoveryInv, Posts, Reachable, Covered

\* Rows become active only by a claim.
Settling == \A j \in Jobs : status'[j] = "active"
                              => status[j] = "active" /\ workerId'[j] = workerId[j]

\* The four writes that end an execution do not make a row active.
LEMMA WritesSettle ==
  ASSUME TypeOK, NEW j \in Jobs,
         \/ MarkCompleted(j) \/ MoveToDead(j) \/ ReenqueueJob(j)
         \/ \E b \in BOOLEAN : MarkFailed(j, b)
  PROVE  Settling /\ UNCHANGED registryVars /\ status'[j] # "active"
<1> USE DEF TypeOK, StoreTypeOK, Settling, Update, InTable
<1>1. CASE MarkCompleted(j) BY <1>1 DEF MarkCompleted
<1>2. CASE MoveToDead(j) BY <1>2 DEF MoveToDead
<1>3. CASE ReenqueueJob(j) BY <1>3 DEF ReenqueueJob
<1>4. CASE \E b \in BOOLEAN : MarkFailed(j, b) BY <1>4 DEF MarkFailed
<1> QED BY <1>1, <1>2, <1>3, <1>4

\* No registry row, process or detector moves, no row becomes active, and a
\* thread lets go only of a row that is not active any more.
LEMMA RecoveryKept ==
  ASSUME RecoveryInv, Deaths', Settling, UNCHANGED <<registered, phase, detectorVars>>,
         \A t \in Threads : /\ pc[t] = "off" => pc'[t] = "off"
                            /\ \/ held'[t] = held[t]
                               \/ held[t] = None \/ status'[held[t]] # "active"
  PROVE  RecoveryInv'
<1> USE DEF RecoveryInv
<1>1. Posts'
  BY DEF Posts
<1>2. Reachable'
  <2> SUFFICES ASSUME NEW j \in Jobs, status'[j] = "active"
               PROVE  \/ \E t \in Threads : held'[t] = j /\ workerId'[j] = HostOf[t]
                      \/ /\ workerId'[j] \in Workers
                         /\ phase'[workerId'[j]] = "down"
                         /\ registered'[workerId'[j]] = "idle"
    BY DEF Reachable
  <2>1. status[j] = "active" /\ workerId'[j] = workerId[j]
    BY DEF Settling
  <2>2. CASE \E t \in Threads : held[t] = j /\ workerId[j] = HostOf[t]
    BY <2>1, <2>2, StoreAssumption
  <2>3. CASE /\ workerId[j] \in Workers
             /\ phase[workerId[j]] = "down" /\ registered[workerId[j]] = "idle"
    BY <2>1, <2>3
  <2> QED BY <2>1, <2>2, <2>3 DEF Reachable
<1>3. Covered'
  BY DEF Covered, ActiveJobsOf, Settling, detectorVars
<1> QED BY <1>1, <1>2, <1>3

\* No step loses an active row: the invariant is inductive.
LEMMA RecoveryStep ==
  ASSUME OnlyStops, TypeOK, Holding, RecoveryInv, Deaths', [Next]_vars
  PROVE  RecoveryInv'
<1> USE DEF RecoveryInv
<1>a. CASE UNCHANGED <<jobVars, registered, phase, threadVars, detectorVars>>
  BY <1>a, RecoveryKept DEF jobVars, threadVars, Settling
<1>1. ASSUME NEW j \in Jobs, Submit(j) \/ Withdraw(j) \/ TimePasses(j)
      PROVE  RecoveryInv'
  <2>1. Settling /\ UNCHANGED <<registryVars, phase, threadVars, detectorVars>>
    BY <1>1
    DEF Submit, Withdraw, TimePasses, Enqueue, Cancel, RunAtPasses, Settling, TypeOK,
        StoreTypeOK
  <2> QED BY <2>1, RecoveryKept DEF registryVars, threadVars
<1>2. ASSUME NEW w \in Workers, Start(w) PROVE RecoveryInv'
  <2>1. /\ phase[w] = "new" /\ phase' = [phase EXCEPT ![w] = "up"]
        /\ registered' = [registered EXCEPT ![w] = "idle"]
        /\ pc' = [t \in Threads |-> IF HostOf[t] = w THEN "loop" ELSE pc[t]]
        /\ UNCHANGED <<jobVars, held, detectorVars>>
    BY <1>2 DEF Start, RegisterWorker, Strikes, OnlyStops
  <2>2. Posts'
    BY <2>1, PoolAssumption DEF Posts, TypeOK, StoreTypeOK
  <2>3. Reachable'
    BY <2>1 DEF Reachable, TypeOK, StoreTypeOK, jobVars
  <2>4. Covered'
    BY <2>1 DEF Covered, ActiveJobsOf, jobVars, detectorVars
  <2> QED BY <2>2, <2>3, <2>4
<1>3. ASSUME NEW w \in Workers, Heartbeat(w) \/ BeatExpires(w) PROVE RecoveryInv'
  BY <1>a, <1>3 DEF Heartbeat, HeartbeatRow, BeatExpires
<1>4. ASSUME NEW w \in Workers, Shutdown(w) \/ StopJoining(w) PROVE RecoveryInv'
  <2>1. /\ phase[w] \in {"up", "draining"}
        /\ UNCHANGED <<jobVars, registered, threadVars, detectorVars>>
        /\ \/ phase' = [phase EXCEPT ![w] = "draining"]
           \/ /\ phase' = [phase EXCEPT ![w] = "closing"]
              /\ \A t \in Threads : HostOf[t] = w => pc[t] = "off"
    BY <1>4
    DEF Shutdown, StopJoining, Strikes, OnlyStops, ThreadsOf, storeVars, registryVars
  <2>2. Posts'
    BY <2>1, PoolAssumption DEF Posts, TypeOK, threadVars
  <2>3. Reachable'
    BY <2>1 DEF Reachable, TypeOK, jobVars, threadVars
  <2>4. Covered'
    BY <2>1 DEF Covered, ActiveJobsOf, jobVars, detectorVars
  <2> QED BY <2>2, <2>3, <2>4
<1>5. ASSUME NEW w \in Workers, Deregister(w) PROVE RecoveryInv'
  <2>1. /\ phase[w] = "closing" /\ phase' = [phase EXCEPT ![w] = "returned"]
        /\ registered' = [registered EXCEPT ![w] = "absent"]
        /\ UNCHANGED <<jobVars, threadVars, detectorVars>>
    BY <1>5 DEF Deregister, DeregisterWorker
  <2>2. Posts'
    BY <2>1, PoolAssumption DEF Posts, TypeOK, StoreTypeOK, threadVars
  <2>3. Reachable'
    BY <2>1 DEF Reachable, TypeOK, StoreTypeOK, jobVars, threadVars
  <2>4. Covered'
    BY <2>1 DEF Covered, ActiveJobsOf, jobVars, detectorVars
  <2> QED BY <2>2, <2>3, <2>4
<1>6. ASSUME NEW w \in Workers, Exit(w) \/ Crash(w) PROVE RecoveryInv'
  <2>1. /\ Live(w) /\ Halt(w)
    BY <1>6 DEF Exit, Crash, Live, LivePhases
  <2>2. /\ phase'  = [phase EXCEPT ![w] = "down"]
        /\ pc'     = [t \in Threads |-> IF HostOf[t] = w THEN "off" ELSE pc[t]]
        /\ held'   = [t \in Threads |-> IF HostOf[t] = w THEN None ELSE held[t]]
        /\ victim' = [victim EXCEPT ![w] = None]
        /\ found'  = [found EXCEPT ![w] = {}]
        /\ UNCHANGED <<jobVars, registered>>
    BY <2>1 DEF Halt, storeVars, registryVars
  <2>3. Posts'
    BY <2>2, PoolAssumption DEF Posts, TypeOK
  <2>4. Reachable'
    <3> SUFFICES ASSUME NEW j \in Jobs, status[j] = "active"
                 PROVE  \/ \E t \in Threads : held'[t] = j /\ workerId[j] = HostOf[t]
                        \/ /\ workerId[j] \in Workers
                           /\ phase'[workerId[j]] = "down"
                           /\ registered[workerId[j]] = "idle"
      BY <2>2 DEF Reachable, jobVars
    <3>1. CASE \E t \in Threads : held[t] = j /\ workerId[j] = HostOf[t] /\ HostOf[t] # w
      BY <2>2, <3>1
    <3>2. ASSUME NEW t \in Threads, held[t] = j, workerId[j] = w, HostOf[t] = w
          PROVE  registered[w] = "idle"
      <4>1. pc[t] # "off"
        BY <3>2, StoreAssumption DEF Holding, Working
      <4> QED BY <2>1, <3>2, <4>1 DEF Posts, Live, LivePhases
    <3>3. CASE \E t \in Threads : held[t] = j /\ workerId[j] = HostOf[t] /\ HostOf[t] = w
      BY <2>2, <3>2, <3>3 DEF TypeOK
    <3>4. CASE /\ workerId[j] \in Workers
               /\ phase[workerId[j]] = "down" /\ registered[workerId[j]] = "idle"
      BY <2>2, <3>4 DEF TypeOK
    <3> QED BY <3>1, <3>3, <3>4 DEF Reachable
  <2>5. Covered'
    BY <2>2 DEF Covered, ActiveJobsOf, TypeOK, jobVars
  <2> QED BY <2>3, <2>4, <2>5
<1>7. ASSUME NEW w \in Workers, DetectScan(w) PROVE RecoveryInv'
  BY <1>7 DEF DetectScan, storeVars, jobVars, registryVars, threadVars, Posts,
              Reachable, Covered, ActiveJobsOf
<1>8. ASSUME NEW w \in Workers, NEW v \in Workers, DetectPick(w, v)
      PROVE  RecoveryInv'
  <2>1. /\ UNCHANGED <<jobVars, registered, phase, threadVars>>
        /\ victim' = [victim EXCEPT ![w] = v]
        /\ found'  = [found EXCEPT ![w] =
             {[job |-> j, attempts |-> attempts[j]] : j \in ActiveJobsOf(v)}]
    BY <1>8 DEF DetectPick, storeVars, registryVars
  <2>2. Posts' /\ Reachable'
    BY <2>1 DEF Posts, Reachable, jobVars, threadVars
  <2>3. Covered'
    <3> SUFFICES ASSUME NEW u \in Workers, victim'[u] # None,
                        NEW j \in Jobs, status[j] = "active", workerId[j] = victim'[u]
                 PROVE  \E r \in found'[u] : r.job = j
      BY <2>1 DEF Covered, ActiveJobsOf, jobVars
    <3>1. CASE u = w
      <4>1. [job |-> j, attempts |-> attempts[j]] \in found'[u]
        BY <2>1, <3>1 DEF ActiveJobsOf, TypeOK
      <4> QED BY <4>1
    <3>2. CASE u # w
      BY <2>1, <3>2 DEF Covered, ActiveJobsOf, TypeOK
    <3> QED BY <3>1, <3>2
  <2> QED BY <2>2, <2>3
<1>9. ASSUME NEW w \in Workers, NEW r \in found[w], DetectJob(w, r)
      PROVE  RecoveryInv'
  <2>1. /\ Recover(r) /\ r.job \in Jobs /\ UNCHANGED <<phase, threadVars, victim>>
        /\ found' = [found EXCEPT ![w] = @ \ {r}]
    BY <1>9 DEF DetectJob, TypeOK, JobSnapshot
  <2>2. Settling /\ UNCHANGED registryVars /\ status'[r.job] # "active"
    BY <2>1, WritesSettle DEF Recover
  <2>3. Posts'
    BY <2>1, <2>2 DEF Posts, threadVars, registryVars
  <2>4. Reachable'
    BY <2>1, <2>2 DEF Reachable, Settling, threadVars, registryVars
  <2>5. Covered'
    <3> SUFFICES ASSUME NEW u \in Workers, victim[u] # None,
                        NEW j \in Jobs, status'[j] = "active", workerId'[j] = victim[u]
                 PROVE  \E s \in found'[u] : s.job = j
      BY <2>1 DEF Covered, ActiveJobsOf
    <3>1. status[j] = "active" /\ workerId[j] = victim[u]
      BY <2>2 DEF Settling
    <3>2. PICK s \in found[u] : s.job = j
      BY <3>1 DEF Covered, ActiveJobsOf
    <3>3. s # r
      BY <2>2, <3>2
    <3> QED BY <2>1, <3>2, <3>3 DEF TypeOK
  <2> QED BY <2>3, <2>4, <2>5
<1>10. ASSUME NEW w \in Workers, DetectDone(w) PROVE RecoveryInv'
  <2>1. /\ victim[w] \in Workers /\ phase[victim[w]] = "down"
        /\ \A j \in Jobs : status[j] = "active" => workerId[j] # victim[w]
        /\ UNCHANGED <<jobVars, phase, threadVars, found>>
        /\ victim' = [victim EXCEPT ![w] = None]
    BY <1>10
    DEF DetectDone, MarkWorkerStopped, TypeOK, Deaths, Covered, ActiveJobsOf
  <2>2. \A v \in Workers \ {victim[w]} : registered'[v] = registered[v]
    BY <1>10 DEF DetectDone, MarkWorkerStopped, TypeOK, StoreTypeOK
  <2>3. Posts'
    BY <2>1, <2>2 DEF Posts, threadVars
  <2>4. Reachable'
    BY <2>1, <2>2 DEF Reachable, jobVars, threadVars
  <2>5. Covered'
    BY <2>1 DEF Covered, ActiveJobsOf, jobVars, TypeOK
  <2> QED BY <2>3, <2>4, <2>5
<1>11. ASSUME NEW t \in Threads,
              \/ Poll(t) \/ ThreadEnds(t) \/ FetchNothing(t) \/ Perform(t)
              \/ LoadFails(t) \/ PerformEnds(t)
       PROVE  RecoveryInv'
  <2>1. /\ UNCHANGED <<storeVars, phase, held, detectorVars>> /\ pc[t] # "off"
        /\ \A u \in Threads \ {t} : pc'[u] = pc[u]
    BY <1>11 DEF Poll, ThreadEnds, FetchNothing, Perform, LoadFails, PerformEnds, Goto,
                 TypeOK
  <2> QED BY <2>1, RecoveryKept DEF storeVars, jobVars, registryVars, Settling
<1>12. ASSUME NEW t \in Threads, NEW j \in Jobs, Claim(t, j) PROVE RecoveryInv'
  <2>1. /\ pc[t] = "fetch" /\ held[t] = None
        /\ status'   = [status EXCEPT ![j] = "active"]
        /\ workerId' = [workerId EXCEPT ![j] = HostOf[t]]
        /\ pc'       = [pc EXCEPT ![t] = "claimed"]
        /\ held'     = [held EXCEPT ![t] = j]
        /\ UNCHANGED <<registryVars, phase, detectorVars>>
    BY <1>12 DEF Claim, FetchNext, Goto, Holding, Working
  <2>2. Posts'
    BY <2>1 DEF Posts, TypeOK, registryVars
  <2>3. Reachable'
    <3> SUFFICES ASSUME NEW i \in Jobs, status'[i] = "active"
                 PROVE  \/ \E u \in Threads : held'[u] = i /\ workerId'[i] = HostOf[u]
                        \/ /\ workerId'[i] \in Workers
                           /\ phase'[workerId'[i]] = "down"
                           /\ registered'[workerId'[i]] = "idle"
      BY DEF Reachable
    <3>1. CASE i = j
      BY <2>1, <3>1 DEF TypeOK, StoreTypeOK
    <3>2. CASE i # j
      <4>1. status[i] = "active" /\ workerId'[i] = workerId[i]
        BY <2>1, <3>2 DEF TypeOK, StoreTypeOK
      <4>2. CASE \E u \in Threads : held[u] = i /\ workerId[i] = HostOf[u]
        BY <2>1, <4>1, <4>2, StoreAssumption
      <4> QED BY <2>1, <4>1, <4>2 DEF Reachable, registryVars
    <3> QED BY <3>1, <3>2
  <2>4. Covered'
    <3>1. \A w \in Workers : victim[w] # None => victim[w] # HostOf[t]
      BY <2>1 DEF Holding, Live, LivePhases, Deaths
    <3>2. \A w \in Workers : victim[w] # None =>
            \A i \in Jobs : status'[i] = "active" /\ workerId'[i] = victim[w]
              => status[i] = "active" /\ workerId[i] = victim[w]
      BY <2>1, <3>1 DEF TypeOK, StoreTypeOK
    <3> QED BY <2>1, <3>2 DEF Covered, ActiveJobsOf, detectorVars
  <2> QED BY <2>2, <2>3, <2>4
<1>13. ASSUME NEW t \in Threads,
              \/ Expire(t) \/ Complete(t) \/ RetryRequested(t) \/ HandleFailure(t)
       PROVE  RecoveryInv'
  <2>1. /\ held[t] \in Jobs /\ pc[t] # "off" /\ UNCHANGED <<phase, detectorVars>>
        /\ \/ MoveToDead(held[t]) \/ MarkCompleted(held[t])
           \/ \E b \in BOOLEAN : MarkFailed(held[t], b)
        /\ Release(t, "loop")
    BY <1>13
    DEF Expire, Complete, RetryRequested, RetryWrite, HandleFailure, FailureWrite,
        Holding, Working, TypeOK
  <2>2. Settling /\ UNCHANGED registryVars /\ status'[held[t]] # "active"
    BY <2>1, WritesSettle
  <2>3. \A u \in Threads : /\ pc[u] = "off" => pc'[u] = "off"
                           /\ held'[u] = held[u] \/ status'[held[u]] # "active"
    BY <2>1, <2>2 DEF Release, Goto, TypeOK
  <2> QED BY <2>1, <2>2, <2>3, RecoveryKept DEF registryVars
<1>14. ASSUME NEW w \in Workers, DeregisterFails(w) \/ DetectAborts(w)
       PROVE  FALSE
  BY <1>14 DEF DeregisterFails, DetectAborts, Strikes, OnlyStops
<1>15. ASSUME NEW t \in Threads, FaultStep(t) \/ PerformExits(t) PROVE FALSE
  BY <1>15 DEF FaultStep, FetchFails, ExpireFails, CompleteFails, WriteFails, Strikes,
               PerformExits, OnlyStops
<1>16. CASE UNCHANGED vars
  BY <1>a, <1>16 DEF vars, storeVars, registryVars
<1> QED
  BY <1>1, <1>2, <1>3, <1>4, <1>5, <1>6, <1>7, <1>8, <1>9, <1>10, <1>11, <1>12, <1>13,
     <1>14, <1>15, <1>16
  DEF Next, StopStep, DetectStep, FetchStep, ExecuteStep

\* With any number of workers that may be stopped or killed at any step, an
\* active job is always being executed, being recovered, or registered to a dead
\* worker that detection will find.
THEOREM DeadWorkersJobsAreFound ==
  ASSUME OnlyStops PROVE Spec => []Recoverable
<1> DEFINE Safe == IInv /\ RecoveryInv
<1>1. Init => Safe
  BY InitInv, RecoveryInit
<1>2. Safe /\ [Next]_vars => Safe'
  <2> SUFFICES ASSUME IInv, RecoveryInv, [Next]_vars PROVE IInv' /\ RecoveryInv'
    OBVIOUS
  <2>1. DeathsAreReal
    BY DEF OnlyStops, DeathsAreReal
  <2>2. IInv' /\ Deaths'
    BY <2>1, InvStep, DeathsStep DEF IInv, RecoveryInv
  <2> QED BY <2>2, RecoveryStep DEF IInv
<1>3. Safe => Recoverable
  BY DEF RecoveryInv, Reachable, Recoverable, Detectable, Live, LivePhases
<1> QED BY <1>1, <1>2, <1>3, PTL DEF Spec

---------------------------------------------------------------------------
(* The pool implements the documented lifecycle *)

\* A step of the lifecycle, or none.
LifeNext == [Lifecycle!Next]_<<[j \in Jobs |-> LifeOf(j)], attempts>>

\* The life of a job by its status.
LEMMA Lives ==
  /\ \A j \in Jobs : status[j] = "absent" => LifeOf(j) = "new"
  /\ \A j \in Jobs : status[j] \in {"enqueued", "scheduled", "retrying"}
                       => LifeOf(j) = "waiting"
  /\ \A j \in Jobs : status[j] = "active" => LifeOf(j) = "running"
  /\ \A j \in Jobs : status[j] = "completed" => LifeOf(j) = "done"
  /\ \A j \in Jobs : status[j] = "dead" => LifeOf(j) = "dead"
  /\ \A j \in Jobs : status[j] = "deleted" => LifeOf(j) = "gone"
BY DEF LifeOf

\* The same of the next state.
LEMMA LivesNext ==
  /\ \A j \in Jobs : status'[j] = "absent" => LifeOf(j)' = "new"
  /\ \A j \in Jobs : status'[j] \in {"enqueued", "scheduled", "retrying"}
                       => LifeOf(j)' = "waiting"
  /\ \A j \in Jobs : status'[j] = "active" => LifeOf(j)' = "running"
  /\ \A j \in Jobs : status'[j] = "completed" => LifeOf(j)' = "done"
  /\ \A j \in Jobs : status'[j] = "dead" => LifeOf(j)' = "dead"
  /\ \A j \in Jobs : status'[j] = "deleted" => LifeOf(j)' = "gone"
BY DEF LifeOf

\* A change of one status is a move of one life.
LEMMA LifeMoves ==
  ASSUME NEW j \in Jobs, NEW from, NEW to, LifeOf(j) = from, LifeOf(j)' = to,
         \A i \in Jobs \ {j} : status'[i] = status[i]
  PROVE  Lifecycle!Move(j, from, to)
<1>1. \A i \in Jobs \ {j} : LifeOf(i)' = LifeOf(i)
  BY DEF LifeOf
<1> QED BY <1>1 DEF Lifecycle!Move

\* No life changes with the rows at rest.
LEMMA LifeAtRest ==
  ASSUME UNCHANGED <<status, attempts>> PROVE LifeNext
BY DEF LifeNext, LifeOf

\* A write to a row in somebody's hands buries it with its attempts used up, or
\* finishes or returns it within its limit.
LEMMA HeldRowMoves ==
  ASSUME TypeOK, NEW j \in Jobs, status[j] = "active",
         \/ MoveToDead(j) /\ attempts[j] >= MaxAttempts[j]
         \/ /\ MarkCompleted(j) \/ ReenqueueJob(j)
               \/ \E b \in BOOLEAN : MarkFailed(j, b)
            /\ attempts[j] <= MaxAttempts[j]
  PROVE  LifeNext
<1> USE DEF TypeOK, StoreTypeOK, Update, InTable
<1>1. CASE MoveToDead(j) /\ attempts[j] >= MaxAttempts[j]
  <2>1. /\ status'[j] = "dead" /\ UNCHANGED attempts
        /\ \A i \in Jobs \ {j} : status'[i] = status[i]
    BY <1>1 DEF MoveToDead
  <2>2. Lifecycle!Bury(j)
    BY <1>1, <2>1, Lives, LivesNext, LifeMoves DEF Lifecycle!Bury
  <2> QED BY <2>2 DEF LifeNext, Lifecycle!Next
<1>2. CASE MarkCompleted(j) /\ attempts[j] <= MaxAttempts[j]
  <2>1. /\ status'[j] = "completed" /\ UNCHANGED attempts
        /\ \A i \in Jobs \ {j} : status'[i] = status[i]
    BY <1>2 DEF MarkCompleted
  <2>2. Lifecycle!Finish(j)
    BY <1>2, <2>1, Lives, LivesNext, LifeMoves DEF Lifecycle!Finish
  <2> QED BY <2>2 DEF LifeNext, Lifecycle!Next
<1>3. CASE /\ ReenqueueJob(j) \/ \E b \in BOOLEAN : MarkFailed(j, b)
           /\ attempts[j] <= MaxAttempts[j]
  <2>1. /\ status'[j] \in {"enqueued", "retrying"} /\ UNCHANGED attempts
        /\ \A i \in Jobs \ {j} : status'[i] = status[i]
    BY <1>3 DEF ReenqueueJob, MarkFailed
  <2>2. Lifecycle!Return(j)
    BY <1>3, <2>1, Lives, LivesNext, LifeMoves DEF Lifecycle!Return
  <2> QED BY <2>2 DEF LifeNext, Lifecycle!Next
<1> QED BY <1>1, <1>2, <1>3

\* Every step of a pool without faults that owns its rows is a step of it.
LEMMA LifecycleStep ==
  ASSUME "fault" \notin Troubles, IInv, Ownership, [Next]_vars
  PROVE  LifeNext
<1> USE DEF IInv
<1>1. ASSUME NEW j \in Jobs, Submit(j) \/ Withdraw(j) \/ TimePasses(j)
      PROVE  LifeNext
  <2>1. CASE TimePasses(j)
    BY <2>1, LifeAtRest DEF TimePasses, RunAtPasses
  <2>2. CASE Submit(j)
    <3>1. /\ status[j] = "absent" /\ status'[j] \in {"enqueued", "scheduled"}
          /\ \A i \in Jobs \ {j} : status'[i] = status[i]
          /\ UNCHANGED attempts
      BY <2>2 DEF Submit, Enqueue, TypeOK, StoreTypeOK
    <3>2. Lifecycle!Submit(j)
      BY <3>1, Lives, LivesNext, LifeMoves DEF Lifecycle!Submit
    <3> QED BY <3>2 DEF LifeNext, Lifecycle!Next
  <2>3. CASE Withdraw(j)
    <3>1. /\ status[j] = "enqueued" /\ status'[j] = "deleted"
          /\ \A i \in Jobs \ {j} : status'[i] = status[i]
          /\ UNCHANGED attempts
      BY <2>3 DEF Withdraw, Cancel, TypeOK, StoreTypeOK
    <3>2. Lifecycle!Cancel(j)
      BY <3>1, Lives, LivesNext, LifeMoves DEF Lifecycle!Cancel
    <3> QED BY <3>2 DEF LifeNext, Lifecycle!Next
  <2> QED BY <1>1, <2>1, <2>2, <2>3
<1>2. ASSUME NEW w \in Workers,
             \/ Start(w) \/ Heartbeat(w) \/ BeatExpires(w) \/ Shutdown(w)
             \/ StopJoining(w) \/ Deregister(w) \/ Exit(w) \/ Crash(w)
             \/ DetectScan(w) \/ DetectDone(w) \/ \E v \in Workers : DetectPick(w, v)
      PROVE  LifeNext
  BY <1>2, LifeAtRest
  DEF Start, RegisterWorker, Heartbeat, HeartbeatRow, BeatExpires, Shutdown,
      StopJoining, Deregister, DeregisterWorker, Exit, Crash, Halt, DetectScan,
      DetectDone, MarkWorkerStopped, DetectPick, storeVars, jobVars
<1>3. ASSUME NEW w \in Workers, NEW r \in found[w], DetectJob(w, r)
      PROVE  LifeNext
  <2>1. /\ Recover(r) /\ r.job \in Jobs /\ status[r.job] = "active"
        /\ r.attempts = attempts[r.job]
        /\ attempts[r.job] \in Nat /\ MaxAttempts[r.job] \in Nat
    BY <1>3, StoreAssumption
    DEF DetectJob, Ownership, Snapshots, TypeOK, StoreTypeOK, JobSnapshot
  <2>2. CASE r.attempts >= MaxAttempts[r.job]
    BY <2>1, <2>2, HeldRowMoves DEF Recover
  <2>3. CASE ~(r.attempts >= MaxAttempts[r.job])
    <3>1. attempts[r.job] <= MaxAttempts[r.job] /\ ReenqueueJob(r.job)
      BY <2>1, <2>3 DEF Recover
    <3> QED BY <2>1, <3>1, HeldRowMoves
  <2> QED BY <2>2, <2>3
<1>4. ASSUME NEW w \in Workers, DeregisterFails(w) \/ DetectAborts(w)
      PROVE  FALSE
  BY <1>4 DEF DeregisterFails, DetectAborts, Strikes
<1>5. ASSUME NEW t \in Threads, FaultStep(t) PROVE FALSE
  BY <1>5 DEF FaultStep, FetchFails, ExpireFails, CompleteFails, WriteFails, Strikes
<1>6. ASSUME NEW t \in Threads,
             \/ Poll(t) \/ ThreadEnds(t) \/ FetchNothing(t) \/ Perform(t)
             \/ LoadFails(t) \/ PerformEnds(t) \/ PerformExits(t)
      PROVE  LifeNext
  BY <1>6, LifeAtRest
  DEF Poll, ThreadEnds, FetchNothing, Perform, LoadFails, PerformEnds, PerformExits,
      storeVars, jobVars
<1>7. ASSUME NEW t \in Threads, NEW j \in Jobs, Claim(t, j) PROVE LifeNext
  <2>1. /\ status[j] \in {"enqueued", "retrying"} /\ status'[j] = "active"
        /\ \A i \in Jobs \ {j} : status'[i] = status[i]
        /\ attempts' = [attempts EXCEPT ![j] = @ + 1]
    BY <1>7 DEF Claim, FetchNext, Eligible, TypeOK, StoreTypeOK
  <2>2. attempts[j] <= MaxAttempts[j]
    BY <2>1 DEF Ownership, WaitsWithinLimit
  <2>3. Lifecycle!Take(j)
    BY <2>1, <2>2, Lives, LivesNext, LifeMoves DEF Lifecycle!Take
  <2> QED BY <2>3 DEF LifeNext, Lifecycle!Next
<1>8. ASSUME NEW t \in Threads, Working(t),
             \/ MoveToDead(held[t]) /\ attempt[t] >= MaxAttempts[held[t]]
             \/ /\ MarkCompleted(held[t]) \/ \E b \in BOOLEAN : MarkFailed(held[t], b)
                /\ pc[t] \in {"complete", "retry", "fail"}
      PROVE  LifeNext
  <2>1. /\ held[t] \in Jobs /\ status[held[t]] = "active"
        /\ attempt[t] = attempts[held[t]]
    BY <1>8 DEF Holding, TypeOK, Ownership, Owned
  <2>2. pc[t] \in {"complete", "retry", "fail"} => attempt[t] <= MaxAttempts[held[t]]
    BY DEF ClaimInv, WithinLimit
  <2> QED BY <1>8, <2>1, <2>2, HeldRowMoves
<1>9. ASSUME NEW t \in Threads, Expire(t) PROVE LifeNext
  <2>1. Working(t) /\ Expired(t) /\ MoveToDead(held[t])
    BY <1>9 DEF Expire, Working
  <2>2. attempt[t] \in Nat /\ MaxAttempts[held[t]] \in Nat
    BY <2>1, StoreAssumption DEF Holding, TypeOK
  <2>3. attempt[t] >= MaxAttempts[held[t]]
    BY <2>1, <2>2 DEF Expired
  <2> QED BY <1>8, <2>1, <2>3
<1>10. ASSUME NEW t \in Threads, Complete(t) \/ RetryRequested(t) \/ HandleFailure(t)
       PROVE  LifeNext
  BY <1>8, <1>10
  DEF Complete, RetryRequested, RetryWrite, HandleFailure, FailureWrite, LastAttempt,
      Working
<1>11. CASE UNCHANGED vars
  BY <1>11, LifeAtRest DEF vars, storeVars, jobVars
<1> QED
  BY <1>1, <1>2, <1>3, <1>4, <1>5, <1>6, <1>7, <1>9, <1>10, <1>11
  DEF Next, StopStep, DetectStep, FetchStep, ExecuteStep

\* With any number of workers, the pool implements the documented lifecycle as
\* long as no database call fails and no two detectors handle the same dead
\* worker: done, dead and cancelled jobs stay so, and a job is run again only
\* from waiting and within its attempts.
THEOREM LifecycleWhileSoleRescuer ==
  ASSUME DeathsAreReal, "fault" \notin Troubles
  PROVE  Spec /\ []SoleRescuer => LifecycleSpec
<1>1. Init => Lifecycle!Init
  BY DEF Init, StoreInit, Lifecycle!Init, LifeOf
<1>2. IInv /\ Ownership /\ [Next]_vars => LifeNext
  BY LifecycleStep
<1> QED
  BY <1>1, <1>2, OwnershipHolds, PTL
  DEF Spec, LifecycleSpec, Lifecycle!Spec, LifeNext

\* A pair of workers whose database calls succeed implements the lifecycle.
THEOREM TwoWorkersFollowLifecycle ==
  ASSUME DeathsAreReal, TwoWorkers, "fault" \notin Troubles
  PROVE  Spec => LifecycleSpec
BY LifecycleWhileSoleRescuer, TwoWorkersSuffice, PTL

---------------------------------------------------------------------------
(* Delayed jobs *)

\* A row that has not been claimed has no attempts; one that was, or that a detector
\* has read, has.
Parked ==
  /\ \A j \in Jobs : status[j] \in {"absent", "scheduled"} => attempts[j] = 0
  /\ \A j \in Jobs : status[j] = "active" => attempts[j] >= 1
  /\ \A w \in Workers : \A r \in found[w] : r.attempts >= 1

\* What one step may do to a row: nothing, its INSERT, a claim of a row that waits,
\* or a write of a row that is neither absent nor delayed.
Parks(i) ==
  \/ UNCHANGED <<status[i], attempts[i]>>
  \/ status[i] = "absent" /\ status'[i] # "active" /\ UNCHANGED attempts[i]
  \/ /\ status[i] \in {"enqueued", "retrying"} /\ status'[i] = "active"
     /\ attempts'[i] = attempts[i] + 1
  \/ /\ status[i] \notin {"absent", "scheduled"} /\ UNCHANGED attempts[i]
     /\ status'[i] \notin {"absent", "scheduled", "active"}

\* Every write that a thread or a detector makes is of a row with an attempt.
LEMMA WritesPark ==
  ASSUME TypeOK, Parked, NEW j \in Jobs, attempts[j] >= 1,
         \/ MarkCompleted(j) \/ MoveToDead(j) \/ ReenqueueJob(j)
         \/ \E b \in BOOLEAN : MarkFailed(j, b)
  PROVE  \A i \in Jobs : Parks(i)
<1>1. status[j] \notin {"absent", "scheduled"}
  BY DEF Parked
<1> USE <1>1 DEF TypeOK, StoreTypeOK, Update, InTable, Parks
<1>2. CASE MarkCompleted(j) BY <1>2 DEF MarkCompleted
<1>3. CASE MoveToDead(j) BY <1>3 DEF MoveToDead
<1>4. CASE ReenqueueJob(j) BY <1>4 DEF ReenqueueJob
<1>5. ASSUME NEW b \in BOOLEAN, MarkFailed(j, b) PROVE \A i \in Jobs : Parks(i)
  BY <1>5 DEF MarkFailed
<1> QED BY <1>2, <1>3, <1>4, <1>5

\* Every step moves the rows that way.
LEMMA RowsPark == IInv /\ Parked /\ [Next]_vars => \A i \in Jobs : Parks(i)
<1> SUFFICES ASSUME IInv, Parked, [Next]_vars PROVE \A i \in Jobs : Parks(i)
  OBVIOUS
<1> DEFINE AllPark == \A i \in Jobs : Parks(i)
<1>0. ASSUME UNCHANGED <<status, attempts>> PROVE AllPark
  BY <1>0 DEF Parks
<1>1. ASSUME NEW j \in Jobs, Submit(j) \/ Withdraw(j) \/ TimePasses(j) PROVE AllPark
  BY <1>1 DEF Submit, Withdraw, TimePasses, Enqueue, Cancel, RunAtPasses, Parks, IInv,
              TypeOK, StoreTypeOK
<1>2. ASSUME NEW w \in Workers,
             \/ Start(w) \/ Heartbeat(w) \/ BeatExpires(w) \/ Shutdown(w) \/ StopJoining(w)
             \/ Deregister(w) \/ DeregisterFails(w) \/ Exit(w) \/ Crash(w)
             \/ DetectScan(w) \/ DetectDone(w) \/ \E v \in Workers : DetectPick(w, v)
      PROVE  AllPark
  BY <1>0, <1>2
  DEF Start, Heartbeat, BeatExpires, Shutdown, StopJoining, Deregister, DeregisterFails,
      Exit, Crash, Halt, DetectScan, DetectDone, DetectPick, RegisterWorker, HeartbeatRow,
      DeregisterWorker, MarkWorkerStopped, storeVars, jobVars
<1>3. ASSUME NEW w \in Workers, NEW r \in found[w], Recover(r) PROVE AllPark
  <2>1. /\ r.job \in Jobs /\ r.attempts \in Nat /\ r.attempts >= 1
        /\ r.attempts <= attempts[r.job] /\ attempts[r.job] \in Nat
    BY DEF IInv, TypeOK, StoreTypeOK, JobSnapshot, ClaimInv, FoundBounds, Parked
  <2>2. attempts[r.job] >= 1
    BY <2>1
  <2> QED BY <1>3, <2>1, <2>2, WritesPark DEF Recover, IInv
<1>4. ASSUME NEW w \in Workers, DetectAborts(w) \/ \E r \in found[w] : DetectJob(w, r)
      PROVE  AllPark
  <2>1. CASE \E r \in found[w] : Recover(r)
    BY <1>3, <2>1
  <2>2. CASE MarkWorkerStopped(victim[w]) \/ UNCHANGED storeVars
    BY <1>0, <2>2 DEF MarkWorkerStopped, storeVars, jobVars
  <2> QED BY <1>4, <2>1, <2>2 DEF DetectAborts, DetectJob
<1>5. ASSUME NEW w \in Workers, NEW j \in Jobs, FetchNext(w, j) PROVE AllPark
  BY <1>5 DEF FetchNext, Eligible, Parks, IInv, TypeOK, StoreTypeOK
<1>6. ASSUME NEW t \in Threads, FetchStep(t) \/ FetchFails(t) PROVE AllPark
  <2>1. HostOf[t] \in Workers
    BY PoolAssumption
  <2> QED BY <1>0, <1>5, <1>6, <2>1
          DEF FetchStep, Poll, ThreadEnds, FetchNothing, Claim, FetchFails, storeVars, jobVars
<1>7. ASSUME NEW t \in Threads, Working(t),
             \/ MoveToDead(held[t]) \/ MarkCompleted(held[t])
             \/ \E b \in BOOLEAN : MarkFailed(held[t], b)
      PROVE  AllPark
  <2>1. held[t] \in Jobs /\ attempt[t] \in 1..attempts[held[t]]
    BY <1>7 DEF IInv, Holding, TypeOK, ClaimInv, ClaimBounds
  <2>2. attempts[held[t]] \in Nat /\ attempts[held[t]] >= 1
    BY <2>1 DEF IInv, TypeOK, StoreTypeOK
  <2> QED BY <1>7, <2>1, <2>2, WritesPark DEF IInv
<1>8. ASSUME NEW t \in Threads, ExecuteStep(t) \/ ExpireFails(t) \/ CompleteFails(t)
                                \/ WriteFails(t)
      PROVE  AllPark
  BY <1>0, <1>7, <1>8
  DEF ExecuteStep, Expire, Perform, LoadFails, PerformEnds, PerformExits, Complete,
      RetryRequested, HandleFailure, ExpireFails, CompleteFails, WriteFails, RetryWrite,
      FailureWrite, Working, storeVars, jobVars
<1>9. CASE UNCHANGED vars
  BY <1>0, <1>9 DEF vars, storeVars, jobVars
<1> QED
  BY <1>1, <1>2, <1>4, <1>6, <1>8, <1>9 DEF Next, StopStep, DetectStep, FaultStep

\* Detectors read active rows only.
LEMMA FoundParked ==
  ASSUME IInv, Parked, [Next]_vars
  PROVE  \A w \in Workers : \A r \in found'[w] : r.attempts >= 1
<1> SUFFICES ASSUME NEW w \in Workers, NEW r \in found'[w] PROVE r.attempts >= 1
  OBVIOUS
<1>1. ASSUME r \in found[w] PROVE r.attempts >= 1
  BY <1>1 DEF Parked
<1>2. found \in [Workers -> SUBSET JobSnapshot]
  BY DEF IInv, TypeOK
<1>3. ASSUME NEW u \in Workers, NEW v \in Workers, DetectPick(u, v) PROVE r.attempts >= 1
  BY <1>1, <1>2, <1>3 DEF DetectPick, ActiveJobsOf, Parked
<1>4. ASSUME NEW u \in Workers, found' = [found EXCEPT ![u] = {}] PROVE r.attempts >= 1
  BY <1>1, <1>2, <1>4
<1>5. ASSUME NEW u \in Workers, NEW s, found' = [found EXCEPT ![u] = @ \ {s}]
      PROVE  r.attempts >= 1
  BY <1>1, <1>2, <1>5
<1>6. ASSUME UNCHANGED found PROVE r.attempts >= 1
  BY <1>1, <1>6
<1>7. ASSUME NEW u \in Workers,
             \/ Start(u) \/ Heartbeat(u) \/ BeatExpires(u) \/ Shutdown(u) \/ StopStep(u)
             \/ DeregisterFails(u) \/ Crash(u) \/ DetectScan(u) \/ DetectDone(u)
             \/ DetectAborts(u) \/ \E s \in found[u] : DetectJob(u, s)
      PROVE  r.attempts >= 1
  BY <1>4, <1>5, <1>6, <1>7
  DEF Start, Heartbeat, BeatExpires, Shutdown, StopStep, StopJoining, Deregister, Exit,
      DeregisterFails, Crash, Halt, DetectScan, DetectDone, DetectAborts, DetectJob,
      detectorVars
<1>8. ASSUME NEW t \in Threads, FetchStep(t) \/ ExecuteStep(t) \/ FaultStep(t)
      PROVE  r.attempts >= 1
  BY <1>6, <1>8
  DEF FetchStep, Poll, ThreadEnds, FetchNothing, Claim, ExecuteStep, Expire, Perform,
      LoadFails, PerformEnds, PerformExits, Complete, RetryRequested, HandleFailure,
      FaultStep, FetchFails, ExpireFails, CompleteFails, WriteFails, detectorVars
<1>9. ASSUME NEW j \in Jobs, Submit(j) \/ Withdraw(j) \/ TimePasses(j)
      PROVE  r.attempts >= 1
  BY <1>6, <1>9 DEF Submit, Withdraw, TimePasses, detectorVars
<1>10. CASE UNCHANGED vars
  BY <1>6, <1>10 DEF vars, detectorVars
<1> QED BY <1>3, <1>7, <1>8, <1>9, <1>10 DEF Next, DetectStep

\* Parked is inductive, given IInv.
LEMMA ParkedStep == IInv /\ Parked /\ [Next]_vars => Parked'
<1> SUFFICES ASSUME IInv, Parked, [Next]_vars PROVE Parked'
  OBVIOUS
<1>1. \A i \in Jobs : Parks(i) /\ attempts[i] \in Nat
  BY RowsPark DEF IInv, TypeOK, StoreTypeOK
<1>2. \A j \in Jobs : status'[j] \in {"absent", "scheduled"} => attempts'[j] = 0
  BY <1>1 DEF Parks, Parked
<1>3. \A j \in Jobs : status'[j] = "active" => attempts'[j] >= 1
  BY <1>1 DEF Parks, Parked
<1> QED BY <1>2, <1>3, FoundParked DEF Parked

\* A delayed job is never run, in any pool and whatever goes wrong or right in it: no
\* step, the passing of time included, takes a row out of the status scheduled in which
\* the client wrote it, and fetch_next claims no such row. (The run delayed shows the
\* same as a violation of DelayedJobsRun on one small pool.)
THEOREM DelayedJobsNeverRun ==
  Spec => /\ [][\A j \in Jobs : status[j] = "scheduled" => status'[j] = "scheduled"]_vars
          /\ [](\A j \in Jobs : status[j] = "scheduled" => ran[j] = {})
<1>1. Init => Parked
  BY DEF Init, StoreInit, Parked
<1>2. IInv /\ Parked /\ [Next]_vars =>
        [\A j \in Jobs : status[j] = "scheduled" => status'[j] = "scheduled"]_vars
  BY RowsPark DEF Parks
<1>3. IInv /\ Parked => \A j \in Jobs : status[j] = "scheduled" => ran[j] = {}
  <2> SUFFICES ASSUME IInv, Parked, NEW j \in Jobs, status[j] = "scheduled"
               PROVE  ran[j] = {}
    OBVIOUS
  <2>1. attempts[j] = 0 /\ ran[j] \subseteq 1..attempts[j]
    BY DEF Parked, IInv, ClaimInv, RanBounds
  <2> QED BY <2>1
<1> QED BY <1>1, <1>2, <1>3, ParkedStep, Invariance, PTL DEF Spec
===========================================================================
