-------------------------- MODULE DashboardProofs --------------------------
(* Proofs about Dashboard, and about WebApp, which puts the requests of an *)
(* application on top of it: for every number of jobs, workers, users and  *)
(* queues and every limit of the jobs.                                     *)
EXTENDS WebApp, FiniteSetTheorems, TLAPS

---------------------------------------------------------------------------
(* The invariant *)

Columns ==
  /\ status   \in [Jobs -> JobStatus]
  /\ attempts \in [Jobs -> Nat] /\ runs \in [Jobs -> Nat] /\ letters \in [Jobs -> Nat]
  /\ holding  \in [Workers -> Jobs \cup {None}]

\* A worker's row is active, or gone by a purge of active rows; it is nobody
\* else's; and its present claim is the one that is not an execution yet.
HeldBy(w) ==
  /\ \/ status[holding[w]] = "active"
     \/ status[holding[w]] = "deleted" /\ holding[w] \in swept
  /\ \A v \in Workers \ {w} : holding[v] # holding[w]
  /\ attempts[holding[w]] = runs[holding[w]] + 1
  /\ runs[holding[w]] <= MaxAttempts[holding[w]]
  /\ letters[holding[w]] = 0

Held == \A w \in Workers : holding[w] # None => HeldBy(w)

\* Every earlier claim has become an execution, there are no more executions than
\* the limit allows, and only a job that had them all is buried.
CountedFor(j) ==
  /\ status[j] \in {"absent", "enqueued"} => attempts[j] = 0 /\ runs[j] = 0
  /\ status[j] = "retrying" => attempts[j] = runs[j] /\ runs[j] <= MaxAttempts[j]
  /\ status[j] \notin {"dead", "deleted"} => letters[j] = 0
  /\ letters[j] > 0 => runs[j] = MaxAttempts[j]

Counted == \A j \in Jobs : CountedFor(j)

RowInv == Columns /\ Held /\ Counted

Passes == /\ todo \in [Users -> SUBSET Jobs] /\ asked \in [Users -> SUBSET Jobs]
          /\ BulkCovers

\* The dashboard starts with its rows and passes in order.
LEMMA InitInvariant == Init => RowInv /\ Passes
BY StoreAssumption
   DEF Init, StoreInit, RowInv, Columns, Held, HeldBy, Counted, CountedFor, Passes,
       BulkCovers, JobStatus

---------------------------------------------------------------------------
(* Rows *)

\* A new row has nothing of an earlier one in it.
LEMMA EnqueueKeepsRows ==
  ASSUME RowInv, NEW j \in Jobs, Enqueue(j, FALSE), UNCHANGED <<holding, runs, swept>>
  PROVE  RowInv'
<1> USE DEF RowInv, Enqueue, Columns
<1>1. Columns'
  BY DEF JobStatus
<1>2. Held'
  BY DEF Held, HeldBy
<1>3. Counted'
  BY DEF Counted, CountedFor
<1> QED BY <1>1, <1>2, <1>3

\* A row that is deleted is in nobody's hands, or purged while it is active.
LEMMA RemoveKeepsRows ==
  ASSUME RowInv, NEW gone, Remove(gone), swept \subseteq swept',
         \A j \in gone \cap Jobs : status[j] = "active" => j \in swept'
  PROVE  RowInv'
<1> USE DEF RowInv, Remove, Columns, historyVars
<1>1. Columns'
  BY DEF JobStatus
<1>2. Held'
  BY DEF Held, HeldBy
<1>3. Counted'
  BY DEF Counted, CountedFor
<1> QED BY <1>1, <1>2, <1>3

\* A row that is cancelled waits for its first attempt, in nobody's hands.
LEMMA CancelKeepsRows ==
  ASSUME RowInv, NEW j \in Jobs, CancelJob(j) PROVE RowInv'
<1> USE DEF RowInv, CancelJob, Cancel, Columns, historyVars
<1>1. Columns'
  BY DEF JobStatus
<1>2. Held' /\ Counted'
  BY DEF Held, HeldBy, Counted, CountedFor
<1> QED BY <1>1, <1>2

\* A claim takes a row that waits, so it is in no other hands.
LEMMA FetchKeepsRows ==
  ASSUME RowInv, NEW w \in Workers, NEW j \in Jobs, Fetch(w, j) PROVE RowInv'
<1> USE StoreAssumption DEF RowInv, Fetch, FetchNext, Eligible, Columns, historyVars
<1>1. Columns'
  BY DEF JobStatus
<1>2. /\ runs[j] \in Nat /\ attempts[j] \in Nat /\ MaxAttempts[j] \in Nat
      /\ status[j] \in {"enqueued", "retrying"} /\ letters[j] \in Nat
  OBVIOUS
<1>3. runs[j] <= MaxAttempts[j] /\ attempts[j] = runs[j] /\ letters[j] = 0
  BY <1>2 DEF Counted, CountedFor
<1>4. /\ attempts'[j] = runs'[j] + 1 /\ runs'[j] <= MaxAttempts[j] /\ letters'[j] = 0
      /\ status'[j] = "active"
  BY <1>2, <1>3
<1>5. \A k \in Jobs \ {j} : UNCHANGED <<status[k], attempts[k], runs[k], letters[k]>>
  OBVIOUS
<1>6. Counted'
  BY <1>4, <1>5 DEF Counted, CountedFor
<1>7. /\ holding' = [holding EXCEPT ![w] = j] /\ UNCHANGED swept
      /\ \A v \in Workers : holding[v] # j
  BY <1>2 DEF Held, HeldBy
<1>8. Held'
  <2> SUFFICES ASSUME NEW v \in Workers, holding'[v] # None PROVE HeldBy(v)'
    BY DEF Held
  <2>1. \A x \in Workers \ {v} : holding'[x] # holding'[v]
    BY <1>7 DEF Held, HeldBy
  <2>2. CASE v = w
    BY <1>4, <1>7, <2>1, <2>2 DEF HeldBy
  <2>3. CASE v # w
    <3>1. holding'[v] = holding[v] /\ holding[v] \in Jobs \ {j} /\ HeldBy(v)
      BY <1>7, <2>3 DEF Held, HeldBy
    <3> QED BY <1>5, <1>7, <2>1, <3>1 DEF HeldBy
  <2> QED BY <2>2, <2>3
<1> QED BY <1>1, <1>6, <1>8

\* An execution ends with its job waiting below or at the limit, completed, or
\* dead at the limit.
LEMMA WorkKeepsRows ==
  ASSUME RowInv, NEW w \in Workers,
         Expire(w) \/ Succeed(w) \/ Fail(w) \/ AskRetry(w)
  PROVE  RowInv'
<1>a. holding[w] \in Jobs
  <2>1. holding[w] # None
    BY DEF Expire, Succeed, Fail, AskRetry, Ends
  <2> QED BY <2>1 DEF RowInv, Columns
<1> PICK j \in Jobs : j = holding[w]
  BY <1>a
<1>1. /\ holding[w] = j /\ MaxAttempts[j] \in Nat /\ MaxAttempts[j] > 0
      /\ attempts[j] \in Nat /\ runs[j] \in Nat /\ letters[j] = 0
      /\ attempts[j] = runs[j] + 1 /\ runs[j] <= MaxAttempts[j]
      /\ status[j] \in {"active", "deleted"}
  <2>1. holding[w] # None
    BY DEF Expire, Succeed, Fail, AskRetry, Ends
  <2>2. MaxAttempts[j] \in Nat /\ MaxAttempts[j] > 0 /\ attempts[j] \in Nat
        /\ runs[j] \in Nat
    BY StoreAssumption DEF RowInv, Columns
  <2> QED BY <2>1, <2>2 DEF RowInv, Held, HeldBy
<1>2. /\ UNCHANGED <<attempts, swept>>
      /\ holding' = [holding EXCEPT ![w] = None]
  BY DEF Expire, Succeed, Fail, AskRetry, Ends, MoveToDead, MarkFailed, MarkCompleted
\* How far the executions are, and what is written of it.
<1>3. \/ /\ UNCHANGED letters /\ attempts[j] <= MaxAttempts[j]
         /\ runs' = [runs EXCEPT ![j] = @ + 1]
         /\ \/ status[j] = "active" /\ status' = [status EXCEPT ![j] = "completed"]
            \/ status[j] = "active" /\ status' = [status EXCEPT ![j] = "retrying"]
            \/ status[j] = "deleted" /\ status' = status
      \/ /\ \/ attempts[j] = MaxAttempts[j] /\ runs' = [runs EXCEPT ![j] = @ + 1]
            \/ attempts[j] = MaxAttempts[j] + 1 /\ runs' = runs
         /\ \/ /\ status[j] = "active" /\ status' = [status EXCEPT ![j] = "dead"]
               /\ letters' = [letters EXCEPT ![j] = @ + 1]
            \/ /\ status[j] = "deleted" /\ status' = status
               /\ letters' = letters \/ letters' = [letters EXCEPT ![j] = @ + 1]
  <2>1. CASE Expire(w)
    <3>1. attempts[j] = MaxAttempts[j] + 1 /\ runs' = runs /\ MoveToDead(j)
      BY <1>1, <2>1 DEF Expire, Ends, WithinLimit
    <3> QED BY <1>1, <3>1 DEF MoveToDead, Update, InTable
  <2>2. CASE Succeed(w) \/ AskRetry(w)
    <3>1. /\ attempts[j] <= MaxAttempts[j] /\ runs' = [runs EXCEPT ![j] = @ + 1]
          /\ MarkCompleted(j) \/ MarkFailed(j, TRUE)
      BY <1>1, <2>2 DEF Succeed, AskRetry, Ends, WithinLimit
    <3> QED BY <1>1, <3>1 DEF MarkCompleted, MarkFailed, Update, InTable
  <2>3. CASE Fail(w)
    <3>1. /\ attempts[j] <= MaxAttempts[j] /\ runs' = [runs EXCEPT ![j] = @ + 1]
          /\ \/ attempts[j] = MaxAttempts[j] /\ MoveToDead(j)
             \/ MarkFailed(j, TRUE)
      <4>1. /\ attempts[j] <= MaxAttempts[j] /\ runs' = [runs EXCEPT ![j] = @ + 1]
            /\ IF attempts[j] >= MaxAttempts[j] THEN MoveToDead(j)
                                                ELSE MarkFailed(j, TRUE)
        BY <1>1, <2>3 DEF Fail, Ends, WithinLimit
      <4>2. CASE attempts[j] >= MaxAttempts[j]
        <5>1. attempts[j] = MaxAttempts[j]
          BY <1>1, <4>1, <4>2
        <5> QED BY <4>1, <4>2, <5>1
      <4>3. CASE ~(attempts[j] >= MaxAttempts[j])
        BY <4>1, <4>3
      <4> QED BY <4>2, <4>3
    <3>2. CASE MoveToDead(j)
      <4>1. attempts[j] = MaxAttempts[j] \/ MarkFailed(j, TRUE)
        BY <3>1
      <4> QED BY <1>1, <3>1, <3>2, <4>1 DEF MoveToDead, MarkFailed, Update, InTable
    <3>3. CASE MarkFailed(j, TRUE)
      BY <1>1, <3>1, <3>3 DEF MarkFailed, Update, InTable
    <3> QED BY <3>1, <3>2, <3>3
  <2> QED BY <2>1, <2>2, <2>3
<1>4. \A v \in Workers \ {w} : holding[v] # None => holding[v] # j
  BY <1>1 DEF RowInv, Columns, Held, HeldBy
<1>5. /\ UNCHANGED attempts
      /\ runs' = runs \/ runs' = [runs EXCEPT ![j] = @ + 1]
      /\ letters' = letters \/ letters' = [letters EXCEPT ![j] = @ + 1]
      /\ \/ status' = status
         \/ \E s \in {"completed", "retrying", "dead"} :
              status' = [status EXCEPT ![j] = s]
  BY <1>2, <1>3
<1>6. Columns'
  BY <1>1, <1>2, <1>5 DEF RowInv, Columns, JobStatus
<1>7. \A k \in Jobs \ {j} :
        UNCHANGED <<status[k], attempts[k], runs[k], letters[k]>>
  BY <1>1, <1>5 DEF RowInv, Columns
<1>8. Held'
  <2> SUFFICES ASSUME NEW v \in Workers, holding'[v] # None
               PROVE  HeldBy(v)'
    BY DEF Held
  <2>1. /\ v # w /\ holding'[v] = holding[v] /\ holding[v] \in Jobs \ {j}
        /\ \A x \in Workers : holding'[x] = holding[x] \/ holding'[x] = None
    BY <1>2, <1>4 DEF RowInv, Columns
  <2> QED BY <1>2, <1>7, <2>1 DEF RowInv, Held, HeldBy
<1>9. Counted'
  <2>1. \A k \in Jobs \ {j} : CountedFor(k)'
    BY <1>7 DEF RowInv, Counted, CountedFor
  <2>2. CountedFor(j)'
    <3>1. CASE UNCHANGED letters
      <4>1. letters'[j] = 0
        BY <1>1, <3>1
      <4>2. status'[j] = "retrying" =>
              attempts'[j] = runs'[j] /\ runs'[j] <= MaxAttempts[j]
        <5> SUFFICES ASSUME status'[j] = "retrying"
                     PROVE  attempts'[j] = runs'[j] /\ runs'[j] <= MaxAttempts[j]
          OBVIOUS
        <5>1. attempts[j] <= MaxAttempts[j] /\ runs' = [runs EXCEPT ![j] = @ + 1]
          BY <1>1, <1>3 DEF RowInv, Columns
        <5>2. attempts'[j] = attempts[j] /\ runs'[j] = runs[j] + 1
          BY <1>1, <1>2, <5>1 DEF RowInv, Columns
        <5> QED BY <1>1, <5>1, <5>2
      <4>3. status'[j] \notin {"absent", "enqueued"}
        BY <1>1, <1>3 DEF RowInv, Columns
      <4> QED BY <4>1, <4>2, <4>3 DEF CountedFor
    <3>2. CASE letters' # letters
      <4>1. status'[j] \in {"dead", "deleted"}
        BY <1>1, <1>3, <3>2 DEF RowInv, Columns
      <4>2. runs'[j] = MaxAttempts[j]
        <5>1. \/ attempts[j] = MaxAttempts[j] /\ runs' = [runs EXCEPT ![j] = @ + 1]
              \/ attempts[j] = MaxAttempts[j] + 1 /\ runs' = runs
          BY <1>3, <3>2
        <5>2. runs'[j] \in {runs[j], runs[j] + 1}
              /\ (attempts[j] = MaxAttempts[j] => runs'[j] = runs[j] + 1)
              /\ (attempts[j] # MaxAttempts[j] => runs'[j] = runs[j])
          BY <1>1, <5>1 DEF RowInv, Columns
        <5> QED BY <1>1, <5>1, <5>2
      <4> QED BY <4>1, <4>2 DEF CountedFor
    <3> QED BY <3>1, <3>2
  <2> QED BY <2>1, <2>2 DEF Counted, CountedFor
<1> QED BY <1>6, <1>8, <1>9 DEF RowInv

---------------------------------------------------------------------------
(* Steps *)

\* Every step keeps the rows as they should be.
LEMMA RowStep == RowInv /\ [Next]_vars => RowInv'
<1> SUFFICES ASSUME RowInv, [Next]_vars PROVE RowInv'
  OBVIOUS
<1>1. ASSUME UNCHANGED <<status, attempts, letters, runs, holding, swept>> PROVE RowInv'
  BY <1>1 DEF RowInv, Columns, Held, HeldBy, Counted, CountedFor
<1>2. ASSUME NEW j \in Jobs, Submit(j) \/ TriggerSchedule(j)
      PROVE  RowInv'
  BY <1>2, EnqueueKeepsRows DEF Submit, TriggerSchedule, historyVars
<1>3. ASSUME NEW l \in Jobs, NEW j \in Jobs, Resurrect(l, j) PROVE RowInv'
  BY <1>3, EnqueueKeepsRows DEF Resurrect
<1>4. ASSUME NEW u \in Users, Request(u) PROVE RowInv'
  <2>1. CASE BulkRead(u)
    BY <1>1, <2>1 DEF BulkRead, storeVars, jobVars, historyVars
  <2>2. ASSUME NEW l \in todo[u], BulkRaises(u, l) PROVE RowInv'
    BY <1>1, <2>2 DEF BulkRaises, storeVars, jobVars, historyVars
  <2>3. ASSUME NEW l \in todo[u], NEW j \in Jobs,
               BulkResurrect(u, l, j) \/ BulkRaisesLate(u, l, j)
        PROVE  RowInv'
    BY <1>3, <2>3 DEF BulkResurrect, BulkRaisesLate, Resurrect, Letters
  <2> QED BY <1>4, <2>1, <2>2, <2>3 DEF Request
<1>5. ASSUME NEW rows \in SUBSET Jobs, PurgeLetters(rows) PROVE RowInv'
  BY <1>1, <1>5 DEF PurgeLetters, storeVars, jobVars, historyVars
<1>6. ASSUME NEW rows \in SUBSET Jobs, PurgeJobs(rows) PROVE RowInv'
  <2>1. /\ Remove(rows) /\ swept \subseteq swept'
        /\ \A j \in rows \cap Jobs : status[j] = "active" => j \in swept'
    BY <1>6 DEF PurgeJobs
  <2> QED BY <2>1, RemoveKeepsRows
<1>7. ASSUME NEW q \in Queues, ClearQueue(q) PROVE RowInv'
  BY <1>7, RemoveKeepsRows DEF ClearQueue
<1>8. ASSUME NEW q \in Queues, PauseQueue(q) \/ ResumeQueue(q) PROVE RowInv'
  BY <1>1, <1>8 DEF PauseQueue, ResumeQueue, storeVars, jobVars, historyVars
<1>9. ASSUME NEW w \in Workers, Work(w) PROVE RowInv'
  BY <1>9, FetchKeepsRows, WorkKeepsRows DEF Work
<1>10. ASSUME UNCHANGED vars PROVE RowInv'
  BY <1>1, <1>10 DEF vars, storeVars, jobVars, historyVars
<1> QED
  BY <1>2, <1>3, <1>4, <1>5, <1>6, <1>7, <1>8, <1>9, <1>10, CancelKeepsRows
     DEF Next, ResurrectOne

\* A letter leaves todo only with its mark set or its exception logged.
LEMMA PassStep == Passes /\ [Next]_vars => Passes'
<1> SUFFICES ASSUME Passes, [Next]_vars PROVE Passes'
  OBVIOUS
<1>1. ASSUME UNCHANGED bulkVars, resurrected \subseteq resurrected' PROVE Passes'
  BY <1>1 DEF Passes, BulkCovers, bulkVars
<1>2. ASSUME NEW u \in Users, Request(u) PROVE Passes'
  <2>1. CASE BulkRead(u)
    BY <2>1 DEF BulkRead, Passes, BulkCovers, Letters, letterVars
  <2>2. ASSUME NEW l \in todo[u], BulkRaises(u, l) PROVE Passes'
    BY <2>2 DEF BulkRaises, Passes, BulkCovers, letterVars
  <2>3. ASSUME NEW l \in todo[u], NEW j \in Jobs,
               BulkResurrect(u, l, j) \/ BulkRaisesLate(u, l, j)
        PROVE  Passes'
    BY <2>3 DEF BulkResurrect, BulkRaisesLate, Resurrect, Passes, BulkCovers
  <2> QED BY <1>2, <2>1, <2>2, <2>3 DEF Request
<1>3. ASSUME NEW j \in Jobs,
             Submit(j) \/ TriggerSchedule(j) \/ CancelJob(j)
      PROVE  Passes'
  BY <1>1, <1>3 DEF Submit, TriggerSchedule, CancelJob, letterVars
<1>4. ASSUME NEW l \in Jobs, NEW j \in Jobs, ResurrectOne(l, j) PROVE Passes'
  BY <1>1, <1>4 DEF ResurrectOne, Resurrect
<1>5. ASSUME NEW rows \in SUBSET Jobs, PurgeLetters(rows) \/ PurgeJobs(rows) PROVE Passes'
  BY <1>1, <1>5 DEF PurgeLetters, PurgeJobs, Remove, letterVars
<1>6. ASSUME NEW q \in Queues, ClearQueue(q) \/ PauseQueue(q) \/ ResumeQueue(q)
      PROVE  Passes'
  BY <1>1, <1>6 DEF ClearQueue, PauseQueue, ResumeQueue, Remove, letterVars
<1>7. ASSUME NEW w \in Workers, Work(w) PROVE Passes'
  BY <1>1, <1>7 DEF Work, Fetch, Expire, Succeed, Fail, AskRetry, Ends, letterVars
<1>8. ASSUME UNCHANGED vars PROVE Passes'
  BY <1>1, <1>8 DEF vars, letterVars
<1> QED BY <1>2, <1>3, <1>4, <1>5, <1>6, <1>7, <1>8 DEF Next

---------------------------------------------------------------------------
(* The theorems *)

\* The rows and the passes of bulk_resurrect are in order in every state.
THEOREM DashboardInvariance == Spec => [](RowInv /\ Passes)
<1>1. RowInv /\ Passes /\ [Next]_vars => (RowInv /\ Passes)'
  BY RowStep, PassStep
<1> QED BY InitInvariant, <1>1, PTL DEF Spec

\* cancel and clear_queue never take a row that a worker executes (actions.py): only
\* purge --status active does (commands.py), and such a row is remembered as swept.
THEOREM HeldRowsAreSafe == Spec => []HeldRowsStay
<1>1. RowInv => HeldRowsStay
  BY DEF RowInv, Held, HeldBy, HeldRowsStay, InTable
<1> QED BY <1>1, DashboardInvariance, PTL

\* A job that leaves a letter, resurrected or not and purged under its worker or not,
\* has had all its executions.
THEOREM BurialsAreEarned == Spec => []FullAttempts
<1>1. RowInv => FullAttempts
  BY DEF RowInv, Counted, CountedFor, FullAttempts
<1> QED BY <1>1, DashboardInvariance, PTL

\* bulk_resurrect passes over no letter.
THEOREM BulkIsComplete == Spec => []BulkCovers
<1>1. Passes => BulkCovers
  BY DEF Passes
<1> QED BY <1>1, DashboardInvariance, PTL

---------------------------------------------------------------------------
(* Types *)

\* The statements the dashboard and its workers make on cj_jobs are typed.
LEMMA StatementsTyped ==
  ASSUME StoreTypeOK, NEW j \in Jobs,
         \/ Enqueue(j, FALSE) \/ Cancel(j) \/ MarkCompleted(j) \/ MarkFailed(j, TRUE)
         \/ MoveToDead(j) \/ \E w \in Workers : FetchNext(w, j)
  PROVE  StoreTypeOK'
<1> USE DEF StoreTypeOK, JobStatus, registryVars, Update
<1>1. CASE Enqueue(j, FALSE) BY <1>1 DEF Enqueue
<1>2. CASE Cancel(j) BY <1>2 DEF Cancel
<1>3. CASE MarkCompleted(j) BY <1>3 DEF MarkCompleted
<1>4. CASE MarkFailed(j, TRUE) BY <1>4 DEF MarkFailed
<1>5. CASE MoveToDead(j) BY <1>5 DEF MoveToDead
<1>6. CASE \E w \in Workers : FetchNext(w, j) BY <1>6 DEF FetchNext
<1> QED BY <1>1, <1>2, <1>3, <1>4, <1>5, <1>6

\* What leaves the store alone keeps it typed.
LEMMA StoreAtRest == ASSUME StoreTypeOK, UNCHANGED storeVars PROVE StoreTypeOK'
BY DEF StoreTypeOK, storeVars, jobVars, registryVars

\* ClearQueue and PurgeJobs only write "deleted" and remember active rows.
LEMMA RemoveTyped ==
  ASSUME TypeOK, NEW gone, Remove(gone), swept' \subseteq Jobs PROVE TypeOK'
<1>1. StoreTypeOK'
  BY DEF TypeOK, Remove, StoreTypeOK, JobStatus, registryVars
<1> QED BY <1>1 DEF TypeOK, Remove, letterVars, bulkVars

\* Every step keeps every variable in its type.
LEMMA TypeStep == TypeOK /\ [Next]_vars => TypeOK'
<1> SUFFICES ASSUME TypeOK, [Next]_vars PROVE TypeOK'
  OBVIOUS
<1> USE DEF TypeOK, letterVars, bulkVars, historyVars
<1>1. ASSUME NEW j \in Jobs,
             Submit(j) \/ TriggerSchedule(j) \/ CancelJob(j)
      PROVE  TypeOK'
  <2>1. StoreTypeOK'
    BY <1>1, StatementsTyped DEF Submit, TriggerSchedule, CancelJob
  <2> QED BY <1>1, <2>1 DEF Submit, TriggerSchedule, CancelJob
<1>2. ASSUME NEW l \in Jobs, NEW j \in Jobs, Resurrect(l, j)
      PROVE  /\ StoreTypeOK' /\ paused' = paused /\ purged' = purged /\ runs' = runs
             /\ holding' = holding /\ resurrected' \subseteq Jobs
             /\ swept' = swept /\ origin' \in [Jobs -> Jobs \cup {None}]
  <2>1. StoreTypeOK'
    BY <1>2, StatementsTyped DEF Resurrect
  <2> QED BY <1>2, <2>1 DEF Resurrect
<1>3. ASSUME NEW l \in Jobs, NEW j \in Jobs, ResurrectOne(l, j) PROVE TypeOK'
  BY <1>2, <1>3 DEF ResurrectOne
<1>4. ASSUME NEW u \in Users, Request(u) PROVE TypeOK'
  <2>1. CASE BulkRead(u)
    BY <2>1, StoreAtRest DEF BulkRead, Letters
  <2>2. ASSUME NEW l \in todo[u], BulkRaises(u, l) PROVE TypeOK'
    BY <2>2, StoreAtRest DEF BulkRaises
  <2>3. ASSUME NEW l \in todo[u], NEW j \in Jobs,
               BulkResurrect(u, l, j) \/ BulkRaisesLate(u, l, j)
        PROVE  TypeOK'
    BY <1>2, <2>3 DEF BulkResurrect, BulkRaisesLate
  <2> QED BY <1>4, <2>1, <2>2, <2>3 DEF Request
<1>5. ASSUME NEW rows \in SUBSET Jobs, PurgeLetters(rows) \/ PurgeJobs(rows) PROVE TypeOK'
  BY <1>5, RemoveTyped, StoreAtRest DEF PurgeLetters, PurgeJobs
<1>6. ASSUME NEW q \in Queues, ClearQueue(q) \/ PauseQueue(q) \/ ResumeQueue(q)
      PROVE  TypeOK'
  BY <1>6, RemoveTyped, StoreAtRest DEF ClearQueue, PauseQueue, ResumeQueue
<1>7. ASSUME NEW w \in Workers, Work(w) PROVE TypeOK'
  <2>1. ASSUME NEW j \in Jobs, Fetch(w, j) PROVE TypeOK'
    BY <2>1, StatementsTyped DEF Fetch
  <2>2. CASE Expire(w) \/ Succeed(w) \/ Fail(w) \/ AskRetry(w)
    <3>1. holding[w] \in Jobs
      BY <2>2 DEF Expire, Succeed, Fail, AskRetry, Ends
    <3>2. StoreTypeOK'
      BY <2>2, <3>1, StatementsTyped DEF Expire, Succeed, Fail, AskRetry
    <3>3. /\ holding' = [holding EXCEPT ![w] = None]
          /\ runs' = runs \/ runs' = [runs EXCEPT ![holding[w]] = @ + 1]
          /\ UNCHANGED <<paused, letterVars, bulkVars, origin, single, swept>>
      BY <2>2 DEF Expire, Succeed, Fail, AskRetry, Ends
    <3>4. runs' \in [Jobs -> Nat]
      BY <3>1, <3>3
    <3> QED BY <3>2, <3>3, <3>4
  <2> QED BY <1>7, <2>1, <2>2 DEF Work
<1>8. CASE UNCHANGED vars
  BY <1>8, StoreAtRest DEF vars
<1> QED BY <1>1, <1>3, <1>4, <1>5, <1>6, <1>7, <1>8 DEF Next

---------------------------------------------------------------------------
(* What a letter gives rise to *)

\* A request whose pass has still to come to letter l ...
Pending(l, u) == u \in Users /\ l \in todo[u]

\* ... and a job that some pass has made of it.
Made(l, j) == j \in Jobs /\ origin[j] = l /\ j \notin single

\* As long as no two passes had l before them, one request at most may still make a
\* job of it, none may once there is one, and l is marked from then on.
OnceFor(l) ==
  /\ \A u, v \in Users : Pending(l, u) /\ Pending(l, v) => u = v
  /\ \A u \in Users, j \in Jobs : ~(Pending(l, u) /\ Made(l, j))
  /\ \A j \in Jobs : Made(l, j) => l \in resurrected
  /\ \A j, k \in Jobs : Made(l, j) /\ Made(l, k) => j = k

Once == \A l \in Jobs \ shared : OnceFor(l)

\* A subset of a finite set, one element more, one element less.
LEMMA Subsets ==
  ASSUME NEW S, NEW T, IsFiniteSet(T), S \subseteq T
  PROVE  /\ IsFiniteSet(S) /\ Cardinality(S) \in Nat /\ Cardinality(T) \in Nat
         /\ Cardinality(S) <= Cardinality(T)
BY FS_Subset, FS_CardinalityType

\* No step makes a letter give rise to two jobs.
LEMMA OnceStep ==
  ASSUME TypeOK, Once, [Next]_vars PROVE Once'
<1> USE DEF Once
<1>1. ASSUME UNCHANGED <<origin, single, shared>>, resurrected \subseteq resurrected',
             \A u \in Users : todo'[u] \subseteq todo[u]
      PROVE  Once'
  BY <1>1 DEF OnceFor, Made, Pending
<1>2. ASSUME NEW l \in Jobs, NEW j \in Jobs, ResurrectOne(l, j) PROVE Once'
  <2>1. /\ resurrected \subseteq resurrected' /\ UNCHANGED <<todo, shared>>
        /\ single' = single \cup {j} /\ origin' = [origin EXCEPT ![j] = l]
    BY <1>2 DEF ResurrectOne, Resurrect, bulkVars
  <2>2. \A k, i \in Jobs : Made(k, i)' => Made(k, i)
    BY <2>1 DEF Made, TypeOK
  <2>3. \A k \in Jobs, u \in Users : Pending(k, u)' = Pending(k, u)
    BY <2>1 DEF Pending
  <2> QED BY <2>1, <2>2, <2>3 DEF OnceFor
<1>3. ASSUME NEW u \in Users, BulkRead(u) PROVE Once'
  <2>1. /\ todo' = [todo EXCEPT ![u] = Letters \ resurrected]
        /\ shared' = shared \cup
             ((Letters \ resurrected) \cap UNION {todo[v] : v \in Users})
        /\ UNCHANGED <<resurrected, origin, single>>
    BY <1>3 DEF BulkRead, letterVars, historyVars
  <2> SUFFICES ASSUME NEW l \in Jobs \ shared' PROVE OnceFor(l)'
    OBVIOUS
  <2>2. OnceFor(l) /\ \A i \in Jobs : Made(l, i)' = Made(l, i)
    BY <2>1 DEF Made
  <2>3. CASE l \in Letters \ resurrected
    <3>1. \A v \in Users : ~Pending(l, v)
      BY <2>1, <2>3 DEF Pending
    <3>2. \A v \in Users : Pending(l, v)' => v = u
      BY <2>1, <3>1 DEF Pending, TypeOK
    <3> QED BY <2>1, <2>2, <2>3, <3>2 DEF OnceFor
  <2>4. CASE l \notin Letters \ resurrected
    <3>1. \A v \in Users : Pending(l, v)' => Pending(l, v)
      BY <2>1, <2>4 DEF Pending, TypeOK
    <3> QED BY <2>1, <2>2, <3>1 DEF OnceFor
  <2> QED BY <2>3, <2>4
<1>4. ASSUME NEW u \in Users, NEW l \in todo[u], BulkRaises(u, l) PROVE Once'
  <2>1. /\ todo' = [todo EXCEPT ![u] = @ \ {l}]
        /\ UNCHANGED <<resurrected, origin, single, shared>>
    BY <1>4 DEF BulkRaises, letterVars, historyVars
  <2>2. \A v \in Users : todo'[v] \subseteq todo[v]
    BY <2>1 DEF TypeOK
  <2> QED BY <1>1, <2>1, <2>2
<1>5. ASSUME NEW u \in Users, NEW l \in todo[u], NEW j \in Jobs,
             BulkResurrect(u, l, j) \/ BulkRaisesLate(u, l, j)
      PROVE  Once'
  <2>1. /\ l \in Jobs /\ todo' = [todo EXCEPT ![u] = @ \ {l}]
        /\ resurrected' = resurrected \cup {l}
        /\ single' = single /\ origin' = [origin EXCEPT ![j] = l] /\ shared' = shared
    BY <1>5 DEF BulkResurrect, BulkRaisesLate, Resurrect, TypeOK
  <2> SUFFICES ASSUME NEW k \in Jobs \ shared PROVE OnceFor(k)'
    BY <2>1
  <2>2. OnceFor(k)
    OBVIOUS
  <2>3. CASE k # l
    <3>1. /\ \A i \in Jobs : Made(k, i)' => Made(k, i)
          /\ \A v \in Users : Pending(k, v)' = Pending(k, v)
      BY <2>1, <2>3 DEF Made, Pending, TypeOK
    <3> QED BY <2>1, <2>2, <3>1 DEF OnceFor
  <2>4. CASE k = l
    <3>1. Pending(l, u) /\ \A v \in Users : ~Pending(l, v)'
      BY <2>1, <2>2, <2>4 DEF Pending, OnceFor, TypeOK
    <3>2. \A i \in Jobs : Made(l, i)' => i = j
      BY <2>1, <2>2, <2>4, <3>1 DEF OnceFor, Made, TypeOK
    <3> QED BY <2>1, <2>4, <3>1, <3>2 DEF OnceFor
  <2> QED BY <2>3, <2>4
<1>6. ASSUME NEW j \in Jobs,
             Submit(j) \/ TriggerSchedule(j) \/ CancelJob(j)
      PROVE  Once'
  BY <1>1, <1>6 DEF Submit, TriggerSchedule, CancelJob, letterVars,
                    bulkVars, historyVars
<1>7. ASSUME NEW rows \in SUBSET Jobs, PurgeLetters(rows) \/ PurgeJobs(rows) PROVE Once'
  BY <1>1, <1>7 DEF PurgeLetters, PurgeJobs, Remove, letterVars, bulkVars, historyVars
<1>8. ASSUME NEW q \in Queues, ClearQueue(q) \/ PauseQueue(q) \/ ResumeQueue(q)
      PROVE  Once'
  BY <1>1, <1>8 DEF ClearQueue, PauseQueue, ResumeQueue, Remove, letterVars, bulkVars,
                    historyVars
<1>9. ASSUME NEW w \in Workers, Work(w) PROVE Once'
  BY <1>1, <1>9 DEF Work, Fetch, Expire, Succeed, Fail, AskRetry, Ends, letterVars,
                    bulkVars, historyVars
<1>10. CASE UNCHANGED vars
  BY <1>1, <1>10 DEF vars, letterVars, bulkVars, historyVars
<1> QED
  BY <1>2, <1>3, <1>4, <1>5, <1>6, <1>7, <1>8, <1>9, <1>10 DEF Next, Request

\* The constants and the initial values are typed, and no step takes a column, a
\* mark or a pass of bulk_resurrect out of its type: every statement of the
\* drivers writes one of the six statuses and counts claims in naturals.
THEOREM TypeCorrect == Spec => []TypeOK
<1>1. Init => TypeOK
  BY DEF Init, StoreInit, TypeOK, StoreTypeOK, JobStatus
<1> QED BY <1>1, TypeStep, PTL DEF Spec

\* Repeating bulk_resurrect does not repeat jobs (actions.py, bulk_resurrect), for any
\* number of users, letters and passes and whatever raises before or after its
\* commit: a letter gets a second job from passes only when one of them read it while
\* another still had it before it, which the code does not exclude.  A pass that reads
\* later sees resurrected_at; one that had read before, the letter is `shared` by.
THEOREM BulkResurrectsOnce == Spec => []BulkOnce
<1>1. Init => Once
  BY StoreAssumption DEF Init, Once, OnceFor, Made, Pending
<1>2. TypeOK /\ Once /\ [Next]_vars => Once'
  BY OnceStep
<1>3. Once => BulkOnce
  BY DEF Once, OnceFor, Made, BulkOnce
<1> QED BY <1>1, <1>2, <1>3, TypeCorrect, PTL DEF Spec

---------------------------------------------------------------------------
(* The web application and its tables *)

\* The one change to the tables that an application makes and Dashboard does not.
Postpone(j) ==
  /\ Enqueue(j, TRUE)
  /\ UNCHANGED <<paused, letterVars, holding, bulkVars, historyVars>>

\* What a request, or a worker beside the application, does to the tables.
TableStep ==
  \/ \E j \in Jobs : Postpone(j) \/ Submit(j) \/ TriggerSchedule(j) \/ CancelJob(j)
  \/ \E l, j \in Jobs : ResurrectOne(l, j)
  \/ \E u \in Users : Request(u)
  \/ \E q \in Queues : ClearQueue(q) \/ PauseQueue(q) \/ ResumeQueue(q)
  \/ \E w \in Workers : Work(w)
  \/ UNCHANGED vars

\* Every request is an operation of the dashboard, a delayed job, or no change of
\* the tables at all.
LEMMA VisitSteps == ASSUME NEW u \in Users, Visit(u) PROVE TableStep
<1> USE DEF TableStep
<1>1. CASE Raises(u) \/ TellCount(u) \/ GetDead(u)
  BY <1>1 DEF Raises, TellCount, GetDead
<1>2. CASE GetOverview(u) \/ GetThroughput(u) \/ GetErrorRate(u) \/ OverviewRaises(u)
  BY <1>2 DEF GetOverview, GetThroughput, GetErrorRate, OverviewReads, OverviewRaises
<1>3. CASE PostResurrectAll(u)
  BY <1>3 DEF PostResurrectAll, Request
<1>4. ASSUME NEW j \in Jobs, NEW delayed \in BOOLEAN, EnqueueJob(u, j, delayed)
      PROVE  TableStep
  <2>1. CASE delayed = TRUE
    BY <1>4, <2>1 DEF EnqueueJob, Postpone
  <2>2. CASE delayed = FALSE
    BY <1>4, <2>2 DEF EnqueueJob, Submit
  <2> QED BY <2>1, <2>2
<1>5. ASSUME NEW j \in Jobs, PostCancel(u, j) \/ PostTrigger(u, j) PROVE TableStep
  BY <1>5 DEF PostCancel, PostTrigger
<1>6. ASSUME NEW l \in Jobs, Counts(u, l) PROVE TableStep
  BY <1>6 DEF Counts, Request, BulkResurrect, BulkRaises, BulkRaisesLate
<1>7. ASSUME NEW l \in Jobs, NEW j \in Jobs, PostResurrect(u, l, j) PROVE TableStep
  BY <1>7 DEF PostResurrect
<1>8. ASSUME NEW q \in Queues, PostQueue(u, q) PROVE TableStep
  BY <1>8 DEF PostQueue
<1> QED BY <1>1, <1>2, <1>3, <1>4, <1>5, <1>6, <1>7, <1>8 DEF Visit

\* Every step of the application, too, is such a step or a purge.
LEMMA SiteSteps ==
  ASSUME [SiteNext]_allVars
  PROVE  TableStep \/ \E rows \in SUBSET Jobs : Purge(rows)
<1>1. ASSUME UNCHANGED vars PROVE TableStep
  BY <1>1 DEF TableStep
<1>2. ASSUME NEW w \in Workers, WorkBeside(w) PROVE TableStep
  BY <1>2 DEF WorkBeside, TableStep
<1> QED BY <1>1, <1>2, VisitSteps DEF SiteNext, InitApp, Shutdown, Age, allVars

\* What is proved of the steps of Dashboard carries over.
LEMMA StepsOfNext ==
  TableStep \/ (\E rows \in SUBSET Jobs : Purge(rows))
    => [Next]_vars \/ \E j \in Jobs : Postpone(j)
BY DEF TableStep, Purge, Next

\* The tables of the application.
Tables ==
  /\ TypeOK /\ RowInv /\ Passes
  /\ \A j \in Jobs : status[j] = "dead" => letters[j] > 0

\* The tables are in order at the start.
LEMMA TablesInit == Init => Tables
<1>1. Init => TypeOK
  BY DEF Init, StoreInit, TypeOK, StoreTypeOK, JobStatus
<1> QED BY <1>1, InitInvariant DEF Tables, Init, StoreInit

\* A delayed job does not break what the dashboard keeps, and a burial leaves its
\* letter.
LEMMA TablesStep ==
  ASSUME Tables, [Next]_vars \/ \E j \in Jobs : Postpone(j) PROVE Tables'
<1>1. ASSUME NEW j \in Jobs, Postpone(j) PROVE Tables'
  <2> USE <1>1 DEF Postpone, Enqueue, letterVars, bulkVars, historyVars, registryVars
  <2>1. TypeOK'
    <3>1. StoreTypeOK'
      BY DEF Tables, TypeOK, StoreTypeOK, JobStatus
    <3> QED BY <3>1 DEF Tables, TypeOK
  <2>2. Columns'
    BY DEF Tables, RowInv, Columns, JobStatus
  <2>3. Held' /\ Counted'
    BY DEF Tables, RowInv, Columns, Held, HeldBy, Counted, CountedFor
  <2>4. Passes'
    BY DEF Tables, Passes, BulkCovers
  <2>5. \A k \in Jobs : status'[k] = "dead" => letters'[k] > 0
    BY DEF Tables, TypeOK, StoreTypeOK
  <2> QED BY <2>1, <2>2, <2>3, <2>4, <2>5 DEF Tables, RowInv
<1>2. CASE [Next]_vars
  <2>1. TypeOK' /\ RowInv' /\ Passes'
    BY <1>2, TypeStep, RowStep, PassStep DEF Tables
  <2> SUFFICES ASSUME NEW k \in Jobs, status'[k] = "dead" PROVE letters'[k] > 0
    BY <2>1 DEF Tables
  <2>2. /\ status \in [Jobs -> JobStatus] /\ letters \in [Jobs -> Nat]
        /\ status[k] = "dead" => letters[k] > 0
    BY DEF Tables, TypeOK, StoreTypeOK
  <2>3. ASSUME UNCHANGED letters, status[k] = "dead" PROVE letters'[k] > 0
    BY <2>2, <2>3
  <2>4. ASSUME NEW j \in Jobs,
               Submit(j) \/ TriggerSchedule(j) \/ CancelJob(j)
        PROVE  letters'[k] > 0
    BY <2>2, <2>3, <2>4
       DEF Submit, TriggerSchedule, CancelJob, Enqueue, Cancel
  <2>5. ASSUME NEW l, NEW j \in Jobs, Resurrect(l, j) PROVE letters'[k] > 0
    BY <2>2, <2>3, <2>5 DEF Resurrect, Enqueue
  <2>6. ASSUME NEW u \in Users, Request(u) PROVE letters'[k] > 0
    BY <2>3, <2>5, <2>6 DEF Request, BulkRead, BulkRaises, BulkRaisesLate,
                            BulkResurrect, storeVars, jobVars
  <2>7. ASSUME NEW rows \in SUBSET Jobs, PurgeLetters(rows) PROVE letters'[k] > 0
    BY <2>3, <2>7 DEF PurgeLetters, storeVars, jobVars
  <2>8. ASSUME NEW gone, Remove(gone) PROVE letters'[k] > 0
    BY <2>2, <2>3, <2>8 DEF Remove
  <2>9. ASSUME NEW q \in Queues, PauseQueue(q) \/ ResumeQueue(q) PROVE letters'[k] > 0
    BY <2>3, <2>9 DEF PauseQueue, ResumeQueue, storeVars, jobVars
  <2>10. ASSUME NEW w \in Workers, Work(w) PROVE letters'[k] > 0
    <3>1. ASSUME NEW j \in Jobs, Fetch(w, j) PROVE letters'[k] > 0
      BY <2>2, <2>3, <3>1 DEF Fetch, FetchNext
    <3>2. ASSUME NEW j \in Jobs, status[j] \in {"active", "deleted"},
                 MarkCompleted(j) \/ MarkFailed(j, TRUE) \/ MoveToDead(j)
          PROVE  letters'[k] > 0
      BY <2>2, <2>3, <3>2 DEF MarkCompleted, MarkFailed, MoveToDead, Update, InTable
    <3>3. holding[w] # None =>
            holding[w] \in Jobs /\ status[holding[w]] \in {"active", "deleted"}
      BY DEF Tables, RowInv, Columns, Held, HeldBy
    <3> QED
      BY <2>10, <3>1, <3>2, <3>3 DEF Work, Expire, Succeed, Fail, AskRetry, Ends
  <2>11. CASE UNCHANGED vars
    BY <2>3, <2>11 DEF vars, storeVars, jobVars
  <2> QED
    BY <1>2, <2>4, <2>5, <2>6, <2>7, <2>8, <2>9, <2>10, <2>11
       DEF Next, ResurrectOne, PurgeJobs, ClearQueue
<1> QED BY <1>1, <1>2

---------------------------------------------------------------------------
(* What lasts *)

\* A row that exists keeps its number and its origin, a recently completed one stays,
\* one that has outlived the windows stays such a one, and marks and logged
\* exceptions are not taken back.
Lasting ==
  /\ \A j \in Jobs : status[j] # "absent" =>
       status'[j] # "absent" /\ origin'[j] = origin[j]
  /\ \A j \in Completed \ old : status'[j] = "completed"
  /\ Outlived \subseteq Outlived'
  /\ resurrected \subseteq resurrected' /\ raised \subseteq raised'

\* No step of anybody takes back what lasts.
LEMMA StepsLast == ASSUME SiteTypeOK, Tables, [SiteNext]_allVars PROVE Lasting
<1>0. /\ status \in [Jobs -> JobStatus] /\ origin \in [Jobs -> Jobs \cup {None}]
  BY DEF Tables, TypeOK, StoreTypeOK
<1>1. \A j \in Jobs : status[j] \in {"completed", "deleted"} /\ j \in old => j \in old'
  <2>1. old \subseteq old' \/ \E w \in Workers : WorkBeside(w)
    <3>1. ASSUME NEW u \in Users, Visit(u) PROVE UNCHANGED old
      BY <3>1 DEF Visit, Raises, PostResurrectAll, TellCount, GetDead, GetOverview,
                  GetThroughput, GetErrorRate, OverviewReads, OverviewRaises, EnqueueJob,
                  PostCancel, PostTrigger, Counts, PostResurrect, PostQueue, Replies
    <3> QED BY <3>1 DEF SiteNext, InitApp, Shutdown, Age, Purge, siteVars, allVars
  <2>2. ASSUME NEW w \in Workers, WorkBeside(w)
        PROVE  \A j \in Jobs : status[j] \in {"completed", "deleted"}
                                  => status'[j] = status[j]
    <3>1. ASSUME NEW j \in Jobs, Fetch(w, j)
          PROVE  \A k \in Jobs : status[k] \in {"completed", "deleted"}
                                    => status'[k] = status[k]
      BY <1>0, <3>1 DEF Fetch, FetchNext, Eligible
    <3>2. ASSUME Expire(w) \/ Succeed(w) \/ Fail(w) \/ AskRetry(w)
          PROVE  \A k \in Jobs : status[k] \in {"completed", "deleted"}
                                    => status'[k] = status[k]
      <4>1. holding[w] \in Jobs /\ status[holding[w]] \in {"active", "deleted"}
        BY <3>2 DEF Tables, RowInv, Columns, Held, HeldBy, Expire, Succeed, Fail,
                    AskRetry, Ends
      <4> QED BY <1>0, <3>2, <4>1 DEF Expire, Succeed, Fail, AskRetry, MoveToDead,
                                      MarkFailed, MarkCompleted, Update, InTable
    <3> QED BY <2>2, <3>1, <3>2 DEF WorkBeside, Work
  <2> QED BY <2>1, <2>2 DEF WorkBeside
<1> DEFINE Rest == /\ \A j \in Jobs : status[j] # "absent" =>
                         status'[j] # "absent" /\ origin'[j] = origin[j]
                   /\ \A j \in Completed \ old : status'[j] = "completed"
                   /\ \A j \in Jobs : status[j] \in {"completed", "deleted"} =>
                         status'[j] \in {"completed", "deleted"}
                   /\ resurrected \subseteq resurrected' /\ raised \subseteq raised'
<1>2. SUFFICES Rest
  <2>1. old \subseteq Jobs
    BY DEF SiteTypeOK
  <2> QED BY <1>1, <2>1 DEF Lasting, Outlived
<1> USE DEF Completed
<1>3. ASSUME UNCHANGED <<status, origin, resurrected, raised>> PROVE Rest
  BY <1>3
<1>4. ASSUME NEW j \in Jobs, Postpone(j) \/ Submit(j) \/ TriggerSchedule(j) PROVE Rest
  BY <1>0, <1>4 DEF Postpone, Submit, TriggerSchedule, Enqueue, letterVars, bulkVars,
                    historyVars
<1>5. ASSUME NEW l, NEW j \in Jobs, Resurrect(l, j), raised \subseteq raised'
      PROVE  Rest
  BY <1>0, <1>5 DEF Resurrect, Enqueue
<1>6. ASSUME NEW u \in Users, Request(u) PROVE Rest
  <2>1. CASE BulkRead(u) \/ \E l \in todo[u] : BulkRaises(u, l)
    BY <1>3, <2>1 DEF BulkRead, BulkRaises, storeVars, jobVars, letterVars, historyVars
  <2>2. ASSUME NEW l \in todo[u], NEW j \in Jobs,
               BulkResurrect(u, l, j) \/ BulkRaisesLate(u, l, j)
        PROVE  Rest
    BY <1>5, <2>2 DEF BulkResurrect, BulkRaisesLate
  <2>3. CASE \E l \in todo[u] : BulkRaises(u, l)
    BY <2>1, <2>3
  <2> QED BY <1>6, <2>1, <2>2, <2>3 DEF Request
<1>7. ASSUME NEW gone, Remove(gone), \A j \in gone : status[j] # "absent",
             gone \cap (Completed \ old) = {}
      PROVE  Rest
  BY <1>0, <1>7 DEF Remove, letterVars, bulkVars
<1>8. ASSUME NEW j \in Jobs, CancelJob(j) PROVE Rest
  BY <1>0, <1>8 DEF CancelJob, Cancel, letterVars, bulkVars, historyVars
<1>9. ASSUME NEW q \in Queues, ClearQueue(q) \/ PauseQueue(q) \/ ResumeQueue(q)
      PROVE  Rest
  <2>1. CASE ClearQueue(q)
    BY <1>7, <2>1 DEF ClearQueue
  <2>2. CASE PauseQueue(q) \/ ResumeQueue(q)
    BY <1>3, <2>2 DEF PauseQueue, ResumeQueue, storeVars, jobVars, letterVars, bulkVars,
                      historyVars
  <2> QED BY <1>9, <2>1, <2>2
<1>10. ASSUME NEW w \in Workers, Work(w) PROVE Rest
  <2>1. ASSUME NEW j \in Jobs, NEW s \in {"active", "completed", "retrying", "dead"},
               status[j] \in {"enqueued", "retrying", "active"},
               status' = [status EXCEPT ![j] = s],
               UNCHANGED <<origin, resurrected, raised>>
        PROVE  Rest
    BY <1>0, <2>1
  <2>2. ASSUME NEW j \in Jobs, Fetch(w, j) PROVE Rest
    BY <2>1, <2>2 DEF Fetch, FetchNext, Eligible, letterVars, bulkVars, historyVars
  <2>3. CASE Expire(w) \/ Succeed(w) \/ Fail(w) \/ AskRetry(w)
    <3>1. holding[w] \in Jobs /\ status[holding[w]] \in {"active", "deleted"}
      BY <2>3 DEF Tables, RowInv, Columns, Held, HeldBy, Expire, Succeed, Fail, AskRetry,
                  Ends
    <3>2. UNCHANGED <<origin, resurrected, raised>>
      BY <2>3 DEF Expire, Succeed, Fail, AskRetry, Ends, letterVars, bulkVars
    <3>3. \/ status' = status
          \/ /\ status[holding[w]] = "active"
             /\ \E s \in {"completed", "retrying", "dead"} :
                  status' = [status EXCEPT ![holding[w]] = s]
      BY <2>3, <3>1 DEF Expire, Succeed, Fail, AskRetry, MoveToDead, MarkFailed,
                        MarkCompleted, Update, InTable
    <3> QED BY <1>3, <2>1, <3>1, <3>2, <3>3
  <2> QED BY <1>10, <2>2, <2>3 DEF Work
<1>11. ASSUME NEW rows \in SUBSET Jobs, Purge(rows) PROVE Rest
  <2>1. CASE PurgeLetters(rows)
    BY <1>3, <2>1 DEF PurgeLetters, storeVars, jobVars, bulkVars, historyVars
  <2>2. CASE rows \subseteq old /\ PurgeJobs(rows)
    BY <1>7, <2>2 DEF PurgeJobs
  <2> QED BY <1>11, <2>1, <2>2 DEF Purge
<1>12. CASE UNCHANGED vars
  BY <1>3, <1>12 DEF vars, storeVars, jobVars, letterVars, bulkVars, historyVars
<1>13. ASSUME NEW l \in Jobs, NEW j \in Jobs, ResurrectOne(l, j) PROVE Rest
  BY <1>5, <1>13 DEF ResurrectOne, bulkVars
<1> HIDE DEF Rest
<1> QED
  BY <1>4, <1>6, <1>8, <1>9, <1>10, <1>11, <1>12, <1>13, SiteSteps DEF TableStep

\* What belongs to one user.
Own(u) == <<answer[u], request[u], done[u], stats[u], page[u], asked[u], todo[u]>>

\* A request of one user leaves alone what another one waits for and was told.
LEMMA Apart ==
  ASSUME SiteTypeOK, NEW u \in Users, NEW v \in Users \ {u}, Visit(v)
  PROVE  UNCHANGED Own(u)
<1> USE DEF SiteTypeOK, TypeOK, Own
<1>1. CASE Raises(v) \/ TellCount(v) \/ GetDead(v)
  BY <1>1 DEF Raises, TellCount, GetDead, vars, bulkVars
<1>2. CASE GetOverview(v) \/ GetThroughput(v) \/ GetErrorRate(v) \/ OverviewRaises(v)
  BY <1>2 DEF GetOverview, GetThroughput, GetErrorRate, OverviewReads, OverviewRaises,
              vars, bulkVars
<1>3. CASE PostResurrectAll(v)
  BY <1>3 DEF PostResurrectAll, BulkRead
<1>4. ASSUME NEW message, Replies(v, message), UNCHANGED bulkVars
      PROVE  UNCHANGED Own(u)
  BY <1>4 DEF Replies, bulkVars
<1>5. ASSUME NEW j \in Jobs, NEW delayed \in BOOLEAN, EnqueueJob(v, j, delayed)
      PROVE  UNCHANGED Own(u)
  BY <1>4, <1>5 DEF EnqueueJob
<1>6. ASSUME NEW j \in Jobs, PostCancel(v, j) \/ PostTrigger(v, j)
      PROVE  UNCHANGED Own(u)
  BY <1>4, <1>6 DEF PostCancel, PostTrigger, CancelJob, TriggerSchedule, vars
<1>7. ASSUME NEW l \in Jobs, Counts(v, l)
      PROVE  UNCHANGED Own(u)
  BY <1>7 DEF Counts, BulkResurrect, BulkRaises, BulkRaisesLate
<1>8. ASSUME NEW l \in Jobs, NEW j \in Jobs, PostResurrect(v, l, j)
      PROVE  UNCHANGED Own(u)
  BY <1>4, <1>8 DEF PostResurrect, ResurrectOne
<1>9. ASSUME NEW q \in Queues, PostQueue(v, q)
      PROVE  UNCHANGED Own(u)
  BY <1>4, <1>9 DEF PostQueue, PauseQueue, ResumeQueue, ClearQueue, Remove, vars
<1> QED BY <1>1, <1>2, <1>3, <1>5, <1>6, <1>7, <1>8, <1>9 DEF Visit

---------------------------------------------------------------------------
(* The types of the application *)

\* The smaller set has no more members.
LEMMA Fewer ==
  ASSUME IsFiniteSet(Jobs), NEW T \in SUBSET Jobs, NEW S \in SUBSET T
  PROVE  /\ Cardinality(S) \in Nat /\ Cardinality(T) \in Nat
         /\ Cardinality(S) <= Cardinality(T)
<1>1. IsFiniteSet(T)
  BY Subsets
<1> QED BY <1>1, Subsets

\* The application starts typed.
LEMMA SiteInitTyped == SiteInit => SiteTypeOK
<1>1. Init => TypeOK
  BY DEF Init, StoreInit, TypeOK, StoreTypeOK, JobStatus
<1>2. SiteInit => \A u \in Users : stats[u] = <<>>
  BY DEF SiteInit
<1> QED
  BY <1>1, WebAssumption DEF SiteInit, SiteTypeOK, Messages, Nothing, Answer

\* Every step keeps the application typed.
LEMMA SiteTypeStep ==
  ASSUME IsFiniteSet(Jobs), SiteTypeOK, TypeOK', [SiteNext]_allVars PROVE SiteTypeOK'
<1> USE DEF SiteTypeOK
<1>1. ASSUME NEW u \in Users, NEW m \in {"raised", "done", "enqueued", "cancelled",
                                        "re-enqueued", "count"},
             NEW j \in Jobs \cup {None}, NEW l \in Jobs \cup {None}, NEW n \in Nat
      PROVE  [answer EXCEPT ![u] = Answer(m, j, l, n)]
               \in [Users -> [said : Messages, job : Jobs \cup {None},
                              letter : Jobs \cup {None}, count : Nat]]
  BY DEF Answer, Messages
<1>2. ASSUME NEW u \in Users, NEW m \in {"done", "enqueued", "cancelled", "re-enqueued"},
             NEW j \in Jobs \cup {None}, NEW l \in Jobs \cup {None},
             Visits(u), Replies(u, Answer(m, j, l, 0))
      PROVE  SiteTypeOK'
  <2>1. \/ answer' = [answer EXCEPT ![u] = Answer(m, j, l, 0)]
        \/ answer' = [answer EXCEPT ![u] = Answer("raised", None, None, 0)]
    BY <1>2 DEF Replies
  <2>2. answer' \in [Users -> [said : Messages, job : Jobs \cup {None},
                               letter : Jobs \cup {None}, count : Nat]]
    <3>1. CASE answer' = [answer EXCEPT ![u] = Answer(m, j, l, 0)]
      BY <1>1, <3>1
    <3>2. CASE answer' = [answer EXCEPT ![u] = Answer("raised", None, None, 0)]
      BY <1>1, <3>2
    <3> QED BY <2>1, <3>1, <3>2
  <2>3. visits' \in 0..MaxVisits
    BY <1>2, WebAssumption DEF Visits
  <2> QED BY <1>2, <2>2, <2>3 DEF Replies
<1>3. ASSUME NEW u \in Users, NEW n \in Seq(Nat), OverviewReads(u, n),
             visits' \in 0..MaxVisits
      PROVE  SiteTypeOK'
  BY <1>3 DEF OverviewReads
<1>4. \A S \in SUBSET Jobs : Cardinality(S) \in Nat
  BY Fewer
<1>5. ASSUME NEW u \in Users, Visit(u) PROVE SiteTypeOK'
  <2>1. ASSUME Visits(u) PROVE visits' \in 0..MaxVisits
    BY <2>1, WebAssumption DEF Visits
  <2>2. CASE Raises(u)
    BY <1>1, <2>1, <2>2 DEF Raises
  <2>3. CASE PostResurrectAll(u)
    BY <2>1, <2>3 DEF PostResurrectAll, Nothing, Answer, Messages
  <2>4. CASE TellCount(u)
    BY <1>1, <2>4 DEF TellCount
  <2>5. CASE GetDead(u)
    <3>1. ASSUME NEW rows \in FirstPage PROVE rows \in SUBSET Jobs
      BY DEF FirstPage, Letters
    <3> QED BY <2>1, <2>5, <3>1 DEF GetDead
  <2>6. CASE GetOverview(u)
    <3>1. <<Cardinality(Completed)>> \in Seq(Nat)
      BY <1>4 DEF Completed
    <3> QED BY <1>3, <2>1, <2>6, <3>1 DEF GetOverview
  <2>7. CASE GetThroughput(u)
    <3>1. Append(stats[u], Cardinality(RecentlyCompleted)) \in Seq(Nat)
      BY <1>4 DEF Completed, RecentlyCompleted
    <3> QED BY <1>3, <2>7, <3>1 DEF GetThroughput
  <2>8. CASE GetErrorRate(u)
    <3>1. Append(stats[u], Cardinality(RecentlyUpdated)) \in Seq(Nat)
      BY <1>4 DEF RecentlyUpdated
    <3> QED BY <1>3, <2>8, <3>1 DEF GetErrorRate
  <2>9. CASE OverviewRaises(u)
    <3>1. /\ answer' \in [Users -> [said : Messages, job : Jobs \cup {None},
                                   letter : Jobs \cup {None}, count : Nat]]
          /\ stats' = [stats EXCEPT ![u] = <<>>]
          /\ request' = [request EXCEPT ![u] = "none"]
          /\ UNCHANGED <<vars, app, done, page, old, visits>>
      BY <1>1, <2>9 DEF OverviewRaises
    <3>2. stats' \in [Users -> Seq(Nat)]
      BY <3>1
    <3> QED BY <3>1, <3>2
  <2>10. ASSUME NEW j \in Jobs, NEW delayed \in BOOLEAN, EnqueueJob(u, j, delayed)
         PROVE  SiteTypeOK'
    BY <1>2, <2>10 DEF EnqueueJob
  <2>11. ASSUME NEW j \in Jobs, PostCancel(u, j) \/ PostTrigger(u, j) PROVE SiteTypeOK'
    BY <1>2, <2>11 DEF PostCancel, PostTrigger
  <2>12. ASSUME NEW l \in Jobs, Counts(u, l) PROVE SiteTypeOK'
    BY <2>12 DEF Counts
  <2>13. ASSUME NEW l \in Jobs, NEW j \in Jobs, PostResurrect(u, l, j) PROVE SiteTypeOK'
    BY <1>2, <2>13 DEF PostResurrect
  <2>14. ASSUME NEW q \in Queues, PostQueue(u, q) PROVE SiteTypeOK'
    BY <1>2, <2>14 DEF PostQueue
  <2> QED
    BY <1>5, <2>2, <2>3, <2>4, <2>5, <2>6, <2>7, <2>8, <2>9, <2>10, <2>11, <2>12, <2>13,
       <2>14 DEF Visit
<1>6. ASSUME UNCHANGED siteVars PROVE SiteTypeOK'
  BY <1>6 DEF siteVars
<1>7. CASE Shutdown \/ \E enabled \in BOOLEAN : InitApp(enabled)
  BY <1>7 DEF Shutdown, InitApp
<1>8. ASSUME NEW j \in Jobs, Age(j) PROVE SiteTypeOK'
  BY <1>8 DEF Age
<1>9. ASSUME NEW w \in Workers, WorkBeside(w) PROVE SiteTypeOK'
  <2>1. old' \subseteq Jobs
    BY <1>9 DEF WorkBeside
  <2> QED BY <1>9, <2>1 DEF WorkBeside
<1> QED
  BY <1>5, <1>6, <1>7, <1>8, <1>9 DEF SiteNext, Purge, allVars

\* The application and its tables.
Site == SiteTypeOK /\ Tables

\* The variables of the application are typed and its tables are in order, with the
\* requests of any number of users, the workers and the purges interleaved.
THEOREM SiteInvariance == ASSUME IsFiniteSet(Jobs) PROVE SiteSpec => []Site
<1>1. SiteInit => Site
  BY SiteInitTyped, TablesInit DEF Site, SiteInit
<1>2. Site /\ [SiteNext]_allVars => Site'
  <2> SUFFICES ASSUME Site, [SiteNext]_allVars PROVE Site'
    OBVIOUS
  <2>1. Tables'
    BY SiteSteps, StepsOfNext, TablesStep DEF Site
  <2> QED BY <2>1, SiteTypeStep DEF Site, Tables
<1> QED BY <1>1, <1>2, PTL DEF SiteSpec

---------------------------------------------------------------------------
(* What a user is told *)

\* The letters that the pass of a user has come to.
Come(u) == asked[u] \ todo[u]

\* While a pass runs its count is between the letters that cannot have raised and
\* those that are marked; otherwise there is no count.
PassCounts(u) ==
  /\ todo[u] \subseteq asked[u]
  /\ request[u] # "bulk" => done[u] = 0
  /\ request[u] = "bulk" =>
       /\ answer[u].said = "nothing"
       /\ Cardinality(Come(u) \ raised) <= done[u]
       /\ done[u] <= Cardinality(Come(u) \cap resurrected)

\* AnswersHold for one user; the message names a job.
Truthful(u) == LET a == answer[u] IN
  /\ a.said \in {"enqueued", "re-enqueued"} => a.job \in Jobs
  /\ a.said = "enqueued"    => status[a.job] # "absent"
  /\ a.said = "re-enqueued" => /\ status[a.job] # "absent"
                               /\ origin[a.job] = a.letter
                               /\ a.letter \in resurrected
  /\ a.said = "count" => /\ a.count >= Cardinality(asked[u] \ raised)
                         /\ a.count <= Cardinality(asked[u] \cap resurrected)

Told(u) == Truthful(u) /\ PassCounts(u)

\* The steps of others leave an answer true and a count within its bounds.
LEMMA ToldKept ==
  ASSUME IsFiniteSet(Jobs), NEW u \in Users, Site, Told(u), Lasting,
         UNCHANGED <<answer[u], request[u], done[u], asked[u], todo[u]>>
  PROVE  Told(u)'
<1> DEFINE a == answer[u]
<1>0. asked[u] \subseteq Jobs /\ a.count \in Nat /\ done[u] \in Nat
  BY DEF Site, SiteTypeOK, TypeOK
<1>1. ASSUME NEW S \in SUBSET Jobs
      PROVE  /\ Cardinality(S \ raised) \in Nat /\ Cardinality(S \ raised') \in Nat
             /\ Cardinality(S \cap resurrected) \in Nat
             /\ Cardinality(S \cap resurrected') \in Nat
             /\ Cardinality(S \ raised') <= Cardinality(S \ raised)
             /\ Cardinality(S \cap resurrected) <= Cardinality(S \cap resurrected')
  <2>1. /\ S \ raised \in SUBSET Jobs /\ S \ raised' \in SUBSET (S \ raised)
        /\ S \cap resurrected' \in SUBSET Jobs
        /\ S \cap resurrected \in SUBSET (S \cap resurrected')
    BY DEF Lasting
  <2> QED BY <2>1, Fewer
<1>2. Truthful(u)'
  <2>1. /\ Cardinality(asked[u] \ raised) \in Nat
        /\ Cardinality(asked[u] \ raised') \in Nat
        /\ Cardinality(asked[u] \cap resurrected) \in Nat
        /\ Cardinality(asked[u] \cap resurrected') \in Nat
        /\ Cardinality(asked[u] \ raised') <= Cardinality(asked[u] \ raised)
        /\ Cardinality(asked[u] \cap resurrected)
             <= Cardinality(asked[u] \cap resurrected')
    BY <1>0, <1>1
  <2>2. a.said = "count" => /\ a.count >= Cardinality(asked[u] \ raised')
                            /\ a.count <= Cardinality(asked[u] \cap resurrected')
    BY <1>0, <2>1 DEF Told, Truthful
  <2> QED BY <2>2 DEF Told, Truthful, Lasting
<1>3. PassCounts(u)'
  <2>1. Come(u)' = Come(u) /\ Come(u) \subseteq Jobs
    BY <1>0 DEF Come
  <2>2. /\ Cardinality(Come(u) \ raised) \in Nat
        /\ Cardinality(Come(u) \ raised') \in Nat
        /\ Cardinality(Come(u) \cap resurrected) \in Nat
        /\ Cardinality(Come(u) \cap resurrected') \in Nat
        /\ Cardinality(Come(u) \ raised') <= Cardinality(Come(u) \ raised)
        /\ Cardinality(Come(u) \cap resurrected)
             <= Cardinality(Come(u) \cap resurrected')
    BY <1>1, <2>1
  <2>3. request[u] = "bulk" =>
          /\ Cardinality(Come(u) \ raised') <= done[u]
          /\ done[u] <= Cardinality(Come(u) \cap resurrected')
    BY <1>0, <2>2 DEF Told, PassCounts
  <2> QED BY <2>1, <2>3 DEF Told, PassCounts
<1> QED BY <1>2, <1>3 DEF Told

\* The reply to a request that is one transaction is true when it is made.
LEMMA ToldAnew ==
  ASSUME NEW u \in Users, Told(u), request[u] = "none", Truthful(u)',
         UNCHANGED <<request[u], done[u], asked[u], todo[u]>>
  PROVE  Told(u)'
BY DEF Told, PassCounts

\* One letter of a pass: resurrected and counted, or logged and not.
LEMMA CountsTold ==
  ASSUME IsFiniteSet(Jobs), NEW u \in Users, Site, Told(u), NEW l \in Jobs, Counts(u, l)
  PROVE  Told(u)'
<1> DEFINE C == Come(u)
<1>0. /\ asked \in [Users -> SUBSET Jobs] /\ todo \in [Users -> SUBSET Jobs]
      /\ done \in [Users -> Nat] /\ todo[u] \subseteq asked[u] /\ C \subseteq Jobs
  BY DEF Site, SiteTypeOK, TypeOK, Told, PassCounts, Come
<1>1. /\ l \in todo[u] /\ todo' = [todo EXCEPT ![u] = @ \ {l}] /\ UNCHANGED asked
      /\ request[u] = "bulk" /\ UNCHANGED <<request, answer>>
      /\ \/ /\ resurrected' = resurrected \cup {l} /\ UNCHANGED raised
            /\ done'[u] = done[u] + 1
         \/ /\ raised' = raised \cup {l} /\ UNCHANGED done
            /\ resurrected \subseteq resurrected'
  BY <1>0 DEF Counts, BulkResurrect, BulkRaises, BulkRaisesLate, Resurrect, letterVars
<1>2. l \notin C /\ l \in asked[u] /\ Come(u)' = C \cup {l}
  BY <1>0, <1>1 DEF Come
<1>3. /\ Cardinality(C \ raised) <= done[u] /\ done[u] <= Cardinality(C \cap resurrected)
      /\ answer[u].said = "nothing"
  BY <1>1 DEF Told, PassCounts
<1>4. /\ IsFiniteSet(C \ raised) /\ IsFiniteSet(C \cap resurrected)
      /\ Cardinality(C \ raised) \in Nat /\ Cardinality(C \cap resurrected) \in Nat
  <2>1. C \ raised \subseteq Jobs /\ C \cap resurrected \subseteq Jobs
    BY <1>0
  <2> QED BY <2>1, Subsets
<1> HIDE DEF C
<1>5. /\ Cardinality(Come(u)' \ raised') <= done'[u]
      /\ done'[u] <= Cardinality(Come(u)' \cap resurrected')
  <2>1. CASE /\ resurrected' = resurrected \cup {l} /\ UNCHANGED raised
             /\ done'[u] = done[u] + 1
    <3>1. Come(u)' \cap resurrected' = (C \cap resurrected) \cup {l}
      BY <1>2, <2>1
    <3>2. Cardinality(Come(u)' \cap resurrected') = Cardinality(C \cap resurrected) + 1
      BY <1>2, <1>4, <3>1, FS_AddElement
    <3>3. Come(u)' \ raised' \subseteq (C \ raised) \cup {l}
      BY <1>2, <2>1
    <3>4. /\ IsFiniteSet((C \ raised) \cup {l})
          /\ Cardinality((C \ raised) \cup {l}) = Cardinality(C \ raised) + 1
      BY <1>2, <1>4, FS_AddElement
    <3>5. /\ Cardinality(Come(u)' \ raised') \in Nat
          /\ Cardinality(Come(u)' \ raised') <= Cardinality((C \ raised) \cup {l})
      BY <3>3, <3>4, Subsets
    <3> QED BY <1>0, <1>3, <1>4, <2>1, <3>2, <3>4, <3>5
  <2>2. CASE /\ raised' = raised \cup {l} /\ UNCHANGED done
             /\ resurrected \subseteq resurrected'
    <3>1. Come(u)' \ raised' \subseteq C \ raised
      BY <1>2, <2>2
    <3>2. /\ Cardinality(Come(u)' \ raised') \in Nat
          /\ Cardinality(Come(u)' \ raised') <= Cardinality(C \ raised)
      BY <1>4, <3>1, Subsets
    <3>3. /\ C \cap resurrected \subseteq Come(u)' \cap resurrected'
          /\ Come(u)' \subseteq Jobs
      BY <1>0, <1>2, <2>2
    <3>4. /\ Cardinality(Come(u)' \cap resurrected') \in Nat
          /\ Cardinality(C \cap resurrected) <= Cardinality(Come(u)' \cap resurrected')
      <4>1. Come(u)' \cap resurrected' \in SUBSET Jobs
        BY <3>3
      <4> QED BY <3>3, <4>1, Fewer
    <3> QED BY <1>0, <1>3, <1>4, <2>2, <3>2, <3>4
  <2> QED BY <1>1, <2>1, <2>2
<1>6. Truthful(u)'
  BY <1>1, <1>3 DEF Truthful
<1>7. todo'[u] \subseteq asked'[u]
  BY <1>0, <1>1
<1> QED BY <1>1, <1>3, <1>5, <1>6, <1>7 DEF Told, PassCounts

\* A request leaves its own user with a true answer, or none.
LEMMA VisitTold ==
  ASSUME IsFiniteSet(Jobs), NEW u \in Users, Site, Told(u), Lasting, Visit(u)
  PROVE  Told(u)'
<1>0. /\ asked \in [Users -> SUBSET Jobs] /\ todo \in [Users -> SUBSET Jobs]
      /\ done \in [Users -> Nat] /\ origin \in [Jobs -> Jobs \cup {None}]
      /\ DOMAIN answer = Users /\ DOMAIN request = Users
      /\ status \in [Jobs -> JobStatus]
  BY DEF Site, SiteTypeOK, TypeOK, StoreTypeOK
<1>1. ASSUME request[u] = "none", UNCHANGED <<request[u], done[u], asked[u], todo[u]>>,
             answer'[u] = Answer("raised", None, None, 0)
      PROVE  Told(u)'
  <2>1. Truthful(u)'
    BY <1>1 DEF Truthful, Answer
  <2> QED BY <1>1, <2>1, ToldAnew
<1>2. ASSUME NEW m, Visits(u), Replies(u, m), UNCHANGED bulkVars,
             answer'[u] = m => Truthful(u)'
      PROVE  Told(u)'
  <2>1. answer'[u] = m \/ answer'[u] = Answer("raised", None, None, 0)
    BY <1>0, <1>2 DEF Replies
  <2>2. request[u] = "none" /\ UNCHANGED <<request[u], done[u], asked[u], todo[u]>>
    BY <1>2 DEF Visits, Replies, bulkVars
  <2> QED BY <1>1, <1>2, <2>1, <2>2, ToldAnew
<1>3. CASE Raises(u)
  BY <1>0, <1>1, <1>3 DEF Raises, Visits, vars, bulkVars
<1>4. CASE PostResurrectAll(u)
  <2>1. /\ asked'[u] = todo'[u] /\ answer'[u] = Nothing /\ request'[u] = "bulk"
        /\ done'[u] = 0
    BY <1>0, <1>4 DEF PostResurrectAll, BulkRead, Visits, Told, PassCounts
  <2>2. Cardinality(Come(u)' \ raised') = 0 /\ Cardinality(Come(u)' \cap resurrected') = 0
    <3>1. Come(u)' \ raised' = {} /\ Come(u)' \cap resurrected' = {}
      BY <2>1 DEF Come
    <3> QED BY <3>1, FS_EmptySet
  <2> QED BY <2>1, <2>2 DEF Told, Truthful, PassCounts, Nothing, Answer
<1>5. CASE TellCount(u)
  <2>1. /\ todo[u] = {} /\ request[u] = "bulk" /\ request'[u] = "none" /\ done'[u] = 0
        /\ answer'[u] = Answer("count", None, None, done[u])
        /\ UNCHANGED <<todo, asked, raised, resurrected>>
    BY <1>0, <1>5 DEF TellCount, vars, bulkVars, letterVars
  <2>2. Come(u) = asked[u]
    BY <2>1 DEF Come
  <2>3. /\ Cardinality(asked[u] \ raised) <= done[u] /\ done[u] \in Nat
        /\ done[u] <= Cardinality(asked[u] \cap resurrected)
        /\ Cardinality(asked[u] \ raised) \in Nat
    <3>1. asked[u] \in SUBSET Jobs /\ asked[u] \ raised \in SUBSET asked[u]
      BY <1>0
    <3> QED BY <1>0, <2>1, <2>2, <3>1, Fewer DEF Told, PassCounts
  <2>4. Truthful(u)'
    BY <2>1, <2>3 DEF Truthful, Answer
  <2> QED BY <2>1, <2>4 DEF Told, PassCounts
<1>6. CASE GetDead(u)
  BY <1>6, ToldKept DEF GetDead, vars, bulkVars
<1>7. ASSUME NEW n, OverviewReads(u, n), request[u] \in {"none", "overview"}
      PROVE  Told(u)'
  <2>1. /\ UNCHANGED <<answer, done, asked, todo, raised, resurrected, status, origin>>
        /\ request'[u] \in {"none", "overview"}
    BY <1>0, <1>7 DEF OverviewReads, vars, bulkVars, letterVars, storeVars, jobVars,
                      historyVars
  <2> QED BY <1>7, <2>1 DEF Told, Truthful, PassCounts
<1>8. CASE GetOverview(u) \/ GetThroughput(u) \/ GetErrorRate(u)
  BY <1>7, <1>8 DEF GetOverview, GetThroughput, GetErrorRate, Visits
<1>9. CASE OverviewRaises(u)
  <2>1. /\ UNCHANGED <<done, asked, todo>> /\ request[u] = "overview"
        /\ request'[u] = "none" /\ answer'[u] = Answer("raised", None, None, 0)
    BY <1>0, <1>9 DEF OverviewRaises, vars, bulkVars
  <2> QED BY <2>1 DEF Told, Truthful, PassCounts, Answer
<1>10. ASSUME NEW j \in Jobs, NEW delayed \in BOOLEAN, EnqueueJob(u, j, delayed)
       PROVE  Told(u)'
  <2>1. status'[j] # "absent" /\ UNCHANGED bulkVars
    BY <1>0, <1>10 DEF EnqueueJob, Enqueue
  <2> QED BY <1>2, <1>10, <2>1 DEF EnqueueJob, Truthful, Answer
<1>11. ASSUME NEW j \in Jobs, PostCancel(u, j) PROVE Told(u)'
  <2>1. UNCHANGED bulkVars
    BY <1>11 DEF PostCancel, CancelJob, vars
  <2> QED BY <1>2, <1>11, <2>1 DEF PostCancel, Truthful, Answer
<1>12. ASSUME NEW j \in Jobs, PostTrigger(u, j) PROVE Told(u)'
  <2>1. status'[j] # "absent" /\ UNCHANGED bulkVars
    BY <1>0, <1>12 DEF PostTrigger, TriggerSchedule, Enqueue
  <2> QED BY <1>2, <1>12, <2>1 DEF PostTrigger, Truthful, Answer
<1>13. ASSUME NEW l \in Jobs, NEW j \in Jobs, PostResurrect(u, l, j) PROVE Told(u)'
  <2>1. /\ status'[j] # "absent" /\ origin'[j] = l /\ l \in resurrected'
        /\ UNCHANGED bulkVars
    BY <1>0, <1>13 DEF PostResurrect, ResurrectOne, Resurrect, Enqueue
  <2> QED BY <1>2, <1>13, <2>1 DEF PostResurrect, Truthful, Answer
<1>14. ASSUME NEW q \in Queues, PostQueue(u, q) PROVE Told(u)'
  <2>1. UNCHANGED bulkVars
    BY <1>14 DEF PostQueue, PauseQueue, ResumeQueue, ClearQueue, Remove, vars
  <2> QED BY <1>2, <1>14, <2>1 DEF PostQueue, Truthful, Answer
<1> QED
  BY <1>3, <1>4, <1>5, <1>6, <1>8, <1>9, <1>10, <1>11, <1>12, <1>13, <1>14, CountsTold
     DEF Visit

\* No step makes what a user was told untrue.
LEMMA ToldStep ==
  ASSUME IsFiniteSet(Jobs), NEW u \in Users, Site, Told(u), [SiteNext]_allVars
  PROVE  Told(u)'
<1>1. Lasting
  BY StepsLast DEF Site
<1>2. ASSUME UNCHANGED <<answer, request, done, asked, todo>> PROVE Told(u)'
  BY <1>1, <1>2, ToldKept
<1>3. ASSUME NEW v \in Users, Visit(v) PROVE Told(u)'
  <2>1. CASE v = u
    BY <1>1, <1>3, <2>1, VisitTold
  <2>2. CASE v # u
    <3>1. UNCHANGED Own(u)
      BY <1>3, <2>2, Apart DEF Site
    <3> QED BY <1>1, <3>1, ToldKept DEF Own
  <2> QED BY <2>1, <2>2
<1>4. CASE \/ Shutdown \/ \E enabled \in BOOLEAN : InitApp(enabled)
           \/ \E j \in Jobs : Age(j)
  BY <1>2, <1>4 DEF Shutdown, InitApp, Age, vars, bulkVars
<1>5. ASSUME NEW rows \in SUBSET Jobs, Purge(rows) PROVE Told(u)'
  BY <1>2, <1>5 DEF Purge, PurgeLetters, PurgeJobs, Remove, siteVars, bulkVars
<1>6. ASSUME NEW w \in Workers, WorkBeside(w) PROVE Told(u)'
  BY <1>2, <1>6 DEF WorkBeside, Work, Fetch, Expire, Succeed, Fail, AskRetry, Ends,
                    siteVars, bulkVars
<1>7. CASE UNCHANGED allVars
  BY <1>2, <1>7 DEF allVars, siteVars, vars, bulkVars
<1> QED BY <1>3, <1>4, <1>5, <1>6, <1>7 DEF SiteNext

---------------------------------------------------------------------------
(* The overview *)

\* What the numbers read so far say of the jobs now: while a page is read no
\* completed job grows old, so the recent ones only get more.
Reading(u) ==
  /\ request[u] = "overview" => Len(stats[u]) \in {1, 2}
  /\ request[u] # "overview" => Len(stats[u]) \in {0, 3}
  /\ request[u] = "overview" /\ Outlived = {}
       => stats[u][1] <= Cardinality(RecentlyCompleted)
  /\ request[u] = "overview" /\ Len(stats[u]) = 2
       => stats[u][2] <= Cardinality(RecentlyCompleted)
  /\ Len(stats[u]) = 3 => stats[u][2] <= stats[u][3]
  /\ Len(stats[u]) \in {2, 3} /\ Outlived = {} => stats[u][1] <= stats[u][2]

\* The steps beside an overview leave its numbers in order.
LEMMA ReadingKept ==
  ASSUME IsFiniteSet(Jobs), NEW u \in Users, Site, Site', Reading(u), Lasting,
         request[u] = "overview" => old' \subseteq old,
         UNCHANGED stats[u],
         request'[u] = request[u] \/ {request[u], request'[u]} \subseteq {"none", "bulk"}
  PROVE  Reading(u)'
<1>1. CASE request[u] = "overview"
  <2>1. /\ RecentlyCompleted \in SUBSET RecentlyCompleted'
        /\ RecentlyCompleted' \in SUBSET Jobs
    BY <1>1 DEF Lasting, Completed, RecentlyCompleted
  <2>2. /\ Cardinality(RecentlyCompleted) \in Nat
        /\ Cardinality(RecentlyCompleted') \in Nat
        /\ Cardinality(RecentlyCompleted) <= Cardinality(RecentlyCompleted')
    BY <2>1, Fewer
  <2>3. /\ stats[u] \in Seq(Nat) /\ request'[u] = "overview" /\ UNCHANGED stats[u]
        /\ Outlived' = {} => Outlived = {}
    BY <1>1 DEF Site, SiteTypeOK, Lasting
  <2>4. Len(stats[u]) \in {1, 2} /\ stats[u][1] \in Nat
    BY <1>1, <2>3 DEF Reading
  <2>5. Len(stats[u]) = 2 => stats[u][2] \in Nat
    BY <2>3
  <2> QED BY <1>1, <2>2, <2>3, <2>4, <2>5 DEF Reading
<1>2. CASE request[u] # "overview"
  <2>1. Outlived' = {} => Outlived = {}
    BY DEF Lasting
  <2> QED BY <1>2, <2>1 DEF Reading
<1> QED BY <1>1, <1>2

\* Each of the three queries fits the ones before it.
LEMMA VisitReading ==
  ASSUME IsFiniteSet(Jobs), NEW u \in Users, Site, Site', Reading(u), Lasting, Visit(u)
  PROVE  Reading(u)'
<1>0. /\ DOMAIN request = Users /\ DOMAIN stats = Users /\ stats[u] \in Seq(Nat)
      /\ \A i \in 1..Len(stats[u]) : stats[u][i] \in Nat
  BY DEF Site, SiteTypeOK
<1>1. ASSUME UNCHANGED <<stats, old>>,
             \/ request'[u] = request[u]
             \/ {request[u], request'[u]} \subseteq {"none", "bulk"}
      PROVE  Reading(u)'
  BY <1>1, ReadingKept
<1>2. CASE Raises(u) \/ GetDead(u) \/ PostResurrectAll(u) \/ TellCount(u)
  BY <1>0, <1>1, <1>2 DEF Raises, GetDead, PostResurrectAll, TellCount, Visits
<1>3. ASSUME UNCHANGED <<stats, old, request>> PROVE Reading(u)'
  BY <1>1, <1>3
<1>4. ASSUME NEW j \in Jobs, NEW delayed \in BOOLEAN, EnqueueJob(u, j, delayed)
      PROVE  Reading(u)'
  BY <1>3, <1>4 DEF EnqueueJob, Replies
<1>5. ASSUME NEW j \in Jobs, PostCancel(u, j) \/ PostTrigger(u, j) \/ Counts(u, j)
      PROVE  Reading(u)'
  BY <1>3, <1>5 DEF PostCancel, PostTrigger, Counts, Replies
<1>6. ASSUME NEW l \in Jobs, NEW j \in Jobs, PostResurrect(u, l, j) PROVE Reading(u)'
  BY <1>3, <1>6 DEF PostResurrect, Replies
<1>7. ASSUME NEW q \in Queues, PostQueue(u, q) PROVE Reading(u)'
  BY <1>3, <1>7 DEF PostQueue, Replies
<1>8. CASE OverviewRaises(u)
  <2>1. stats'[u] = <<>> /\ request'[u] = "none"
    BY <1>0, <1>8 DEF OverviewRaises
  <2> QED BY <2>1 DEF Reading
<1>9. ASSUME NEW n, OverviewReads(u, n)
      PROVE  /\ stats'[u] = n /\ request'[u] = IF Len(n) = 3 THEN "none" ELSE "overview"
             /\ UNCHANGED <<Outlived, RecentlyCompleted>>
  BY <1>0, <1>9 DEF OverviewReads, RecentlyCompleted, Completed, Outlived, vars, storeVars,
                    jobVars
<1>10. /\ RecentlyCompleted \in SUBSET RecentlyUpdated /\ RecentlyUpdated \in SUBSET Jobs
       /\ Outlived = {} => RecentlyCompleted = Completed
  BY DEF RecentlyUpdated, RecentlyCompleted, Completed, Outlived, InTable
<1>11. /\ Cardinality(RecentlyCompleted) \in Nat /\ Cardinality(RecentlyUpdated) \in Nat
       /\ Cardinality(RecentlyCompleted) <= Cardinality(RecentlyUpdated)
       /\ Cardinality(Completed) \in Nat
  <2>1. Completed \in SUBSET Jobs
    BY DEF Completed
  <2> QED BY <1>10, <2>1, Fewer
<1>12. CASE GetOverview(u)
  <2> DEFINE n == <<Cardinality(Completed)>>
  <2>1. OverviewReads(u, n)
    BY <1>12 DEF GetOverview
  <2>2. Len(n) = 1 /\ n[1] = Cardinality(Completed)
    OBVIOUS
  <2> HIDE DEF n
  <2>3. /\ stats'[u] = n /\ request'[u] = "overview"
        /\ UNCHANGED <<Outlived, RecentlyCompleted>>
    BY <1>9, <2>1, <2>2
  <2>4. Outlived = {} => n[1] <= Cardinality(RecentlyCompleted)
    BY <1>10, <1>11, <2>2
  <2>5. /\ Len(stats'[u]) = 1
        /\ Outlived' = {} => stats'[u][1] <= Cardinality(RecentlyCompleted')
    BY <2>2, <2>3, <2>4
  <2>6. Len(stats'[u]) \notin {0, 2, 3}
    BY <2>5
  <2> QED BY <2>3, <2>5, <2>6 DEF Reading
<1>13. ASSUME NEW c \in Nat
       PROVE  /\ Len(Append(stats[u], c)) = Len(stats[u]) + 1
              /\ Append(stats[u], c)[Len(stats[u]) + 1] = c
              /\ \A i \in 1..Len(stats[u]) : Append(stats[u], c)[i] = stats[u][i]
  BY <1>0
<1>14. CASE GetThroughput(u)
  <2> DEFINE n == Append(stats[u], Cardinality(RecentlyCompleted))
  <2>1. OverviewReads(u, n) /\ request[u] = "overview" /\ Len(stats[u]) = 1
    BY <1>14 DEF GetThroughput
  <2>2. Len(n) = 2 /\ n[2] = Cardinality(RecentlyCompleted) /\ n[1] = stats[u][1]
    BY <1>11, <1>13, <2>1
  <2> HIDE DEF n
  <2>3. /\ stats'[u] = n /\ request'[u] = "overview"
        /\ UNCHANGED <<Outlived, RecentlyCompleted>>
    BY <1>9, <2>1, <2>2
  <2>4. Outlived = {} => n[1] <= Cardinality(RecentlyCompleted)
    BY <2>1, <2>2 DEF Reading
  <2>5. /\ Len(stats'[u]) = 2
        /\ Outlived' = {} => /\ stats'[u][1] <= Cardinality(RecentlyCompleted')
                             /\ stats'[u][1] <= stats'[u][2]
        /\ stats'[u][2] <= Cardinality(RecentlyCompleted')
    BY <1>11, <2>2, <2>3, <2>4
  <2>6. Len(stats'[u]) \notin {0, 1, 3}
    BY <2>5
  <2> QED BY <2>3, <2>5, <2>6 DEF Reading
<1>15. CASE GetErrorRate(u)
  <2> DEFINE n == Append(stats[u], Cardinality(RecentlyUpdated))
  <2>1. OverviewReads(u, n) /\ request[u] = "overview" /\ Len(stats[u]) = 2
    BY <1>15 DEF GetErrorRate
  <2>2. /\ Len(n) = 3 /\ n[3] = Cardinality(RecentlyUpdated)
        /\ n[1] = stats[u][1] /\ n[2] = stats[u][2]
    BY <1>11, <1>13, <2>1
  <2> HIDE DEF n
  <2>3. stats'[u] = n /\ request'[u] = "none" /\ UNCHANGED Outlived
    BY <1>9, <2>1, <2>2
  <2>4. /\ stats[u][2] <= Cardinality(RecentlyCompleted) /\ stats[u][2] \in Nat
        /\ Outlived = {} => stats[u][1] <= stats[u][2]
    <3>1. stats[u][2] \in Nat
      <4>1. 2 \in 1..Len(stats[u])
        BY <2>1
      <4> QED BY <1>0, <4>1
    <3>2. stats[u][2] <= Cardinality(RecentlyCompleted)
      BY <2>1 DEF Reading
    <3>3. Outlived = {} => stats[u][1] <= stats[u][2]
      BY <2>1 DEF Reading
    <3> QED BY <3>1, <3>2, <3>3
  <2>5. n[2] <= n[3]
    BY <1>11, <2>2, <2>4
  <2> QED BY <2>2, <2>3, <2>4, <2>5 DEF Reading
<1> QED
  BY <1>2, <1>4, <1>5, <1>6, <1>7, <1>8, <1>12, <1>14, <1>15 DEF Visit

\* No step brings the numbers of an overview into disorder.
LEMMA ReadingStep ==
  ASSUME IsFiniteSet(Jobs), NEW u \in Users, Site, Site', Reading(u), [SiteNext]_allVars
  PROVE  Reading(u)'
<1>1. Lasting
  BY StepsLast DEF Site
<1>2. ASSUME UNCHANGED <<request, stats, old>> PROVE Reading(u)'
  BY <1>1, <1>2, ReadingKept
<1>3. ASSUME NEW v \in Users, Visit(v) PROVE Reading(u)'
  <2>1. CASE v = u
    BY <1>1, <1>3, <2>1, VisitReading
  <2>2. CASE v # u
    <3>1. UNCHANGED <<request[u], stats[u]>>
      BY <1>3, <2>2, Apart DEF Site, Own
    <3>2. UNCHANGED old
      BY <1>3 DEF Visit, Raises, PostResurrectAll, TellCount, GetDead, GetOverview,
                  GetThroughput, GetErrorRate, OverviewReads, OverviewRaises, EnqueueJob,
                  PostCancel, PostTrigger, Counts, PostResurrect, PostQueue, Replies
    <3> QED BY <1>1, <3>1, <3>2, ReadingKept
  <2> QED BY <2>1, <2>2
<1>4. CASE Shutdown \/ \E enabled \in BOOLEAN : InitApp(enabled)
  BY <1>2, <1>4 DEF Shutdown, InitApp
<1>5. ASSUME NEW j \in Jobs, Age(j) PROVE Reading(u)'
  BY <1>1, <1>5, ReadingKept DEF Age
<1>6. ASSUME UNCHANGED siteVars PROVE Reading(u)'
  BY <1>2, <1>6 DEF siteVars
<1>7. ASSUME NEW w \in Workers, WorkBeside(w) PROVE Reading(u)'
  BY <1>1, <1>7, ReadingKept DEF WorkBeside
<1> QED BY <1>3, <1>4, <1>5, <1>6, <1>7 DEF SiteNext, Purge, allVars

---------------------------------------------------------------------------
(* The theorems about the application *)

\* What the dashboard promises by itself it promises inside an application, too,
\* where jobs are also enqueued with a delay and old rows are purged: no row is taken
\* from a worker but by a purge of active rows, no job is buried early, no letter is
\* passed over.
THEOREM PromisesKept ==
  ASSUME IsFiniteSet(Jobs)
  PROVE  SiteSpec => [](HeldRowsStay /\ FullAttempts /\ BulkCovers)
<1>1. Site => HeldRowsStay /\ FullAttempts /\ BulkCovers
  BY DEF Site, Tables, RowInv, Held, HeldBy, Counted, CountedFor, Passes, HeldRowsStay,
         FullAttempts
<1> QED BY <1>1, SiteInvariance, PTL

\* The messages of the routes (adapters/*, actions.py) are true when they are given
\* and stay so, of those that say what became of a job: an accepted job is there
\* until it is removed, a resurrected one comes from the letter clicked, and
\* "Resurrected n" counts no letter whose resurrect() raised and leaves out none that
\* did not, whoever else resurrects, purges or shuts the application down meanwhile.
\* Nothing is claimed of "cancelled", which is said whatever happened.
THEOREM AnswersAreTrue == ASSUME IsFiniteSet(Jobs) PROVE SiteSpec => []AnswersHold
<1> DEFINE AllTold == \A u \in Users : Told(u)
<1>1. SiteInit => AllTold
  BY DEF SiteInit, Init, Told, Truthful, PassCounts, Nothing, Answer
<1>2. Site /\ AllTold /\ [SiteNext]_allVars => AllTold'
  BY ToldStep
<1>3. AllTold => AnswersHold
  BY DEF Told, Truthful, AnswersHold
<1> QED BY <1>1, <1>2, <1>3, SiteInvariance, PTL DEF SiteSpec

\* The three numbers of overview_stats (queries.py), each read in a transaction of its
\* own, agree whatever is completed, purged or enqueued between the transactions.
THEOREM OverviewsAgree == ASSUME IsFiniteSet(Jobs) PROVE SiteSpec => []OverviewAgrees
<1> DEFINE AllRead == \A u \in Users : Reading(u)
<1>1. SiteInit => AllRead
  <2> SUFFICES ASSUME SiteInit, NEW u \in Users PROVE Reading(u)
    OBVIOUS
  <2>1. stats[u] = <<>> /\ request[u] = "none"
    BY DEF SiteInit
  <2> QED BY <2>1 DEF Reading
<1>2. Site /\ Site' /\ AllRead /\ [SiteNext]_allVars => AllRead'
  BY ReadingStep
<1>3. AllRead => OverviewAgrees
  BY DEF Reading, OverviewAgrees
<1> QED BY <1>1, <1>2, <1>3, SiteInvariance, PTL DEF SiteSpec
=============================================================================
