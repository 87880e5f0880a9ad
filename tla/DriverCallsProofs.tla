------------------------- MODULE DriverCallsProofs -------------------------
(* Lemmas about the calls that both drivers serve. *)
EXTENDS DriverCalls, TLAPS

\* What a caller may name.
LEMMA NamesGive ==
  ASSUME NEW t \in Threads, NEW method \in Methods, NEW r, Names(t, method, r)
  PROVE  /\ method = "fetch_next" => r = None
         /\ method = "enqueue" => /\ r \in Jobs /\ status[r] = "absent"
                                  /\ \A u \in Threads : row[u] # r
         /\ method \in JobMethods => r \in Jobs /\ status[r] # "absent"
         /\ method \in WorkerMethods => r \in Workers
BY CallAssumption DEF Names, JobMethods, WorkerMethods

\* One statement of the job store, or nothing.
Statement ==
  \/ \E j \in Jobs :
       \/ \E w \in Workers : FetchNext(w, j)
       \/ Enqueue(j, FALSE) \/ MarkCompleted(j) \/ MarkFailed(j, TRUE)
       \/ MoveToDead(j) \/ ReenqueueJob(j) \/ Cancel(j)
  \/ \E w \in Workers :
       \/ RegisterWorker(w) \/ HeartbeatRow(w) \/ DeregisterWorker(w)
       \/ MarkWorkerStopped(w)
  \/ UNCHANGED storeVars

\* What a commit does to the columns that other transactions rely on.
Narrow(r) ==
  /\ status' \in [Jobs -> JobStatus] /\ due' \in [Jobs -> BOOLEAN]
  /\ \A j \in Jobs : j # r => status'[j] = status[j] /\ due'[j] = due[j]
  /\ \A j \in Jobs : status[j] # "absent" => status'[j] # "absent"

\* A registry method.
LEMMA RegistryCommits ==
  ASSUME NEW r \in Workers, NEW method \in WorkerMethods, RegistryEffect(method, r)
  PROVE  Statement /\ UNCHANGED jobVars
<1>1. \/ RegisterWorker(r) \/ HeartbeatRow(r) \/ DeregisterWorker(r)
      \/ MarkWorkerStopped(r)
  BY DEF RegistryEffect, WorkerMethods
<1> QED
  BY <1>1 DEF Statement, RegisterWorker, HeartbeatRow, DeregisterWorker,
              MarkWorkerStopped

\* What fetch_next and move_to_dead write is the statement of the job store, if
\* the row is as the transaction has found it.
LEMMA JobCommits ==
  ASSUME NEW w \in Workers, NEW r \in Jobs, NEW method \in Methods \ WorkerMethods,
         method = "fetch_next" => Eligible(r),
         method \in JobMethods => status[r] # "absent",
         JobEffect(w, method, r)
  PROVE  Statement
<1>1. CASE method = "enqueue"
  BY <1>1 DEF JobEffect, Statement
<1>2. CASE method = "mark_completed"
  BY <1>2 DEF JobEffect, Statement
<1>3. CASE method = "mark_failed"
  BY <1>3 DEF JobEffect, Statement
<1>4. CASE method = "reenqueue_job"
  BY <1>4 DEF JobEffect, Statement
<1>5. CASE method = "cancel"
  BY <1>5 DEF JobEffect, Statement
<1>6. CASE method = "move_to_dead"
  BY <1>6 DEF JobEffect, Statement, MoveToDead, Update, InTable, JobMethods
<1>7. CASE method = "fetch_next"
  BY <1>7 DEF JobEffect, Statement, FetchNext, Update, InTable, Eligible
<1> QED BY <1>1, <1>2, <1>3, <1>4, <1>5, <1>6, <1>7 DEF Methods, JobMethods, WorkerMethods
\* And it touches no other row.
LEMMA JobCommitsNarrow ==
  ASSUME status \in [Jobs -> JobStatus], due \in [Jobs -> BOOLEAN],
         NEW w \in Workers, NEW r \in Jobs, NEW method \in Methods \ WorkerMethods,
         JobEffect(w, method, r)
  PROVE  Narrow(r)
<1> USE DEF JobEffect, Narrow, JobStatus, Update
<1>1. CASE method = "enqueue"
  BY <1>1 DEF Enqueue
<1>2. CASE method = "mark_completed"
  BY <1>2 DEF MarkCompleted
<1>3. CASE method = "mark_failed"
  BY <1>3 DEF MarkFailed
<1>4. CASE method = "reenqueue_job"
  BY <1>4 DEF ReenqueueJob
<1>5. CASE method = "cancel"
  BY <1>5 DEF Cancel, storeVars, jobVars
<1>6. CASE method = "move_to_dead"
  BY <1>6
<1>7. CASE method = "fetch_next"
  BY <1>7
<1> QED BY <1>1, <1>2, <1>3, <1>4, <1>5, <1>6, <1>7 DEF Methods, JobMethods, WorkerMethods
===========================================================================
