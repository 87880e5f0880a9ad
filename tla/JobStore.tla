----------------------------- MODULE JobStore -----------------------------
(***************************************************************************)
(* The two tables the workers share, cj_jobs and cj_workers, and the       *)
(* statements of the PostgreSQL driver that change them.  Every operator   *)
(* below is one committed transaction; the columns are kept apart, one     *)
(* variable per column the rest of the system reads.                       *)
(*                                                                         *)
(* Time is abstracted to what the queries compare: a row's run_at is due   *)
(* or not yet due, a worker's last_beat_at is fresh or older than          *)
(* dead_worker_threshold.                                                  *)
(***************************************************************************)
EXTENDS Naturals

CONSTANTS Jobs,          \* the primary keys of cj_jobs
          Workers,       \* worker ids, "hostname:pid"
          None,          \* SQL NULL
          MaxAttempts    \* the max_attempts column, constant for a row

ASSUME StoreAssumption ==
  /\ None \notin Jobs \cup Workers
  /\ MaxAttempts \in [Jobs -> Nat \ {0}]   \* enforced by Client.enqueue

VARIABLES
  status,      \* "absent" before the INSERT, "deleted" after a DELETE
  attempts,
  workerId,
  due,         \* run_at IS NULL OR run_at <= NOW()
  letters,     \* number of cj_dead_letters rows that snapshot the job
  registered,  \* cj_workers.status, "absent" when there is no row
  beat         \* is last_beat_at within the threshold

jobVars      == <<status, attempts, workerId, due, letters>>
registryVars == <<registered, beat>>
storeVars    == <<jobVars, registryVars>>

JobStatus == {"absent", "enqueued", "scheduled", "active", "completed",
              "retrying", "dead", "deleted"}

StoreTypeOK ==
  /\ status     \in [Jobs -> JobStatus]
  /\ attempts   \in [Jobs -> Nat]
  /\ workerId   \in [Jobs -> Workers \cup {None}]
  /\ due        \in [Jobs -> BOOLEAN]
  /\ letters    \in [Jobs -> Nat]
  /\ registered \in [Workers -> {"absent", "idle", "stopped"}]
  /\ beat       \in [Workers -> {"fresh", "stale"}]

StoreInit ==
  /\ status     = [j \in Jobs |-> "absent"]
  /\ attempts   = [j \in Jobs |-> 0]
  /\ workerId   = [j \in Jobs |-> None]
  /\ due        = [j \in Jobs |-> TRUE]
  /\ letters    = [j \in Jobs |-> 0]
  /\ registered = [w \in Workers |-> "absent"]
  /\ beat       = [w \in Workers |-> "fresh"]

InTable(j) == status[j] \notin {"absent", "deleted"}

\* UPDATE ... WHERE id = j: a row that is gone is silently not updated.
Update(column, j, value) ==
  IF InTable(j) THEN [column EXCEPT ![j] = value] ELSE column

---------------------------------------------------------------------------
(* cj_jobs *)

\* Client.enqueue: a delay or a run_at makes the row 'scheduled'.
Enqueue(j, delayed) ==
  /\ status[j] = "absent"
  /\ status' = [status EXCEPT ![j] = IF delayed THEN "scheduled" ELSE "enqueued"]
  /\ due'    = [due EXCEPT ![j] = ~delayed]
  /\ UNCHANGED <<attempts, workerId, letters, registryVars>>

\* The clock passes run_at.
RunAtPasses(j) ==
  /\ ~due[j]
  /\ due' = [due EXCEPT ![j] = TRUE]
  /\ UNCHANGED <<status, attempts, workerId, letters, registryVars>>

\* Mutated form: a WHERE clause that also takes active rows.
EligibleAnyOwner(j) == status[j] \in {"enqueued", "retrying", "active"} /\ due[j]

Eligible(j) == status[j] \in {"enqueued", "retrying"} /\ due[j]

\* Mutated form: the claim forgets attempts + 1.
FetchNextUncounted(w, j) ==
  /\ Eligible(j)
  /\ status'   = [status EXCEPT ![j] = "active"]
  /\ workerId' = [workerId EXCEPT ![j] = w]
  /\ UNCHANGED <<attempts, due, letters, registryVars>>

\* One statement selects, locks, claims and counts the attempt.  Which of the
\* eligible rows comes first (priority, created_at) is left open.
FetchNext(w, j) ==
  /\ Eligible(j)
  /\ status'   = [status EXCEPT ![j] = "active"]
  /\ workerId' = [workerId EXCEPT ![j] = w]
  /\ attempts' = [attempts EXCEPT ![j] = @ + 1]
  /\ UNCHANGED <<due, letters, registryVars>>

\* Neither this nor any later UPDATE looks at status or worker_id.
MarkCompleted(j) ==
  /\ status' = Update(status, j, "completed")
  /\ UNCHANGED <<attempts, workerId, due, letters, registryVars>>

\* Mutated form: the branch without a retry_at.
MarkFailedForGood(j, retryNow) ==
  /\ status' = Update(status, j, "failed")
  /\ UNCHANGED <<attempts, workerId, due, letters, registryVars>>

\* Every caller passes a retry_at, so the 'failed' branch is never taken.
MarkFailed(j, retryNow) ==
  /\ status' = Update(status, j, "retrying")
  /\ due'    = Update(due, j, retryNow)
  /\ UNCHANGED <<attempts, workerId, letters, registryVars>>

\* Mutated form: the snapshot of the job is not written.
MoveToDeadNoLetter(j) ==
  /\ status' = Update(status, j, "dead")
  /\ UNCHANGED <<attempts, workerId, due, letters, registryVars>>

\* SELECT, INSERT and UPDATE in one READ COMMITTED transaction: a row deleted
\* after the SELECT still leaves its letter.
MoveToDead(j) ==
  /\ status'  = Update(status, j, "dead")
  /\ \/ letters' = Update(letters, j, letters[j] + 1)
     \/ status[j] = "deleted" /\ letters' = [letters EXCEPT ![j] = @ + 1]
  /\ UNCHANGED <<attempts, workerId, due, registryVars>>

ReenqueueJob(j) ==
  /\ status'   = Update(status, j, "enqueued")
  /\ workerId' = Update(workerId, j, None)
  /\ UNCHANGED <<attempts, due, letters, registryVars>>

ActiveJobsOf(w) == {j \in Jobs : status[j] = "active" /\ workerId[j] = w}

\* Mutated form: whatever the row has become since it was displayed.
CancelAny(j) ==
  /\ InTable(j)
  /\ status' = [status EXCEPT ![j] = "deleted"]
  /\ UNCHANGED <<attempts, workerId, due, letters, registryVars>>

\* DashboardActions.cancel: DELETE ... WHERE status = 'enqueued'.
Cancel(j) ==
  /\ status[j] = "enqueued"
  /\ status' = [status EXCEPT ![j] = "deleted"]
  /\ UNCHANGED <<attempts, workerId, due, letters, registryVars>>

---------------------------------------------------------------------------
(* cj_workers *)

\* Mutated form: the status that the schema has and the workers never write.
RegisterWorkerBusy(w) ==
  /\ registered' = [registered EXCEPT ![w] = "busy"]
  /\ beat'       = [beat EXCEPT ![w] = "fresh"]
  /\ UNCHANGED jobVars

\* An upsert: a row left by an earlier process with this id is taken over.
RegisterWorker(w) ==
  /\ registered' = [registered EXCEPT ![w] = "idle"]
  /\ beat'       = [beat EXCEPT ![w] = "fresh"]
  /\ UNCHANGED jobVars

\* Only last_beat_at is written: a row marked 'stopped' stays 'stopped'.
HeartbeatRow(w) ==
  /\ beat' = IF registered[w] = "absent" THEN beat
             ELSE [beat EXCEPT ![w] = "fresh"]
  /\ UNCHANGED <<registered, jobVars>>

DeregisterWorker(w) ==
  /\ registered' = [registered EXCEPT ![w] = "absent"]
  /\ beat'       = [beat EXCEPT ![w] = "fresh"]   \* no row, no beat
  /\ UNCHANGED jobVars

\* Mutated form: the heartbeat is not looked at.
StaleWorkersAnyBeat == {w \in Workers : registered[w] = "idle"}

StaleWorkers == {w \in Workers : registered[w] = "idle" /\ beat[w] = "stale"}

MarkWorkerStopped(w) ==
  /\ registered' = IF registered[w] = "absent" THEN registered
                   ELSE [registered EXCEPT ![w] = "stopped"]
  /\ UNCHANGED <<beat, jobVars>>
===========================================================================
