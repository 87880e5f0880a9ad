---------------------------- MODULE DriverCalls ----------------------------
(***************************************************************************)
(* The calls that workers, detectors and clients make of a driver, and     *)
(* what each writes into the tables of JobStore when its transaction is    *)
(* committed.  The two drivers differ in what they do until then.          *)
(***************************************************************************)
EXTENDS JobStore

CONSTANTS
  Threads, HostOf  \* a process has one driver; its id is that of its worker

VARIABLES
  call,  \* of a thread: the method it is in ...
  row    \* ... and the row it is about: a job, a worker or, at first, none

JobMethods    == {"mark_completed", "mark_failed", "move_to_dead", "reenqueue_job",
                  "cancel"}
WorkerMethods == {"register_worker", "heartbeat", "deregister_worker",
                  "mark_worker_stopped"}
Methods       == JobMethods \cup WorkerMethods \cup {"enqueue", "fetch_next"}

ASSUME CallAssumption ==
  /\ None \notin Threads \cup Methods
  /\ HostOf \in [Threads -> Workers]

CallTypeOK ==
  /\ call \in [Threads -> Methods \cup {None}]
  /\ row  \in [Threads -> Jobs \cup Workers \cup {None}]

NoCalls ==
  /\ call = [t \in Threads |-> None]
  /\ row  = [t \in Threads |-> None]

\* A new row gets a new uuid, the other methods name any row there ever was.
\* A worker writes its own registry row, a detector that of any other.
Names(t, method, r) ==
  CASE method = "fetch_next" -> r = None
    [] method = "enqueue"    -> r \in Jobs /\ status[r] = "absent"
                                /\ \A u \in Threads : row[u] # r
    [] method \in JobMethods -> r \in Jobs /\ status[r] # "absent"
    [] method = "mark_worker_stopped" -> r \in Workers \ {HostOf[t]}
    [] method \in WorkerMethods       -> r = HostOf[t]

\* What the statements write.  They name the row only; none checks what was
\* read before.
JobEffect(w, method, r) ==
  CASE method = "enqueue"        -> Enqueue(r, FALSE)
    [] method = "mark_completed" -> MarkCompleted(r)
    [] method = "mark_failed"    -> MarkFailed(r, TRUE)
    [] method = "reenqueue_job"  -> ReenqueueJob(r)
    [] method = "cancel" -> IF status[r] = "enqueued" THEN Cancel(r)
                                                      ELSE UNCHANGED storeVars
    [] method = "move_to_dead" ->
         /\ status'  = Update(status, r, "dead")
         /\ letters' = [letters EXCEPT ![r] = @ + 1]
         /\ UNCHANGED <<attempts, workerId, due, registryVars>>
    [] method = "fetch_next" ->
         /\ status'   = Update(status, r, "active")
         /\ workerId' = Update(workerId, r, w)
         /\ attempts' = Update(attempts, r, attempts[r] + 1)
         /\ UNCHANGED <<due, letters, registryVars>>

RegistryEffect(method, r) ==
  CASE method = "register_worker"     -> RegisterWorker(r)
    [] method = "heartbeat"           -> HeartbeatRow(r)
    [] method = "deregister_worker"   -> DeregisterWorker(r)
    [] method = "mark_worker_stopped" -> MarkWorkerStopped(r)

Effect(w, method, r) ==
  IF method \in WorkerMethods THEN RegistryEffect(method, r) ELSE JobEffect(w, method, r)

\* "SKIP LOCKED" and "BEGIN IMMEDIATE + Lock": however the calls of threads and
\* processes interleave, wait, fail and crash, the committed rows change only
\* by whole statements of the job store.
StoreSteps ==
  [][\/ \E j \in Jobs :
          \/ \E w \in Workers : FetchNext(w, j)
          \/ Enqueue(j, FALSE) \/ MarkCompleted(j) \/ MarkFailed(j, TRUE)
          \/ MoveToDead(j) \/ ReenqueueJob(j) \/ Cancel(j)
     \/ \E w \in Workers :
          \/ RegisterWorker(w) \/ HeartbeatRow(w) \/ DeregisterWorker(w)
          \/ MarkWorkerStopped(w)]_storeVars
===========================================================================
