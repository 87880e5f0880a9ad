----------------------------- MODULE Dashboard -----------------------------
(***************************************************************************)
(* The dashboard's write operations and the purge command, over the job    *)
(* store and beside workers that fetch, perform and fail.  The workers     *)
(* here do not crash (WorkerPool is about that), so a job is buried at     *)
(* most once and names its dead letter.                                    *)
(***************************************************************************)
EXTENDS JobStore, FiniteSets

CONSTANTS
  Users,         \* concurrent dashboard requests
  Queues,
  QueueOf,       \* the queue column, constant for a row
  DefaultQueue,
  SQLite,        \* the backend: SQLite or PostgreSQL
  OnePassEach    \* bound: a user makes one bulk_resurrect that finds letters

ASSUME DashboardAssumption ==
  /\ DefaultQueue \in Queues
  /\ QueueOf \in [Jobs -> Queues]
  /\ SQLite \in BOOLEAN /\ OnePassEach \in BOOLEAN

VARIABLES
  paused,       \* cj_queue_pauses
  resurrected,  \* letters with resurrected_at
  purged,       \* letters that are deleted
  holding,      \* the job a worker executes
  todo,         \* bulk_resurrect: the letters read and still to do
  asked,        \* history: all the letters that pass has read
  raised,       \* history: letters whose resurrect() raised in a pass
  shared,       \* history: letters that two passes had before them at once
  origin,       \* history: the letter a job was resurrected from ...
  single,       \* ... and whether by a request of its own
  runs,         \* history: how often a job was executed
  swept         \* history: the active rows that purge deleted

letterVars  == <<resurrected, purged>>
bulkVars    == <<todo, asked, raised, shared>>
historyVars == <<origin, single, runs, swept>>
vars == <<storeVars, paused, letterVars, holding, bulkVars, historyVars>>

TypeOK ==
  /\ StoreTypeOK
  /\ paused \subseteq Queues
  /\ resurrected \subseteq Jobs /\ purged \subseteq Jobs /\ raised \subseteq Jobs
  /\ shared \subseteq Jobs /\ swept \subseteq Jobs
  /\ holding \in [Workers -> Jobs \cup {None}]
  /\ todo    \in [Users -> SUBSET Jobs]
  /\ asked   \in [Users -> SUBSET Jobs]
  /\ origin  \in [Jobs -> Jobs \cup {None}]
  /\ single \subseteq Jobs
  /\ runs    \in [Jobs -> Nat]

Init ==
  /\ StoreInit
  /\ paused = {} /\ resurrected = {} /\ purged = {} /\ raised = {} /\ single = {}
  /\ shared = {} /\ swept = {}
  /\ holding = [w \in Workers |-> None]
  /\ todo    = [u \in Users |-> {}]
  /\ asked   = [u \in Users |-> {}]
  /\ origin  = [j \in Jobs |-> None]
  /\ runs    = [j \in Jobs |-> 0]

\* Rows of cj_dead_letters.
Letters == {j \in Jobs : letters[j] > 0} \ purged

---------------------------------------------------------------------------
(* New rows *)

Submit(j) ==
  /\ Enqueue(j, FALSE)
  /\ UNCHANGED <<paused, letterVars, holding, bulkVars, historyVars>>

\* The row is given no queue, so it gets the default of the column.
TriggerSchedule(j) ==
  /\ QueueOf[j] = DefaultQueue
  /\ Enqueue(j, FALSE)
  /\ UNCHANGED <<paused, letterVars, holding, bulkVars, historyVars>>

---------------------------------------------------------------------------
(* Dead letters *)

\* Mutated form: the attempts come over with the other columns.
ResurrectWithAttempts(l, j) ==
  /\ l \in Letters
  /\ QueueOf[j] = QueueOf[l] /\ MaxAttempts[j] = MaxAttempts[l]
  /\ status[j] = "absent"
  /\ status'      = [status EXCEPT ![j] = "enqueued"]
  /\ attempts'    = [attempts EXCEPT ![j] = attempts[l]]
  /\ origin'      = [origin EXCEPT ![j] = l]
  /\ resurrected' = resurrected \cup {l}
  /\ UNCHANGED <<workerId, due, letters, registryVars, paused, purged, holding, runs,
                 swept>>

\* Mutated form: resurrected_at is not set.
ResurrectUnmarked(l, j) ==
  /\ l \in Letters
  /\ QueueOf[j] = QueueOf[l] /\ MaxAttempts[j] = MaxAttempts[l]
  /\ Enqueue(j, FALSE)
  /\ origin'  = [origin EXCEPT ![j] = l]
  /\ UNCHANGED <<paused, letterVars, holding, runs, swept>>

\* resurrect(): a new row j with the queue and max_attempts of the snapshot,
\* and resurrected_at, in one transaction.  It may be set already.
Resurrect(l, j) ==
  /\ l \in Letters
  /\ QueueOf[j] = QueueOf[l] /\ MaxAttempts[j] = MaxAttempts[l]
  /\ Enqueue(j, FALSE)
  /\ origin'      = [origin EXCEPT ![j] = l]
  /\ resurrected' = resurrected \cup {l}
  /\ UNCHANGED <<paused, purged, holding, runs, swept>>

ResurrectOne(l, j) ==
  /\ Resurrect(l, j)
  /\ single' = single \cup {j}
  /\ UNCHANGED bulkVars

BulkRead(u) ==
  /\ todo[u] = {} /\ (OnePassEach => asked[u] = {})
  /\ todo'  = [todo EXCEPT ![u] = Letters \ resurrected]
  /\ asked' = [asked EXCEPT ![u] = Letters \ resurrected]
  /\ shared' = shared \cup ((Letters \ resurrected) \cap UNION {todo[v] : v \in Users})
  /\ UNCHANGED <<storeVars, paused, letterVars, holding, raised, historyVars>>

BulkResurrect(u, l, j) ==
  /\ l \in todo[u]
  /\ Resurrect(l, j)
  /\ todo' = [todo EXCEPT ![u] = @ \ {l}]
  /\ UNCHANGED <<asked, raised, shared, single>>

\* Mutated form: the loop has no try of its own.
BulkRaisesOut(u, l) ==
  /\ l \in todo[u]
  /\ raised' = raised \cup {l}
  /\ todo'   = [todo EXCEPT ![u] = {}]
  /\ UNCHANGED <<storeVars, paused, letterVars, holding, asked, shared, historyVars>>

\* resurrect() raises, because the letter was purged meanwhile or the database
\* fails: the loop logs it and goes on.
BulkRaises(u, l) ==
  /\ l \in todo[u]
  /\ raised' = raised \cup {l}
  /\ todo'   = [todo EXCEPT ![u] = @ \ {l}]
  /\ UNCHANGED <<storeVars, paused, letterVars, holding, asked, shared, historyVars>>

\* The connection fails at the COMMIT, which the server has carried out.
BulkRaisesLate(u, l, j) ==
  /\ l \in todo[u]
  /\ Resurrect(l, j)
  /\ raised' = raised \cup {l}
  /\ todo'   = [todo EXCEPT ![u] = @ \ {l}]
  /\ UNCHANGED <<asked, shared, single>>

\* purge --status dead.  On PostgreSQL it raises and deletes nothing: the
\* placeholder for the days stands inside a quoted INTERVAL.
PurgeLetters(old) ==
  /\ SQLite
  /\ old # {} /\ old \subseteq Letters
  /\ purged' = purged \cup old
  /\ UNCHANGED <<storeVars, paused, resurrected, holding, bulkVars, historyVars>>

---------------------------------------------------------------------------
(* Queues and rows *)

Remove(gone) ==
  /\ gone # {}
  /\ status' = [j \in Jobs |-> IF j \in gone THEN "deleted" ELSE status[j]]
  /\ UNCHANGED <<attempts, workerId, due, letters, registryVars, paused, letterVars,
                 holding, bulkVars, origin, single, runs>>

CancelJob(j) ==
  /\ Cancel(j)
  /\ UNCHANGED <<paused, letterVars, holding, bulkVars, historyVars>>

ClearQueue(q) ==
  /\ Remove({j \in Jobs : QueueOf[j] = q /\ status[j] = "enqueued"})
  /\ UNCHANGED swept

\* purge --status s for any s but "dead", of the rows not updated for some days:
\* the command checks neither s nor who works on the rows.  As above, SQLite only.
PurgeJobs(old) ==
  /\ SQLite
  /\ \E s \in {"enqueued", "scheduled", "active", "retrying", "completed"} :
       old \subseteq {j \in Jobs : status[j] = s}
  /\ Remove(old)
  /\ swept' = swept \cup {j \in old : status[j] = "active"}

PauseQueue(q) ==
  /\ paused' = paused \cup {q}
  /\ UNCHANGED <<storeVars, letterVars, holding, bulkVars, historyVars>>

ResumeQueue(q) ==
  /\ paused' = paused \ {q}
  /\ UNCHANGED <<storeVars, letterVars, holding, bulkVars, historyVars>>

---------------------------------------------------------------------------
(* The workers: fetch_next does not read cj_queue_pauses *)

Fetch(w, j) ==
  /\ holding[w] = None
  /\ FetchNext(w, j)
  /\ holding' = [holding EXCEPT ![w] = j]
  /\ UNCHANGED <<paused, letterVars, bulkVars, historyVars>>

\* The execution of the job in hand ends with one write of its row.
Ends(w, started) ==
  /\ holding[w] # None
  /\ holding' = [holding EXCEPT ![w] = None]
  /\ runs' = IF started THEN [runs EXCEPT ![holding[w]] = @ + 1] ELSE runs
  /\ UNCHANGED <<paused, letterVars, bulkVars, origin, single, swept>>

WithinLimit(w) == holding[w] # None /\ attempts[holding[w]] <= MaxAttempts[holding[w]]

\* How an execution ends is left open.  (On SQLite a resurrected job cannot
\* succeed: resurrect() encodes its arguments, which are text, once more.)
Expire(w) == ~WithinLimit(w) /\ Ends(w, FALSE) /\ MoveToDead(holding[w])

Succeed(w) ==
  /\ WithinLimit(w)
  /\ Ends(w, TRUE) /\ MarkCompleted(holding[w])

Fail(w) ==
  /\ WithinLimit(w) /\ Ends(w, TRUE)
  /\ IF attempts[holding[w]] >= MaxAttempts[holding[w]]
     THEN MoveToDead(holding[w]) ELSE MarkFailed(holding[w], TRUE)

AskRetry(w) ==
  /\ WithinLimit(w)
  /\ Ends(w, TRUE) /\ MarkFailed(holding[w], TRUE)

Work(w) ==
  \/ \E j \in Jobs : Fetch(w, j)
  \/ Expire(w) \/ Succeed(w) \/ Fail(w) \/ AskRetry(w)

Request(u) ==
  \/ BulkRead(u)
  \/ \E l \in todo[u] : BulkRaises(u, l)
  \/ \E l \in todo[u], j \in Jobs : BulkResurrect(u, l, j) \/ BulkRaisesLate(u, l, j)

Next ==
  \/ \E j \in Jobs : Submit(j) \/ TriggerSchedule(j) \/ CancelJob(j)
  \/ \E l, j \in Jobs : ResurrectOne(l, j)
  \/ \E u \in Users : Request(u)
  \/ \E old \in SUBSET Jobs : PurgeLetters(old) \/ PurgeJobs(old)
  \/ \E q \in Queues : ClearQueue(q) \/ PauseQueue(q) \/ ResumeQueue(q)
  \/ \E w \in Workers : Work(w)

Spec == Init /\ [][Next]_vars

---------------------------------------------------------------------------

\* cancel and clear_queue race with the claim of a job and never take away a row
\* that a worker is executing: its status is the worker's until the execution
\* ends, whatever requests, passes and other workers do, unless somebody purges
\* the active rows by hand.
HeldRowsStay ==
  \A w \in Workers : holding[w] # None /\ holding[w] \notin swept
    => status[holding[w]] = "active"

\* A job with a letter had its full number of executions, a resurrected one again:
\* neither the attempts of the job it comes from nor a purge of its row under the
\* worker shortens its life.
FullAttempts == \A j \in Jobs : letters[j] > 0 => runs[j] = MaxAttempts[j]

\* bulk_resurrect leaves no letter it has read behind, whatever single ones
\* raise: each is resurrected or its own resurrect() has raised.
BulkCovers == \A u \in Users : asked[u] \ todo[u] \subseteq resurrected \cup raised

\* Repeating bulk_resurrect does not repeat jobs, whoever repeats it and whatever
\* raises, committed or not: only a letter that two passes had before them at the
\* same time can get more than one job from passes.
BulkOnce ==
  \A l \in Jobs \ shared :
    \A j, k \in {i \in Jobs \ single : origin[i] = l} : j = k

\* "Pause a queue (jobs won't be picked up)".
PausedQueuesRest ==
  [][\A j \in Jobs : status[j] # "active" /\ status'[j] = "active"
        => QueueOf[j] \notin paused]_vars
===========================================================================
