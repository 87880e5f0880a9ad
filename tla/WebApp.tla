------------------------------ MODULE WebApp ------------------------------
(***************************************************************************)
(* A web application with crazyjob in it, and the people who use it: the   *)
(* integration that opens and closes the backend, Job.enqueue through the  *)
(* global client, the dashboard's pages and the routes behind its buttons. *)
(* What the requests do to the tables are the operations of Dashboard;     *)
(* here is when they may be made and what the user is told.                *)
(***************************************************************************)
EXTENDS Dashboard, Sequences

CONSTANTS
  Framework,  \* "flask" or "fastapi"
  PerPage,    \* the rows a page shows: the routes pass no page number
  MaxOld,     \* bound: how many rows outlive the windows of the overview
  MaxVisits   \* bound: how many requests are made

ASSUME WebAssumption ==
  /\ Framework \in {"flask", "fastapi"}
  /\ PerPage \in Nat \ {0} /\ MaxOld \in Nat /\ MaxVisits \in Nat

VARIABLES
  app,      \* "new", "bare" (no dashboard), "mounted", "down"
  request,  \* what a user waits for: "none", "bulk" or "overview"
  done,     \* bulk_resurrect: count
  stats,    \* overview_stats: the numbers read so far
  answer,   \* the message or exception the last request ended with
  page,     \* the letters on the page in front of a user
  old,      \* rows last updated before the windows of the overview
  visits    \* the requests made

siteVars == <<app, request, done, stats, answer, page, old, visits>>
allVars  == <<vars, siteVars>>

Messages == {"nothing", "raised", "done", "enqueued", "cancelled", "re-enqueued", "count"}

Answer(said, job, letter, count) ==
  [said |-> said, job |-> job, letter |-> letter, count |-> count]

Nothing == Answer("nothing", None, None, 0)

SiteTypeOK ==
  /\ TypeOK
  /\ app     \in {"new", "bare", "mounted", "down"}
  /\ request \in [Users -> {"none", "bulk", "overview"}]
  /\ done    \in [Users -> Nat]
  /\ stats   \in [Users -> Seq(Nat)]
  /\ answer  \in [Users -> [said : Messages, job : Jobs \cup {None},
                            letter : Jobs \cup {None}, count : Nat]]
  /\ page    \in [Users -> SUBSET Jobs]
  /\ old \subseteq Jobs /\ visits \in 0 .. MaxVisits

SiteInit ==
  /\ Init
  /\ app = "new" /\ old = {} /\ visits = 0
  /\ request = [u \in Users |-> "none"]
  /\ done    = [u \in Users |-> 0]
  /\ stats   = [u \in Users |-> <<>>]
  /\ answer  = [u \in Users |-> Nothing]
  /\ page    = [u \in Users |-> {}]

---------------------------------------------------------------------------
(* The life of the application *)

\* init_app opens the backend, sets the global client and, if the dashboard
\* is enabled, mounts it.
InitApp(enabled) ==
  /\ app = "new"
  /\ app' = IF enabled THEN "mounted" ELSE "bare"
  /\ UNCHANGED <<vars, request, done, stats, answer, page, old, visits>>

\* FastAPI's shutdown handler closes the backend.  Flask has none.
Shutdown ==
  /\ app \in {"bare", "mounted"}
  /\ app' = "down"
  /\ UNCHANGED <<vars, request, done, stats, answer, page, old, visits>>

\* The global client exists and its backend is open.
Connected == app \in {"bare", "mounted"} \/ (app = "down" /\ Framework = "flask")

---------------------------------------------------------------------------
(* Requests that are one transaction *)

\* The next request of a user who waits for none.
Visits(u) ==
  /\ request[u] = "none" /\ visits < MaxVisits
  /\ visits' = visits + 1

\* The user hears of the commit, or of an exception that came with it.
Replies(u, message) ==
  /\ answer' \in {[answer EXCEPT ![u] = m] :
                    m \in {message, Answer("raised", None, None, 0)}}
  /\ UNCHANGED <<app, request, done, stats, page, old>>

\* Without a client, with a class or arguments that Client.enqueue rejects, on
\* a closed pool, for an id that is not found, or when the database fails.
Raises(u) ==
  /\ Visits(u)
  /\ answer' = [answer EXCEPT ![u] = Answer("raised", None, None, 0)]
  /\ UNCHANGED <<vars, app, request, done, stats, page, old>>

\* Job.enqueue, enqueue_in and enqueue_at in the application's own code.
EnqueueJob(u, j, delayed) ==
  /\ Visits(u) /\ Connected
  /\ Enqueue(j, delayed)
  /\ Replies(u, Answer("enqueued", j, None, 0))
  /\ UNCHANGED <<paused, letterVars, holding, bulkVars, historyVars>>

\* The route says "cancelled" also when there was no such row to delete.
PostCancel(u, j) ==
  /\ Visits(u) /\ app = "mounted" /\ status[j] # "absent"
  /\ CancelJob(j) \/ (status[j] # "enqueued" /\ UNCHANGED vars)
  /\ Replies(u, Answer("cancelled", j, None, 0))

\* The button beside a letter on the page, which may be an old one.
PostResurrect(u, l, j) ==
  /\ Visits(u) /\ app = "mounted" /\ l \in page[u]
  /\ ResurrectOne(l, j)
  /\ Replies(u, Answer("re-enqueued", j, l, 0))

PostTrigger(u, j) ==
  /\ Visits(u) /\ app = "mounted"
  /\ TriggerSchedule(j)
  /\ Replies(u, Answer("enqueued", j, None, 0))

PostQueue(u, q) ==
  /\ Visits(u) /\ app = "mounted"
  /\ \/ PauseQueue(q) \/ ResumeQueue(q) \/ ClearQueue(q)
     \/ /\ \A j \in Jobs : QueueOf[j] = q => status[j] # "enqueued"
        /\ UNCHANGED vars   \* there is nothing to clear
  /\ Replies(u, Answer("done", None, None, 0))

---------------------------------------------------------------------------
(* Resurrect All *)

PostResurrectAll(u) ==
  /\ Visits(u) /\ app = "mounted"
  /\ BulkRead(u)
  /\ request' = [request EXCEPT ![u] = "bulk"]
  /\ answer'  = [answer EXCEPT ![u] = Nothing]
  /\ UNCHANGED <<app, done, stats, page, old>>

\* Mutated form: the letter is counted before it is resurrected.
CountsFirst(u, l) ==
  /\ request[u] = "bulk"
  /\ \/ Connected /\ \E j \in Jobs : BulkResurrect(u, l, j) \/ BulkRaisesLate(u, l, j)
     \/ BulkRaises(u, l)
  /\ done' = [done EXCEPT ![u] = @ + 1]
  /\ UNCHANGED <<app, request, stats, answer, page, old, visits>>

\* The pass goes on when the application shuts down: then every letter raises.
Counts(u, l) ==
  /\ request[u] = "bulk"
  /\ \/ /\ Connected /\ \E j \in Jobs : BulkResurrect(u, l, j)
        /\ done' = [done EXCEPT ![u] = @ + 1]
     \/ /\ \/ Connected /\ \E j \in Jobs : BulkRaisesLate(u, l, j)
           \/ BulkRaises(u, l)
        /\ UNCHANGED done
  /\ UNCHANGED <<app, request, stats, answer, page, old, visits>>

TellCount(u) ==
  /\ request[u] = "bulk" /\ todo[u] = {}
  /\ request' = [request EXCEPT ![u] = "none"]
  /\ answer'  = [answer EXCEPT ![u] = Answer("count", None, None, done[u])]
  /\ done'    = [done EXCEPT ![u] = 0]
  /\ UNCHANGED <<vars, app, stats, page, old, visits>>

---------------------------------------------------------------------------
(* Pages *)

\* list_dead_letters: ORDER BY ... LIMIT, resurrected or not.  Which rows come
\* first is left open.
FirstPage ==
  {rows \in SUBSET Letters :
     \/ Cardinality(Letters) <= PerPage /\ rows = Letters
     \/ Cardinality(Letters) > PerPage /\ Cardinality(rows) = PerPage}

\* dead.html calls url_for('.resurrect_all') once there is a letter to list, a
\* route name that only Flask resolves.
Renders == Letters # {} => Framework = "flask"

GetDead(u) ==
  /\ Visits(u) /\ app = "mounted" /\ Renders
  /\ \E rows \in FirstPage : page' = [page EXCEPT ![u] = rows]
  /\ UNCHANGED <<vars, app, request, done, stats, answer, old>>

Completed == {j \in Jobs : status[j] = "completed"}

\* Mutated form: completed_at is not looked at.
RecentlyCompletedEver == Completed

\* completed_at >= NOW() - INTERVAL '5 minutes'
RecentlyCompleted == Completed \ old

\* updated_at >= NOW() - INTERVAL '1 hour'
RecentlyUpdated == {j \in Jobs : InTable(j)} \ old

\* Each of the three numbers is read in a transaction of its own.
OverviewReads(u, n) ==
  /\ Connected
  /\ stats'   = [stats EXCEPT ![u] = n]
  /\ request' = [request EXCEPT ![u] = IF Len(n) = 3 THEN "none" ELSE "overview"]
  /\ UNCHANGED <<vars, app, done, answer, page, old>>

GetOverview(u) ==
  /\ Visits(u) /\ app = "mounted"
  /\ OverviewReads(u, <<Cardinality(Completed)>>)

GetThroughput(u) ==
  /\ request[u] = "overview" /\ Len(stats[u]) = 1 /\ UNCHANGED visits
  /\ OverviewReads(u, Append(stats[u], Cardinality(RecentlyCompleted)))

GetErrorRate(u) ==
  /\ request[u] = "overview" /\ Len(stats[u]) = 2 /\ UNCHANGED visits
  /\ OverviewReads(u, Append(stats[u], Cardinality(RecentlyUpdated)))

\* A query raises: there is no page.
OverviewRaises(u) ==
  /\ request[u] = "overview"
  /\ request' = [request EXCEPT ![u] = "none"]
  /\ stats'   = [stats EXCEPT ![u] = <<>>]
  /\ answer'  = [answer EXCEPT ![u] = Answer("raised", None, None, 0)]
  /\ UNCHANGED <<vars, app, done, page, old, visits>>

---------------------------------------------------------------------------
(* Beside the application *)

\* A row gets old; the three queries of one page take less than the 55 minutes
\* between their windows.
Age(j) ==
  /\ InTable(j) /\ j \notin old /\ Cardinality(old) < MaxOld
  /\ \A u \in Users : request[u] # "overview"
  /\ old' = old \cup {j}
  /\ UNCHANGED <<vars, app, request, done, stats, answer, page, visits>>

\* Bound: --older-than is 1d at least.  (The command takes 0d, which can delete
\* what completed a moment ago, between two numbers of an overview.)
Purge(rows) ==
  /\ PurgeLetters(rows) \/ (rows \subseteq old /\ PurgeJobs(rows))
  /\ UNCHANGED siteVars

\* A worker's write sets updated_at.
WorkBeside(w) ==
  /\ Work(w)
  /\ old' = {j \in old : status'[j] = status[j]}
  /\ UNCHANGED <<app, request, done, stats, answer, page, visits>>

Visit(u) ==
  \/ Raises(u) \/ PostResurrectAll(u) \/ TellCount(u) \/ GetDead(u)
  \/ GetOverview(u) \/ GetThroughput(u) \/ GetErrorRate(u) \/ OverviewRaises(u)
  \/ \E j \in Jobs, delayed \in BOOLEAN : EnqueueJob(u, j, delayed)
  \/ \E j \in Jobs : PostCancel(u, j) \/ PostTrigger(u, j) \/ Counts(u, j)
  \/ \E l, j \in Jobs : PostResurrect(u, l, j)
  \/ \E q \in Queues : PostQueue(u, q)

SiteNext ==
  \/ \E enabled \in BOOLEAN : InitApp(enabled)
  \/ Shutdown
  \/ \E u \in Users : Visit(u)
  \/ \E j \in Jobs : Age(j)
  \/ \E rows \in SUBSET Jobs : Purge(rows)
  \/ \E w \in Workers : WorkBeside(w)

SiteSpec == SiteInit /\ [][SiteNext]_allVars

---------------------------------------------------------------------------

\* What a user is told of a job is so, whatever raised on the way and whatever
\* others did since: a job that was accepted is in the table until it is removed,
\* a resurrected one comes from the letter that was clicked, and "Resurrected n"
\* leaves out exactly letters whose resurrect() raised.  ("Job cancelled" is not
\* among them: cancel() does not tell whether there was a row to delete.)
AnswersHold ==
  \A u \in Users : LET a == answer[u] IN
    /\ a.said = "enqueued"    => status[a.job] # "absent"
    /\ a.said = "re-enqueued" => /\ status[a.job] # "absent"
                                 /\ origin[a.job] = a.letter
                                 /\ a.letter \in resurrected
    /\ a.said = "count" => /\ a.count >= Cardinality(asked[u] \ raised)
                           /\ a.count <= Cardinality(asked[u] \cap resurrected)

\* Completed rows that have outlived the windows, purged since or not.
Outlived == {j \in old : status[j] \in {"completed", "deleted"}}

\* The numbers of one overview come from three transactions and still agree: no
\* more jobs completed in 5 minutes than rows were touched in the hour, and no
\* fewer than the status counts said when no completed row is older than that,
\* while workers finish jobs and old rows of any status are purged.
OverviewAgrees ==
  \A u \in Users : Len(stats[u]) = 3 =>
    /\ stats[u][2] <= stats[u][3]
    /\ Outlived = {} => stats[u][1] <= stats[u][2]
===========================================================================
