-------------------------- MODULE PostgreSQLDriver --------------------------
(***************************************************************************)
(* The PostgreSQL driver below the level of JobStore: a pool of            *)
(* connections per process, READ COMMITTED transactions, row locks that    *)
(* fetch_next skips and every other statement waits for, statements that   *)
(* fail, processes that die.  The tables of JobStore hold what is          *)
(* committed.  The calls stand for any worker, detector or client.         *)
(***************************************************************************)
EXTENDS DriverCalls, Integers

CONSTANTS
  MaxConn,          \* max_size of a pool
  QueueOf, Serves,  \* the queue of a job; the queues that a process serves
  Priorities,       \* assignments of priorities to jobs; the lowest goes first
  Stock,            \* jobs that are enqueued at the start ...
  Order,            \* ... and for each job those with an earlier created_at
  Called, MaxCalls  \* the methods called, and the bound on the number of calls

ASSUME PostgreSQLAssumption ==
  /\ MaxConn \in Nat \ {0} /\ MaxCalls \in Nat
  /\ Priorities \subseteq [Jobs -> Int]
  /\ Stock \subseteq Jobs /\ Order \in [Jobs -> SUBSET Jobs] /\ Called \subseteq Methods
  /\ \A p \in Workers : \A j \in Jobs : (QueueOf[j] \in Serves[p]) \in BOOLEAN

VARIABLES
  priority, older,  \* the columns that order a queue: priority, and whose created_at
                    \* comes before that of a row
  free,    \* of a process: connections its pool can still hand out
  shut,    \* its pool is closed
  owner,   \* of a row: the thread whose transaction has locked it
  at,      \* of a thread: where it is in its call
  seen,    \* rows that the SELECT of its fetch_next has still to look at
  waited,  \* history: free rows of its snapshot that no other transaction has locked
  calls

poolVars == <<free, shut>>
scanVars == <<seen, waited>>
vars == <<storeVars, priority, older, poolVars, owner, at, call, row, scanVars, calls>>

Rows   == Jobs \cup Workers
Places == {"idle", "waiting", "connected", "scanning", "read", "written"}

TypeOK ==
  /\ StoreTypeOK /\ CallTypeOK
  /\ priority \in Priorities /\ older \in [Jobs -> SUBSET Jobs]
  /\ free  \in [Workers -> 0..MaxConn] /\ shut \in [Workers -> BOOLEAN]
  /\ owner \in [Rows -> Threads \cup {None}]
  /\ at    \in [Threads -> Places]
  /\ seen  \in [Threads -> SUBSET Jobs] /\ waited \in [Threads -> SUBSET Jobs]
  /\ calls \in 0..MaxCalls

Init ==
  /\ status = [j \in Jobs |-> IF j \in Stock THEN "enqueued" ELSE "absent"]
  /\ attempts = [j \in Jobs |-> 0] /\ workerId = [j \in Jobs |-> None]
  /\ due = [j \in Jobs |-> TRUE] /\ letters = [j \in Jobs |-> 0]
  /\ registered = [w \in Workers |-> "absent"] /\ beat = [w \in Workers |-> "fresh"]
  /\ NoCalls
  /\ priority \in Priorities /\ older = Order
  /\ free   = [p \in Workers |-> MaxConn] /\ shut = [p \in Workers |-> FALSE]
  /\ owner  = [r \in Rows |-> None]
  /\ at     = [t \in Threads |-> "idle"]
  /\ seen   = [t \in Threads |-> {}] /\ waited = [t \in Threads |-> {}]
  /\ calls  = 0

InTransaction(t) == at[t] \notin {"idle", "waiting"}
Goto(t, place) == at' = [at EXCEPT ![t] = place]

\* The call is over, by return or by an exception.
Leave(t) ==
  /\ Goto(t, "idle")
  /\ call'   = [call EXCEPT ![t] = None]
  /\ row'    = [row EXCEPT ![t] = None]
  /\ seen'   = [seen EXCEPT ![t] = {}]
  /\ waited' = [waited EXCEPT ![t] = {}]
  /\ UNCHANGED <<priority, older, shut, calls>>

\* Commit or rollback: row locks are released, the connection goes back.
EndTransaction(t) ==
  /\ owner' = [r \in Rows |-> IF owner[r] = t THEN None ELSE owner[r]]
  /\ free'  = [free EXCEPT ![HostOf[t]] = @ + 1]
  /\ Leave(t)

Call(t, method, r) ==
  /\ at[t] = "idle" /\ calls < MaxCalls
  /\ Names(t, method, r)
  /\ Goto(t, "waiting")
  /\ call'  = [call EXCEPT ![t] = method]
  /\ row'   = [row EXCEPT ![t] = r]
  /\ calls' = calls + 1
  /\ UNCHANGED <<storeVars, priority, older, poolVars, owner, scanVars>>

---------------------------------------------------------------------------
(* The pool *)

BornLast(r) == [j \in Jobs |-> IF j = r THEN Jobs \ {r} ELSE older[j] \ {r}]

\* NOW() is the start of the transaction, so created_at is fixed here.
Connect(t) ==
  /\ at[t] = "waiting" /\ ~shut[HostOf[t]] /\ free[HostOf[t]] > 0
  /\ free' = [free EXCEPT ![HostOf[t]] = @ - 1]
  /\ older' = IF call[t] = "enqueue" THEN BornLast(row[t]) ELSE older
  /\ Goto(t, "connected")
  /\ UNCHANGED <<storeVars, priority, shut, owner, call, row, scanVars, calls>>

\* PoolTimeout
ConnectTimesOut(t) ==
  /\ at[t] = "waiting" /\ free[HostOf[t]] = 0
  /\ Leave(t)
  /\ UNCHANGED <<storeVars, free, owner>>

\* PoolClosed
ConnectRefused(t) ==
  /\ at[t] = "waiting" /\ shut[HostOf[t]]
  /\ Leave(t)
  /\ UNCHANGED <<storeVars, free, owner>>

\* close(): a connection that is in use goes on until it is given back.
Close(t) ==
  /\ at[t] = "idle" /\ calls < MaxCalls /\ ~shut[HostOf[t]]
  /\ shut'  = [shut EXCEPT ![HostOf[t]] = TRUE]
  /\ calls' = calls + 1
  /\ UNCHANGED <<storeVars, priority, older, free, owner, at, call, row, scanVars>>

---------------------------------------------------------------------------
(* Row locks *)

\* For everybody else r has been in other hands.
Lock(t, r) ==
  /\ owner'  = [owner EXCEPT ![r] = t]
  /\ waited' = [u \in Threads |-> IF u = t THEN waited[u] ELSE waited[u] \ {r}]

\* The statement's snapshot of the rows that match.
Snapshot(t) ==
  /\ at[t] = "connected" /\ call[t] = "fetch_next"
  /\ Goto(t, "scanning")
  /\ seen' = [seen EXCEPT ![t] =
                {j \in Jobs : Eligible(j) /\ QueueOf[j] \in Serves[HostOf[t]]}]
  /\ waited' = [waited EXCEPT ![t] = {j \in seen'[t] : owner[j] = None}]
  /\ UNCHANGED <<storeVars, priority, older, poolVars, owner, call, row, calls>>

\* ORDER BY priority ASC, created_at ASC
ServedBefore(j, k) ==
  \/ priority[j] < priority[k]
  \/ priority[j] = priority[k] /\ j \in older[k]

Foremost(t, j) == j \in seen[t] /\ \A k \in seen[t] \ {j} : ServedBefore(j, k)

\* Mutated form: LIMIT 1 in a subquery, SKIP LOCKED outside it: no second choice.
SkipSole(t, j) ==
  /\ at[t] = "scanning" /\ Foremost(t, j)
  /\ owner[j] # None \/ ~Eligible(j)
  /\ seen' = [seen EXCEPT ![t] = {}]
  /\ UNCHANGED <<storeVars, priority, older, poolVars, owner, at, call, row, waited,
                 calls>>

\* SKIP LOCKED, and a row that has changed since the snapshot is looked at again.
Skip(t, j) ==
  /\ at[t] = "scanning" /\ Foremost(t, j)
  /\ owner[j] # None \/ ~Eligible(j)
  /\ seen' = [seen EXCEPT ![t] = @ \ {j}]
  /\ UNCHANGED <<storeVars, priority, older, poolVars, owner, at, call, row, waited,
                 calls>>

\* Mutated form: the row is claimed as the snapshot has it.
TakeStale(t, j) ==
  /\ at[t] = "scanning" /\ Foremost(t, j) /\ owner[j] = None
  /\ Lock(t, j) /\ Goto(t, "written")
  /\ row' = [row EXCEPT ![t] = j]
  /\ UNCHANGED <<storeVars, priority, older, poolVars, call, seen, calls>>

\* FOR UPDATE, LIMIT 1, and the UPDATE of the row that was selected.
Take(t, j) ==
  /\ at[t] = "scanning" /\ Foremost(t, j) /\ owner[j] = None /\ Eligible(j)
  /\ Lock(t, j) /\ Goto(t, "written")
  /\ row' = [row EXCEPT ![t] = j]
  /\ UNCHANGED <<storeVars, priority, older, poolVars, call, seen, calls>>

TakeNothing(t) ==
  /\ at[t] = "scanning" /\ seen[t] = {}
  /\ EndTransaction(t)
  /\ UNCHANGED storeVars

\* move_to_dead reads its row without a lock, and returns if there is none.
ReadRow(t) ==
  /\ at[t] = "connected" /\ call[t] = "move_to_dead" /\ InTable(row[t])
  /\ Goto(t, "read")
  /\ UNCHANGED <<storeVars, priority, older, poolVars, owner, call, row, scanVars, calls>>

NothingToBury(t) ==
  /\ at[t] = "connected" /\ call[t] = "move_to_dead" /\ ~InTable(row[t])
  /\ EndTransaction(t)
  /\ UNCHANGED storeVars

\* INSERT, or UPDATE and DELETE ... WHERE id, which wait for a locked row.
Write(t) ==
  /\ at[t] = (IF call[t] = "move_to_dead" THEN "read" ELSE "connected")
  /\ call[t] # "fetch_next" /\ owner[row[t]] = None
  /\ Lock(t, row[t]) /\ Goto(t, "written")
  /\ UNCHANGED <<storeVars, priority, older, poolVars, call, row, seen, calls>>

Commit(t) ==
  /\ at[t] = "written"
  /\ Effect(HostOf[t], call[t], row[t])
  /\ EndTransaction(t)

\* Mutated form: the connection is given back as it is, without a rollback.
StatementFailsOpen(t) ==
  /\ InTransaction(t)
  /\ free' = [free EXCEPT ![HostOf[t]] = @ + 1]
  /\ Leave(t)
  /\ UNCHANGED <<storeVars, owner>>

\* Any statement, or the COMMIT, raises: the pool rolls back.
StatementFails(t) ==
  /\ InTransaction(t)
  /\ EndTransaction(t)
  /\ UNCHANGED storeVars

\* The server rolls back what the process leaves; a new one has a new pool.
Crash(p) ==
  LET gone == {t \in Threads : HostOf[t] = p} IN
  /\ \E t \in gone : at[t] # "idle"
  /\ owner'  = [r \in Rows |-> IF owner[r] \in gone THEN None ELSE owner[r]]
  /\ free'   = [free EXCEPT ![p] = MaxConn]
  /\ shut'   = [shut EXCEPT ![p] = FALSE]
  /\ at'     = [t \in Threads |-> IF t \in gone THEN "idle" ELSE at[t]]
  /\ call'   = [t \in Threads |-> IF t \in gone THEN None ELSE call[t]]
  /\ row'    = [t \in Threads |-> IF t \in gone THEN None ELSE row[t]]
  /\ seen'   = [t \in Threads |-> IF t \in gone THEN {} ELSE seen[t]]
  /\ waited' = [t \in Threads |-> IF t \in gone THEN {} ELSE waited[t]]
  /\ UNCHANGED <<storeVars, priority, older, calls>>

Proceed(t) ==
  \/ Connect(t) \/ ConnectRefused(t) \/ Snapshot(t)
  \/ \E j \in Jobs : Skip(t, j) \/ Take(t, j)
  \/ TakeNothing(t) \/ ReadRow(t) \/ NothingToBury(t) \/ Write(t) \/ Commit(t)

Next ==
  \/ \E t \in Threads :
       \/ Proceed(t) \/ ConnectTimesOut(t) \/ StatementFails(t) \/ Close(t)
       \/ \E method \in Called, r \in Rows \cup {None} : Call(t, method, r)
  \/ \E p \in Workers : Crash(p)

Spec == Init /\ [][Next]_vars

\* A thread that can go on does; timeouts and failures are not relied upon.
FairSpec == Spec /\ \A t \in Threads : WF_vars(Proceed(t))

---------------------------------------------------------------------------

\* A row that was ready and free at the snapshot of a fetch, and that no other
\* transaction has locked since, is never passed over: whatever the fetch skips,
\* it still has that row to look at, and what it takes is served before it.
NoOvertaking ==
  \A t \in Threads : at[t] \in {"scanning", "written"} /\ call[t] = "fetch_next" =>
    /\ waited[t] \subseteq seen[t]
    /\ at[t] = "written" => \A k \in waited[t] \ {row[t]} : ServedBefore(row[t], k)

\* Every call ends, with more threads than connections and with locked rows
\* too, and without the help of a timeout: no transaction waits for a row
\* while it holds one that another transaction waits for.
CallsEnd == \A t \in Threads : at[t] # "idle" ~> at[t] = "idle"
===========================================================================
