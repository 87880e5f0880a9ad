---------------------------- MODULE SQLiteDriver ----------------------------
(***************************************************************************)
(* The SQLite driver below the level of JobStore: one connection and one   *)
(* threading.Lock per process, one writer per database file, statements    *)
(* that fail or wait, rollback and close().  The tables of JobStore hold   *)
(* what is committed; what a transaction has selected is in row.  The      *)
(* calls stand for any worker, detector or client that makes them.         *)
(***************************************************************************)
EXTENDS DriverCalls

CONSTANTS MaxCalls  \* bound on the number of calls

ASSUME DriverAssumption == MaxCalls \in Nat

VARIABLES
  lock,    \* self._lock: the thread that holds it
  closed,  \* self._closed
  writer,  \* the process that holds the write lock of the database file
  at,      \* of a thread: where it is in its call
  calls

driverVars == <<lock, closed, writer>>
callVars   == <<at, call, row, calls>>
vars == <<storeVars, driverVars, callVars>>

Places  == {"idle", "waiting", "locked", "read", "begun"}

TypeOK ==
  /\ StoreTypeOK /\ CallTypeOK
  /\ lock   \in [Workers -> Threads \cup {None}]
  /\ closed \in [Workers -> BOOLEAN]
  /\ writer \in Workers \cup {None}
  /\ at     \in [Threads -> Places]
  /\ calls  \in 0..MaxCalls

Init ==
  /\ StoreInit /\ NoCalls
  /\ lock   = [p \in Workers |-> None]
  /\ closed = [p \in Workers |-> FALSE]
  /\ writer = None
  /\ at     = [t \in Threads |-> "idle"]
  /\ calls  = 0

\* The with block of the lock is left, by return or by an exception.
Return(t) ==
  /\ lock' = [lock EXCEPT ![HostOf[t]] = None]
  /\ at'   = [at EXCEPT ![t] = "idle"]
  /\ call' = [call EXCEPT ![t] = None]
  /\ row'  = [row EXCEPT ![t] = None]
  /\ UNCHANGED <<closed, calls>>

Call(t, method, r) ==
  /\ at[t] = "idle" /\ calls < MaxCalls
  /\ Names(t, method, r)
  /\ at'    = [at EXCEPT ![t] = "waiting"]
  /\ call'  = [call EXCEPT ![t] = method]
  /\ row'   = [row EXCEPT ![t] = r]
  /\ calls' = calls + 1
  /\ UNCHANGED <<storeVars, driverVars>>

Acquire(t) ==
  /\ at[t] = "waiting" /\ lock[HostOf[t]] = None /\ ~closed[HostOf[t]]
  /\ lock' = [lock EXCEPT ![HostOf[t]] = t]
  /\ at'   = [at EXCEPT ![t] = "locked"]
  /\ UNCHANGED <<storeVars, closed, writer, call, row, calls>>

\* After close() fetch_next returns None and every other method raises.
AcquireClosed(t) ==
  /\ at[t] = "waiting" /\ lock[HostOf[t]] = None /\ closed[HostOf[t]]
  /\ Return(t)
  /\ UNCHANGED <<storeVars, writer>>

\* move_to_dead reads its row first, outside of any transaction, and returns at
\* once if there is none.
ReadRow(t) ==
  /\ at[t] = "locked" /\ call[t] = "move_to_dead" /\ InTable(row[t])
  /\ at' = [at EXCEPT ![t] = "read"]
  /\ UNCHANGED <<storeVars, driverVars, call, row, calls>>

NothingToBury(t) ==
  /\ at[t] = "locked" /\ call[t] = "move_to_dead" /\ ~InTable(row[t])
  /\ Return(t)
  /\ UNCHANGED <<storeVars, writer>>

ReadyToWrite(t) ==
  at[t] = (IF call[t] = "move_to_dead" THEN "read" ELSE "locked")

\* Mutated form: the default, deferred BEGIN takes no write lock.
BeginDeferred(t) ==
  /\ ReadyToWrite(t)
  /\ at' = [at EXCEPT ![t] = "begun"]
  /\ UNCHANGED <<storeVars, driverVars, call, row, calls>>

\* BEGIN IMMEDIATE, or the write that opens the transaction of the others.
Begin(t) ==
  /\ ReadyToWrite(t) /\ writer = None
  /\ writer' = HostOf[t]
  /\ at' = [at EXCEPT ![t] = "begun"]
  /\ UNCHANGED <<storeVars, lock, closed, call, row, calls>>

\* busy_timeout runs out while another process writes.
Busy(t) ==
  /\ ReadyToWrite(t) /\ writer \notin {None, HostOf[t]}
  /\ Return(t)
  /\ UNCHANGED <<storeVars, writer>>

Select(t, j) ==
  /\ at[t] = "begun" /\ call[t] = "fetch_next" /\ row[t] = None
  /\ Eligible(j)
  /\ row' = [row EXCEPT ![t] = j]
  /\ UNCHANGED <<storeVars, driverVars, at, call, calls>>

\* Mutated form: an empty queue returns None without a commit.
SelectNothingLeftOpen(t) ==
  /\ at[t] = "begun" /\ call[t] = "fetch_next" /\ row[t] = None
  /\ \A j \in Jobs : ~Eligible(j)
  /\ Return(t)
  /\ UNCHANGED <<storeVars, writer>>

SelectNothing(t) ==
  /\ at[t] = "begun" /\ call[t] = "fetch_next" /\ row[t] = None
  /\ \A j \in Jobs : ~Eligible(j)
  /\ Return(t) /\ writer' = None
  /\ UNCHANGED storeVars

Commit(t) ==
  /\ at[t] = "begun" /\ row[t] # None
  /\ Effect(HostOf[t], call[t], row[t])
  /\ Return(t) /\ writer' = None

\* A statement raises: rollback and raise again.
Rollback(t) ==
  /\ at[t] = "begun"
  /\ Return(t) /\ writer' = None
  /\ UNCHANGED storeVars

\* Mutated form: close() does not take the lock.
CloseAtOnce(p) ==
  /\ ~closed[p]
  /\ closed' = [closed EXCEPT ![p] = TRUE]
  /\ UNCHANGED <<storeVars, lock, writer, callVars>>

Close(p) ==
  /\ lock[p] = None /\ ~closed[p]
  /\ closed' = [closed EXCEPT ![p] = TRUE]
  /\ UNCHANGED <<storeVars, lock, writer, callVars>>

\* The process dies and another one opens the file with the same worker id.
Crash(p) ==
  /\ lock'   = [lock EXCEPT ![p] = None]
  /\ closed' = [closed EXCEPT ![p] = FALSE]
  /\ writer' = IF writer = p THEN None ELSE writer
  /\ at'     = [t \in Threads |-> IF HostOf[t] = p THEN "idle" ELSE at[t]]
  /\ call'   = [t \in Threads |-> IF HostOf[t] = p THEN None ELSE call[t]]
  /\ row'    = [t \in Threads |-> IF HostOf[t] = p THEN None ELSE row[t]]
  /\ UNCHANGED <<storeVars, calls>>

Proceed(t) ==
  \/ Acquire(t) \/ AcquireClosed(t) \/ ReadRow(t) \/ NothingToBury(t)
  \/ Begin(t) \/ Busy(t)
  \/ (\E j \in Jobs : Select(t, j)) \/ SelectNothing(t) \/ Commit(t) \/ Rollback(t)

Next ==
  \/ \E t \in Threads :
       \/ Proceed(t)
       \/ \E method \in Methods, r \in Jobs \cup Workers \cup {None} : Call(t, method, r)
  \/ \E p \in Workers : Close(p) \/ Crash(p)

Spec == Init /\ [][Next]_vars

\* A running thread goes on; nothing is assumed of Call, Close and Crash.
FairSpec == Spec /\ \A t \in Threads : WF_vars(Proceed(t))

---------------------------------------------------------------------------

\* close() waits for the call in progress: it never cuts into a transaction.
CloseWaits == \A p \in Workers : closed[p] => writer # p

\* No path out of a call leaves a transaction open behind it, which would lock
\* the file for every other process.
TransactionsEnd == \A p \in Workers : writer = p ~> writer # p
===========================================================================
