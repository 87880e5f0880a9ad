---------------------- MODULE PostgreSQLDriverProofs ----------------------
(* Proofs about PostgreSQLDriver, for every number of jobs, processes,     *)
(* threads, connections and calls, all priorities and all queues.          *)
EXTENDS PostgreSQLDriver, DriverCallsProofs

---------------------------------------------------------------------------
(* The invariant *)

Typed ==
  /\ status \in [Jobs -> JobStatus] /\ due \in [Jobs -> BOOLEAN]
  /\ call   \in [Threads -> Methods \cup {None}]
  /\ row    \in [Threads -> Rows \cup {None}]
  /\ owner  \in [Rows -> Threads \cup {None}]
  /\ at     \in [Threads -> Places]
  /\ seen   \in [Threads -> SUBSET Jobs] /\ waited \in [Threads -> SUBSET Jobs]
  /\ older  \in [Jobs -> SUBSET Jobs]

\* A call is about a row of the right table; fetch_next has none until it takes
\* one.  What a job method names has been inserted, what enqueue names has not.
Named ==
  \A t \in Threads :
    /\ at[t] # "idle" => call[t] # None
    /\ at[t] = "scanning" => call[t] = "fetch_next"
    /\ call[t] \in JobMethods => row[t] \in Jobs /\ status[row[t]] # "absent"
    /\ call[t] = "enqueue" => row[t] \in Jobs /\ status[row[t]] = "absent"
    /\ call[t] \in WorkerMethods => row[t] \in Workers
    /\ at[t] = "written" => row[t] \in Rows

\* Each new row has an id of its own.
Apart ==
  \A t, u \in Threads :
    t # u /\ call[t] = "enqueue" /\ call[u] = "enqueue" => row[t] # row[u]

\* What a transaction has written, it has locked; what fetch_next took is as
\* its WHERE clause wants it until the commit.
Locked ==
  \A t \in Threads : at[t] = "written" =>
    /\ owner[row[t]] = t
    /\ call[t] = "fetch_next" => row[t] \in Jobs /\ Eligible(row[t])

\* What nobody has locked since the snapshot is as the snapshot has it, so that
\* neither reason to skip a row applies to it.
Ready ==
  \A t \in Threads : at[t] = "scanning" =>
    \A k \in waited[t] : owner[k] = None /\ Eligible(k)

IInv == Typed /\ Named /\ Apart /\ Locked /\ Ready /\ NoOvertaking

LEMMA InitInvariant == Init => IInv
<1> SUFFICES ASSUME Init PROVE IInv
  OBVIOUS
<1> USE CallAssumption, PostgreSQLAssumption DEF Init, NoCalls
<1>1. \A t \in Threads : call[t] = None /\ at[t] = "idle"
  OBVIOUS
<1>2. Typed
  BY DEF Typed, JobStatus, Rows, Places
<1>3. Named /\ Apart /\ Locked /\ Ready
  BY <1>1 DEF Named, Apart, Locked, Ready, Methods
<1>4. NoOvertaking
  BY <1>1 DEF NoOvertaking
<1> QED BY <1>2, <1>3, <1>4 DEF IInv

---------------------------------------------------------------------------
(* Steps that leave the tables alone *)

\* The call of a thread is over, its locks are free, no row has changed.
LEMMA LeaveKeepsInvariant ==
  ASSUME IInv, NEW t \in Threads, Leave(t), UNCHANGED status,
         \/ UNCHANGED owner /\ at[t] = "waiting"
         \/ owner' = [r \in Rows |-> IF owner[r] = t THEN None ELSE owner[r]],
         UNCHANGED <<due, older>>
  PROVE  IInv'
<1> USE CallAssumption DEF IInv, Leave, Goto, Rows
<1>1. Typed'
  BY DEF Typed, Places, Methods
<1>2. Named'
  BY DEF Typed, Named, Methods, JobMethods, WorkerMethods
<1>3. Apart'
  BY DEF Typed, Apart, Methods
<1>4. Locked'
  BY DEF Typed, Named, Locked, Eligible
<1>5. NoOvertaking'
  BY DEF Typed, NoOvertaking, ServedBefore
<1>6. Ready'
  BY DEF Typed, Ready, Eligible, Methods
<1> QED BY <1>1, <1>2, <1>3, <1>4, <1>5, <1>6

LEMMA CallStep ==
  ASSUME IInv, NEW t \in Threads, NEW method \in Called, NEW r \in Rows \cup {None},
         Call(t, method, r)
  PROVE  IInv'
<1> USE CallAssumption, StoreAssumption, PostgreSQLAssumption
    DEF IInv, Call, Goto, storeVars, jobVars, scanVars
<1>a. method \in Methods
  OBVIOUS
<1> USE <1>a, NamesGive
<1>1. Typed'
  BY DEF Typed, Places
<1>2. Named'
  BY DEF Typed, Named, Methods, JobMethods, WorkerMethods, Rows
<1>3. Apart'
  BY DEF Typed, Apart
<1>4. Locked'
  BY DEF Typed, Locked, Eligible
<1>5. NoOvertaking'
  BY DEF Typed, NoOvertaking, ServedBefore
<1>6. Ready'
  BY DEF Typed, Ready, Eligible
<1> QED BY <1>1, <1>2, <1>3, <1>4, <1>5, <1>6

\* A new row is the last in its queue, behind every row that a thread has taken.
LEMMA ConnectStep == ASSUME IInv, NEW t \in Threads, Connect(t) PROVE IInv'
<1> USE CallAssumption DEF IInv, Connect, Goto, storeVars, jobVars, scanVars
<1>1. Typed'
  BY DEF Typed, Places, BornLast
<1>2. Named'
  BY DEF Typed, Named
<1>3. Apart'
  BY DEF Typed, Apart
<1>4. Locked'
  BY DEF Typed, Locked, Eligible
<1>5. NoOvertaking'
  <2>1. SUFFICES ASSUME NEW u \in Threads, at[u] = "written", call[u] = "fetch_next",
                        NEW k \in waited[u] \ {row[u]}
                 PROVE  ServedBefore(row[u], k)'
    BY DEF Typed, NoOvertaking
  <2>2. ServedBefore(row[u], k) /\ row[u] \in Jobs /\ Eligible(row[u]) /\ k \in Jobs
    BY <2>1 DEF NoOvertaking, Locked, Typed
  <2>3. CASE call[t] # "enqueue"
    BY <2>2, <2>3 DEF ServedBefore
  <2>4. CASE call[t] = "enqueue"
    <3>1. row[t] # row[u]
      BY <2>2, <2>4 DEF Named, Eligible
    <3> QED BY <2>2, <2>4, <3>1 DEF ServedBefore, BornLast, Typed
  <2> QED BY <2>3, <2>4
<1>6. Ready'
  BY DEF Typed, Ready, Eligible
<1> QED BY <1>1, <1>2, <1>3, <1>4, <1>5, <1>6

LEMMA CloseStep == ASSUME IInv, NEW t \in Threads, Close(t) PROVE IInv'
BY DEF IInv, Close, storeVars, jobVars, scanVars, Typed, Named, Apart, Locked, Ready,
       Eligible, NoOvertaking, ServedBefore

---------------------------------------------------------------------------
(* fetch_next *)

LEMMA SnapshotStep == ASSUME IInv, NEW t \in Threads, Snapshot(t) PROVE IInv'
<1> USE CallAssumption DEF IInv, Snapshot, Goto, storeVars, jobVars
<1>1. Typed'
  BY DEF Typed, Places
<1>2. Named' /\ Apart'
  BY DEF Typed, Named, Apart
<1>3. Locked'
  BY DEF Typed, Locked, Eligible
<1>4. NoOvertaking'
  <2>1. waited'[t] \subseteq seen'[t] /\ at'[t] = "scanning"
    BY DEF Typed
  <2>2. \A u \in Threads \ {t} :
          /\ at'[u] = at[u] /\ seen'[u] = seen[u] /\ waited'[u] = waited[u]
    BY DEF Typed
  <2> QED BY <2>1, <2>2 DEF NoOvertaking, ServedBefore
<1>5. Ready'
  BY DEF Typed, Ready, Eligible
<1> QED BY <1>1, <1>2, <1>3, <1>4, <1>5

\* The row that is skipped is locked or has changed, and so was in other hands.
LEMMA SkipStep ==
  ASSUME IInv, NEW t \in Threads, NEW j \in Jobs, Skip(t, j) PROVE IInv'
<1> USE CallAssumption DEF IInv, Skip, storeVars, jobVars
<1>1. Typed'
  BY DEF Typed
<1>2. Named' /\ Apart'
  BY DEF Typed, Named, Apart
<1>3. Locked'
  BY DEF Typed, Locked, Eligible
<1>4. NoOvertaking'
  <2>1. j \notin waited[t]
    BY DEF Ready
  <2> QED BY <2>1 DEF Typed, NoOvertaking, ServedBefore
<1>5. Ready'
  BY DEF Typed, Ready, Eligible
<1> QED BY <1>1, <1>2, <1>3, <1>4, <1>5

\* The row that is taken is the foremost of what is left to look at, and all
\* that could have been had since the snapshot is left.
LEMMA TakeStep ==
  ASSUME IInv, NEW t \in Threads, NEW j \in Jobs, Take(t, j) PROVE IInv'
<1> USE CallAssumption DEF IInv, Take, Goto, Lock, storeVars, jobVars
<1>0. j \in Rows
  BY DEF Rows
<1>1. Typed'
  BY <1>0 DEF Typed, Places
<1>2. Named' /\ Apart'
  BY <1>0 DEF Typed, Named, Apart, Methods, JobMethods, WorkerMethods
<1>3. Locked'
  BY <1>0 DEF Typed, Named, Locked, Eligible
<1>4. NoOvertaking'
  BY DEF Typed, NoOvertaking, ServedBefore, Foremost
<1>5. Ready'
  BY DEF Typed, Ready, Eligible, Foremost
<1> QED BY <1>1, <1>2, <1>3, <1>4, <1>5

---------------------------------------------------------------------------
(* The other statements *)

LEMMA ReadRowStep == ASSUME IInv, NEW t \in Threads, ReadRow(t) PROVE IInv'
<1> USE CallAssumption DEF IInv, ReadRow, Goto, storeVars, jobVars, scanVars
<1>1. Typed' /\ Named' /\ Apart'
  BY DEF Typed, Named, Apart, Places
<1>2. Locked'
  BY DEF Typed, Locked, Eligible
<1>3. NoOvertaking'
  BY DEF Typed, NoOvertaking, ServedBefore
<1>4. Ready'
  BY DEF Typed, Ready, Eligible
<1> QED BY <1>1, <1>2, <1>3, <1>4

LEMMA WriteStep == ASSUME IInv, NEW t \in Threads, Write(t) PROVE IInv'
<1> USE CallAssumption DEF IInv, Write, Goto, Lock, storeVars, jobVars
<1>0. row[t] \in Rows
  BY DEF Typed, Named, Methods, Rows
<1>1. Typed'
  BY <1>0 DEF Typed, Places
<1>2. Named' /\ Apart'
  BY <1>0 DEF Typed, Named, Apart
<1>3. Locked'
  BY <1>0 DEF Typed, Named, Locked, Eligible
<1>4. NoOvertaking'
  BY DEF Typed, NoOvertaking, ServedBefore
<1>5. Ready'
  BY DEF Typed, Ready, Eligible
<1> QED BY <1>1, <1>2, <1>3, <1>4, <1>5

LEMMA CrashStep == ASSUME IInv, NEW p \in Workers, Crash(p) PROVE IInv'
<1> USE CallAssumption DEF IInv, Crash, storeVars, jobVars
<1>1. Typed'
  BY DEF Typed, Places
<1>2. Named'
  BY DEF Typed, Named, Methods, JobMethods, WorkerMethods
<1>3. Apart'
  BY DEF Typed, Apart, Methods
<1>4. Locked'
  BY DEF Typed, Named, Locked, Eligible
<1>5. NoOvertaking'
  BY DEF Typed, NoOvertaking, ServedBefore, Methods
<1>6. Ready'
  <2> SUFFICES ASSUME NEW u \in Threads, at'[u] = "scanning", NEW k \in waited'[u]
               PROVE  owner'[k] = None /\ Eligible(k)'
    BY DEF Ready
  <2>1. at[u] = "scanning" /\ k \in waited[u] /\ k \in Rows
    BY DEF Typed, Rows
  <2> QED BY <2>1 DEF Ready, Eligible
<1> QED BY <1>1, <1>2, <1>3, <1>4, <1>5, <1>6

---------------------------------------------------------------------------
(* Commit *)

\* The commit of a call whose row is locked and as the call has found it.
LEMMA CommitEffect ==
  ASSUME IInv, NEW t \in Threads, Commit(t)
  PROVE  /\ Statement /\ Narrow(row[t])
         /\ call[t] \in WorkerMethods => UNCHANGED status
<1>1. /\ call[t] \in Methods /\ HostOf[t] \in Workers
      /\ Effect(HostOf[t], call[t], row[t])
  BY CallAssumption DEF Commit, IInv, Typed, Named
<1>2. CASE call[t] \in WorkerMethods
  <2>1. row[t] \in Workers /\ RegistryEffect(call[t], row[t])
    BY <1>1, <1>2 DEF IInv, Named, Effect
  <2> QED BY <1>2, <2>1, RegistryCommits DEF IInv, Typed, Narrow, jobVars
<1>3. CASE call[t] \notin WorkerMethods
  <2>1. /\ row[t] \in Jobs /\ JobEffect(HostOf[t], call[t], row[t])
        /\ call[t] = "fetch_next" => Eligible(row[t])
        /\ call[t] \in JobMethods => status[row[t]] # "absent"
    BY <1>1, <1>3 DEF IInv, Named, Locked, Effect, Commit, Methods
  <2>2. Statement
    BY <1>1, <1>3, <2>1, JobCommits
  <2>3. Narrow(row[t])
    BY <1>1, <1>3, <2>1, JobCommitsNarrow DEF IInv, Typed
  <2> QED BY <1>3, <2>2, <2>3
<1> QED BY <1>2, <1>3

\* Nobody else relies on the row of a commit: it is locked, and it is not the
\* new row of another enqueue.
LEMMA CommitStep == ASSUME IInv, NEW t \in Threads, Commit(t) PROVE IInv'
<1>0. /\ Narrow(row[t]) /\ EndTransaction(t) /\ at[t] = "written"
      /\ call[t] \in WorkerMethods => UNCHANGED status
  BY CommitEffect DEF Commit
<1> USE <1>0, CallAssumption DEF IInv, EndTransaction, Leave, Goto
<1>1. Typed'
  BY DEF Typed, Places, Narrow, Rows
<1>2. Named'
  <2>1. CASE call[t] \in WorkerMethods
    BY <2>1 DEF Typed, Named, Methods, JobMethods, WorkerMethods
  <2>2. CASE call[t] \notin WorkerMethods
    <3>1. \A u \in Threads \ {t} : call[u] = "enqueue" => row[u] # row[t]
      BY <2>2 DEF Named, Apart, Typed, Locked, Methods, Eligible
    <3> QED BY <3>1 DEF Typed, Named, Narrow, Methods, JobMethods, WorkerMethods
  <2> QED BY <2>1, <2>2
<1>3. Apart'
  BY DEF Typed, Apart, Methods
<1>4. Locked'
  <2>1. \A u \in Threads \ {t} : at[u] = "written" => row[u] # row[t]
    BY DEF Locked
  <2> QED BY <2>1 DEF Typed, Named, Locked, Eligible, Narrow
<1>5. NoOvertaking'
  BY DEF Typed, NoOvertaking, ServedBefore
<1>6. Ready'
  <2> SUFFICES ASSUME NEW u \in Threads, at'[u] = "scanning", NEW k \in waited'[u]
               PROVE  owner'[k] = None /\ Eligible(k)'
    BY DEF Ready
  <2>1. at[u] = "scanning" /\ k \in waited[u] /\ k \in Rows /\ k \in Jobs
    BY DEF Typed, Rows
  <2>2. owner[k] = None /\ Eligible(k)
    BY <2>1 DEF Ready
  <2>3. k # row[t]
    BY <2>2 DEF Locked
  <2> QED BY <2>1, <2>2, <2>3 DEF Eligible, Narrow
<1> QED BY <1>1, <1>2, <1>3, <1>4, <1>5, <1>6

---------------------------------------------------------------------------
(* The theorems *)

\* IInv is an invariant of the driver.
THEOREM DriverInvariance == Spec => []IInv
<1>1. ASSUME IInv, NEW t \in Threads,
             \/ ConnectTimesOut(t) \/ ConnectRefused(t) \/ TakeNothing(t)
             \/ NothingToBury(t) \/ StatementFails(t)
      PROVE  IInv'
  <2>1. /\ Leave(t) /\ UNCHANGED <<status, due, older>>
        /\ \/ UNCHANGED owner /\ at[t] = "waiting"
           \/ owner' = [r \in Rows |-> IF owner[r] = t THEN None ELSE owner[r]]
    BY <1>1 DEF ConnectTimesOut, ConnectRefused, TakeNothing, NothingToBury,
                StatementFails, EndTransaction, Leave, storeVars, jobVars
  <2> QED BY <1>1, <2>1, LeaveKeepsInvariant
<1>2. ASSUME IInv, NEW t \in Threads, Proceed(t) PROVE IInv'
  BY <1>1, <1>2, ConnectStep, SnapshotStep, SkipStep, TakeStep, ReadRowStep, WriteStep,
     CommitStep DEF Proceed
<1>3. ASSUME IInv, UNCHANGED vars PROVE IInv'
  BY <1>3 DEF vars, storeVars, jobVars, scanVars, IInv, Typed, Named, Apart, Locked,
              Ready, Eligible, NoOvertaking, ServedBefore
<1>4. IInv /\ [Next]_vars => IInv'
  BY <1>1, <1>2, <1>3, CallStep, CloseStep, CrashStep DEF Next
<1> QED BY InitInvariant, <1>4, PTL DEF Spec

\* fetch_next passes over no row that was ready and free at its snapshot unless
\* another transaction locks it meanwhile, whatever is committed and rolled back
\* around it; what it takes comes first among those rows.
THEOREM PriorityIsKept == Spec => []NoOvertaking
<1>1. IInv => NoOvertaking
  BY DEF IInv
<1> QED BY <1>1, DriverInvariance, PTL

\* Calls of any number of threads and processes that run into each other, fail
\* and crash change the tables by whole statements of the job store only.
THEOREM CommitsAreStatements == Spec => StoreSteps
<1>1. IInv /\ [Next]_vars => Statement
  <2> SUFFICES ASSUME IInv, [Next]_vars PROVE Statement
    OBVIOUS
  <2>1. ASSUME NEW t \in Threads, Commit(t) PROVE Statement
    BY <2>1, CommitEffect
  <2>2. ASSUME NEW t \in Threads, Proceed(t) PROVE Statement
    BY <2>1, <2>2 DEF Proceed, Statement, Connect, ConnectRefused, Snapshot, Skip, Take,
                      TakeNothing, ReadRow, NothingToBury, Write
  <2>3. ASSUME NEW t \in Threads, ConnectTimesOut(t) \/ StatementFails(t) \/ Close(t)
        PROVE  Statement
    BY <2>3 DEF Statement, ConnectTimesOut, StatementFails, Close
  <2>4. ASSUME NEW t \in Threads, NEW method \in Called, NEW r \in Rows \cup {None},
               Call(t, method, r)
        PROVE  Statement
    BY <2>4 DEF Statement, Call
  <2>5. ASSUME NEW p \in Workers, Crash(p) PROVE Statement
    BY <2>5 DEF Statement, Crash
  <2>6. ASSUME UNCHANGED vars PROVE Statement
    BY <2>6 DEF Statement, vars
  <2> QED BY <2>2, <2>3, <2>4, <2>5, <2>6 DEF Next
<1> QED BY <1>1, DriverInvariance, PTL DEF Spec, StoreSteps, Statement
===========================================================================
