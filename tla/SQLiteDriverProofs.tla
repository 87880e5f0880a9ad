------------------------ MODULE SQLiteDriverProofs ------------------------
(* Proofs about SQLiteDriver, for every number of jobs, processes, threads *)
(* and calls.                                                              *)
EXTENDS SQLiteDriver, DriverCallsProofs

---------------------------------------------------------------------------
(* The invariant *)

Typed ==
  /\ status \in [Jobs -> JobStatus] /\ due \in [Jobs -> BOOLEAN]
  /\ call   \in [Threads -> Methods \cup {None}]
  /\ row    \in [Threads -> Jobs \cup Workers \cup {None}]
  /\ lock   \in [Workers -> Threads \cup {None}]
  /\ closed \in [Workers -> BOOLEAN]
  /\ at     \in [Threads -> Places]

\* A call is about a row of the right table.
Named ==
  \A t \in Threads :
    /\ at[t] # "idle" => call[t] # None
    /\ call[t] \in JobMethods => row[t] \in Jobs /\ status[row[t]] # "absent"
    /\ call[t] = "enqueue" => row[t] \in Jobs
    /\ call[t] \in WorkerMethods => row[t] \in Workers

\* One thread of a process is in the database at a time, and none once close()
\* has returned.
Serial ==
  /\ \A t \in Threads : at[t] \in {"locked", "read", "begun"} => lock[HostOf[t]] = t
  /\ \A p \in Workers : closed[p] => lock[p] = None

\* A transaction has the write lock of the file, and nobody else has it.
Exclusive ==
  /\ \A t \in Threads : at[t] = "begun" => writer = HostOf[t]
  /\ \A p \in Workers : writer = p =>
       \E t \in Threads : at[t] = "begun" /\ HostOf[t] = p

\* So a row that fetch_next has selected is as it was until the commit.
Selected ==
  \A t \in Threads :
    call[t] = "fetch_next" /\ row[t] # None =>
      at[t] = "begun" /\ row[t] \in Jobs /\ Eligible(row[t])

IInv == Typed /\ Named /\ Serial /\ Exclusive /\ Selected

LEMMA InitInvariant == Init => IInv
<1> SUFFICES ASSUME Init PROVE IInv
  OBVIOUS
<1> USE CallAssumption, StoreAssumption DEF Init, StoreInit, NoCalls
<1>1. \A t \in Threads : call[t] = None /\ at[t] = "idle" /\ row[t] = None
  OBVIOUS
<1>2. Typed
  BY DEF Typed, JobStatus, Places
<1>3. Named /\ Serial /\ Exclusive /\ Selected
  BY <1>1 DEF Named, Serial, Exclusive, Selected, Methods
<1> QED BY <1>2, <1>3 DEF IInv

---------------------------------------------------------------------------
(* Steps that leave the tables alone *)

\* At most one transaction is open.
LEMMA OneTransaction ==
  ASSUME IInv, NEW t \in Threads, NEW u \in Threads, at[t] = "begun", at[u] = "begun"
  PROVE  t = u
BY CallAssumption DEF IInv, Serial, Exclusive

\* A call ends before its transaction, or with it.
LEMMA ReturnKeepsInvariant ==
  ASSUME IInv, NEW t \in Threads, Return(t), UNCHANGED <<status, due>>,
         \/ at[t] = "waiting" /\ lock[HostOf[t]] = None /\ UNCHANGED writer
         \/ at[t] \in {"locked", "read"} /\ UNCHANGED writer
         \/ at[t] = "begun" /\ writer' = None
  PROVE  IInv'
<1> USE CallAssumption, StoreAssumption DEF IInv, Return
<1>0. at[t] = "begun" => \A u \in Threads \ {t} : at[u] # "begun"
  BY OneTransaction
<1>1. Typed'
  BY DEF Typed, Places
<1>2. Named'
  BY DEF Typed, Named, Methods, JobMethods, WorkerMethods
<1>3. Serial'
  BY DEF Typed, Serial
<1>4. Exclusive'
  BY <1>0 DEF Typed, Exclusive
<1>5. Selected'
  BY DEF Typed, Selected, Methods, Eligible
<1> QED BY <1>1, <1>2, <1>3, <1>4, <1>5

LEMMA CallStep ==
  ASSUME IInv, NEW t \in Threads, NEW method \in Methods,
         NEW r \in Jobs \cup Workers \cup {None}, Call(t, method, r)
  PROVE  IInv'
<1> USE CallAssumption, StoreAssumption, NamesGive
    DEF IInv, Call, storeVars, jobVars, driverVars
<1>1. Typed'
  BY DEF Typed, Places
<1>2. Named'
  BY DEF Typed, Named, Methods, JobMethods, WorkerMethods
<1>3. Serial' /\ Exclusive'
  BY DEF Typed, Serial, Exclusive
<1>4. Selected'
  BY DEF Typed, Selected, Eligible
<1> QED BY <1>1, <1>2, <1>3, <1>4

\* The steps of a call before its last.
LEMMA InsideStep ==
  ASSUME IInv, NEW t \in Threads,
         \/ Acquire(t) \/ ReadRow(t) \/ Begin(t) \/ \E j \in Jobs : Select(t, j)
  PROVE  IInv'
<1> USE CallAssumption, StoreAssumption DEF IInv, storeVars, jobVars, driverVars
<1>1. CASE Acquire(t)
  BY <1>1 DEF Acquire, Typed, Named, Serial, Exclusive, Selected, Eligible, Places
<1>2. CASE ReadRow(t)
  BY <1>2 DEF ReadRow, Typed, Named, Serial, Exclusive, Selected, Eligible, Places
<1>3. CASE Begin(t)
  BY <1>3 DEF Begin, ReadyToWrite, Typed, Named, Serial, Exclusive, Selected, Eligible,
              Places
<1>4. CASE \E j \in Jobs : Select(t, j)
  BY <1>4 DEF Select, Typed, Named, Serial, Exclusive, Selected, Eligible, Methods,
              JobMethods, WorkerMethods
<1> QED BY <1>1, <1>2, <1>3, <1>4

LEMMA ProcessStep ==
  ASSUME IInv, NEW p \in Workers, Close(p) \/ Crash(p) PROVE IInv'
<1> USE CallAssumption, StoreAssumption DEF IInv, storeVars, jobVars, callVars
<1>1. CASE Close(p)
  BY <1>1 DEF Close, Typed, Named, Serial, Exclusive, Selected, Eligible
<1>2. CASE Crash(p)
  <2> USE <1>2 DEF Crash
  <2>1. Typed'
    BY DEF Typed, Places
  <2>2. Named'
    BY DEF Typed, Named, Methods, JobMethods, WorkerMethods
  <2>3. Serial'
    BY DEF Typed, Serial
  <2>4. Exclusive'
    BY DEF Typed, Exclusive
  <2>5. Selected'
    BY DEF Typed, Selected, Methods, Eligible
  <2> QED BY <2>1, <2>2, <2>3, <2>4, <2>5
<1> QED BY <1>1, <1>2

---------------------------------------------------------------------------
(* Commit *)

\* The commit of a call whose row is as the call has found it.
LEMMA CommitEffect ==
  ASSUME IInv, NEW t \in Threads, Commit(t)
  PROVE  Statement /\ Narrow(row[t])
<1>1. /\ call[t] \in Methods /\ HostOf[t] \in Workers
      /\ Effect(HostOf[t], call[t], row[t])
  BY CallAssumption DEF Commit, IInv, Typed, Named
<1>2. CASE call[t] \in WorkerMethods
  <2>1. row[t] \in Workers /\ RegistryEffect(call[t], row[t])
    BY <1>1, <1>2 DEF IInv, Named, Effect
  <2> QED BY <1>2, <2>1, RegistryCommits DEF IInv, Typed, Narrow, jobVars
<1>3. CASE call[t] \notin WorkerMethods
  <2>1. /\ row[t] \in Jobs /\ JobEffect(HostOf[t], call[t], row[t])
        /\ call[t] = "fetch_next" => Eligible(row[t])
        /\ call[t] \in JobMethods => status[row[t]] # "absent"
    BY <1>1, <1>3 DEF IInv, Named, Selected, Effect, Commit, Methods
  <2>2. Statement
    BY <1>1, <1>3, <2>1, JobCommits
  <2>3. Narrow(row[t])
    BY <1>1, <1>3, <2>1, JobCommitsNarrow DEF IInv, Typed
  <2> QED BY <1>3, <2>2, <2>3
<1> QED BY <1>2, <1>3

LEMMA CommitStep == ASSUME IInv, NEW t \in Threads, Commit(t) PROVE IInv'
<1>0. Narrow(row[t]) /\ Return(t) /\ at[t] = "begun" /\ writer' = None
  BY CommitEffect DEF Commit
<1>a. \A u \in Threads \ {t} : at[u] # "begun"
  BY <1>0, OneTransaction
<1> USE <1>0, <1>a, CallAssumption, StoreAssumption DEF IInv, Return
<1>1. Typed'
  BY DEF Typed, Places, Narrow
<1>2. Named'
  BY DEF Typed, Named, Narrow, Methods, JobMethods, WorkerMethods
<1>3. Serial' /\ Exclusive'
  BY DEF Typed, Serial, Exclusive
<1>4. Selected'
  BY DEF Typed, Selected, Methods
<1> QED BY <1>1, <1>2, <1>3, <1>4

---------------------------------------------------------------------------
(* The theorems *)

\* IInv is an invariant of the driver.
THEOREM DriverInvariance == Spec => []IInv
<1>1. ASSUME IInv, NEW t \in Threads,
             \/ AcquireClosed(t) \/ NothingToBury(t) \/ Busy(t) \/ SelectNothing(t)
             \/ Rollback(t)
      PROVE  IInv'
  BY <1>1, ReturnKeepsInvariant
     DEF AcquireClosed, NothingToBury, Busy, ReadyToWrite, SelectNothing, Rollback,
         storeVars, jobVars
<1>2. ASSUME IInv, NEW t \in Threads, Proceed(t) PROVE IInv'
  BY <1>1, <1>2, InsideStep, CommitStep DEF Proceed
<1>3. ASSUME IInv, UNCHANGED vars PROVE IInv'
  BY <1>3 DEF vars, storeVars, jobVars, driverVars, callVars, IInv, Typed, Named, Serial,
              Exclusive, Selected, Eligible
<1>4. IInv /\ [Next]_vars => IInv'
  BY <1>2, <1>3, CallStep, ProcessStep DEF Next
<1> QED BY InitInvariant, <1>4, PTL DEF Spec

\* close() never cuts into a transaction of its own process.
THEOREM ClosingWaits == Spec => []CloseWaits
<1>1. IInv => CloseWaits
  BY StoreAssumption, CallAssumption DEF IInv, Serial, Exclusive, CloseWaits
<1> QED BY <1>1, DriverInvariance, PTL

\* The lock and BEGIN IMMEDIATE make every call as atomic as the job store
\* takes it to be, whatever fails, waits or crashes on the way.
THEOREM CommitsAreStatements == Spec => StoreSteps
<1>1. IInv /\ [Next]_vars => Statement
  <2> SUFFICES ASSUME IInv, [Next]_vars PROVE Statement
    OBVIOUS
  <2>1. ASSUME NEW t \in Threads, Commit(t) PROVE Statement
    BY <2>1, CommitEffect
  <2>2. ASSUME NEW t \in Threads, Proceed(t) PROVE Statement
    BY <2>1, <2>2 DEF Proceed, Statement, Acquire, AcquireClosed, ReadRow, NothingToBury,
                      Begin, Busy, Select, SelectNothing, Rollback
  <2>3. ASSUME NEW t \in Threads, NEW method \in Methods,
               NEW r \in Jobs \cup Workers \cup {None}, Call(t, method, r)
        PROVE  Statement
    BY <2>3 DEF Statement, Call
  <2>4. ASSUME NEW p \in Workers, Close(p) \/ Crash(p) PROVE Statement
    BY <2>4 DEF Statement, Close, Crash
  <2>5. ASSUME UNCHANGED vars PROVE Statement
    BY <2>5 DEF Statement, vars
  <2> QED BY <2>2, <2>3, <2>4, <2>5 DEF Next
<1> QED BY <1>1, DriverInvariance, PTL DEF Spec, StoreSteps, Statement
===========================================================================
