-------------------------- MODULE SchedulerProofs --------------------------
(* Proofs about Scheduler, for every number of schedules, every period and *)
(* every number of crashes and exceptions: what holds of any number of     *)
(* processes, and what holds of one.                                       *)
EXTENDS Scheduler, TLAPS

\* croniter.get_next() is later than its argument, by at most one period.
LEMMA NextSlotIsNext ==
  ASSUME NEW t \in Nat
  PROVE  NextSlot(t) \in Nat /\ t < NextSlot(t) /\ NextSlot(t) <= t + Period
<1> DEFINE q == t \div Period
<1>1. Period \in Nat /\ Period > 0 /\ q \in Nat
  BY SchedulerAssumption
<1>2. t = q * Period + (t % Period) /\ t % Period \in 0..(Period - 1)
  BY <1>1
<1>3. NextSlot(t) = q * Period + Period
  BY <1>1 DEF NextSlot
<1>4. q * Period \in Nat
  BY <1>1
<1> HIDE DEF q
<1> QED BY <1>1, <1>2, <1>3, <1>4

\* No cron slot lies between its argument and what it returns.
LEMMA NoSlotBetween ==
  ASSUME NEW t \in Nat, NEW slot \in Nat, slot % Period = 0, slot < NextSlot(t)
  PROVE  slot <= t
<1> DEFINE q == t \div Period
           r == slot \div Period
<1>1. Period \in Nat /\ Period > 0 /\ q \in Nat /\ r \in Nat
  BY SchedulerAssumption
<1>2. t = q * Period + (t % Period) /\ t % Period \in Nat
  BY <1>1
<1>3. slot = r * Period
  BY <1>1
<1>4. NextSlot(t) = (q + 1) * Period
  BY <1>1 DEF NextSlot
<1> HIDE DEF q, r
<1>5. r <= q
  <2>1. CASE r >= q + 1
    <3>1. PICK d \in Nat : r = q + 1 + d
      <4>1. r - (q + 1) \in Nat /\ r = q + 1 + (r - (q + 1))
        BY <1>1, <2>1
      <4> QED BY <4>1
    <3>2. r * Period = (q + 1) * Period + d * Period /\ d * Period \in Nat
      BY <1>1, <3>1
    <3>3. (q + 1) * Period \in Nat
      BY <1>1
    <3> QED BY <1>3, <1>4, <3>2, <3>3
  <2> QED BY <1>1, <2>1
<1>6. PICK d \in Nat : q = r + d
  <2>1. q - r \in Nat /\ q = r + (q - r)
    BY <1>1, <1>5
  <2> QED BY <2>1
<1>7. q * Period = r * Period + d * Period /\ d * Period \in Nat /\ r * Period \in Nat
  BY <1>1, <1>6
<1> QED BY <1>2, <1>3, <1>7

---------------------------------------------------------------------------
(* Any number of processes *)

\* The times a process works with are not ahead of the clock, and a row waits
\* for no slot further ahead than the next.
OnTime ==
  /\ \A p \in Schedulers : now[p] <= clock /\ \A row \in batch[p] : row.slot <= clock
  /\ \A s \in Schedules :
       /\ nextRun[s] <= clock + Period
       /\ \A slot \in Slots : jobs[s][slot] > 0 => slot <= clock

\* Every step keeps every variable in its type.
LEMMA TypeStep == TypeOK /\ [Next]_vars => TypeOK'
<1> SUFFICES ASSUME TypeOK, [Next]_vars PROVE TypeOK'
  OBVIOUS
<1> USE SchedulerAssumption DEF TypeOK, table
<1>1. CASE ClockTicks \/ UNCHANGED vars
  BY <1>1 DEF ClockTicks, vars
<1>2. ASSUME NEW p \in Schedulers, Start(p) \/ Shutdown(p) PROVE TypeOK'
  BY <1>2 DEF Start, Shutdown
<1>3. ASSUME NEW p \in Schedulers, Crash(p) \/ TickFails(p) PROVE TypeOK'
  <2>1. /\ batch'  = [batch EXCEPT ![p] = {}] /\ firing' = [firing EXCEPT ![p] = None]
        /\ now'    = [now EXCEPT ![p] = 0] /\ UNCHANGED <<clock, table, jobs, fired>>
        /\ interruptions < MaxInterruptions /\ interruptions' = interruptions + 1
        /\ up' = up \/ up' = [up EXCEPT ![p] = FALSE]
    BY <1>3 DEF Crash, TickFails, Abandon
  <2>2. interruptions' \in 0..MaxInterruptions /\ 0 \in 0..Horizon
    BY <2>1
  <2>3. up' \in [Schedulers -> BOOLEAN]
    BY <2>1
  <2> QED BY <2>1, <2>2, <2>3
<1>4. ASSUME NEW p \in Schedulers, Tick(p) PROVE TypeOK'
  <2>1. \A s \in Schedules : [id |-> s, slot |-> nextRun[s]] \in Rows
    BY DEF Rows
  <2> QED BY <1>4, <2>1 DEF Tick
<1>5. ASSUME NEW p \in Schedulers, NEW row \in batch[p], Fire(p, row) PROVE TypeOK'
  <2>1. row.id \in Schedules /\ row.slot \in Slots
    BY DEF Rows
  <2>2. jobs' \in [Schedules -> [Slots -> Nat]]
    BY <1>5, <2>1 DEF Fire
  <2> QED BY <1>5, <2>1, <2>2 DEF Fire
<1>6. ASSUME NEW p \in Schedulers, UpdateTimestamps(p) PROVE TypeOK'
  <2>1. now[p] \in Slots /\ NextSlot(now[p]) \in Slots /\ 0 \in 0..Horizon
    <3>1. now[p] \in Nat /\ now[p] <= Horizon /\ Horizon \in Nat /\ Period \in Nat
      OBVIOUS
    <3>2. NextSlot(now[p]) \in Nat /\ NextSlot(now[p]) <= now[p] + Period
      BY <3>1, NextSlotIsNext
    <3> HIDE DEF TypeOK
    <3> QED BY <3>1, <3>2 DEF Slots
  <2>2. firing[p] \in Schedules
    BY <1>6 DEF UpdateTimestamps
  <2> QED BY <1>6, <2>1, <2>2 DEF UpdateTimestamps
<1> QED BY <1>1, <1>2, <1>3, <1>4, <1>5, <1>6 DEF Next, Serve

\* The columns and the batches are typed for any number of processes: next_run_at
\* is always NULL or a slot, however late the update of a row is.
THEOREM TypeCorrect == Spec => []TypeOK
<1>1. Init => TypeOK
  BY SchedulerAssumption DEF Init, TypeOK, Slots, Never
<1> QED BY <1>1, TypeStep, PTL DEF Spec

\* Every step keeps the times in order.
LEMMA OnTimeStep == TypeOK /\ OnTime /\ [Next]_vars => OnTime'
<1> SUFFICES ASSUME TypeOK, OnTime, [Next]_vars PROVE OnTime'
  OBVIOUS
<1>0. /\ clock \in Nat /\ Period \in Nat
      /\ \A p \in Schedulers : now[p] \in Nat /\ \A row \in batch[p] : row \in Rows
      /\ \A s \in Schedules : nextRun[s] \in Nat
      /\ \A slot \in Slots : slot \in Nat
  BY SchedulerAssumption DEF TypeOK, Slots
<1>1. CASE ClockTicks
  BY <1>0, <1>1 DEF ClockTicks, table, OnTime, Rows
<1>2. ASSUME UNCHANGED <<clock, table, batch, now, jobs>> PROVE OnTime'
  BY <1>2 DEF OnTime, table
<1>3. ASSUME NEW p \in Schedulers, Crash(p) \/ TickFails(p) PROVE OnTime'
  <2>1. /\ batch'  = [batch EXCEPT ![p] = {}] /\ now' = [now EXCEPT ![p] = 0]
        /\ UNCHANGED <<clock, table, jobs>>
    BY <1>3 DEF Crash, TickFails, Abandon
  <2> QED BY <1>0, <2>1 DEF OnTime, table, TypeOK
<1>4. ASSUME NEW p \in Schedulers, Tick(p) PROVE OnTime'
  BY <1>0, <1>4 DEF Tick, Due, OnTime, table, TypeOK
<1>5. ASSUME NEW p \in Schedulers, NEW row \in batch[p], Fire(p, row) PROVE OnTime'
  <2>1. row.id \in Schedules /\ row.slot \in Slots /\ row.slot <= clock
    BY <1>0 DEF OnTime, Rows
  <2>2. \A s \in Schedules : \A slot \in Slots : jobs'[s][slot] > 0 => slot <= clock
    BY <1>5, <2>1 DEF Fire, OnTime, TypeOK
  <2> QED BY <1>0, <1>5, <2>2 DEF Fire, OnTime, table, TypeOK
<1>6. ASSUME NEW p \in Schedulers, UpdateTimestamps(p) PROVE OnTime'
  <2>1. firing[p] \in Schedules /\ NextSlot(now[p]) <= clock + Period
    BY <1>0, <1>6, NextSlotIsNext DEF UpdateTimestamps, OnTime, TypeOK
  <2> QED BY <1>0, <1>6, <2>1 DEF UpdateTimestamps, OnTime, TypeOK
<1> QED
  BY <1>1, <1>2, <1>3, <1>4, <1>5, <1>6
     DEF Next, Serve, Start, Shutdown, vars

\* However many processes share the table, however they interleave, crash and
\* raise: no job is enqueued for a time that has not come, and no update puts a
\* schedule off by more than one period, not even one that comes late and sets
\* next_run_at back.
THEOREM ManyProcessesOnTime == Spec => []OnTime
<1>1. Init => OnTime
  BY SchedulerAssumption DEF Init, OnTime, Never
<1> QED BY <1>1, OnTimeStep, TypeCorrect, PTL DEF Spec

---------------------------------------------------------------------------
(* One process *)

\* The deployment the documentation asks for.
OneProcess == \A p, q \in Schedulers : p = q

\* The rows of a batch are as they were read, and are not being fired.
Reads ==
  \A p \in Schedulers : \A row \in batch[p] :
    /\ row.slot = nextRun[row.id] /\ row.slot <= clock
    /\ row.id # firing[p]

\* The row being fired has not moved on since its job was enqueued.
Firing ==
  \A p \in Schedulers : firing[p] # None =>
    /\ nextRun[firing[p]] <= now[p] /\ now[p] <= clock /\ now[p] <= fired[firing[p]]
    /\ jobs[firing[p]][nextRun[firing[p]]] > 0

\* A slot to come has no job; the present one has one for each time its job was
\* enqueued and its row then not updated, and perhaps one now.
Counted ==
  \A s \in Schedules : \A slot \in Slots :
    /\ jobs[s][slot] <= 1 + interruptions
    /\ slot > nextRun[s] => jobs[s][slot] = 0
    /\ slot = nextRun[s] /\ (\A p \in Schedulers : firing[p] # s)
         => jobs[s][slot] <= interruptions

IInv == TypeOK /\ Reads /\ Firing /\ Counted

LEMMA InitInvariant == Init => IInv
BY SchedulerAssumption
   DEF Init, IInv, TypeOK, Reads, Firing, Counted, Slots, Rows, Never
---------------------------------------------------------------------------
(* Steps *)

\* The clock only makes what has come be further in the past.
LEMMA ClockStep == ASSUME IInv, ClockTicks PROVE IInv'
<1>1. TypeOK'
  BY TypeStep DEF IInv, Next
<1>2. /\ UNCHANGED <<nextRun, batch, firing, now, jobs, fired, interruptions>>
      /\ clock \in Nat /\ clock' = clock + 1
  BY SchedulerAssumption DEF ClockTicks, table, IInv, TypeOK
<1>3. \A p \in Schedulers : now[p] \in Nat /\ \A row \in batch[p] : row.slot \in Nat
  BY DEF IInv, TypeOK, Rows, Slots
<1>4. Reads'
  BY <1>2, <1>3 DEF IInv, Reads
<1>5. Firing'
  BY <1>2, <1>3 DEF IInv, Firing
<1>6. Counted'
  BY <1>2 DEF IInv, Counted
<1> QED BY <1>1, <1>4, <1>5, <1>6 DEF IInv

LEMMA LoopStep ==
  ASSUME IInv, NEW p \in Schedulers, Start(p) \/ Shutdown(p) PROVE IInv'
<1> USE DEF Start, Shutdown, table
<1>1. TypeOK'
  BY DEF IInv, TypeOK
<1>2. UNCHANGED <<clock, nextRun, batch, firing, now, jobs, fired, interruptions>>
  OBVIOUS
<1>3. Reads' /\ Firing' /\ Counted'
  BY <1>2 DEF IInv, Reads, Firing, Counted
<1> QED BY <1>1, <1>3 DEF IInv

LEMMA TickStep == ASSUME IInv, NEW p \in Schedulers, Tick(p) PROVE IInv'
<1> USE SchedulerAssumption DEF IInv, Tick, Idle, Due, table
<1>1. TypeOK'
  BY DEF TypeOK, Rows
<1>2. Reads'
  BY DEF TypeOK, Reads
<1>3. Firing' /\ Counted'
  BY DEF TypeOK, Firing, Counted
<1> QED BY <1>1, <1>2, <1>3

LEMMA FireStep ==
  ASSUME OneProcess, IInv, NEW p \in Schedulers, NEW row \in batch[p], Fire(p, row)
  PROVE  IInv'
<1>0. /\ row.id \in Schedules /\ row.slot \in Slots /\ row.slot = nextRun[row.id]
      /\ row.slot <= clock /\ Schedulers = {p} /\ clock \in Nat
      /\ jobs[row.id][row.slot] \in Nat /\ interruptions \in Nat
  BY SchedulerAssumption DEF OneProcess, IInv, TypeOK, Reads, Rows
<1> USE <1>0, SchedulerAssumption DEF IInv, Fire, table
<1>1. TypeOK'
  BY DEF TypeOK, Rows
<1>2. Reads'
  <2> SUFFICES ASSUME NEW r \in batch[p] \ {row}
               PROVE  r.slot = nextRun[r.id] /\ r.slot <= clock /\ r.id # row.id
    BY DEF TypeOK, Reads
  <2>1. r.slot = nextRun[r.id] /\ r.slot <= clock /\ r \in Rows
    BY DEF Reads, TypeOK
  <2>2. r.id = row.id => r = row
    BY <2>1 DEF TypeOK, Rows
  <2> QED BY <2>1, <2>2
<1>3. Firing'
  BY DEF TypeOK, Firing
<1>4. Counted'
  <2>1. jobs[row.id][row.slot] <= interruptions
    BY DEF Counted
  <2>2. \A s \in Schedules : \A slot \in Slots :
          jobs'[s][slot] = IF s = row.id /\ slot = row.slot
                           THEN jobs[s][slot] + 1 ELSE jobs[s][slot]
    BY DEF TypeOK
  <2>3. UNCHANGED <<nextRun, interruptions>> /\ firing'[p] = row.id /\ firing[p] = None
    BY DEF TypeOK
  <2>4. \A s \in Schedules : s # None
    OBVIOUS
  <2> SUFFICES ASSUME NEW s \in Schedules, NEW slot \in Slots
               PROVE  /\ jobs'[s][slot] <= 1 + interruptions
                      /\ slot > nextRun[s] => jobs'[s][slot] = 0
                      /\ slot = nextRun[s] /\ row.id # s
                           => jobs'[s][slot] <= interruptions
    BY <2>3 DEF Counted
  <2>5. CASE s = row.id /\ slot = row.slot
    BY <2>1, <2>2, <2>5 DEF Slots
  <2>6. CASE ~(s = row.id /\ slot = row.slot)
    <3>1. jobs'[s][slot] = jobs[s][slot]
      BY <2>2, <2>6
    <3> QED BY <2>3, <2>4, <3>1 DEF Counted
  <2> QED BY <2>5, <2>6
<1> QED BY <1>1, <1>2, <1>3, <1>4

\* The row leaves its slot for one that has no job yet.
LEMMA UpdateStep ==
  ASSUME OneProcess, IInv, NEW p \in Schedulers, UpdateTimestamps(p) PROVE IInv'
<1> DEFINE s == firing[p]
           next == NextSlot(now[p])
<1>0. /\ s \in Schedules /\ s # None /\ Schedulers = {p}
      /\ now[p] \in 0..Horizon /\ clock \in 0..Horizon /\ nextRun[s] \in Slots
      /\ nextRun[s] <= now[p] /\ now[p] <= clock /\ interruptions \in Nat
      /\ Horizon \in Nat /\ Period \in Nat
  BY SchedulerAssumption
     DEF OneProcess, IInv, TypeOK, Firing, UpdateTimestamps
<1>1. next \in Slots /\ nextRun[s] < next
  BY <1>0, NextSlotIsNext DEF Slots
<1>2. /\ nextRun' = [nextRun EXCEPT ![s] = next]
      /\ firing'[p] = None
      /\ UNCHANGED <<clock, batch, jobs, interruptions>>
  BY DEF IInv, TypeOK, UpdateTimestamps
<1> HIDE DEF s, next
<1>3. TypeOK'
  <2>1. 0 \in 0..Horizon /\ now[p] \in Slots
    BY <1>0 DEF Slots
  <2>2. nextRun' \in [Schedules -> Slots] /\ lastRun' \in [Schedules -> Slots]
    BY <1>0, <1>1, <1>2, <2>1 DEF IInv, TypeOK, UpdateTimestamps, s
  <2>3. /\ firing' \in [Schedulers -> Schedules \cup {None}]
        /\ now' \in [Schedulers -> 0..Horizon]
    BY <2>1 DEF IInv, TypeOK, UpdateTimestamps
  <2> QED BY <1>2, <2>2, <2>3 DEF IInv, TypeOK, UpdateTimestamps
<1>4. Reads'
  BY <1>0, <1>2, SchedulerAssumption DEF IInv, TypeOK, Reads, Rows, s
<1>5. Firing'
  BY <1>0, <1>2 DEF Firing
<1>6. Counted'
  <2> SUFFICES ASSUME NEW r \in Schedules, NEW slot \in Slots
               PROVE  /\ jobs[r][slot] <= 1 + interruptions
                      /\ slot > nextRun'[r] => jobs[r][slot] = 0
                      /\ slot = nextRun'[r] => jobs[r][slot] <= interruptions
    BY <1>2 DEF Counted
  <2>1. CASE r = s
    <3>1. nextRun'[r] = next /\ slot \in Nat /\ next \in Nat /\ nextRun[s] \in Nat
      BY <1>0, <1>1, <1>2, <2>1 DEF IInv, TypeOK, Slots
    <3>2. jobs[r][slot] <= 1 + interruptions /\ (slot > nextRun[s] => jobs[r][slot] = 0)
      BY <2>1 DEF IInv, Counted
    <3> QED BY <1>0, <1>1, <3>1, <3>2
  <2>2. CASE r # s
    BY <1>0, <1>2, <2>2 DEF IInv, TypeOK, Counted, s
  <2> QED BY <2>1, <2>2
<1> QED BY <1>3, <1>4, <1>5, <1>6 DEF IInv

\* A crash or an exception is the only thing that leaves a job in a slot that
\* its row has not left.
LEMMA AbandonStep ==
  ASSUME OneProcess, IInv, NEW p \in Schedulers, TickFails(p) \/ Crash(p) PROVE IInv'
<1>0. Schedulers = {p} /\ interruptions \in Nat /\ MaxInterruptions \in Nat
      /\ interruptions' = interruptions + 1 /\ interruptions < MaxInterruptions
      /\ UNCHANGED <<clock, nextRun, lastRun, jobs>>
  BY SchedulerAssumption
     DEF OneProcess, IInv, TypeOK, TickFails, Crash, Abandon, table
<1>1. batch'[p] = {} /\ firing'[p] = None
  BY DEF IInv, TypeOK, TickFails, Crash, Abandon
<1>2. TypeOK'
  BY TypeStep DEF IInv, Next
<1>3. Reads' /\ Firing'
  BY <1>0, <1>1 DEF Reads, Firing
<1>4. Counted'
  BY <1>0 DEF IInv, TypeOK, Counted
<1> QED BY <1>2, <1>3, <1>4 DEF IInv

---------------------------------------------------------------------------
(* The theorems *)

\* Every step of a lone scheduler keeps the invariant.
LEMMA IInvStep == ASSUME OneProcess, IInv, [Next]_vars PROVE IInv'
<1>1. ASSUME NEW p \in Schedulers, Serve(p) PROVE IInv'
  BY <1>1, TickStep, FireStep, UpdateStep DEF Serve
<1>2. ASSUME UNCHANGED vars PROVE IInv'
  BY <1>2 DEF vars, table, IInv, TypeOK, Reads, Firing, Counted
<1> QED BY <1>1, <1>2, ClockStep, LoopStep, AbandonStep DEF Next

\* IInv is an invariant of a lone scheduler.
THEOREM LoneInvariance == ASSUME OneProcess PROVE Spec => []IInv
<1>1. IInv /\ [Next]_vars => IInv'
  BY IInvStep
<1> QED BY InitInvariant, <1>1, PTL DEF Spec

\* A lone scheduler enqueues one job per due time, and one more for each crash
\* or exception at most.
THEOREM FiresOnce == ASSUME OneProcess PROVE Spec => []OneJobPerSlot
<1>1. IInv => OneJobPerSlot
  BY DEF IInv, Counted, OneJobPerSlot
<1> QED BY <1>1, LoneInvariance, PTL

\* It misses cron slots by lateness only (scheduler.py, _fire_schedule: the time is
\* taken before the enqueue): the due time a row leaves has a job, and a slot it
\* passes over had come before that job was enqueued, crashes and exceptions between
\* the two halves of a fire included.
THEOREM OnlyLatenessMisses == ASSUME OneProcess PROVE Spec => MissedByLatenessOnly
<1>1. ASSUME IInv, [Next]_vars, NEW s \in Schedules, nextRun'[s] # nextRun[s]
      PROVE  /\ jobs[s][nextRun[s]] > 0
             /\ \A slot \in Slots :
                  nextRun[s] < slot /\ slot < nextRun'[s] /\ slot % Period = 0
                    => slot <= fired[s]
  <2>1. PICK p \in Schedulers : UpdateTimestamps(p)
    BY <1>1 DEF Next, vars, table, ClockTicks, Start, Shutdown, Crash, TickFails, Abandon,
                Serve, Tick, Fire
  <2>2. s = firing[p] /\ s # None
    BY <1>1, <2>1, SchedulerAssumption DEF UpdateTimestamps, IInv, TypeOK
  <2>3. /\ jobs[s][nextRun[s]] > 0 /\ now[p] <= fired[s]
        /\ nextRun'[s] = NextSlot(now[p])
        /\ now[p] \in Nat /\ fired[s] \in Nat
    BY <1>1, <2>1, <2>2, SchedulerAssumption DEF IInv, TypeOK, Firing, UpdateTimestamps
  <2>4. ASSUME NEW slot \in Slots, slot < nextRun'[s], slot % Period = 0
        PROVE  slot <= fired[s]
    <3>1. slot \in Nat
      BY DEF Slots
    <3>2. slot <= now[p]
      BY <2>3, <2>4, <3>1, NoSlotBetween
    <3> QED BY <2>3, <3>1, <3>2
  <2> QED BY <2>3, <2>4
<1>2. IInv /\ [Next]_vars =>
        [\A s \in Schedules : nextRun'[s] # nextRun[s] =>
           /\ jobs[s][nextRun[s]] > 0
           /\ \A slot \in Slots :
                nextRun[s] < slot /\ slot < nextRun'[s] /\ slot % Period = 0
                  => slot <= fired[s]]_vars
  BY <1>1
<1> QED BY <1>2, LoneInvariance, PTL DEF Spec, MissedByLatenessOnly
===========================================================================
