----------------------------- MODULE Scheduler -----------------------------
(***************************************************************************)
(* The cron scheduler processes over the cj_schedules table.  A schedule's *)
(* slot is the value of next_run_at it is due for; the row locks of the    *)
(* SELECT ... FOR UPDATE SKIP LOCKED end with that statement's own         *)
(* transaction, before the first job is enqueued, so they appear here only *)
(* as the atomicity of Tick.                                               *)
(***************************************************************************)
EXTENDS Naturals

CONSTANTS
  Schedulers,       \* scheduler processes
  Schedules,        \* ids of cj_schedules
  Enabled,          \* those with enabled = TRUE; no code of ours changes it
  None,             \* no schedule
  Period,           \* cron expressions fire at the multiples of Period
  Horizon,          \* bound on the clock
  MaxInterruptions  \* bound on crashes and raised exceptions

ASSUME SchedulerAssumption ==
  /\ Enabled \subseteq Schedules
  /\ None \notin Schedules
  /\ Period \in Nat \ {0} /\ Horizon \in Nat /\ MaxInterruptions \in Nat

VARIABLES
  clock,
  nextRun, lastRun,  \* columns of cj_schedules
  up,                \* of a process: is it in its loop
  batch,             \* rows read by the tick and not yet fired, as read
  firing,            \* the row being fired: its job is enqueued, it is not updated
  now,               \* the time _fire_schedule took before enqueueing
  jobs,              \* history: how many jobs were enqueued for a slot
  fired,             \* history: when the last job of a schedule was enqueued
  interruptions

table == <<nextRun, lastRun>>
vars  == <<clock, table, up, batch, firing, now, jobs, fired, interruptions>>

\* 0 stands for a next_run_at or last_run_at that is still NULL: like it, it is
\* due at any time, and no cron slot falls on it.
Never == 0
Slots == 0..(Horizon + Period)
Rows  == [id : Schedules, slot : Slots]

TypeOK ==
  /\ clock   \in 0..Horizon
  /\ nextRun \in [Schedules -> Slots]
  /\ lastRun \in [Schedules -> Slots]
  /\ up      \in [Schedulers -> BOOLEAN]
  /\ batch   \in [Schedulers -> SUBSET Rows]
  /\ firing  \in [Schedulers -> Schedules \cup {None}]
  /\ now     \in [Schedulers -> 0..Horizon]
  /\ jobs    \in [Schedules -> [Slots -> Nat]]
  /\ fired   \in [Schedules -> 0..Horizon]
  /\ interruptions \in 0..MaxInterruptions

Init ==
  /\ clock = 0
  /\ nextRun = [s \in Schedules |-> Never]
  /\ lastRun = [s \in Schedules |-> Never]
  /\ up = [p \in Schedulers |-> FALSE]
  /\ batch = [p \in Schedulers |-> {}]
  /\ firing = [p \in Schedulers |-> None]
  /\ now = [p \in Schedulers |-> 0]
  /\ jobs = [s \in Schedules |-> [slot \in Slots |-> 0]]
  /\ fired = [s \in Schedules |-> 0]
  /\ interruptions = 0

Due(s) == s \in Enabled /\ nextRun[s] <= clock
Idle(p) == batch[p] = {} /\ firing[p] = None

\* Mutated form: the slot itself when now lies on it.
NextSlotInclusive(t) == ((t + Period - 1) \div Period) * Period

\* Mutated form: a slot is left out.
NextSlotButOne(t) == ((t \div Period) + 2) * Period

\* croniter(cron, t).get_next(): the first slot strictly after t.
NextSlot(t) == ((t \div Period) + 1) * Period

ClockTicks ==
  /\ clock < Horizon
  /\ clock' = clock + 1
  /\ UNCHANGED <<table, up, batch, firing, now, jobs, fired, interruptions>>

Start(p) ==
  /\ ~up[p]
  /\ up' = [up EXCEPT ![p] = TRUE]
  /\ UNCHANGED <<clock, table, batch, firing, now, jobs, fired, interruptions>>

\* A signal clears _running; the loop ends after the tick it is in.
Shutdown(p) ==
  /\ up[p] /\ Idle(p)
  /\ up' = [up EXCEPT ![p] = FALSE]
  /\ UNCHANGED <<clock, table, batch, firing, now, jobs, fired, interruptions>>

\* Mutated form: the query lost its OR, and finds only rows that never ran.
TickOnlyNew(p) ==
  /\ up[p] /\ Idle(p)
  /\ \E s \in Enabled : nextRun[s] = Never
  /\ batch' = [batch EXCEPT ![p] =
                 {[id |-> s, slot |-> Never] :
                    s \in {r \in Enabled : nextRun[r] = Never}}]
  /\ UNCHANGED <<clock, table, up, firing, now, jobs, fired, interruptions>>

Tick(p) ==
  /\ up[p] /\ Idle(p)
  /\ \E s \in Schedules : Due(s)
  /\ batch' = [batch EXCEPT ![p] =
                 {[id |-> s, slot |-> nextRun[s]] : s \in {r \in Schedules : Due(r)}}]
  /\ UNCHANGED <<clock, table, up, firing, now, jobs, fired, interruptions>>

\* First half of _fire_schedule: take the time, enqueue the job.
Fire(p, row) ==
  /\ firing[p] = None /\ row \in batch[p]
  /\ now'    = [now EXCEPT ![p] = clock]
  /\ jobs'   = [jobs EXCEPT ![row.id][row.slot] = @ + 1]
  /\ fired'  = [fired EXCEPT ![row.id] = clock]
  /\ firing' = [firing EXCEPT ![p] = row.id]
  /\ batch'  = [batch EXCEPT ![p] = @ \ {row}]
  /\ UNCHANGED <<clock, table, up, interruptions>>

\* Mutated form: the time is taken after the enqueue.
UpdateTimestampsLate(p) ==
  /\ firing[p] # None
  /\ lastRun' = [lastRun EXCEPT ![firing[p]] = clock]
  /\ nextRun' = [nextRun EXCEPT ![firing[p]] = NextSlot(clock)]
  /\ firing'  = [firing EXCEPT ![p] = None]
  /\ now'     = [now EXCEPT ![p] = 0]
  /\ UNCHANGED <<clock, up, batch, jobs, fired, interruptions>>

\* Second half: both timestamps follow from the time taken before.
UpdateTimestamps(p) ==
  /\ firing[p] # None
  /\ lastRun' = [lastRun EXCEPT ![firing[p]] = now[p]]
  /\ nextRun' = [nextRun EXCEPT ![firing[p]] = NextSlot(now[p])]
  /\ firing'  = [firing EXCEPT ![p] = None]
  /\ now'     = [now EXCEPT ![p] = 0]
  /\ UNCHANGED <<clock, up, batch, jobs, fired, interruptions>>

Abandon(p) ==
  /\ interruptions < MaxInterruptions
  /\ interruptions' = interruptions + 1
  /\ batch'  = [batch EXCEPT ![p] = {}]
  /\ firing' = [firing EXCEPT ![p] = None]
  /\ now'    = [now EXCEPT ![p] = 0]
  /\ UNCHANGED <<clock, table, jobs, fired>>

\* enqueue, croniter or the update raises: run() logs it and the rest of the
\* tick is not done.
TickFails(p) == ~Idle(p) /\ Abandon(p) /\ UNCHANGED up

Crash(p) == up[p] /\ Abandon(p) /\ up' = [up EXCEPT ![p] = FALSE]

Serve(p) ==
  \/ Tick(p) \/ UpdateTimestamps(p)
  \/ \E row \in batch[p] : Fire(p, row)

Next ==
  \/ ClockTicks
  \/ \E p \in Schedulers :
       Start(p) \/ Shutdown(p) \/ Crash(p) \/ TickFails(p) \/ Serve(p)

Spec == Init /\ [][Next]_vars

\* A scheduler that goes down is started again; run() ticks before it first
\* sleeps, so signals do not keep it from ticking for ever.
Fairness == \A p \in Schedulers : WF_vars(Start(p)) /\ SF_vars(Serve(p))

FairSpec == Spec /\ Fairness

---------------------------------------------------------------------------
(* One scheduler process *)

\* A slot gets a second job only when a crash or an exception separates the
\* enqueue of its job from the update of its row.
OneJobPerSlot ==
  \A s \in Schedules : \A slot \in Slots : jobs[s][slot] <= 1 + interruptions

\* Slots are missed by lateness only: a row leaves a slot after a job was enqueued
\* for that slot, and passes over cron slots without a job only if they had come
\* before that job was enqueued, because the schedule was fired a period late or the
\* scheduler was down.  A slot that comes between the enqueue and the update is kept.
MissedByLatenessOnly ==
  [][\A s \in Schedules : nextRun'[s] # nextRun[s] =>
       /\ jobs[s][nextRun[s]] > 0
       /\ \A slot \in Slots :
            nextRun[s] < slot /\ slot < nextRun'[s] /\ slot % Period = 0
              => slot <= fired[s]]_vars

\* Every due schedule is served, crashes and failed ticks notwithstanding.
DueIsServed == \A s \in Enabled : Due(s) ~> ~Due(s)
===========================================================================
