---------------------------- MODULE RetryTiming ----------------------------
(***************************************************************************)
(* When a job that has failed runs again: the backoff policies with their  *)
(* jitter, run_at as the drivers store it, and the comparison that         *)
(* fetch_next makes with it.  One job, one clock; times are ticks of UTC.  *)
(***************************************************************************)
EXTENDS Integers, Sequences

CONSTANTS
  Base, Cap,      \* base_seconds and cap_seconds
  Jitter,         \* the factors random.uniform may return, in percent
  Asked,          \* the in_seconds of Retry that perform() may raise
  Limit,          \* max_attempts
  Zones,          \* PostgreSQL: the sessions' time zones, in ticks east of UTC
  Day,            \* ticks in a day
  Horizon         \* bound on the clock

ASSUME TimingAssumption ==
  /\ Base \in Nat \ {0} /\ Cap \in Nat /\ Limit \in Nat \ {0} /\ Day \in Nat \ {0}
  /\ Jitter \subseteq 90..110 /\ Asked \subseteq Nat
  /\ Zones \subseteq Int /\ Horizon \in Nat \ {0}

VARIABLES
  text,       \* run_at is ISO text (SQLite), not TIMESTAMPTZ (PostgreSQL)
  zone,       \* the time zone of the PostgreSQL sessions
  policy,     \* retry_backoff of the job's class
  status, attempts,
  runAt,      \* the instant, or the UTC reading of the text, stored in run_at
  now,
  wanted,     \* history: the time the last retry was asked for
  backoffs    \* history: the delays the policy has given

setting == <<text, zone, policy>>
vars == <<setting, status, attempts, runAt, now, wanted, backoffs>>

Policies == {"linear", "exponential", "exponential_cap"}

TypeOK ==
  /\ text \in BOOLEAN /\ zone \in Zones
  /\ policy \in Policies
  /\ status \in {"enqueued", "active", "retrying", "completed", "dead"}
  /\ attempts \in 0..(Limit + 1)
  /\ runAt \in Int /\ now \in 1..Horizon /\ wanted \in Nat
  /\ backoffs \in Seq(Nat)

Init ==
  /\ text \in BOOLEAN /\ zone \in Zones
  /\ policy \in Policies
  /\ status = "enqueued" /\ attempts = 0
  /\ runAt = 0 /\ now = 1 /\ wanted = 0      \* run_at IS NULL: due at any time
  /\ backoffs = <<>>

\* Mutated form: the attempt is not part of the exponent.
FlatDelay(p, attempt) ==
  CASE p = "linear"          -> attempt * Base
    [] p = "exponential"     -> 2 * Base
    [] p = "exponential_cap" -> IF 2 * Base < Cap THEN 2 * Base ELSE Cap

\* delay_for before the jitter.
Delay(p, attempt) ==
  CASE p = "linear"          -> attempt * Base
    [] p = "exponential"     -> 2^attempt * Base
    [] p = "exponential_cap" -> IF 2^attempt * Base < Cap THEN 2^attempt * Base ELSE Cap

\* seconds *= random.uniform(0.9, 1.1)
Jittered(d) == {(d * x) \div 100 : x \in Jitter}

\* Python sends utcnow + delay without a time zone; a TIMESTAMPTZ column reads
\* it in the time zone of the session.
Stored(t) == IF text THEN t ELSE t - zone

\* Mutated form: the dates alone are compared.
DueSameDay == IF text THEN runAt = 0 \/ runAt \div Day <= now \div Day
                      ELSE runAt <= now

\* Mutated form: strictly before the present.
DueBefore == IF text THEN runAt = 0 \/ runAt \div Day < now \div Day
                     ELSE runAt = 0 \/ runAt < now

\* run_at <= NOW().  As text, YYYY-MM-DDT... against YYYY-MM-DD ...: on the
\* same day 'T' is greater than the blank, whatever the time of day.
Due == IF text THEN runAt = 0 \/ runAt \div Day < now \div Day
               ELSE runAt <= now

Eligible == status \in {"enqueued", "retrying"} /\ Due

Tick ==
  /\ now < Horizon
  /\ now' = now + 1
  /\ UNCHANGED <<setting, status, attempts, runAt, wanted, backoffs>>

Fetch ==
  /\ Eligible
  /\ status' = "active" /\ attempts' = attempts + 1
  /\ UNCHANGED <<setting, runAt, now, wanted, backoffs>>

Becomes(s) == status' = s /\ UNCHANGED <<setting, attempts, runAt, now, wanted, backoffs>>

Complete == status = "active" /\ attempts <= Limit /\ Becomes("completed")

\* Over the limit before it is run, or a failure of the last attempt.
Bury == status = "active" /\ attempts >= Limit /\ Becomes("dead")

RetryAt(t) ==
  /\ status' = "retrying" /\ runAt' = Stored(t) /\ wanted' = t
  /\ UNCHANGED <<setting, attempts, now>>

\* _handle_failure with attempts left.
FailAndBackOff ==
  /\ status = "active" /\ attempts < Limit
  /\ \E d \in Jittered(Delay(policy, attempts)) :
       RetryAt(now + d) /\ backoffs' = Append(backoffs, d)

\* perform() raises Retry(in_seconds).
AskRetry ==
  /\ status = "active" /\ attempts <= Limit
  /\ \E s \in Asked : RetryAt(now + s)
  /\ UNCHANGED backoffs

Next == Tick \/ Fetch \/ Complete \/ Bury \/ FailAndBackOff \/ AskRetry

Spec == Init /\ [][Next]_vars

---------------------------------------------------------------------------

\* How much earlier and later than asked for a retry may be taken: a session east or
\* west of UTC reads the time as an earlier or a later one, and text becomes due with
\* the next date only.
EarlyBy == IF ~text /\ zone > 0 THEN zone ELSE 0
LateBy  == IF text THEN Day ELSE IF zone < 0 THEN 0 - zone ELSE 0

\* A retry is claimed no earlier than it was asked for, but for the offset of a
\* session east of UTC: on SQLite and at UTC, never early.
EarlyAtMost ==
  [][status = "retrying" /\ status' = "active" => now >= wanted - EarlyBy]_vars

\* A retry does not wait for ever: fetch_next takes it a day late at most on SQLite,
\* the offset of a session west of UTC late on PostgreSQL, else at once.
LateAtMost == status = "retrying" /\ now >= wanted + LateBy => Eligible

\* The exponential policy backs off: whatever the jitter, and whatever retries
\* perform() asks for in between, no delay is as short as an earlier one.
ExponentialGrows ==
  policy = "exponential" =>
    \A m, n \in DOMAIN backoffs : m < n => backoffs[m] < backoffs[n]
===========================================================================
