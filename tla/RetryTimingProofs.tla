-------------------------- MODULE RetryTimingProofs --------------------------
(* Proofs about RetryTiming, for both backends and every base, cap,        *)
(* jitter, limit, time zone, length of a day and horizon of the clock.     *)
EXTENDS RetryTiming, FiniteSetTheorems, FunctionTheorems, TLAPS

---------------------------------------------------------------------------
(* Powers of two: 2^n is the number of subsets of 1..n, and what the proof *)
(* needs to know of it follows from that.                                  *)

\* The powers of two, by the subsets of an interval.
LEMMA PowerOfSubsets ==
  ASSUME NEW n \in Nat
  PROVE  /\ IsFiniteSet(SUBSET (1..n)) /\ 2^n \in Nat
         /\ Cardinality(SUBSET (1..n)) = 2^n
<1>1. IsFiniteSet(1..n) /\ Cardinality(1..n) = n
  BY FS_Interval
<1>2. IsFiniteSet(SUBSET (1..n)) /\ Cardinality(SUBSET (1..n)) = 2^n
  BY <1>1, FS_SUBSET
<1> QED BY <1>2, FS_CardinalityType

\* One more element doubles the subsets.
LEMMA PowerDoubles == ASSUME NEW n \in Nat PROVE 2^(n + 1) = 2 * 2^n
<1> DEFINE S == SUBSET (1..n)
           T == {s \cup {n + 1} : s \in S}
           f == [s \in S |-> s \cup {n + 1}]
<1>1. SUBSET (1..(n + 1)) = S \cup T
  <2>1. 1..(n + 1) = (1..n) \cup {n + 1}
    OBVIOUS
  <2>2. ASSUME NEW s \in SUBSET (1..(n + 1)), n + 1 \in s PROVE s \in T
    <3>1. s \ {n + 1} \in S /\ s = (s \ {n + 1}) \cup {n + 1}
      BY <2>1, <2>2
    <3> QED BY <3>1
  <2> QED BY <2>1, <2>2
<1>2. S \cap T = {}
  BY SMT
<1>3. f \in Bijection(S, T)
  <2>1. f \in [S -> T]
    OBVIOUS
  <2>2. ASSUME NEW s \in S, NEW t \in S, f[s] = f[t] PROVE s = t
    <3>1. n + 1 \notin s /\ n + 1 \notin t
      OBVIOUS
    <3> QED BY <2>2, <3>1
  <2>3. \A t \in T : \E s \in S : f[s] = t
    OBVIOUS
  <2> HIDE DEF S, T, f
  <2> QED BY <2>1, <2>2, <2>3, Fun_IsBij DEF ExistsBijection
<1>4. IsFiniteSet(S) /\ Cardinality(S) = 2^n /\ 2^n \in Nat
  BY PowerOfSubsets
<1> HIDE DEF S, T, f
<1>5. IsFiniteSet(T) /\ Cardinality(T) = 2^n
  <2>1. ExistsBijection(S, T)
    BY <1>3 DEF ExistsBijection
  <2> QED BY <1>4, <2>1, FS_Bijection
<1>6. Cardinality(S \cup T) = 2^n + 2^n
  BY <1>2, <1>4, <1>5, FS_Union, FS_EmptySet
<1>7. Cardinality(SUBSET (1..(n + 1))) = 2^(n + 1)
  <2>1. n + 1 \in Nat
    OBVIOUS
  <2> QED BY <2>1, PowerOfSubsets
<1> QED BY <1>1, <1>4, <1>6, <1>7

\* A power of two is positive, and at least four from the square on.
LEMMA PowerBounds ==
  ASSUME NEW n \in Nat PROVE 2^n >= 1 /\ (n >= 2 => 2^n >= 4)
<1>1. ASSUME NEW m \in Nat PROVE 2^m \in Nat /\ 2^m >= 1
  <2>1. /\ IsFiniteSet(SUBSET (1..m)) /\ 2^m \in Nat
        /\ Cardinality(SUBSET (1..m)) = 2^m
    BY PowerOfSubsets
  <2>2. {} \in SUBSET (1..m)
    OBVIOUS
  <2>3. 2^m # 0
    BY <2>1, <2>2, FS_EmptySet
  <2> QED BY <2>1, <2>3
<1>2. CASE n >= 2
  <2>1. n - 2 \in Nat /\ n - 1 \in Nat /\ n - 1 = (n - 2) + 1 /\ n = (n - 1) + 1
    BY <1>2
  <2>2. 2^n = 2 * 2^(n - 1) /\ 2^(n - 1) = 2 * 2^(n - 2)
    BY <2>1, PowerDoubles
  <2>3. 2^(n - 2) \in Nat /\ 2^(n - 2) >= 1
    BY <1>1, <2>1
  <2> QED BY <1>1, <2>2, <2>3
<1> QED BY <1>1, <1>2

---------------------------------------------------------------------------
(* Delays *)

\* random.uniform moves a delay by a tenth of it at most, but for the rounding.
LEMMA JitterBounds ==
  ASSUME NEW D \in Nat, NEW d \in Jittered(D)
  PROVE  d \in Nat /\ 100 * d <= 110 * D /\ 100 * d > 90 * D - 100
<1>1. PICK x \in Jitter : d = (D * x) \div 100
  BY DEF Jittered
<1>2. x \in 90..110
  BY TimingAssumption
<1>3. D * x \in Nat /\ 90 * D <= D * x /\ D * x <= 110 * D
  <2>1. PICK k \in 0..20 : x = 90 + k
    <3>1. x - 90 \in 0..20 /\ x = 90 + (x - 90)
      BY <1>2
    <3> QED BY <3>1
  <2>2. D * x = 90 * D + D * k /\ D * x = 110 * D - D * (20 - k)
    BY <2>1
  <2>3. D * k \in Nat /\ D * (20 - k) \in Nat
    BY <2>1
  <2> QED BY <2>2, <2>3
<1> QED BY <1>1, <1>3

\* delay_for gives a number of ticks for every policy and every attempt.
LEMMA DelayType ==
  ASSUME NEW p \in Policies, NEW n \in Nat PROVE Delay(p, n) \in Nat
<1>1. 2^n \in Nat
  BY PowerOfSubsets
<1>2. 2^n * Base \in Nat /\ n * Base \in Nat /\ Cap \in Nat
  BY <1>1, TimingAssumption
<1> QED BY <1>2 DEF Delay, Policies

---------------------------------------------------------------------------
(* The time of a retry *)

\* A row counts at most one claim past its limit, and run_at of a retry holds
\* the time it was asked for, as the driver stores it.
Timed ==
  /\ TypeOK
  /\ status \in {"enqueued", "retrying"} => attempts <= Limit
  /\ status = "enqueued" => attempts = 0 /\ backoffs = <<>>
  /\ status \in {"active", "retrying"} => attempts >= 1
  /\ status = "retrying" => runAt = Stored(wanted) /\ wanted >= 1

\* A job that has not been claimed has no retry to be in time for.
LEMMA TimedInit == Init => Timed
BY TimingAssumption DEF Init, Timed, TypeOK, Policies

\* Every step keeps run_at what the last retry was asked for.
LEMMA TimedStep == Timed /\ [Next]_vars => Timed'
<1> SUFFICES ASSUME Timed, [Next]_vars PROVE Timed'
  OBVIOUS
<1> USE TimingAssumption DEF Timed, TypeOK, setting
<1>1. CASE Tick
  BY <1>1 DEF Tick, Stored
<1>2. CASE Fetch
  BY <1>2 DEF Fetch, Eligible
<1>3. CASE Complete \/ Bury
  BY <1>3 DEF Complete, Bury, Becomes
<1>4. ASSUME NEW t \in Nat, t >= 1, RetryAt(t), status = "active", attempts <= Limit,
             backoffs' \in Seq(Nat)
      PROVE  Timed'
  BY <1>4 DEF RetryAt, Stored
<1>5. CASE FailAndBackOff
  <2>1. PICK d \in Jittered(Delay(policy, attempts)) :
               RetryAt(now + d) /\ backoffs' = Append(backoffs, d)
    BY <1>5 DEF FailAndBackOff
  <2>2. d \in Nat
    <3>1. attempts \in Nat /\ Delay(policy, attempts) \in Nat
      BY DelayType
    <3> QED BY <3>1, JitterBounds
  <2>3. now + d \in Nat /\ now + d >= 1 /\ backoffs' \in Seq(Nat)
    BY <2>1, <2>2
  <2> QED BY <1>4, <1>5, <2>1, <2>3 DEF FailAndBackOff
<1>6. CASE AskRetry
  <2>1. PICK s \in Asked : RetryAt(now + s)
    BY <1>6 DEF AskRetry
  <2>2. now + s \in Nat /\ now + s >= 1
    OBVIOUS
  <2> QED BY <1>4, <1>6, <2>1, <2>2 DEF AskRetry
<1>7. CASE UNCHANGED vars
  BY <1>7 DEF vars, Stored
<1> QED BY <1>1, <1>2, <1>3, <1>5, <1>6, <1>7 DEF Next

---------------------------------------------------------------------------
(* The growth of the delays *)

\* 2^attempts * base_seconds, the delay of this attempt before the jitter.
Unit == 2^attempts * Base

\* In percent: a delay of an earlier claim is at most half of the unit and a
\* tenth of that, one of this claim at most the unit and a tenth of that.
Growing ==
  policy = "exponential" =>
    /\ status = "active"   => \A i \in DOMAIN backoffs : 100 * backoffs[i] <= 55 * Unit
    /\ status = "retrying" => \A i \in DOMAIN backoffs : 100 * backoffs[i] <= 110 * Unit
    /\ status = "active" /\ attempts = 1 => backoffs = <<>>
    /\ ExponentialGrows

\* A claim doubles the unit, a failure adds a delay of about a unit.
LEMMA GrowingStep ==
  ASSUME Timed, Timed', Growing, [Next]_vars PROVE Growing'
<1> SUFFICES ASSUME policy = "exponential", policy' = "exponential" PROVE Growing'
  BY DEF Growing, Next, vars, setting, Tick, Fetch, Complete, Bury, Becomes, FailAndBackOff,
         AskRetry, RetryAt
<1>1. /\ attempts \in Nat /\ backoffs \in Seq(Nat)
      /\ \A i \in DOMAIN backoffs : backoffs[i] \in Nat
  BY TimingAssumption DEF Timed, TypeOK
<1>2. Unit \in Nat /\ 2^attempts \in Nat /\ Base \in Nat /\ Base >= 1
  <2>1. 2^attempts \in Nat
    BY <1>1, PowerOfSubsets
  <2>2. Base \in Nat /\ Base >= 1
    BY TimingAssumption
  <2> QED BY <2>1, <2>2 DEF Unit
<1>3. CASE UNCHANGED <<status, attempts, backoffs>>
  BY <1>3 DEF Growing, Unit, ExponentialGrows
<1>4. CASE Fetch
  <2>1. /\ attempts' = attempts + 1 /\ status' = "active" /\ UNCHANGED backoffs
        /\ status \in {"enqueued", "retrying"}
    BY <1>4 DEF Fetch, Eligible
  <2>2. 2^(attempts + 1) = 2 * 2^attempts
    BY <1>1, PowerDoubles
  <2>3. Unit' = 2 * Unit
    <3>1. (2 * 2^attempts) * Base = 2 * (2^attempts * Base)
      BY <1>2
    <3> QED BY <2>1, <2>2, <3>1 DEF Unit
  <2>4. \A i \in DOMAIN backoffs' : 100 * backoffs'[i] <= 55 * Unit'
    BY <1>1, <1>2, <2>1, <2>3 DEF Growing, Timed
  <2>5. attempts' = 1 => backoffs' = <<>>
    BY <1>1, <2>1 DEF Timed
  <2>6. ExponentialGrows'
    BY <2>1 DEF Growing, ExponentialGrows
  <2> QED BY <2>1, <2>4, <2>5, <2>6 DEF Growing
<1>5. CASE Complete \/ Bury
  BY <1>5 DEF Complete, Bury, Becomes, Growing, ExponentialGrows
<1>6. CASE AskRetry
  <2>1. status = "active" /\ status' = "retrying" /\ UNCHANGED <<attempts, backoffs>>
    BY <1>6 DEF AskRetry, RetryAt
  <2>2. \A i \in DOMAIN backoffs : 100 * backoffs[i] <= 110 * Unit
    BY <1>1, <1>2, <2>1 DEF Growing
  <2> QED BY <2>1, <2>2 DEF Growing, Unit, ExponentialGrows
<1>7. CASE FailAndBackOff
  <2>1. PICK d \in Jittered(Unit) :
               RetryAt(now + d) /\ backoffs' = Append(backoffs, d)
    BY <1>7 DEF FailAndBackOff, Delay, Unit
  <2>2. status = "active" /\ status' = "retrying" /\ UNCHANGED attempts
    BY <1>7, <2>1 DEF FailAndBackOff, RetryAt
  <2>3. d \in Nat /\ 100 * d <= 110 * Unit /\ 100 * d > 90 * Unit - 100
    BY <1>2, <2>1, JitterBounds
  <2>4. \A i \in DOMAIN backoffs : 100 * backoffs[i] <= 55 * Unit
    BY <2>2 DEF Growing
  <2>5. \A i \in DOMAIN backoffs : backoffs[i] < d
    <3> SUFFICES ASSUME NEW i \in DOMAIN backoffs PROVE backoffs[i] < d
      OBVIOUS
    <3>1. attempts >= 2
      BY <1>1, <2>2 DEF Growing, Timed
    <3>2. 2^attempts >= 4
      BY <1>1, <3>1, PowerBounds
    <3>3. Unit >= 4
      <4>1. PICK b \in Nat : Base = b + 1
        <5>1. Base - 1 \in Nat /\ Base = (Base - 1) + 1
          BY <1>2
        <5> QED BY <5>1
      <4>2. Unit = 2^attempts * b + 2^attempts /\ 2^attempts * b \in Nat
        BY <1>2, <4>1 DEF Unit
      <4> QED BY <1>2, <3>2, <4>2
    <3> QED BY <1>1, <1>2, <2>3, <2>4, <3>3
  <2>6. /\ \A i \in DOMAIN backoffs' : i \in DOMAIN backoffs \/ i = Len(backoffs) + 1
        /\ \A i \in DOMAIN backoffs : backoffs'[i] = backoffs[i] /\ i < Len(backoffs) + 1
        /\ backoffs'[Len(backoffs) + 1] = d /\ DOMAIN backoffs \subseteq Nat
        /\ Len(backoffs) \in Nat
    BY <1>1, <2>1, <2>3
  <2>7. Unit' = Unit
    BY <2>2 DEF Unit
  <2>8. \A i \in DOMAIN backoffs' : 100 * backoffs'[i] <= 110 * Unit
    BY <1>1, <1>2, <2>3, <2>4, <2>6
  <2>9. ExponentialGrows'
    BY <2>5, <2>6 DEF Growing, ExponentialGrows
  <2> QED BY <2>2, <2>7, <2>8, <2>9 DEF Growing
<1>8. Tick \/ UNCHANGED vars => UNCHANGED <<status, attempts, backoffs>>
  BY DEF Tick, vars
<1> QED BY <1>3, <1>4, <1>5, <1>6, <1>7, <1>8 DEF Next

---------------------------------------------------------------------------
(* The theorems *)

\* The inductive invariant of the module: the row is typed (TypeOK), run_at holds
\* what the driver stores for the time a retry was asked for, and the delays given
\* so far are bounded by the delay of the present claim.
THEOREM TimingInvariance == Spec => [](Timed /\ Growing)
<1>1. Init => Timed /\ Growing
  BY TimedInit DEF Init, Growing, ExponentialGrows
<1>2. Timed /\ Growing /\ [Next]_vars => (Timed /\ Growing)'
  BY TimedStep, GrowingStep
<1> QED BY <1>1, <1>2, PTL DEF Spec

\* ExponentialBackoff.delay_for: whatever the jitter of 0.9 to 1.1, the base, the limit
\* and the retries that perform() asks for itself in between, each delay is longer
\* than all before it.  An earlier one is at most 55 percent of the present unit
\* of 2^attempts * base_seconds, a new one at least 90, and the unit is 4 or more.
THEOREM DelaysGrow == Spec => []ExponentialGrows
<1>1. Growing => ExponentialGrows
  BY DEF Growing, ExponentialGrows
<1> QED BY <1>1, TimingInvariance, PTL

\* A number is in the same day as a smaller one or in a later one.
LEMMA DaysGrow ==
  ASSUME NEW m \in Nat, NEW n \in Nat, m <= n PROVE m \div Day <= n \div Day
<1>1. Day \in Nat /\ Day >= 1
  BY TimingAssumption
<1>2. m \div Day \in Nat /\ n \div Day \in Nat
  BY <1>1
<1> QED BY <1>1, <1>2

\* mark_failed and fetch_next (drivers): a retry is never stuck, on either backend and
\* in any time zone.  On SQLite the date of run_at is past after a day; on PostgreSQL
\* run_at is at most the offset of a western session later than what was asked for.
\* (That a due retry is taken at once is false of SQLite and of western sessions.)
THEOREM RetriesAreNotLate == Spec => []LateAtMost
<1>1. ASSUME Timed PROVE LateAtMost
  <2> SUFFICES ASSUME status = "retrying", now >= wanted + LateBy PROVE Due
    BY DEF LateAtMost, Eligible
  <2>1. /\ runAt = Stored(wanted) /\ wanted \in Nat /\ wanted >= 1 /\ now \in Nat
        /\ Day \in Nat /\ Day >= 1 /\ zone \in Int /\ text \in BOOLEAN
    BY <1>1, TimingAssumption DEF Timed, TypeOK
  <2>2. CASE ~text
    BY <2>1, <2>2 DEF Due, Stored, LateBy
  <2>3. CASE text
    <3>1. runAt = wanted /\ wanted + Day <= now
      BY <2>1, <2>3 DEF Stored, LateBy
    <3>2. (wanted + Day) \div Day <= now \div Day
      <4>1. wanted + Day \in Nat
        BY <2>1
      <4> QED BY <2>1, <3>1, <4>1, DaysGrow
    <3>3. (wanted + Day) \div Day = wanted \div Day + 1
      BY <2>1
    <3>4. wanted \div Day \in Nat /\ now \div Day \in Nat
      BY <2>1
    <3> QED BY <2>3, <3>1, <3>2, <3>3, <3>4 DEF Due
  <2> QED BY <2>1, <2>2, <2>3
<1> QED BY <1>1, TimingInvariance, PTL

\* "Retry in exactly 60 seconds": no retry is claimed early, on SQLite because the
\* date itself must have changed, on PostgreSQL but for the offset of a session east
\* of UTC, in which mark_failed's time without a zone is read (worker.py).
THEOREM RetriesAreNotEarly == Spec => EarlyAtMost
<1>1. ASSUME Timed, [Next]_vars, status = "retrying", status' = "active"
      PROVE  now >= wanted - EarlyBy
  <2>1. Due
    BY <1>1 DEF Next, Tick, Fetch, Eligible, Complete, Bury, Becomes, FailAndBackOff,
                AskRetry, RetryAt, vars
  <2>2. /\ runAt = Stored(wanted) /\ wanted \in Nat /\ wanted >= 1 /\ now \in Nat
        /\ Day \in Nat /\ Day >= 1 /\ zone \in Int /\ text \in BOOLEAN
    BY <1>1, TimingAssumption DEF Timed, TypeOK
  <2>3. CASE ~text
    BY <2>1, <2>2, <2>3 DEF Due, Stored, EarlyBy
  <2>4. CASE text
    <3>1. wanted \div Day < now \div Day
      BY <2>1, <2>2, <2>4 DEF Due, Stored
    <3>2. ~(now <= wanted)
      <4>1. wanted \div Day \in Nat /\ now \div Day \in Nat
        BY <2>2
      <4> QED BY <2>2, <3>1, <4>1, DaysGrow
    <3> QED BY <2>2, <2>4, <3>2 DEF EarlyBy
  <2> QED BY <2>2, <2>3, <2>4
<1>2. Timed /\ [Next]_vars
        => [status = "retrying" /\ status' = "active" => now >= wanted - EarlyBy]_vars
  BY <1>1
<1> QED BY <1>2, TimingInvariance, PTL DEF Spec, EarlyAtMost

=============================================================================
