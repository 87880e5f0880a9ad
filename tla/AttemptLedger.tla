--------------------------- MODULE AttemptLedger ---------------------------
(***************************************************************************)
(* What crazyjob promises against queue poisoning, without workers, rows   *)
(* or time: claims of a job are counted, user code is started only under a *)
(* counted claim, at most once per claim, and never past the limit.        *)
(***************************************************************************)
EXTENDS Naturals

CONSTANTS Jobs, MaxAttempts

VARIABLES claimed,   \* how often the job has been claimed
          ran        \* the claims under which its user code was started

Init ==
  /\ claimed = [j \in Jobs |-> 0]
  /\ ran = [j \in Jobs |-> {}]

Claim(j) ==
  /\ claimed' = [claimed EXCEPT ![j] = @ + 1]
  /\ UNCHANGED ran

Run(j, n) ==
  /\ n \in 1..claimed[j] /\ n \notin ran[j] /\ n <= MaxAttempts[j]
  /\ ran' = [ran EXCEPT ![j] = @ \cup {n}]
  /\ UNCHANGED claimed

Next == \E j \in Jobs : Claim(j) \/ \E n \in 1..claimed[j] : Run(j, n)

Spec == Init /\ [][Next]_<<claimed, ran>>
===========================================================================
