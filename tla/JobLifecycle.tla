---------------------------- MODULE JobLifecycle ----------------------------
(***************************************************************************)
(* The lifecycle the documentation draws for a job, without workers: it    *)
(* waits, is run by one worker at a time, comes back to wait until its     *)
(* attempts are used up, and ends done, dead or cancelled for good.        *)
(***************************************************************************)
EXTENDS Naturals

CONSTANTS Jobs, MaxAttempts

VARIABLES life, tries

Init ==
  /\ life  = [j \in Jobs |-> "new"]
  /\ tries = [j \in Jobs |-> 0]

Move(j, from, to) == life[j] = from /\ life' = [life EXCEPT ![j] = to]

Submit(j) == Move(j, "new", "waiting") /\ UNCHANGED tries

\* One claim past the limit is allowed: it only leads to the dead letters.
Take(j) ==
  /\ Move(j, "waiting", "running")
  /\ tries[j] <= MaxAttempts[j]
  /\ tries' = [tries EXCEPT ![j] = @ + 1]

Finish(j) == Move(j, "running", "done") /\ tries[j] <= MaxAttempts[j] /\ UNCHANGED tries
Return(j) == Move(j, "running", "waiting") /\ tries[j] <= MaxAttempts[j] /\ UNCHANGED tries
Bury(j)   == Move(j, "running", "dead") /\ tries[j] >= MaxAttempts[j] /\ UNCHANGED tries
Cancel(j) == Move(j, "waiting", "gone") /\ UNCHANGED tries

Next == \E j \in Jobs :
  Submit(j) \/ Take(j) \/ Finish(j) \/ Return(j) \/ Bury(j) \/ Cancel(j)

Spec == Init /\ [][Next]_<<life, tries>>
===========================================================================
