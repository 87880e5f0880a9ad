--------------------------- MODULE MCRetryTiming ---------------------------
(* Instances of RetryTiming for TLC. *)
EXTENDS RetryTiming

\* Sessions west of UTC, at UTC and east of it.
EastAndWest == {-7, 0, 7}
===========================================================================
