---------------------------- MODULE MCWorkerPool ----------------------------
(* Instances of WorkerPool for TLC. *)
EXTENDS WorkerPool, TLC

CONSTANTS w1, w2, w3, t1, t2, t3, j1, j2

TwoHosts   == (t1 :> w1) @@ (t2 :> w2)
ThreeHosts == (t1 :> w1) @@ (t2 :> w2) @@ (t3 :> w3)
OneJobTwice == (j1 :> 2)
TwoJobs     == (j1 :> 1) @@ (j2 :> 2)

\* A process and its thread change places with another process and its thread.
SwapHosts == { (w1 :> w2) @@ (w2 :> w1) @@ (t1 :> t2) @@ (t2 :> t1) }

Graceful == {"return", "retry", "raise"}

===========================================================================
