------------------------- MODULE MCPostgreSQLDriver -------------------------
(* Instances of PostgreSQLDriver for TLC. *)
EXTENDS PostgreSQLDriver, TLC

CONSTANTS p1, p2, t1, t2, t3, j1, j2

TwoPools  == (t1 :> p1) @@ (t2 :> p1) @@ (t3 :> p2)
TwoJobs   == (j1 :> 1) @@ (j2 :> 1)
TwoQueues == (j1 :> "default") @@ (j2 :> "mail")
Oldest    == (j1 :> {}) @@ (j2 :> {j1})
Ranks     == { (j1 :> 50) @@ (j2 :> 50), (j1 :> 50) @@ (j2 :> 10) }
Served    == (p1 :> {"default", "mail"}) @@ (p2 :> {"mail"})
=============================================================================
