--------------------------- MODULE MCSQLiteDriver ---------------------------
(* Instances of SQLiteDriver for TLC. *)
EXTENDS SQLiteDriver, TLC

CONSTANTS p1, p2, t1, t2, t3, j1

TwoDrivers == (t1 :> p1) @@ (t2 :> p1) @@ (t3 :> p2)
Once       == (j1 :> 1)
===========================================================================
