---------------------------- MODULE MCDashboard ----------------------------
(* Instances of Dashboard for TLC. *)
EXTENDS Dashboard, TLC

CONSTANTS w1, u1, u2, j1, j2, j3, q1

OnceEach  == [j \in Jobs |-> 1]
TwiceEach == [j \in Jobs |-> 2]
OneQueue  == [j \in Jobs |-> q1]
Alike     == Permutations(Jobs) \cup Permutations(Users)
===========================================================================
