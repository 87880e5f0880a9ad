----------------------------- MODULE MCWebApp -----------------------------
(* Instances of WebApp for TLC. *)
EXTENDS WebApp, TLC

CONSTANTS w1, u1, u2, j1, j2, j3, q1

OnceEach  == [j \in Jobs |-> 1]
OneQueue  == [j \in Jobs |-> q1]
Alike == Permutations(Jobs) \cup Permutations(Users)
===========================================================================
