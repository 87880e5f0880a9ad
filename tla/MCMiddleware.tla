---------------------------- MODULE MCMiddleware ----------------------------
(* One job of two attempts for TLC. *)
EXTENDS Middleware, TLC

CONSTANTS j1

Twice == (j1 :> 2)
=============================================================================
