----------------------------- MODULE MCThorflux -----------------------------
(* The whole process on a small instance. *)
EXTENDS Thorflux
=============================================================================
