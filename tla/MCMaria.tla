------------------------------ MODULE MCMaria ------------------------------
(* A small instance of Maria for TLC. *)
EXTENDS Maria
=============================================================================
