----------------------------- MODULE MCLibrary -----------------------------
(* A small instance of Library for TLC. *)
EXTENDS Library
=============================================================================
