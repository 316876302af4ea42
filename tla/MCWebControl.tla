---------------------------- MODULE MCWebControl ----------------------------
(* Small instances of WebControl for TLC. *)
EXTENDS WebControl, TLC

Symmetry == Permutations(Cmd)
=============================================================================
