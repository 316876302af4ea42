---------------------------- MODULE MCWebServer ----------------------------
(* A small instance of the accept loop for TLC. *)
EXTENDS WebServer
=============================================================================
