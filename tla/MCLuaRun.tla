------------------------------ MODULE MCLuaRun ------------------------------
(***************************************************************************)
(* How programs are executed, one of two instances in each behaviour: a    *)
(* program that is compiled and interpreted (LuaVM, with the programs of   *)
(* MCLuaVM), and calls of every kind with their errors and yields          *)
(* (LuaCall).  What does not move stays as it is at the start.             *)
(***************************************************************************)
EXTENDS MCLuaVM

VARIABLES part, prog, th, cs, ctl

(* Profiles with a few kinds of calls each, and small limits: enough for   *)
(* every kind of call to be under every other one it is made with, for     *)
(* both overflows, and for errors while one is handled.                    *)
Profile(ops, limit, ccalls, threads) ==
  [ops |-> ops, frames |-> limit, extra |-> 1, ccalls |-> ccalls, over |-> 2, threads |-> threads]

CallProfiles ==
  {Profile({"xpcall", "pcall", "yield", "resume", "create", "error"}, 4, 7, {1}),
   Profile({"lua", "meta", "sort", "pcall", "yield", "resume", "create", "error"}, 3, 6, {1}),
   Profile({"load", "xpcall", "meta", "error"}, 7, 8, {}),
   Profile({"wrap", "resume", "yield", "create", "error"}, 2, 6, {1, 2}),
   Profile({"dofile", "pcall", "yield", "wrap", "create", "error", "sort"}, 5, 8, {1})}

Calls == INSTANCE LuaCall WITH N <- 2, Profiles <- CallProfiles

CallVars == <<prog, th, cs, ctl>>
ProgramVars == <<program, main, status, frames, stack, top, upvals, closures, heap, trace, result>>
AllVars == <<part, CallVars, ProgramVars>>

AllInit ==
  /\ Init /\ Calls!Init
  /\ \/ part = "program" /\ prog = CHOOSE p \in CallProfiles : TRUE
     \/ part = "calls" /\ program = CHOOSE p \in Programs : TRUE

Executing == part = "program" /\ Next /\ UNCHANGED <<part, CallVars>>
Calling == part = "calls" /\ Calls!Next /\ UNCHANGED <<part, ProgramVars>>
AllNext == Executing \/ Calling
AllSpec == AllInit /\ [][AllNext]_AllVars

---------------------------------------------------------------------------
(* Yields forbidden and the chain of tries agree with the C stack          *)
(* (LuaCall).                                                              *)
Balanced == Calls!Balanced

(* The message handler in force is that of the innermost protected call    *)
(* (LuaCall).                                                              *)
HandlerOfInnermost == Calls!HandlerOfInnermost

(* The core implements the promises about errors and yields (LuaThreads).  *)
Promised == Calls!Promised
=============================================================================
