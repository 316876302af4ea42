----------------------------- MODULE LuaThreads -----------------------------
(***************************************************************************)
(* What Lua programs are promised of calls, errors and coroutines (the     *)
(* manual, and the functions pcall, error and coroutine.* of the standard  *)
(* library): a thread is a stack of calls; an error is caught by the       *)
(* innermost protected call of its thread, or ends the thread and passes   *)
(* to the one that resumed it; a thread may be suspended unless a call of  *)
(* it cannot be.  How C functions come into it is LuaCall's business.      *)
(***************************************************************************)
EXTENDS Integers, Sequences, FiniteSets, SequencesExt

CONSTANT N                      \* the number of coroutines
Main == 0
Threads == 0..N

VARIABLES
  frames,   \* the calls of a thread: what is called, and the outcome of what it did last
  mode,     \* "free", "suspended", "active" or "dead"
  chain,    \* the threads that are active, each resumed by the one before
  raised    \* an error on its way: "message" when a handler is still to see it

avars == <<frames, mode, chain, raised>>

LuaKinds  == {"lua", "meta", "handler"}         \* a metamethod, a message handler
Protected == {"pcall", "xpcall", "load"}
Barriers  == {"sort", "load", "handler"}        \* calls that cannot be suspended
Codes     == {"RUN", "ERR", "MEM", "SYNTAX"}
Frame(k)  == [k |-> k, got |-> "none"]

Now == Last(chain)
Cut(s, n) == SubSeq(s, 1, n)
With(s, got) == [s EXCEPT ![Len(s)].got = got]
Popped(s, got) == With(Cut(s, Len(s) - 1), got)
Guards(s, kinds) == {i \in DOMAIN s : s[i].k \in kinds}
Innermost(s, kinds) == CHOOSE i \in Guards(s, kinds) : \A j \in Guards(s, kinds) : j <= i
Guarded(t) == Guards(frames[t], Protected) # {}
Suspendable(t) == t # Main /\ \A i \in DOMAIN frames[t] : frames[t][i].k \notin Barriers

AInit ==
  /\ frames = [t \in Threads |-> IF t = Main THEN <<Frame("lua")>> ELSE <<>>]
  /\ mode = [t \in Threads |-> IF t = Main THEN "active" ELSE "free"]
  /\ chain = <<Main>> /\ raised = "none"

Idle == With(frames[Now], "none")       \* the thread about to do something

(* Calls are entered one after the other; one for which there is no room   *)
(* is an error.                                                            *)
Entered(kinds) ==
  \E n \in 0..Len(kinds) :
    /\ frames' = [frames EXCEPT ![Now] = Idle \o [i \in 1..n |-> Frame(kinds[i])]]
    /\ IF n = Len(kinds) THEN raised' = "none" ELSE raised' \in {"message", "ERR"}

Executing == raised = "none" /\ frames[Now] # <<>> /\ Last(frames[Now]).k \in LuaKinds
AtC(kinds) == raised = "none" /\ frames[Now] # <<>> /\ Last(frames[Now]).k \in kinds

ACreate(t) ==
  /\ Executing /\ mode[t] = "free" /\ mode' = [mode EXCEPT ![t] = "suspended"]
  /\ UNCHANGED <<frames, chain, raised>>
ACall ==
  /\ Executing
  /\ \E kinds \in {<<"lua">>, <<"meta">>} \cup {<<k, "lua">> : k \in Protected \cup {"dofile", "sort"}} :
       Entered(kinds)
  /\ UNCHANGED <<mode, chain>>

(* A comparison or the reader of load is called again; or the text read is *)
(* no program.                                                             *)
AAgain ==
  /\ AtC({"sort", "load"}) /\ Last(frames[Now]).got = "none"
  /\ \/ Entered(<<"lua">>)
     \/ Last(frames[Now]).k = "load" /\ raised' = "SYNTAX" /\ UNCHANGED frames
  /\ UNCHANGED <<mode, chain>>

(* A function returns; when a handler does, the error goes on.             *)
AReturn ==
  /\ Executing
  /\ LET s == frames[Now]
         rest == Cut(s, Len(s) - 1)
     IN /\ frames' = [frames EXCEPT ![Now] =
                        IF rest # <<>> /\ Last(s).k # "handler" /\ Last(rest).k \in LuaKinds
                        THEN With(rest, "ok") ELSE rest]
        /\ raised' = IF Last(s).k = "handler" THEN "RUN" ELSE "none"
  /\ UNCHANGED <<mode, chain>>
ACReturn ==
  /\ AtC({"pcall", "xpcall", "load", "dofile", "sort", "resume", "wrap"})
  /\ frames' = [frames EXCEPT ![Now] = Popped(@, IF Last(@).got = "none" THEN "ok" ELSE Last(@).got)]
  /\ UNCHANGED <<mode, chain, raised>>

AError ==
  /\ Executing /\ raised' \in {"message", "MEM"}
  /\ frames' = [frames EXCEPT ![Now] = Idle] /\ UNCHANGED <<mode, chain>>

AMessage ==
  /\ raised = "message"
  /\ LET s == frames[Now]
         calls == {"pcall", "xpcall"}
     IN IF Guards(s, calls) # {} /\ s[Innermost(s, calls)].k = "xpcall"
        THEN Entered(<<"handler">>)
        ELSE raised' = "RUN" /\ UNCHANGED frames
  /\ UNCHANGED <<mode, chain>>

ACatch ==
  /\ raised \in Codes /\ Guarded(Now)
  /\ frames' = [frames EXCEPT ![Now] = With(Cut(@, Innermost(@, Protected)), raised)]
  /\ raised' = "none" /\ UNCHANGED <<mode, chain>>

(* Control goes back to the thread that resumed this one, with outcome got.*)
Leaves(got, new) ==
  LET up == chain[Len(chain) - 1]
      fails == Last(frames[up]).k = "wrap" /\ got \in Codes
  IN /\ chain' = Cut(chain, Len(chain) - 1) /\ mode' = [mode EXCEPT ![Now] = new]
     /\ frames' = [frames EXCEPT ![up] = IF fails THEN @ ELSE With(@, got)]
     /\ raised' = IF fails THEN "message" ELSE "none"
ADie    == raised \in Codes /\ ~Guarded(Now) /\ Now # Main /\ Leaves(raised, "dead")
AFinish == raised = "none" /\ frames[Now] = <<>> /\ Now # Main /\ Leaves("ok", "dead")
ASuspend == raised = "YIELD" /\ Leaves("yielded", "suspended")
AAbort ==
  /\ raised \in Codes /\ ~Guarded(Now) /\ Now = Main /\ raised' = "abort"
  /\ UNCHANGED <<frames, mode, chain>>

AYield ==
  /\ Executing
  /\ \/ Entered(<<"yield">>) /\ raised' # "none"
     \/ /\ frames' = [frames EXCEPT ![Now] = Append(Idle, Frame("yield"))]
        /\ raised' = IF Suspendable(Now) THEN "YIELD" ELSE "message"
  /\ UNCHANGED <<mode, chain>>

(* A thread that is not suspended cannot be resumed; one that is may be    *)
(* refused.                                                                *)
AResume(t, k) ==
  /\ Executing
  /\ \/ Entered(<<k>>) /\ raised' # "none" /\ UNCHANGED <<mode, chain>>
     \/ LET f == [Frame(k) EXCEPT !.got = IF k = "resume" THEN "RUN" ELSE "none"]
        IN /\ frames' = [frames EXCEPT ![Now] = Append(Idle, f)]
           /\ raised' = IF k = "wrap" THEN "message" ELSE "none"
           /\ UNCHANGED <<mode, chain>>
     \/ /\ mode[t] = "suspended" /\ mode' = [mode EXCEPT ![t] = "active"]
        /\ chain' = Append(chain, t) /\ UNCHANGED raised
        /\ frames' = [frames EXCEPT ![Now] = Append(Idle, Frame(k)),
                        ![t] = IF @ = <<>> THEN <<Frame("lua")>> ELSE Popped(@, "resumed")]

ANext ==
  \/ \E t \in Threads : ACreate(t) \/ \E k \in {"resume", "wrap"} : AResume(t, k)
  \/ ACall \/ AAgain \/ AReturn \/ ACReturn \/ AError \/ AMessage \/ ACatch
  \/ ADie \/ AFinish \/ ASuspend \/ AAbort \/ AYield

ASpec == AInit /\ [][ANext]_avars
=============================================================================
