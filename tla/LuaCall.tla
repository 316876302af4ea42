------------------------------ MODULE LuaCall ------------------------------
(***************************************************************************)
(* Calls, errors and coroutines of the Lua core, as ldo.c, the protected   *)
(* calls of lapi.c, the error entry of ldebug.c, the interpreter's calls   *)
(* (lvm.c) and the library functions built on them (lbaselib.c,            *)
(* lcorolib.c, table.sort of ltablib.c) do them: with a stack of Lua       *)
(* frames per thread, ONE stack of C activations for them all, counters of *)
(* nested and of non-yieldable C calls, and long jumps.  A step runs from  *)
(* one point where C returns, jumps or hands over to Lua code to the next. *)
(* It implements LuaThreads, which knows of no C stack.                    *)
(***************************************************************************)
EXTENDS Integers, Sequences, FiniteSets, SequencesExt

CONSTANTS
  N,          \* the number of coroutines
  Profiles    \* records [ops, frames, extra, ccalls, over, threads]: what a program does
              \* and the limits it meets: of frames (LUAI_MAXSTACK), the room kept for the
              \* handling of an overflow (ERRORSTACKSIZE), of nested C calls
              \* (LUAI_MAXCCALLS) and of those beyond it (LUAI_MAXCCALLS >> 3)

VARIABLES
  prog,       \* the profile
  th,         \* the threads (struct lua_State)
  cs,         \* the C stack
  ctl         \* "lua", "ret" (a C function goes on), "message" (luaG_errormsg), a code
              \* being thrown, or "abort"

vars == <<prog, th, cs, ctl>>

Main == 0
Threads == 0..N
LuaKinds == {"lua", "meta", "handler"}
CKinds == {"pcall", "xpcall", "load", "dofile", "sort", "resume", "wrap", "yield"}
Codes == {"RUN", "ERR", "MEM", "SYNTAX"}

(* A frame (CallInfo): what is called; the outcome of what was called last *)
(* (results on the stack, or the status of CIST_STAT); CIST_REENTRY;       *)
(* CIST_YPCALL and the message handler it keeps.                           *)
Frame(k, reentry) == [k |-> k, got |-> "none", reentry |-> reentry, y |-> FALSE, old |-> 0]

Thread == [ci |-> <<>>, status |-> "free", top |-> 0, nny |-> 1, ncc |-> 0, errfunc |-> 0,
           jmp |-> 0, big |-> FALSE]

Cut(s, n) == SubSeq(s, 1, n)
With(s, got) == [s EXCEPT ![Len(s)].got = got]
T == Last(cs).t                     \* the thread that runs

Init ==
  /\ prog \in Profiles
  /\ th = [t \in Threads |-> IF t = Main
             THEN [Thread EXCEPT !.ci = <<Frame("lua", FALSE)>>, !.status = "OK", !.ncc = 1, !.nny = 2]
             ELSE Thread]
  /\ cs = <<[op |-> "call", t |-> Main, allow |-> FALSE], [op |-> "exec", t |-> Main]>>
  /\ ctl = "lua"

---------------------------------------------------------------------------
(* A C call under way is a record x of the running thread, the C stack and *)
(* the control; the functions below add to it unless an error is raised.   *)
Here == [t |-> [th[T] EXCEPT !.ci = With(@, "none")], cs |-> cs, ctl |-> "lua"]
Do(x) == th' = [th EXCEPT ![T] = x.t] /\ cs' = x.cs /\ ctl' = x.ctl
Fails(x, how) == [x EXCEPT !.ctl = how]
Enters(x, a) == [x EXCEPT !.cs = Append(@, a)]

(* luaD_checkstack and luaD_growstack, then the new frame of luaD_precall. *)
Precall(x, k, reentry) ==
  IF Len(x.t.ci) < prog.frames + (IF x.t.big THEN prog.extra ELSE 0)
  THEN [x EXCEPT !.t.ci = Append(@, Frame(k, reentry))]
  ELSE IF x.t.big THEN Fails(x, "ERR") ELSE Fails([x EXCEPT !.t.big = TRUE], "message")

(* luaD_call of a Lua function: it runs in a luaV_execute of its own.      *)
Call(x, k, allow) ==
  LET n == x.t.ncc + 1
      counted == [x EXCEPT !.t.ncc = n]
      entered == Precall(Enters([counted EXCEPT !.t.nny = IF allow THEN @ ELSE @ + 1],
                                [op |-> "call", t |-> T, allow |-> allow]), k, FALSE)
  IN CASE x.ctl # "lua" -> x
       [] n = prog.ccalls -> Fails(counted, "message")
       [] n >= prog.ccalls + prog.over -> Fails(counted, "ERR")
       [] OTHER -> IF entered.ctl = "lua" THEN Enters(entered, [op |-> "exec", t |-> T]) ELSE entered

(* luaD_precall of a C function called by Lua code.                        *)
Fun(k) ==
  LET x == Precall(Here, k, FALSE)
  IN IF x.ctl = "lua" THEN Enters(x, [op |-> "fun", t |-> T]) ELSE x

(* luaD_pcall and luaD_rawrunprotected: what is to be restored, and where  *)
(* a jump goes.                                                            *)
TryKeepsHandler(x, ef) ==         (* Mutant: the handler around the call stays set. *)
  [Enters(x, [op |-> "pcall", t |-> T, n |-> Len(x.t.ci), nny |-> x.t.nny, errfunc |-> x.t.errfunc,
              jmp |-> x.t.jmp, ncc |-> x.t.ncc])
     EXCEPT !.t.jmp = Len(x.cs) + 1]
Try(x, ef) ==
  [Enters(x, [op |-> "pcall", t |-> T, n |-> Len(x.t.ci), nny |-> x.t.nny, errfunc |-> x.t.errfunc,
              jmp |-> x.t.jmp, ncc |-> x.t.ncc])
     EXCEPT !.t.jmp = Len(x.cs) + 1, !.t.errfunc = ef]

(* lua_pcallk: a protected call the resume below already protects needs no *)
(* try of its own when the thread may yield.                               *)
PCallK(x, ef) ==
  IF x.ctl # "lua" THEN x
  ELSE IF x.t.nny > 0 THEN Call(Try(x, ef), "lua", FALSE)
  ELSE LET n == Len(x.t.ci)
       IN Call([x EXCEPT !.t.ci[n].y = TRUE, !.t.ci[n].old = x.t.errfunc, !.t.errfunc = ef],
               "lua", TRUE)

---------------------------------------------------------------------------
(* What Lua code does.                                                     *)
Executes(op) == ctl = "lua" /\ op \in prog.ops /\ UNCHANGED prog

CallLua  == Executes("lua") /\ Do(Precall(Here, "lua", TRUE))
CallMeta == Executes("meta") /\ Do(Call(Here, "meta", TRUE))

Protect(k) ==
  LET x == Fun(k) IN Executes(k) /\ Do(PCallK(x, IF k = "xpcall" THEN Len(x.t.ci) ELSE 0))

(* lua_callk: the callee may yield when the thread may.                    *)
CallK(x) == Call(x, "lua", x.t.nny = 0)

(* luaB_dofile: the file may fail to load.                                 *)
DoFile ==
  LET x == Fun("dofile")
  IN /\ Executes("dofile")
     /\ Do(CallK(x)) \/ (x.ctl = "lua" /\ Do(Fails(x, "message")))

SortYields ==                     (* Mutant: the comparison may yield. *)
  Executes("sort") /\ Do(Call(Fun("sort"), "lua", TRUE))
Sort == Executes("sort") /\ Do(Call(Fun("sort"), "lua", FALSE))

(* luaB_load of a reader: luaD_protectedparser forbids yields.             *)
Load ==
  LET x == Fun("load")
      y == [x EXCEPT !.t.nny = @ + 1]
  IN Executes("load") /\ Do(IF x.ctl = "lua" THEN Call(Try(y, y.t.errfunc), "lua", FALSE) ELSE x)

Raise == \E how \in {"message", "MEM"} : Executes("error") /\ Do(Fails(Here, how))

(* luaB_yield, lua_yieldk                                                  *)
Yield ==
  LET x == Fun("yield")
  IN /\ Executes("yield")
     /\ Do(CASE x.ctl # "lua" -> x
             [] x.ctl = "lua" /\ x.t.nny > 0 -> Fails(x, "message")
             [] OTHER -> Fails([x EXCEPT !.t.status = "YIELD"], "YIELD"))

(* luaB_cocreate: the function waits on the new thread's stack.            *)
Create(t) ==
  /\ Executes("create") /\ t \in prog.threads /\ th[t].status = "free"
  /\ \A u \in 1..t - 1 : th[u].status # "free"
  /\ th' = [th EXCEPT ![t].status = "OK", ![t].top = 1]
  /\ UNCHANGED <<cs, ctl>>

CoStatus(co) ==
  CASE co = T -> "running"
    [] co # T /\ th[co].status = "YIELD" -> "suspended"
    [] co # T /\ th[co].status = "OK" ->
         IF th[co].ci # <<>> THEN "normal" ELSE IF th[co].top = 0 THEN "dead" ELSE "suspended"
    [] OTHER -> "dead"

(* auxresume refuses, and so does lua_resume; coroutine.resume returns     *)
(* that and the function made by coroutine.wrap raises it.                 *)
Refused(k, x) ==
  IF k = "wrap" THEN Fails(x, "message")
  ELSE [x EXCEPT !.t.ci = With(@, "RUN"), !.ctl = "ret"]

Resume(k, co) ==
  LET x == Fun(k)
      c == th[co]
      live == c.status = "YIELD" \/ (c.status = "OK" /\ c.ci = <<>>)
      \* nothing on its stack: it is over, or what it waits in is the function of a wrap,
      \* which has passed on all it was given
      empty == c.status = "OK" /\ IF c.ci = <<>> THEN c.top = 0 ELSE co # T /\ Last(c.ci).k = "wrap"
      entry == [op |-> "resume", t |-> co, from |-> T, nny |-> c.nny, jmp |-> c.jmp,
                ncc |-> x.t.ncc + 1]
      started == [c EXCEPT !.ncc = x.t.ncc + 1, !.nny = 0, !.jmp = Len(x.cs) + 1, !.status = "OK", !.top = 0]
  IN /\ Executes(k) /\ c.status # "free" /\ (k = "wrap" => co # Main)
     /\ \/ x.ctl # "lua" /\ Do(x)
        \/ /\ x.ctl = "lua" /\ (empty \/ (co = T /\ k = "wrap")) \* its own wrap, given nothing
           /\ Do(Refused(k, x))
        \/ /\ x.ctl = "lua" /\ ~empty
           /\ ~live \/ x.t.ncc + 1 >= prog.ccalls
           /\ LET r == Refused(k, x)
              IN /\ th' = [th EXCEPT ![co].ncc = x.t.ncc, ![T] = r.t]
                 /\ cs' = r.cs /\ ctl' = r.ctl
        \/ /\ x.ctl = "lua" /\ live /\ ~empty /\ x.t.ncc + 1 < prog.ccalls
           /\ IF c.status = "OK"
              THEN /\ th' = [th EXCEPT ![T] = x.t, ![co] = [started EXCEPT !.ci = <<Frame("lua", FALSE)>>]]
                   /\ cs' = x.cs \o <<entry, [op |-> "exec", t |-> co]>> /\ ctl' = "lua"
              ELSE /\ th' = [th EXCEPT ![T] = x.t, ![co] = [started EXCEPT !.ci = With(Front(@), "resumed")]]
                   /\ cs' = Append(x.cs, entry) /\ ctl' = "ret"

(* OP_RETURN: to the Lua function that made the call when this is the same *)
(* luaV_execute, else to the C function that called luaV_execute.          *)
Return ==
  LET f == Last(th[T].ci)
      below == Front(th[T].ci)
      done == [th[T] EXCEPT !.ci = IF below # <<>> /\ f.k # "handler" /\ Last(below).k \in LuaKinds
                                   THEN With(below, "ok") ELSE below]
      left == Front(cs)                                     \* without its "exec"
      allow == Last(left).allow
      caller == IF Len(left) > 1 THEN left[Len(left) - 1].op ELSE "main"
  IN /\ ctl = "lua" /\ UNCHANGED prog
     /\ T = Main => Len(th[T].ci) > 1                       \* the main program does not end
     /\ IF f.reentry THEN th' = [th EXCEPT ![T] = done] /\ UNCHANGED <<cs, ctl>>
        ELSE IF Last(left).op = "resume"
        THEN th' = [th EXCEPT ![T] = done] /\ cs' = left /\ ctl' = "ret"
        ELSE /\ th' = [th EXCEPT ![T] = [done EXCEPT !.ncc = @ - 1, !.nny = IF allow THEN @ ELSE @ - 1]]
             /\ cs' = IF caller = "errormsg" THEN Cut(left, Len(left) - 2) ELSE Front(left)
             /\ ctl' = CASE caller = "errormsg" -> "RUN" [] caller = "exec" -> "lua" [] OTHER -> "ret"

---------------------------------------------------------------------------
(* What C functions do when what they called has come back.                *)
Resumes(op) == ctl = "ret" /\ Last(cs).op = op /\ UNCHANGED prog
Back == [t |-> th[T], cs |-> cs, ctl |-> "lua"]

(* The next comparison of table.sort; the next piece the parser reads, or  *)
(* a syntax error, which is thrown past the message handler.               *)
Again ==
  LET k == Last(th[T].ci).k
  IN /\ UNCHANGED prog /\ ctl = "ret" /\ th[T].ci # <<>>
     /\ \/ k = "sort" /\ Do(Call(Back, "lua", FALSE))
        \/ /\ k = "load" /\ Last(cs).op = "pcall"
           /\ Do(Call(Back, "lua", FALSE)) \/ Do(Fails(Back, "SYNTAX"))

(* A frame comes back from the try: with parsing over, yields are allowed  *)
(* as before.                                                              *)
EndedKeepsCount(t, a) ==          (* Mutant: an error leaves the yields forbidden. *)
  [t EXCEPT !.jmp = a.jmp, !.ncc = a.ncc, !.errfunc = a.errfunc]
Ended(t, a) ==
  [t EXCEPT !.jmp = a.jmp, !.ncc = a.ncc, !.errfunc = a.errfunc,
            !.nny = IF t.ci[a.n].k = "load" THEN a.nny - 1 ELSE a.nny]
EndTry ==
  /\ Resumes("pcall")
  /\ th' = [th EXCEPT ![T] = Ended(@, Last(cs))] /\ cs' = Front(cs) /\ UNCHANGED ctl

(* A C function returns to Lua code: luaD_poscall.  A protected call that  *)
(* has no try is over.                                                     *)
Finished(t) ==
  LET f == Last(t.ci)
      below == Front(t.ci)
  IN [t EXCEPT !.errfunc = IF f.y THEN f.old ELSE @,
               !.ci = IF below = <<>> THEN below ELSE With(below, IF f.got = "none" THEN "ok" ELSE f.got)]
EndFun ==
  /\ Resumes("fun")
  /\ th' = [th EXCEPT ![T] = Finished(@)] /\ cs' = Front(cs) /\ ctl' = "lua"

(* lua_resume returns to the thread that called it, with an outcome.       *)
Leaves(t, j, got) ==
  LET a == cs[j]
      up == a.from
      fails == got \in Codes /\ Last(th[up].ci).k = "wrap"
  IN /\ th' = [th EXCEPT ![a.t] = [t EXCEPT !.jmp = a.jmp, !.ncc = a.ncc - 1, !.nny = a.nny],
                         ![up].ci = IF fails THEN @ ELSE With(@, got)]
     /\ cs' = Cut(cs, j - 1) /\ ctl' = IF fails THEN "message" ELSE "ret"

(* resume and unroll: what a coroutine had under way is finished, frame by *)
(* frame: an interrupted instruction (luaV_finishOp), or a C function by   *)
(* its continuation (finishCcall).                                         *)
Continuations == {"pcall", "xpcall", "dofile"}
Unroll ==
  LET s == th[T].ci
  IN /\ Resumes("resume")
     /\ \/ s = <<>> /\ Leaves(th[T], Len(cs), "ok")
        \/ /\ s # <<>> /\ Last(s).k \in LuaKinds
           /\ cs' = Append(cs, [op |-> "exec", t |-> T]) /\ ctl' = "lua" /\ UNCHANGED th
        \/ /\ s # <<>> /\ Last(s).k \in Continuations
           /\ th' = [th EXCEPT ![T] = Finished(@)] /\ UNCHANGED <<cs, ctl>>

---------------------------------------------------------------------------
(* Errors.                                                                 *)

(* luaG_errormsg calls the message handler, if there is one.               *)
Message ==
  /\ ctl = "message" /\ UNCHANGED prog
  /\ IF th[T].errfunc # 0
     THEN Do(Call(Enters(Back, [op |-> "errormsg", t |-> T]), "handler", FALSE))
     ELSE ctl' = "RUN" /\ UNCHANGED <<th, cs>>

(* luaD_shrinkstack                                                        *)
Shrunk(t) == [t EXCEPT !.big = @ /\ Len(t.ci) > prog.frames]

(* luaD_throw jumps to the last try of the thread; luaD_pcall restores     *)
(* what it kept.                                                           *)
CatchPCall ==
  LET j == th[T].jmp
      a == cs[j]
      t == [th[T] EXCEPT !.ci = With(Cut(@, a.n), ctl)]
  IN /\ ctl \in Codes \cup {"YIELD"} /\ j # 0 /\ cs[j].op = "pcall" /\ UNCHANGED prog
     /\ th' = [th EXCEPT ![T] = Shrunk(Ended(t, a))]
     /\ cs' = Cut(cs, j - 1) /\ ctl' = "ret"

(* lua_resume looks for a protected call of the coroutine (findpcall,      *)
(* recover) and goes on from it; with none the coroutine is dead.          *)
CatchResume ==
  LET j == th[T].jmp
      s == th[T].ci
      calls == {i \in DOMAIN s : s[i].y}
      i == CHOOSE n \in calls : \A m \in calls : m <= n
  IN /\ ctl \in Codes \cup {"YIELD"} /\ j # 0 /\ cs[j].op = "resume" /\ UNCHANGED prog
     /\ CASE ctl = "YIELD" -> Leaves(th[T], j, "yielded")
          [] ctl # "YIELD" /\ calls = {} -> Leaves([th[T] EXCEPT !.status = ctl], j, ctl)
          [] OTHER ->
               /\ th' = [th EXCEPT ![T] = Shrunk([@ EXCEPT !.ci = With(Cut(s, i), ctl), !.nny = 0,
                                            !.errfunc = s[i].old, !.ncc = cs[j].ncc])]
               /\ cs' = Cut(cs, j) /\ ctl' = "ret"

(* Nothing to jump to: the panic function, then abort.                     *)
Panic ==
  /\ ctl \in Codes /\ th[T].jmp = 0 /\ ctl' = "abort" /\ UNCHANGED <<prog, th, cs>>
Aborted == ctl = "abort" /\ UNCHANGED vars

Next ==
  \/ CallLua \/ CallMeta \/ DoFile \/ Sort \/ Load \/ Raise \/ Yield \/ Return
  \/ \E k \in {"pcall", "xpcall"} : Protect(k)
  \/ \E t \in 1..N : Create(t)
  \/ \E k \in {"resume", "wrap"} : \E co \in Threads : Resume(k, co)
  \/ Again \/ EndTry \/ EndFun \/ Unroll
  \/ Message \/ CatchPCall \/ CatchResume \/ Panic \/ Aborted

Spec == Init /\ [][Next]_vars

---------------------------------------------------------------------------
(* The types of the state: flags of frames, of the C stack and of threads  *)
(* have the values the code gives them.                                    *)
Depth == 40
TypeOK ==
  /\ ctl \in {"lua", "ret", "message", "YIELD", "abort"} \cup Codes
  /\ \A t \in Threads :
       /\ th[t].status \in {"free", "OK", "YIELD"} \cup Codes
       /\ th[t].nny \in 0..Depth /\ th[t].ncc \in 0..prog.ccalls + prog.over
       /\ th[t].big \in BOOLEAN /\ th[t].jmp \in 0..Len(cs)
       /\ th[t].errfunc \in 0..Len(th[t].ci)
       /\ \A i \in DOMAIN th[t].ci :
            /\ th[t].ci[i].k \in LuaKinds \cup CKinds
            /\ th[t].ci[i].got \in {"none", "ok", "yielded", "resumed"} \cup Codes

(* The count of calls that forbid a yield and the chain of tries always    *)
(* agree with the C stack, through every error, yield and resume           *)
(* (lua_State's nny and errorJmp): a thread that is not running on it has  *)
(* no try and counts one.  Everything has its type.                        *)
Active(t) == t \in {cs[i].t : i \in DOMAIN cs}
Blocks(t, i) ==
  cs[i].t = t /\ \/ cs[i].op = "call" /\ ~cs[i].allow
                 \/ cs[i].op = "pcall" /\ th[t].ci[cs[i].n].k = "load"
Tries(t) == {i \in DOMAIN cs : cs[i].t = t /\ cs[i].op \in {"pcall", "resume"}}
Balanced ==
  /\ TypeOK
  /\ \A t \in Threads :
       /\ th[t].nny = Cardinality({i \in DOMAIN cs : Blocks(t, i)})
                        + (IF t = Main \/ ~Active(t) THEN 1 ELSE 0)
       /\ th[t].jmp = IF Tries(t) = {} THEN 0 ELSE CHOOSE j \in Tries(t) : \A i \in Tries(t) : i <= j

(* The message handler an error would call is that of the innermost        *)
(* protected call in progress, in threads that run and in threads that     *)
(* wait, whether the call has a try or is recovered by its resume.         *)
Handles(t) == {i \in DOMAIN th[t].ci : th[t].ci[i].k \in {"pcall", "xpcall"}}
HandlerOfInnermost ==
  \A t \in Threads :
    (th[t].status \in {"OK", "YIELD"} /\ (t = T => ctl \in {"lua", "message"}))
       => th[t].errfunc =
            IF Handles(t) = {} THEN 0
            ELSE LET i == CHOOSE j \in Handles(t) : \A n \in Handles(t) : n <= j
                 IN IF th[t].ci[i].k = "xpcall" THEN i ELSE 0

(* The code implements the promises of LuaThreads: an error is caught by   *)
(* the innermost protected call, by a jump or by recovery, a yield never   *)
(* ends in one, and what a call returns goes to its caller.                *)
Promises == INSTANCE LuaThreads WITH
  frames <- [t \in Threads |-> [i \in DOMAIN th[t].ci |-> [k |-> th[t].ci[i].k, got |-> th[t].ci[i].got]]],
  mode <- [t \in Threads |->
             IF th[t].status = "free" THEN "free"
             ELSE IF CoStatus(t) \in {"running", "normal"} THEN "active" ELSE CoStatus(t)],
  chain <- LET resumes == SelectSeq(cs, LAMBDA a : a.op = "resume")
           IN <<Main>> \o [i \in DOMAIN resumes |-> resumes[i].t],
  raised <- IF ctl \in {"lua", "ret"} THEN "none" ELSE ctl
Promised == Promises!ASpec

(* lua_assert(nCcalls == L->nCcalls) at the end of resume: a coroutine     *)
(* that has run to its end has given back the C calls it counted.          *)
CountsReturned ==
  (ctl = "ret" /\ Last(cs).op = "resume" /\ th[T].ci = <<>>) => th[T].ncc = Last(cs).ncc
=============================================================================
