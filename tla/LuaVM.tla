------------------------------- MODULE LuaVM -------------------------------
(***************************************************************************)
(* A program is compiled (LuaParser) and the interpreter executes it, one  *)
(* instruction a step (luaV_execute in src/lua/src/lvm.c, with the calls   *)
(* of ldo.c and the upvalues of lfunc.c).  Whatever operations outside the *)
(* program answer, it does what the program means (LuaMeaning).            *)
(***************************************************************************)
EXTENDS LuaParser, LuaMeaning

CONSTANTS
  Programs,     \* sequences of statements
  Compile(_),   \* the compiler (MainFunc in LuaParser), an operator of a program
  Mean(_, _),   \* what the program does given answers (Meaning in LuaMeaning)
  StackSize,
  MaxTrace      \* how many events of a run are looked at

ASSUME LuaVMAssumption == StackSize \in Nat /\ MaxTrace \in Nat

VARIABLES
  program,  \* rigid
  main,     \* its prototype, once it is compiled
  status,   \* "source", "running", "done", "error", "rejected" or "stopped"
  frames,   \* the calls being executed (CallInfo)
  stack, top,
  upvals,   \* upvalues: open, with a place in the stack, or closed with a value
  closures, \* the closures created: a prototype and upvalues
  heap,     \* the tables created
  trace,    \* history: the events
  result    \* history: what the program returned

vars == <<program, main, status, frames, stack, top, upvals, closures, heap, trace, result>>
store == <<program, main, closures, heap, trace, result, status>>

Junk == <<"junk">>
Init ==
  /\ program \in Programs /\ main = <<>> /\ status = "source"
  /\ frames = <<>> /\ stack = [i \in 0..StackSize |-> Junk] /\ top = 0
  /\ upvals = <<>> /\ closures = <<>> /\ heap = <<>> /\ trace = <<>> /\ result = <<>>

Ci == frames[Len(frames)]
Cl == closures[Ci.cl]
P  == Cl.proto
Ins == P.code[Ci.pc]
R(x)  == stack[Ci.base + x]
RK(x) == IF IsK(x) THEN P.k[x - BitRK + 1] ELSE R(x)
Goto(pc) == frames' = [frames EXCEPT ![Len(frames)].pc = pc]
Advance == Goto(Ci.pc + 1)
SetR(x, v) == stack' = [stack EXCEPT ![Ci.base + x] = v]
Running(ops) == status = "running" /\ Ins.op \in ops

UpValue(i) == LET u == upvals[Cl.ups[i + 1]] IN IF u.open THEN stack[u.at] ELSE u.v
(* luaF_close: the open upvalues from a place on get the values there.     *)
Closed(level) ==
  [u \in DOMAIN upvals |->
     IF upvals[u].open /\ upvals[u].at >= level
     THEN [upvals[u] EXCEPT !.open = FALSE, !.v = stack[upvals[u].at]] ELSE upvals[u]]

-----------------------------------------------------------------------------
(* Operations and their outcomes.                                          *)

Outcomes(op, args) == IF Kind(op, args) = "ask" THEN Answers(op, Len(trace) + 1) ELSE {Known(op, args, heap)}
Works(op, args) == Kind(op, args) = "known" \/ (Kind(op, args) = "ask" /\ Len(trace) < MaxTrace)
Log(op, args, a) ==
  trace' = IF Kind(op, args) = "ask" THEN Append(trace, <<op, Shown(args, heap), a>>) ELSE trace

(* An operation that fails ends the program; past the bound it is left.    *)
Fails(op, args) ==
  /\ ~Works(op, args)
  /\ status' = IF Kind(op, args) = "error" THEN "error" ELSE "stopped"
  /\ UNCHANGED <<program, main, frames, stack, top, upvals, closures, heap, trace, result>>

-----------------------------------------------------------------------------
(* Calls.                                                                  *)

(* A frame for closure c whose function and n arguments are at func in st. *)
Framed(st, func, n, c, nres) ==
  LET p == closures[c].proto
      m == IF n < p.numparams THEN p.numparams ELSE n
      base == IF p.vararg THEN func + 1 + m ELSE func + 1
      arg(i) == IF i < n THEN st[func + 1 + i] ELSE Null
  IN [stack |-> [i \in DOMAIN st |->
        CASE i > func /\ i < base -> IF i - func - 1 < p.numparams THEN Null ELSE st[i]
          [] i >= base /\ i < base + p.numparams -> arg(i - base)
          [] i >= base + p.numparams -> Junk
          [] OTHER -> st[i]],
      ci |-> [func |-> func, base |-> base, pc |-> 1, cl |-> c, nres |-> nres, cat |-> 0],
      top |-> base + p.maxstack]

(* luaD_poscall: results vs where the function was; <<stack, top>>.        *)
Returned(st, func, vs, nres) ==
  LET n == IF nres = MultRet THEN Len(vs) ELSE nres
  IN <<[i \in DOMAIN st |-> IF i >= func /\ i < func + n THEN Nth(vs, i - func + 1) ELSE st[i]], func + n>>

Range_(from, to) == [i \in 1..(to - from) |-> stack[from + i - 1]]    \* values from..to-1

PreCall(func, n, nres, pc) ==
  LET f == stack[func]
      args == Range_(func, func + n + 1)
      new == Framed(stack, func, n, f[2], nres)
  IN IF f[1] = "fun"
     THEN /\ stack' = new.stack /\ top' = new.top
          /\ frames' = Append([frames EXCEPT ![Len(frames)].pc = pc], new.ci)
          /\ UNCHANGED <<store, upvals>>
     ELSE \/ Fails("CALL", args)
          \/ /\ Works("CALL", args)
             /\ \E a \in Outcomes("CALL", args) :
                  LET r == Returned(stack, func, a, nres)
                  IN /\ stack' = r[1] /\ top' = IF nres = MultRet THEN r[2] ELSE Ci.base + P.maxstack
                     /\ Log("CALL", args, a)
             /\ Goto(pc) /\ UNCHANGED <<program, main, upvals, closures, heap, result, status>>

OpCall ==
  /\ Running({"CALL"})
  /\ LET func == Ci.base + Ins.a
     IN PreCall(func, (IF Ins.b = 0 THEN top - func ELSE Ins.b) - 1, Ins.c - 1, Ci.pc + 1)

(* The frame of the function called takes the place of the caller's.       *)
OpTailCall ==
  /\ Running({"TAILCALL"})
  /\ LET from == Ci.base + Ins.a
         n == (IF Ins.b = 0 THEN top - from ELSE Ins.b) - 1
         st == [i \in DOMAIN stack |-> IF i >= Ci.func /\ i <= Ci.func + n
                                       THEN stack[from + i - Ci.func] ELSE stack[i]]
         new == Framed(st, Ci.func, n, stack[from][2], Ci.nres)
     IN IF stack[from][1] = "fun"
        THEN /\ upvals' = IF P.p # <<>> THEN Closed(Ci.base) ELSE upvals
             /\ stack' = new.stack /\ top' = new.top
             /\ frames' = [frames EXCEPT ![Len(frames)] = new.ci]
             /\ UNCHANGED store
        ELSE PreCall(from, n, MultRet, Ci.pc + 1)

OpReturn ==
  /\ Running({"RETURN"})
  /\ LET from == Ci.base + Ins.a
         vs == Range_(from, IF Ins.b = 0 THEN top ELSE from + Ins.b - 1)
         r  == Returned(stack, Ci.func, vs, Ci.nres)
         up == frames[Len(frames) - 1]
     IN /\ upvals' = IF P.p # <<>> THEN Closed(Ci.base) ELSE upvals
        /\ stack' = r[1]
        /\ frames' = SubSeq(frames, 1, Len(frames) - 1)
        /\ IF Len(frames) = 1
           THEN status' = "done" /\ result' = Shown(vs, heap) /\ UNCHANGED top
           ELSE /\ top' = IF Ci.nres = MultRet THEN r[2] ELSE up.base + closures[up.cl].proto.maxstack
                /\ UNCHANGED <<status, result>>
  /\ UNCHANGED <<program, main, closures, heap, trace>>

OpTForCall ==
  /\ Running({"TFORCALL"})
  /\ LET cb == Ci.base + Ins.a + 3
         st == [stack EXCEPT ![cb] = stack[cb - 3], ![cb + 1] = stack[cb - 2], ![cb + 2] = stack[cb - 1]]
         args == <<st[cb], st[cb + 1], st[cb + 2]>>
         new == Framed(st, cb, 2, st[cb][2], Ins.c)
     IN IF st[cb][1] = "fun"
        THEN /\ stack' = new.stack /\ top' = new.top
             /\ frames' = Append([frames EXCEPT ![Len(frames)].pc = @ + 1], new.ci)
             /\ UNCHANGED <<store, upvals>>
        ELSE \/ Fails("CALL", args)
             \/ /\ Works("CALL", args)
                /\ \E a \in Outcomes("CALL", args) :
                     stack' = Returned(st, cb, a, Ins.c)[1] /\ Log("CALL", args, a)
                /\ Advance /\ UNCHANGED <<program, main, top, upvals, closures, heap, result, status>>

-----------------------------------------------------------------------------
(* The other instructions.                                                 *)

OpMove ==
  /\ Running({"MOVE", "LOADK", "LOADKX", "GETUPVAL", "NOT"})
  /\ SetR(Ins.a, CASE Ins.op = "MOVE" -> R(Ins.b) [] Ins.op = "LOADK" -> P.k[Ins.b + 1]
                   [] Ins.op = "LOADKX" -> P.k[P.code[Ci.pc + 1].a + 1]
                   [] Ins.op = "GETUPVAL" -> UpValue(Ins.b)
                   [] Ins.op = "NOT" -> Bool(IsFalse(R(Ins.b))))
  /\ Goto(Ci.pc + IF Ins.op = "LOADKX" THEN 2 ELSE 1)
  /\ UNCHANGED <<store, top, upvals>>

OpLoadBool ==
  /\ Running({"LOADBOOL"})
  /\ SetR(Ins.a, Bool(Ins.b = 1)) /\ Goto(Ci.pc + IF Ins.c = 1 THEN 2 ELSE 1)
  /\ UNCHANGED <<store, top, upvals>>

OpLoadNil ==
  /\ Running({"LOADNIL"})
  /\ stack' = [i \in DOMAIN stack |->
                 IF i - Ci.base \in Ins.a..(Ins.a + Ins.b) THEN Null ELSE stack[i]]
  /\ Advance /\ UNCHANGED <<store, top, upvals>>

OpSetUpval ==
  /\ Running({"SETUPVAL"})
  /\ LET u == Cl.ups[Ins.b + 1]
     IN IF upvals[u].open THEN stack' = [stack EXCEPT ![upvals[u].at] = R(Ins.a)] /\ UNCHANGED upvals
        ELSE upvals' = [upvals EXCEPT ![u].v = R(Ins.a)] /\ UNCHANGED stack
  /\ Advance /\ UNCHANGED <<store, top>>

(* Table accesses and operators with one result.                           *)
OpOperate ==
  /\ Running({"GETTABUP", "GETTABLE", "SELF", "UNM", "LEN"} \cup ArithOps)
  /\ LET op == IF Ins.op \in {"GETTABUP", "GETTABLE", "SELF"} THEN "GET" ELSE Ins.op
         args == CASE Ins.op = "GETTABUP" -> <<UpValue(Ins.b), RK(Ins.c)>>
                   [] Ins.op \in {"GETTABLE", "SELF"} -> <<R(Ins.b), RK(Ins.c)>>
                   [] Ins.op \in {"UNM", "LEN"} -> <<R(Ins.b)>>
                   [] OTHER -> <<RK(Ins.b), RK(Ins.c)>>
     IN \/ Fails(op, args)
        \/ /\ Works(op, args)
           /\ \E a \in Outcomes(op, args) :
                /\ stack' = [stack EXCEPT ![Ci.base + Ins.a + 1] = IF Ins.op = "SELF" THEN R(Ins.b) ELSE @,
                                          ![Ci.base + Ins.a] = a]
                /\ Log(op, args, a)
           /\ Advance /\ UNCHANGED <<program, main, top, upvals, closures, heap, result, status>>

OpSetTable ==
  /\ Running({"SETTABUP", "SETTABLE"})
  /\ LET t == IF Ins.op = "SETTABUP" THEN UpValue(Ins.a) ELSE R(Ins.a)
         args == <<t, RK(Ins.b), RK(Ins.c)>>
     IN \/ Fails("SET", args)
        \/ /\ Works("SET", args) /\ Log("SET", args, Null)
           /\ heap' = IF t[1] = "tab" THEN [heap EXCEPT ![t[2]] = Put(@, args[2], args[3])] ELSE heap
           /\ Advance /\ UNCHANGED <<program, main, stack, top, upvals, closures, result, status>>

(* luaV_concat takes the operands two at a time, from the last.            *)
OpConcat ==
  /\ Running({"CONCAT"})
  /\ LET c == IF Ci.cat = 0 THEN Ins.c ELSE Ci.cat
         args == <<R(c - 1), R(c)>>
         last == c - 1 = Ins.b
     IN \/ Fails("CONCAT", args)
        \/ /\ Works("CONCAT", args)
           /\ \E a \in Outcomes("CONCAT", args) :
                /\ stack' = [stack EXCEPT ![Ci.base + c - 1] = a, ![Ci.base + Ins.a] = IF last THEN a ELSE @]
                /\ Log("CONCAT", args, a)
           /\ frames' = [frames EXCEPT ![Len(frames)].cat = IF last THEN 0 ELSE c - 1,
                                       ![Len(frames)].pc = IF last THEN @ + 1 ELSE @]
           /\ UNCHANGED <<program, main, top, upvals, closures, heap, result, status>>

JumpBy(i) ==
  /\ Goto(i.b) /\ upvals' = IF i.a > 0 THEN Closed(Ci.base + i.a - 1) ELSE upvals
OpJmp == Running({"JMP"}) /\ JumpBy(Ins) /\ UNCHANGED <<store, stack, top>>

(* A test takes the jump after it or skips it.                             *)
Branch(p) == IF p THEN JumpBy(P.code[Ci.pc + 1]) ELSE Goto(Ci.pc + 2) /\ UNCHANGED upvals

OpCompare ==
  /\ Running({"EQ", "LT", "LE"})
  /\ LET args == <<RK(Ins.b), RK(Ins.c)>>
     IN \/ Fails(Ins.op, args)
        \/ /\ Works(Ins.op, args)
           /\ \E a \in Outcomes(Ins.op, args) : Branch(IsFalse(a) = (Ins.a = 0)) /\ Log(Ins.op, args, a)
           /\ UNCHANGED <<program, main, stack, top, closures, heap, result, status>>

OpTest ==
  /\ Running({"TEST", "TESTSET"})
  /\ LET v == R(IF Ins.op = "TEST" THEN Ins.a ELSE Ins.b)
         taken == IsFalse(v) = (Ins.c = 0)
     IN /\ Branch(taken)
        /\ IF Ins.op = "TESTSET" /\ taken THEN SetR(Ins.a, v) ELSE UNCHANGED stack
  /\ UNCHANGED <<store, top>>

OpForPrep ==
  /\ Running({"FORPREP"})
  /\ IF \A i \in 0..2 : R(Ins.a + i)[1] = "num"
     THEN SetR(Ins.a, <<"num", R(Ins.a)[2] - R(Ins.a + 2)[2]>>) /\ Goto(Ins.b) /\ UNCHANGED status
     ELSE status' = "error" /\ UNCHANGED <<stack, frames>>
  /\ UNCHANGED <<program, main, top, upvals, closures, heap, trace, result>>

OpForLoop ==
  /\ Running({"FORLOOP"})
  /\ LET step == R(Ins.a + 2)[2]
         idx == R(Ins.a)[2] + step
     IN IF IF step > 0 THEN idx <= R(Ins.a + 1)[2] ELSE R(Ins.a + 1)[2] <= idx
        THEN /\ stack' = [stack EXCEPT ![Ci.base + Ins.a] = <<"num", idx>>, ![Ci.base + Ins.a + 3] = <<"num", idx>>]
             /\ Goto(Ins.b)
        ELSE Advance /\ UNCHANGED stack
  /\ UNCHANGED <<store, top, upvals>>

OpTForLoop ==
  /\ Running({"TFORLOOP"})
  /\ IF R(Ins.a + 1) # Null THEN SetR(Ins.a, R(Ins.a + 1)) /\ Goto(Ins.b) ELSE Advance /\ UNCHANGED stack
  /\ UNCHANGED <<store, top, upvals>>

OpNewTable ==
  /\ Running({"NEWTABLE"})
  /\ heap' = Append(heap, {}) /\ SetR(Ins.a, <<"tab", Len(heap) + 1>>)
  /\ Advance /\ UNCHANGED <<program, main, top, upvals, closures, trace, result, status>>

OpSetList ==
  /\ Running({"SETLIST"})
  /\ LET n == IF Ins.b = 0 THEN top - (Ci.base + Ins.a) - 1 ELSE Ins.b
         c == IF Ins.c = 0 THEN P.code[Ci.pc + 1].a ELSE Ins.c
         t == R(Ins.a)[2]
         items == {<<<<"num", (c - 1) * FieldsPerFlush + i>>, R(Ins.a + i)>> :
                     i \in {j \in 1..n : R(Ins.a + j) # Null}}
     IN /\ heap' = [heap EXCEPT ![t] = {e \in @ : \A f \in items : f[1] # e[1]} \cup items]
        /\ Goto(Ci.pc + IF Ins.c = 0 THEN 2 ELSE 1)
  /\ top' = Ci.base + P.maxstack
  /\ UNCHANGED <<program, main, stack, upvals, closures, trace, result, status>>

(* A local of this frame that is captured has one open upvalue for all.    *)
OpClosure ==
  /\ Running({"CLOSURE"})
  /\ LET p == P.p[Ins.b + 1]
         at(i) == Ci.base + p.ups[i].idx
         found(i) == {u \in DOMAIN upvals : upvals[u].open /\ upvals[u].at = at(i)}
         fresh == {at(i) : i \in {j \in DOMAIN p.ups : p.ups[j].instack /\ found(j) = {}}}
         number(x) == Len(upvals) + Cardinality({y \in fresh : y <= x})
         up(i) == CASE ~p.ups[i].instack -> Cl.ups[p.ups[i].idx + 1]
                    [] p.ups[i].instack /\ found(i) # {} -> CHOOSE u \in found(i) : TRUE
                    [] OTHER -> number(at(i))
         place(n) == CHOOSE x \in fresh : number(x) = n
     IN /\ closures' = Append(closures, [proto |-> p, ups |-> [i \in DOMAIN p.ups |-> up(i)]])
        /\ upvals' = upvals \o [n \in 1..Cardinality(fresh) |->
                                  [open |-> TRUE, at |-> place(Len(upvals) + n), v |-> Null]]
        /\ SetR(Ins.a, <<"fun", Len(closures) + 1>>)
  /\ Advance /\ UNCHANGED <<program, main, top, heap, trace, result, status>>

OpVararg ==
  /\ Running({"VARARG"})
  /\ LET n == Ci.base - Ci.func - P.numparams - 1
         b == IF Ins.b = 0 THEN n ELSE Ins.b - 1
         from == Ci.base + Ins.a
     IN /\ stack' = [i \in DOMAIN stack |->
                       IF i >= from /\ i < from + b
                       THEN IF i - from < n THEN stack[Ci.base - n + i - from] ELSE Null
                       ELSE stack[i]]
        /\ top' = IF Ins.b = 0 THEN from + n ELSE top
  /\ Advance /\ UNCHANGED <<store, upvals>>

-----------------------------------------------------------------------------
(* luaD_protectedparser, and the call of the main function.                *)
Parse ==
  /\ status = "source"
  /\ main' = Compile(program)
  /\ status' = IF main'.err = "" THEN "compiled" ELSE "rejected"
  /\ UNCHANGED <<program, frames, stack, top, upvals, closures, heap, trace, result>>
Load ==
  /\ status = "compiled" /\ status' = "running"
  /\ closures' = <<[proto |-> main, ups |-> <<1>>]>>
  /\ upvals' = <<[open |-> FALSE, at |-> 0, v |-> <<"env">>]>>
  /\ stack' = [i \in DOMAIN stack |-> CASE i = 0 -> <<"fun", 1>> [] i \in {1, 2} -> Arguments[i]
                                        [] OTHER -> Junk]
  /\ frames' = <<[func |-> 0, base |-> 3, pc |-> 1, cl |-> 1, nres |-> MultRet, cat |-> 0]>>
  /\ top' = 3 + main.maxstack
  /\ UNCHANGED <<program, main, heap, trace, result>>

Next ==
  \/ Parse \/ Load
  \/ OpMove \/ OpLoadBool \/ OpLoadNil \/ OpSetUpval \/ OpOperate \/ OpSetTable \/ OpConcat
  \/ OpJmp \/ OpCompare \/ OpTest \/ OpForPrep \/ OpForLoop \/ OpTForCall \/ OpTForLoop
  \/ OpNewTable \/ OpSetList \/ OpClosure \/ OpVararg \/ OpCall \/ OpTailCall \/ OpReturn

Spec == Init /\ [][Next]_vars

-----------------------------------------------------------------------------
(* Properties.                                                             *)

(* A compiled program causes the events its text means, in that order and  *)
(* with those operands, and returns what the text returns, however calls,  *)
(* captured variables and jumps are interleaved; a program is rejected     *)
(* only when a goto of it has nowhere to go.                               *)
SameMeaning ==
  status \in {"done", "error", "stopped", "rejected"} =>
    [trace |-> trace, status |-> status, result |-> result]
      = Mean(program, [i \in DOMAIN trace |-> trace[i][3]])

Takes(i) ==                     \* the registers an instruction names, without those counted by B and C
  CASE i.op \in {"JMP", "EXTRAARG"} -> {}
    [] i.op \in {"LOADK", "LOADKX", "LOADBOOL", "CLOSURE", "GETUPVAL", "NEWTABLE", "SETUPVAL", "TEST"} -> {i.a}
    [] i.op \in {"MOVE", "UNM", "NOT", "LEN", "TESTSET"} -> {i.a, i.b}
    [] i.op = "LOADNIL" -> {i.a, i.a + i.b}
    [] i.op = "GETTABUP" -> {i.a, i.c}
    [] i.op \in {"GETTABLE", "CONCAT"} \cup ArithOps -> {i.a, i.b, i.c}
    [] i.op = "SELF" -> {i.a, i.a + 1, i.b, i.c}
    [] i.op \in {"SETTABLE"} -> {i.a, i.b, i.c}
    [] i.op \in {"SETTABUP", "EQ", "LT", "LE"} -> {i.b, i.c}
    [] i.op \in {"CALL", "TAILCALL"} -> {i.a, i.a + i.b - 1, i.a + i.c - 2}
    [] i.op = "RETURN" -> IF i.b = 1 THEN {} ELSE {i.a, i.a + i.b - 2}
    [] i.op \in {"FORPREP", "FORLOOP"} -> {i.a + 3}
    [] i.op = "TFORCALL" -> {i.a + 5, i.a + 2 + i.c}
    [] i.op = "TFORLOOP" -> {i.a + 1}
    [] i.op = "SETLIST" -> {i.a + i.b}
    [] i.op = "VARARG" -> {i.a, i.a + i.b - 2}

RECURSIVE Sound(_)
Sound(p) ==
  /\ \A x \in DOMAIN p.code :
       LET i == p.code[x]
       IN /\ \A r \in Takes(i) : IF IsK(r) THEN r - BitRK < Len(p.k) ELSE r < p.maxstack
          /\ i.op \in Tests => p.code[x + 1].op = "JMP"
          /\ i.op \in {"JMP", "FORPREP", "FORLOOP", "TFORLOOP"} => i.b \in 1..Len(p.code)
          /\ i.op = "TESTSET" => i.a # NoReg
          /\ i.op = "LOADBOOL" /\ i.c = 1 => x + 2 <= Len(p.code)
          /\ i.op \in {"CALL", "TAILCALL", "RETURN", "SETLIST"} /\ i.b = 0 =>
               (p.code[x - 1].op \in {"CALL", "TAILCALL"} /\ p.code[x - 1].c = 0)
               \/ (p.code[x - 1].op = "VARARG" /\ p.code[x - 1].b = 0)
          /\ i.op = "CLOSURE" =>
               \A u \in DOMAIN p.p[i.b + 1].ups :
                 LET d == p.p[i.b + 1].ups[u]
                 IN IF d.instack THEN d.idx < p.maxstack ELSE d.idx < Len(p.ups)
  /\ p.code[Len(p.code)].op = "RETURN" /\ p.maxstack < MaxStack
  /\ \A n \in DOMAIN p.p : Sound(p.p[n])

(* Compiled code stays within its registers, constants, upvalues and       *)
(* instructions, a test has its jump, and a call with an open list of      *)
(* arguments follows what leaves it open: the interpreter checks none of   *)
(* this.  While it was compiled every assertion of lcode.c and lparser.c   *)
(* held (ok): registers are freed in the reverse order of their use, lists *)
(* of jumps are closed when they are used, every scope is left.            *)
WellFormed == status \notin {"source", "rejected"} => Sound(main) /\ main.ok
=============================================================================
