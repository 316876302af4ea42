------------------------------ MODULE LuaCode ------------------------------
(***************************************************************************)
(* The code generator of the Lua compiler (src/lua/src/lcode.c): operators *)
(* over the state f of the function being compiled (FuncState).  Those     *)
(* that work on an expression take and return its descriptor e as well     *)
(* (expdesc), as a pair <<f, e>>.                                          *)
(*                                                                         *)
(* Instructions are numbered from 1.  A list of jumps that wait for their  *)
(* target is the set of their numbers, and a jump holds the number of its  *)
(* target, not the distance.  f.ok says that every lua_assert held.        *)
(***************************************************************************)
EXTENDS Integers, Sequences, FiniteSets

CONSTANTS
  MaxIndexRK,       \* the last constant an operand can name
  MaxArgBx,         \* the last constant LOADK can name
  MaxArgC,          \* the last flush SETLIST can number
  FieldsPerFlush,   \* list items of a constructor stored at a time
  MaxStack          \* the registers a function can have

ASSUME LuaCodeAssumption ==
  {MaxIndexRK, MaxArgBx, MaxArgC, FieldsPerFlush - 1, MaxStack - 2} \subseteq Nat

NoReg   == 255
BitRK   == 256
Pending == 0         \* the target of a jump not yet patched
MultRet == -1
IsK(x)  == x >= BitRK
I(op, a, b, c) == [op |-> op, a |-> a, b |-> b, c |-> c]
Exp(k, info)   == [k |-> k, info |-> info, idx |-> 0, vt |-> "", t |-> {}, f |-> {}]

Pc(f)        == Len(f.code) + 1
At(f, e)     == f.code[e.info]
HasJumps(e)  == e.t # e.f
IsNumeral(e) == e.k = "KNUM" /\ e.t = {} /\ e.f = {}
HasMultRet(e) == e.k \in {"CALL", "VARARG"}
Fail(f, why) == IF f.err = "" THEN [f EXCEPT !.err = why] ELSE f
Assert_(f, p) == IF p THEN f ELSE [f EXCEPT !.ok = FALSE]

-----------------------------------------------------------------------------
(* Jumps.                                                                  *)

Tests == {"EQ", "LT", "LE", "TEST", "TESTSET"}
Control(f, pc) == IF pc > 1 /\ f.code[pc - 1].op \in Tests THEN f.code[pc - 1] ELSE f.code[pc]
NeedValue(f, list) == \E pc \in list : Control(f, pc).op # "TESTSET"

(* Mutant: a test that sets a register it does not need to set stays so.   *)
KeepTestSet(i, reg) == IF reg # i.b THEN [i EXCEPT !.a = reg] ELSE i

PatchTestReg(i, reg) ==
  IF reg # NoReg /\ reg # i.b THEN [i EXCEPT !.a = reg] ELSE I("TEST", i.b, 0, i.c)

PatchListAux(f, list, vtarget, reg, dtarget) ==
  [f EXCEPT !.code = [i \in DOMAIN f.code |->
     IF i \in list
     THEN [f.code[i] EXCEPT !.b = IF Control(f, i).op = "TESTSET" THEN vtarget ELSE dtarget]
     ELSE IF i + 1 \in list /\ f.code[i].op = "TESTSET" THEN PatchTestReg(f.code[i], reg)
     ELSE f.code[i]]]

RemoveValues(f, list) ==
  [f EXCEPT !.code = [i \in DOMAIN f.code |->
     IF i + 1 \in list /\ f.code[i].op = "TESTSET" THEN PatchTestReg(f.code[i], NoReg)
     ELSE f.code[i]]]

GetLabel(f) == [f EXCEPT !.lasttarget = Pc(f)]
PatchToHere(f, list) == [GetLabel(f) EXCEPT !.jpc = @ \cup list]
PatchList(f, list, target) ==
  IF target = Pc(f) THEN PatchToHere(f, list) ELSE PatchListAux(f, list, target, NoReg, target)
PatchClose(f, list, level) ==
  [Assert_(f, \A pc \in list : f.code[pc].op = "JMP" /\ (f.code[pc].a = 0 \/ f.code[pc].a >= level + 1))
   EXCEPT !.code = [i \in DOMAIN @ |-> IF i \in list THEN [@[i] EXCEPT !.a = level + 1] ELSE @[i]]]

Code(f, op, a, b, c) ==
  [PatchListAux(f, f.jpc, Pc(f), NoReg, Pc(f))
   EXCEPT !.code = Append(@, I(op, a, b, c)), !.jpc = {}]

(* The jump and those that were to arrive at it, which go where it goes.   *)
Jump(f) ==
  LET g == Code([f EXCEPT !.jpc = {}], "JMP", 0, Pending, 0) IN <<g, {Len(g.code)} \cup f.jpc>>
CondJump(f, op, a, b, c) == Jump(Code(f, op, a, b, c))
JumpTo(f, target) == LET j == Jump(f) IN PatchList(j[1], j[2], target)
Ret(f, first, nret) == Code(f, "RETURN", first, nret + 1, 0)

(* Mutant: a run of nils is extended even if a jump arrives between them.  *)
NilAnyway(f, from, n) ==
  IF Len(f.code) > 0 /\ f.code[Len(f.code)].op = "LOADNIL"
  THEN [f EXCEPT !.code[Len(f.code)].b = from + n - 1 - f.code[Len(f.code)].a]
  ELSE Code(f, "LOADNIL", from, n - 1, 0)

(* Nils for registers next to those of the instruction before join it,     *)
(* unless something may jump between the two.                              *)
Nil(f, from, n) ==
  LET p == f.code[Len(f.code)]
      l == from + n - 1
      joins == /\ Pc(f) > f.lasttarget /\ Len(f.code) > 0 /\ p.op = "LOADNIL"
               /\ \/ p.a <= from /\ from <= p.a + p.b + 1
                  \/ from <= p.a /\ p.a <= l + 1
      lo == IF p.a < from THEN p.a ELSE from
      hi == IF p.a + p.b > l THEN p.a + p.b ELSE l
  IN IF joins THEN [f EXCEPT !.code[Len(f.code)] = I("LOADNIL", lo, hi - lo, 0)]
     ELSE Code(f, "LOADNIL", from, n - 1, 0)

-----------------------------------------------------------------------------
(* Registers and constants.                                                *)

CheckStack(f, n) ==
  LET g == IF f.freereg + n >= MaxStack THEN Fail(f, "function or expression too complex") ELSE f
  IN IF f.freereg + n > f.maxstack THEN [g EXCEPT !.maxstack = f.freereg + n] ELSE g
Reserve(f, n) == [CheckStack(f, n) EXCEPT !.freereg = @ + n]

(* Temporary registers are freed in the reverse order of their use.        *)
FreeReg(f, reg) ==
  IF IsK(reg) \/ reg < f.nactvar THEN f
  ELSE Assert_([f EXCEPT !.freereg = @ - 1], reg = f.freereg - 1)
FreeExp(f, e) == IF e.k = "NONRELOC" THEN FreeReg(f, e.info) ELSE f

(* A constant is stored once; it is known by its number, from 0.           *)
AddK(f, v) ==
  IF \E i \in DOMAIN f.k : f.k[i] = v THEN <<f, (CHOOSE i \in DOMAIN f.k : f.k[i] = v) - 1>>
  ELSE <<[f EXCEPT !.k = Append(@, v)], Len(f.k)>>
CodeK(f, reg, k) ==
  IF k <= MaxArgBx THEN Code(f, "LOADK", reg, k, 0)
  ELSE Code(Code(f, "LOADKX", reg, 0, 0), "EXTRAARG", k, 0, 0)

SetReturns(f, e, nresults) ==
  CASE e.k = "CALL"   -> [f EXCEPT !.code[e.info].c = nresults + 1]
    [] e.k = "VARARG" -> Reserve([f EXCEPT !.code[e.info].b = nresults + 1,
                                           !.code[e.info].a = f.freereg], 1)
    [] OTHER -> f
SetOneRet(f, e) ==
  CASE e.k = "CALL"   -> <<f, [e EXCEPT !.k = "NONRELOC", !.info = At(f, e).a]>>
    [] e.k = "VARARG" -> <<[f EXCEPT !.code[e.info].b = 2], [e EXCEPT !.k = "RELOCABLE"]>>
    [] OTHER -> <<f, e>>

-----------------------------------------------------------------------------
(* Where the value of an expression goes.                                  *)

Relocable(f, e, op, b, c) ==
  LET g == Code(f, op, 0, b, c) IN <<g, [e EXCEPT !.k = "RELOCABLE", !.info = Len(g.code)]>>

DischargeVars(f, e) ==
  CASE e.k = "LOCAL"   -> <<f, [e EXCEPT !.k = "NONRELOC"]>>
    [] e.k = "UPVAL"   -> Relocable(f, e, "GETUPVAL", e.info, 0)
    [] e.k = "INDEXED" ->
         LET g == FreeReg(f, e.idx)
         IN IF e.vt = "LOCAL" THEN Relocable(FreeReg(g, e.info), e, "GETTABLE", e.info, e.idx)
            ELSE Relocable(g, e, "GETTABUP", e.info, e.idx)
    [] OTHER -> SetOneRet(f, e)

Discharge2Reg(f0, e0, reg) ==
  LET d == DischargeVars(f0, e0)
      f == d[1]
      e == d[2]
      g == CASE e.k = "NIL"   -> Nil(f, reg, 1)
             [] e.k = "FALSE" -> Code(f, "LOADBOOL", reg, 0, 0)
             [] e.k = "TRUE"  -> Code(f, "LOADBOOL", reg, 1, 0)
             [] e.k = "K"     -> CodeK(f, reg, e.info)
             [] e.k = "KNUM"  -> LET a == AddK(f, <<"num", e.info>>) IN CodeK(a[1], reg, a[2])
             [] e.k = "RELOCABLE" -> [f EXCEPT !.code[e.info].a = reg]
             [] e.k = "NONRELOC"  -> IF reg # e.info THEN Code(f, "MOVE", reg, e.info, 0) ELSE f
             [] OTHER -> Assert_(f, e.k \in {"VOID", "JMP"})
  IN <<g, IF e.k \in {"VOID", "JMP"} THEN e ELSE [e EXCEPT !.k = "NONRELOC", !.info = reg]>>

Discharge2AnyReg(f, e) ==
  IF e.k = "NONRELOC" THEN <<f, e>> ELSE LET g == Reserve(f, 1) IN Discharge2Reg(g, e, g.freereg - 1)

(* Jumps out of the expression that bring no value arrive at one of two    *)
(* instructions that load true and false.                                  *)
Exp2Reg(f0, e0, reg) ==
  LET d == Discharge2Reg(f0, e0, reg)
      e == IF d[2].k = "JMP" THEN [d[2] EXCEPT !.t = @ \cup {d[2].info}] ELSE d[2]
      needs == NeedValue(d[1], e.t) \/ NeedValue(d[1], e.f)
      fj  == IF e.k = "JMP" THEN <<d[1], {}>> ELSE Jump(d[1])
      l1  == Code(GetLabel(fj[1]), "LOADBOOL", reg, 0, 1)
      l2  == Code(GetLabel(l1), "LOADBOOL", reg, 1, 0)
      g   == GetLabel(IF needs THEN PatchToHere(l2, fj[2]) ELSE d[1])
      h   == PatchListAux(g, e.f, Pc(g), reg, Len(l1.code))
      done == PatchListAux(h, e.t, Pc(g), reg, Len(l2.code))
  IN <<IF HasJumps(e) THEN done ELSE d[1], Exp("NONRELOC", reg)>>

Exp2NextReg(f0, e0) ==
  LET d == DischargeVars(f0, e0)
      g == Reserve(FreeExp(d[1], d[2]), 1)
  IN Exp2Reg(g, d[2], g.freereg - 1)

Exp2AnyReg(f0, e0) ==
  LET d == DischargeVars(f0, e0)
      e == d[2]
  IN CASE e.k = "NONRELOC" /\ ~HasJumps(e) -> d
       [] e.k = "NONRELOC" /\ HasJumps(e) /\ e.info >= d[1].nactvar -> Exp2Reg(d[1], e, e.info)
       [] OTHER -> Exp2NextReg(d[1], e)

Exp2AnyRegUp(f, e) == IF e.k # "UPVAL" \/ HasJumps(e) THEN Exp2AnyReg(f, e) ELSE <<f, e>>
Exp2Val(f, e) == IF HasJumps(e) THEN Exp2AnyReg(f, e) ELSE DischargeVars(f, e)

(* <<f, e, o>>: o is the operand, a register or a constant.                *)
Exp2RK(f0, e0) ==
  LET d == Exp2Val(f0, e0)
      f == d[1]
      e == d[2]
      constant == CASE e.k = "NIL"   -> <<"nil">>
                    [] e.k = "TRUE"  -> <<"true">>
                    [] e.k = "FALSE" -> <<"false">>
                    [] e.k = "KNUM"  -> <<"num", e.info>>
                    [] OTHER -> <<"none">>
      early == e.k \in {"NIL", "TRUE", "FALSE"} /\ Len(f.k) > MaxIndexRK
      a == IF constant = <<"none">> \/ early THEN <<f, e.info>> ELSE AddK(f, constant)
      k == IF constant = <<"none">> \/ early THEN e ELSE [e EXCEPT !.k = "K", !.info = a[2]]
      r == Exp2AnyReg(a[1], k)
  IN IF k.k = "K" /\ k.info <= MaxIndexRK THEN <<a[1], k, BitRK + k.info>>
     ELSE <<r[1], r[2], r[2].info>>

StoreVar(f, v, e) ==
  CASE v.k = "LOCAL" -> Exp2Reg(FreeExp(f, e), e, v.info)[1]
    [] v.k = "UPVAL" -> LET r == Exp2AnyReg(f, e)
                        IN FreeExp(Code(r[1], "SETUPVAL", r[2].info, v.info, 0), r[2])
    [] OTHER -> LET r == Exp2RK(f, e)
                    op == IF v.vt = "LOCAL" THEN "SETTABLE" ELSE "SETTABUP"
                IN FreeExp(Code(r[1], op, v.info, v.idx, r[3]), r[2])

Self(f, e, key) ==
  LET r == Exp2AnyReg(f, e)
      g == FreeExp(r[1], r[2])
      k == Exp2RK(Reserve(g, 2), key)
  IN <<FreeExp(Code(k[1], "SELF", g.freereg, r[2].info, k[3]), k[2]),
       Exp("NONRELOC", g.freereg)>>

Indexed(f, t, k) ==
  LET r == Exp2RK(f, k)
  IN <<Assert_(r[1], ~HasJumps(t)),
       [t EXCEPT !.k = "INDEXED", !.idx = r[3], !.vt = IF t.k = "UPVAL" THEN "UPVAL" ELSE "LOCAL"]>>

-----------------------------------------------------------------------------
(* Conditions.                                                             *)

InvertJump(f, pc) ==
  [Assert_(f, Control(f, pc).op \in {"EQ", "LT", "LE"}) EXCEPT !.code[pc - 1].a = 1 - @]

JumpOnCond(f, e, cond) ==
  IF e.k = "RELOCABLE" /\ At(f, e).op = "NOT"
  THEN CondJump([f EXCEPT !.code = SubSeq(@, 1, Len(@) - 1)], "TEST", At(f, e).b, 0, 1 - cond)
  ELSE LET d == Discharge2AnyReg(f, e)
       IN CondJump(FreeExp(d[1], d[2]), "TESTSET", NoReg, d[2].info, cond)

GoIfTrue(f0, e0) ==
  LET d == DischargeVars(f0, e0)
      e == d[2]
      j == CASE e.k = "JMP" -> <<InvertJump(d[1], e.info), {e.info}>>
             [] e.k \in {"K", "KNUM", "TRUE"} -> <<d[1], {}>>
             [] OTHER -> JumpOnCond(d[1], e, 0)
  IN <<PatchToHere(j[1], e.t), [e EXCEPT !.f = @ \cup j[2], !.t = {}]>>

GoIfFalse(f0, e0) ==
  LET d == DischargeVars(f0, e0)
      e == d[2]
      j == CASE e.k = "JMP" -> <<d[1], {e.info}>>
             [] e.k \in {"NIL", "FALSE"} -> <<d[1], {}>>
             [] OTHER -> JumpOnCond(d[1], e, 1)
  IN <<PatchToHere(j[1], e.f), [e EXCEPT !.t = @ \cup j[2], !.f = {}]>>

CodeNot(f0, e0) ==
  LET d == DischargeVars(f0, e0)
      k == d[2].k
      r == CASE k \in {"NIL", "FALSE"}       -> <<d[1], [d[2] EXCEPT !.k = "TRUE"]>>
             [] k \in {"K", "KNUM", "TRUE"}  -> <<d[1], [d[2] EXCEPT !.k = "FALSE"]>>
             [] k = "JMP" -> <<InvertJump(d[1], d[2].info), d[2]>>
             [] OTHER -> LET a == Discharge2AnyReg(d[1], d[2])
                         IN Relocable(FreeExp(a[1], a[2]), a[2], "NOT", a[2].info, 0)
  IN <<RemoveValues(r[1], d[2].t \cup d[2].f), [r[2] EXCEPT !.t = d[2].f, !.f = d[2].t]>>

-----------------------------------------------------------------------------
(* Operators.                                                              *)

Arith(op, x, y) ==            \* of whole numbers, and without / and ^
  CASE op = "ADD" -> x + y [] op = "SUB" -> x - y [] op = "MUL" -> x * y
    [] op = "MOD" -> x - (x \div y) * y
Foldable(op, e1, e2) ==
  /\ op \in {"ADD", "SUB", "MUL", "MOD"} /\ IsNumeral(e1) /\ IsNumeral(e2)
  /\ op = "MOD" => e2.info # 0

CodeArith(f, op, e1, e2) ==
  IF Foldable(op, e1, e2) THEN <<f, [e1 EXCEPT !.info = Arith(op, e1.info, e2.info)]>>
  ELSE LET unary == op \in {"UNM", "LEN"}
           r2 == IF unary THEN <<f, e2, 0>> ELSE Exp2RK(f, e2)
           r1 == Exp2RK(r2[1], e1)
           g  == IF r1[3] > r2[3] THEN FreeExp(FreeExp(r1[1], r1[2]), r2[2])
                 ELSE FreeExp(FreeExp(r1[1], r2[2]), r1[2])
       IN Relocable(g, r1[2], op, r1[3], r2[3])

CodeComp(f, op, cond, e1, e2) ==
  LET r1 == Exp2RK(f, e1)
      r2 == Exp2RK(r1[1], e2)
      g  == FreeExp(FreeExp(r2[1], r2[2]), r1[2])
      j  == IF cond = 0 /\ op # "EQ" THEN CondJump(g, op, 1, r2[3], r1[3])
            ELSE CondJump(g, op, cond, r1[3], r2[3])
  IN <<j[1], [r1[2] EXCEPT !.k = "JMP", !.info = Len(j[1].code)]>>

Prefix(f, op, e) ==
  CASE op = "not" -> CodeNot(f, e)
    [] op = "-" /\ IsNumeral(e) -> <<f, [e EXCEPT !.info = -@]>>
    [] OTHER -> LET r == Exp2AnyReg(f, e)
                IN CodeArith(r[1], IF op = "-" THEN "UNM" ELSE "LEN", r[2], Exp("KNUM", 0))

Infix(f, op, e) ==
  CASE op = "and" -> GoIfTrue(f, e)
    [] op = "or"  -> GoIfFalse(f, e)
    [] op = ".."  -> Exp2NextReg(f, e)
    [] op \in {"+", "-", "*", "%"} /\ IsNumeral(e) -> <<f, e>>
    [] OTHER -> SubSeq(Exp2RK(f, e), 1, 2)

PosConcat(f0, e1, e0) ==
  LET r  == Exp2Val(f0, e0)
      e2 == r[2]
      n  == Exp2NextReg(r[1], e2)
  IN IF e2.k = "RELOCABLE" /\ At(r[1], e2).op = "CONCAT"
     THEN <<[FreeExp(Assert_(r[1], e1.info = At(r[1], e2).b - 1), e1) EXCEPT !.code[e2.info].b = e1.info],
            [e1 EXCEPT !.k = "RELOCABLE", !.info = e2.info]>>
     ELSE CodeArith(n[1], "CONCAT", e1, n[2])

Posfix(f, op, e1, e2) ==
  LET d == DischargeVars(f, e2)
  IN CASE op = "and" -> <<Assert_(d[1], e1.t = {}), [d[2] EXCEPT !.f = @ \cup e1.f]>>
       [] op = "or"  -> <<Assert_(d[1], e1.f = {}), [d[2] EXCEPT !.t = @ \cup e1.t]>>
       [] op = ".."  -> PosConcat(f, e1, e2)
       [] op = "+" -> CodeArith(f, "ADD", e1, e2)
       [] op = "-" -> CodeArith(f, "SUB", e1, e2)
       [] op = "*" -> CodeArith(f, "MUL", e1, e2)
       [] op = "%" -> CodeArith(f, "MOD", e1, e2)
       [] op = "==" -> CodeComp(f, "EQ", 1, e1, e2)
       [] op = "<"  -> CodeComp(f, "LT", 1, e1, e2)
       [] op = "<=" -> CodeComp(f, "LE", 1, e1, e2)
       [] op = "~=" -> CodeComp(f, "EQ", 0, e1, e2)
       [] op = ">"  -> CodeComp(f, "LT", 0, e1, e2)
       [] op = ">=" -> CodeComp(f, "LE", 0, e1, e2)

SetList(f, base, nelems, tostore) ==
  LET c == (nelems - 1) \div FieldsPerFlush + 1
      b == IF tostore = MultRet THEN 0 ELSE tostore
      g == IF c <= MaxArgC THEN Code(f, "SETLIST", base, b, c)
           ELSE Code(Code(f, "SETLIST", base, b, 0), "EXTRAARG", c, 0, 0)
  IN [Assert_(g, tostore # 0) EXCEPT !.freereg = base + 1]
=============================================================================
