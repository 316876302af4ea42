----------------------------- MODULE LuaParser -----------------------------
(***************************************************************************)
(* The parser of the Lua compiler (src/lua/src/lparser.c), which generates *)
(* code while it reads.  Here it reads a syntax tree: a sequence of        *)
(* statements, each a tuple that starts with its kind.  Operators and      *)
(* their operands come in the order of the text, and priorities group      *)
(* them.  Expressions give a pair <<f, e>>, as in LuaCode, and statements  *)
(* give f, the state of the function; f.prev is that of the one around it. *)
(***************************************************************************)
EXTENDS LuaCode

Outermost == [depth |-> 0, err |-> "", ok |-> TRUE]
Top(f) == f.bl[Len(f.bl)]
LastOf(S) == CHOOSE x \in S : \A y \in S : y <= x
FirstOf(S) == CHOOSE x \in S : \A y \in S : x <= y
DropAt(s, i) == [j \in 1..(Len(s) - 1) |-> IF j < i THEN s[j] ELSE s[j + 1]]

-----------------------------------------------------------------------------
(* Variables.                                                              *)

NewLocalVar(f, name) == [f EXCEPT !.actvar = Append(@, name)]
NewLocalVars(f, names) == [f EXCEPT !.actvar = @ \o names]
AdjustLocalVars(f, n) == [f EXCEPT !.nactvar = @ + n]
RemoveVars(f, level) ==
  [f EXCEPT !.actvar = SubSeq(@, 1, Len(@) - (f.nactvar - level)), !.nactvar = level]

SearchVar(f, n) ==
  LET S == {i \in 1..f.nactvar : f.actvar[i] = n} IN IF S = {} THEN -1 ELSE LastOf(S) - 1
SearchUpvalue(f, n) ==
  LET S == {i \in DOMAIN f.ups : f.ups[i].name = n} IN IF S = {} THEN -1 ELSE FirstOf(S) - 1
NewUpvalue(f, n, v) ==
  [f EXCEPT !.ups = Append(@, [name |-> n, instack |-> v.k = "LOCAL", idx |-> v.info])]

(* The block that declares the variable has to close it when it ends.      *)
MarkUpval(f, level) ==
  [f EXCEPT !.bl[LastOf({i \in DOMAIN f.bl : f.bl[i].nactvar <= level})].upval = TRUE]

RECURSIVE SingleVarAux(_, _, _)
SingleVarAux(f, n, base) ==
  IF f.depth = 0 THEN <<f, Exp("VOID", 0)>>
  ELSE LET v == SearchVar(f, n)
           u == SearchUpvalue(f, n)
           r == SingleVarAux(f.prev, n, FALSE)
       IN CASE v >= 0 -> <<IF base THEN f ELSE MarkUpval(f, v), Exp("LOCAL", v)>>
            [] v < 0 /\ u >= 0 -> <<f, Exp("UPVAL", u)>>
            [] v < 0 /\ u < 0 /\ r[2].k = "VOID" -> <<f, r[2]>>
            [] OTHER -> <<NewUpvalue([f EXCEPT !.prev = r[1]], n, r[2]), Exp("UPVAL", Len(f.ups))>>

CodeString(f, s) == LET a == AddK(f, <<"str", s>>) IN <<a[1], Exp("K", a[2])>>

SingleVar(f, name) ==
  LET v == SingleVarAux(f, name, TRUE)
      env == SingleVarAux(f, "_ENV", TRUE)
      key == CodeString(env[1], name)
  IN IF v[2].k # "VOID" THEN v ELSE Indexed(key[1], env[2], key[2])

AdjustAssign(f, nvars, nexps, e) ==
  LET extra == nvars - nexps
      more  == IF extra + 1 < 0 THEN 0 ELSE extra + 1
      g == SetReturns(f, e, more)
      h == IF e.k = "VOID" THEN f ELSE Exp2NextReg(f, e)[1]
  IN IF HasMultRet(e) THEN IF more > 1 THEN Reserve(g, more - 1) ELSE g
     ELSE IF extra > 0 THEN Nil(Reserve(h, extra), h.freereg, extra) ELSE h

-----------------------------------------------------------------------------
(* Blocks, labels and gotos.                                               *)

Label(f, name, pc) == [name |-> name, nactvar |-> f.nactvar, pc |-> pc]

CloseGoto(f0, g, lb) ==
  LET gt == f0.gt[g]
      f == IF gt.nactvar < lb.nactvar THEN Fail(f0, "jumps into the scope of local") ELSE f0
  IN [PatchList(f, gt.pc, lb.pc) EXCEPT !.gt = DropAt(@, g)]

FindLabel(f, g) ==
  LET gt == f.gt[g]
      S  == {i \in DOMAIN f.label : i > Top(f).firstlabel /\ f.label[i].name = gt.name}
      lb == f.label[FirstOf(S)]
      closed == IF gt.nactvar > lb.nactvar THEN PatchClose(f, gt.pc, lb.nactvar) ELSE f
  IN IF S = {} THEN f ELSE CloseGoto(closed, g, lb)

RECURSIVE FindGotos(_, _, _)
FindGotos(f, lb, i) ==
  IF i > Len(f.gt) THEN f
  ELSE IF f.gt[i].name = lb.name THEN FindGotos(CloseGoto(f, i, lb), lb, i) ELSE FindGotos(f, lb, i + 1)

(* A goto that leaves block bl closes the variables of it.                 *)
LeaveGoto(f, bl, g) ==
  LET out == f.gt[g].nactvar > bl.nactvar
      h == IF out /\ bl.upval THEN PatchClose(f, f.gt[g].pc, bl.nactvar) ELSE f
  IN IF out THEN [h EXCEPT !.gt[g].nactvar = bl.nactvar] ELSE h

RECURSIVE MoveGotosOut(_, _, _)
MoveGotosOut(f, bl, i) ==
  IF i > Len(f.gt) THEN f
  ELSE LET h == FindLabel(LeaveGoto(f, bl, i), i)
       IN MoveGotosOut(h, bl, IF Len(h.gt) < Len(f.gt) THEN i ELSE i + 1)

EnterBlock(f, isloop) ==
  [Assert_(f, f.freereg = f.nactvar) EXCEPT !.bl = Append(@,
    [nactvar |-> f.nactvar, firstlabel |-> Len(f.label), firstgoto |-> Len(f.gt),
     upval |-> FALSE, isloop |-> isloop])]

BreakLabel(f) ==
  LET lb == Label(f, "break", Pc(f))
  IN FindGotos([f EXCEPT !.label = Append(@, lb)], lb, Top(f).firstgoto + 1)

LeaveBlock(f0) ==
  LET bl == Top(f0)
      j  == Jump(f0)
      inner == Len(f0.bl) > 1
      f1 == IF inner /\ bl.upval THEN PatchToHere(PatchClose(j[1], j[2], bl.nactvar), j[2]) ELSE f0
      f2 == IF bl.isloop THEN BreakLabel(f1) ELSE f1
      f3 == [RemoveVars(f2, bl.nactvar) EXCEPT
               !.bl = SubSeq(@, 1, Len(@) - 1), !.freereg = bl.nactvar,
               !.label = SubSeq(@, 1, bl.firstlabel)]
  IN IF inner THEN MoveGotosOut(f3, bl, bl.firstgoto + 1)
     ELSE IF Len(f3.gt) > bl.firstgoto THEN Fail(f3, "no visible label") ELSE f3

GotoStat(f, pcs, name) ==
  FindLabel([f EXCEPT !.gt = Append(@, Label(f, name, pcs))], Len(f.gt) + 1)

-----------------------------------------------------------------------------
(* Functions.                                                              *)

OpenFunc(prev) ==
  EnterBlock([prev |-> prev, depth |-> prev.depth + 1, err |-> prev.err, ok |-> prev.ok,
    code |-> <<>>, jpc |-> {}, lasttarget |-> 1, freereg |-> 0, maxstack |-> 2, nactvar |-> 0,
    actvar |-> <<>>, k |-> <<>>, ups |-> <<>>, bl |-> <<>>, gt |-> <<>>, label |-> <<>>,
    p |-> <<>>, numparams |-> 0, vararg |-> FALSE], FALSE)

(* The prototype of a function that has been read.                         *)
CloseFunc(f0) ==
  LET f == LeaveBlock(Ret(f0, 0, 0))
  IN [code |-> f.code, k |-> f.k, p |-> f.p, ups |-> f.ups, numparams |-> f.numparams,
      vararg |-> f.vararg, maxstack |-> f.maxstack, err |-> f.err,
      ok |-> f.ok /\ f.actvar = <<>> /\ f.gt = <<>> /\ f.label = <<>> /\ f.jpc = {}]

ParList(f, params, vararg) ==
  LET g == AdjustLocalVars(NewLocalVars(f, params), Len(params))
  IN Reserve([g EXCEPT !.numparams = g.nactvar, !.vararg = vararg], g.nactvar)

-----------------------------------------------------------------------------
(* Expressions.                                                            *)

UnOps == {"not", "-", "#"}
BinOps == {"+", "-", "*", "%", "..", "==", "<", "<=", "~=", ">", ">=", "and", "or"}
LeftPriority(op) ==
  CASE op \in {"+", "-"} -> 6 [] op \in {"*", "%"} -> 7 [] op = ".." -> 5
    [] op \in {"==", "<", "<=", "~=", ">", ">="} -> 3 [] op = "and" -> 2 [] op = "or" -> 1
RightPriority(op) == IF op = ".." THEN 4 ELSE LeftPriority(op)
UnaryPriority == 8

RECURSIVE Expr(_, _), Subexpr(_, _, _, _), Climb(_, _, _, _, _), SimpleExp(_, _), SuffixedExp(_, _),
          ExpList(_, _), FuncArgs(_, _, _), Fields(_, _, _, _, _), Body(_, _, _),
          Statement(_, _, _, _), Statements(_, _, _, _)

Expr(f, x) ==
  IF x[1] = "ops" THEN SubSeq(Subexpr(f, x[2], 1, 0), 1, 2) ELSE SimpleExp(f, x)

(* <<f, e, i>>: an operand and the operators after it that bind more than  *)
(* limit; i is where the rest starts.                                      *)
Subexpr(f, xs, i, limit) ==
  IF xs[i][1] \in UnOps /\ Len(xs[i]) = 1
  THEN LET r == Subexpr(f, xs, i + 1, UnaryPriority)
           p == Prefix(r[1], xs[i][1], r[2])
       IN Climb(p[1], p[2], xs, r[3], limit)
  ELSE LET r == Expr(f, xs[i]) IN Climb(r[1], r[2], xs, i + 1, limit)

Tighter(op, limit) == LeftPriority(op) > limit

Climb(f, e, xs, i, limit) ==
  IF i > Len(xs) \/ (i <= Len(xs) /\ ~Tighter(xs[i][1], limit)) THEN <<f, e, i>>
  ELSE LET a == Infix(f, xs[i][1], e)
           r == Subexpr(a[1], xs, i + 1, RightPriority(xs[i][1]))
           p == Posfix(r[1], xs[i][1], a[2], r[2])
       IN Climb(p[1], p[2], xs, r[3], limit)

(* The last expression is left open: a call there may give many values.    *)
ExpList(f, xs) ==
  LET r == Expr(f, xs[1])
  IN IF Len(xs) = 1 THEN r ELSE ExpList(Exp2NextReg(r[1], r[2])[1], Tail(xs))

FuncArgs(f0, e, args) ==
  LET r == IF args = <<>> THEN <<f0, Exp("VOID", 0)>> ELSE ExpList(f0, args)
      open == HasMultRet(r[2])
      f == CASE open -> SetReturns(r[1], r[2], MultRet)
             [] r[2].k = "VOID" -> r[1]
             [] OTHER -> Exp2NextReg(r[1], r[2])[1]
      base == e.info
      g == Code(f, "CALL", base, IF open THEN 0 ELSE f.freereg - base, 2)
  IN <<[Assert_(g, e.k = "NONRELOC") EXCEPT !.freereg = base + 1], Exp("CALL", Len(g.code))>>

SuffixedExp(f, x) ==
  CASE x[1] = "name" -> SingleVar(f, x[2])
    [] x[1] = "paren" -> LET r == Expr(f, x[2]) IN DischargeVars(r[1], r[2])
    [] x[1] = "index" ->
         LET t == SuffixedExp(f, x[2])
             u == Exp2AnyRegUp(t[1], t[2])
             k == Expr(u[1], x[3])
             v == Exp2Val(k[1], k[2])
         IN Indexed(v[1], u[2], v[2])
    [] x[1] = "call" ->
         LET p == SuffixedExp(f, x[2])
             n == Exp2NextReg(p[1], p[2])
         IN FuncArgs(n[1], n[2], x[3])
    [] x[1] = "method" ->
         LET p == SuffixedExp(f, x[2])
             k == CodeString(p[1], x[3])
             s == Self(k[1], p[2], k[2])
         IN FuncArgs(s[1], s[2], x[4])

(* Items of a constructor are stored FieldsPerFlush at a time; cc has the  *)
(* last item, and how many there are and wait to be stored.                *)
CloseListField(f, t, cc) ==
  LET g == Exp2NextReg(f, cc.v)[1]
      flush == cc.tostore = FieldsPerFlush
  IN IF cc.v.k = "VOID" THEN <<f, cc>>
     ELSE <<IF flush THEN SetList(g, t, cc.na, cc.tostore) ELSE g,
            [cc EXCEPT !.v = Exp("VOID", 0), !.tostore = IF flush THEN 0 ELSE @]>>

LastListField(f, t, cc) ==
  CASE cc.tostore = 0 -> f
    [] cc.tostore # 0 /\ HasMultRet(cc.v) ->
         SetList(SetReturns(f, cc.v, MultRet), t, cc.na, MultRet)
    [] OTHER -> SetList(IF cc.v.k = "VOID" THEN f ELSE Exp2NextReg(f, cc.v)[1], t, cc.na, cc.tostore)

RecField(f, t, key, x) ==
  LET k == Expr(f, key)
      w == IF key[1] = "str" THEN k ELSE Exp2Val(k[1], k[2])
      o == Exp2RK(w[1], w[2])
      v == Expr(o[1], x)
      p == Exp2RK(v[1], v[2])
  IN [Code(p[1], "SETTABLE", t, o[3], p[3]) EXCEPT !.freereg = f.freereg]

Fields(f, t, fields, i, cc) ==
  IF i > Len(fields) THEN <<LastListField(f, t, cc), cc>>
  ELSE LET c == CloseListField(f, t, cc)
           e == Expr(c[1], fields[i][2])
       IN IF fields[i][1] = "item"
          THEN Fields(e[1], t, fields, i + 1,
                 [c[2] EXCEPT !.v = e[2], !.na = @ + 1, !.tostore = @ + 1])
          ELSE Fields(RecField(c[1], t, fields[i][2], fields[i][3]), t, fields, i + 1,
                 [c[2] EXCEPT !.nh = @ + 1])

Constructor(f, fields) ==
  LET g == Code(f, "NEWTABLE", 0, 0, 0)
      n == Exp2NextReg(g, Exp("RELOCABLE", Len(g.code)))
      r == Fields(n[1], n[2].info, fields, 1, [v |-> Exp("VOID", 0), na |-> 0, nh |-> 0, tostore |-> 0])
      many == Len(fields) > 0 /\ r[2].tostore > 0 /\ HasMultRet(r[2].v)
  IN <<[r[1] EXCEPT !.code[Len(g.code)].b = IF many THEN r[2].na - 1 ELSE r[2].na,
                    !.code[Len(g.code)].c = r[2].nh], n[2]>>

(* The closure is created in the next register of the enclosing function.  *)
Body(f, fun, ismethod) ==
  LET g == ParList(OpenFunc(f), (IF ismethod THEN <<"self">> ELSE <<>>) \o fun[2], fun[3])
      h == Statements(g, fun[4], 1, FALSE)
      p == CloseFunc(h)
      o == h.prev
      c == Code([o EXCEPT !.p = Append(@, p), !.ok = p.ok, !.err = p.err], "CLOSURE", 0, Len(o.p), 0)
  IN Exp2NextReg(c, Exp("RELOCABLE", Len(c.code)))

SimpleExp(f, x) ==
  CASE x[1] = "num"   -> <<f, Exp("KNUM", x[2])>>
    [] x[1] = "str"   -> CodeString(f, x[2])
    [] x[1] = "nil"   -> <<f, Exp("NIL", 0)>>
    [] x[1] = "true"  -> <<f, Exp("TRUE", 0)>>
    [] x[1] = "false" -> <<f, Exp("FALSE", 0)>>
    [] x[1] = "dots"  ->
         LET g == Code(IF f.vararg THEN f ELSE Fail(f, "outside a vararg function"), "VARARG", 0, 1, 0)
         IN <<g, Exp("VARARG", Len(g.code))>>
    [] x[1] = "table" -> Constructor(f, x[2])
    [] x[1] = "fun"   -> Body(f, x, FALSE)
    [] OTHER -> SuffixedExp(f, x)

-----------------------------------------------------------------------------
(* Statements.                                                             *)

Block(f, b) == LeaveBlock(Statements(EnterBlock(f, FALSE), b, 1, FALSE))

(* Earlier targets that use the variable assigned now get a copy of it.    *)
CheckConflict(f, lhs, v) ==
  LET tables == {i \in DOMAIN lhs : lhs[i].k = "INDEXED" /\ lhs[i].vt = v.k /\ lhs[i].info = v.info}
      keys == {i \in DOMAIN lhs : lhs[i].k = "INDEXED" /\ v.k = "LOCAL" /\ lhs[i].idx = v.info}
      op == IF v.k = "LOCAL" THEN "MOVE" ELSE "GETUPVAL"
  IN <<IF tables \cup keys = {} THEN f ELSE Reserve(Code(f, op, f.freereg, v.info, 0), 1),
       [i \in DOMAIN lhs |-> [lhs[i] EXCEPT
          !.vt = IF i \in tables THEN "LOCAL" ELSE @, !.info = IF i \in tables THEN f.freereg ELSE @,
          !.idx = IF i \in keys THEN f.freereg ELSE @]]>>

RECURSIVE Targets(_, _, _), StoreRest(_, _)
Targets(f, vars, lhs) ==
  IF vars = <<>> THEN <<f, lhs>>
  ELSE LET v == SuffixedExp(f, vars[1])
           c == IF v[2].k = "INDEXED" THEN <<v[1], lhs>> ELSE CheckConflict(v[1], lhs, v[2])
       IN Targets(c[1], Tail(vars), Append(c[2], v[2]))

StoreRest(f, lhs) ==
  IF lhs = <<>> THEN f
  ELSE StoreRest(StoreVar(f, lhs[Len(lhs)], Exp("NONRELOC", f.freereg - 1)), SubSeq(lhs, 1, Len(lhs) - 1))

Assignment(f, vars, exps) ==
  LET t == Targets(f, vars, <<>>)
      n == Len(vars)
      x == ExpList(t[1], exps)
      o == SetOneRet(x[1], x[2])
      a == AdjustAssign(x[1], n, Len(exps), x[2])
      extra == IF Len(exps) > n THEN Len(exps) - n ELSE 0
  IN IF Len(exps) = n
     THEN StoreRest(StoreVar(o[1], t[2][n], o[2]), SubSeq(t[2], 1, n - 1))
     ELSE StoreRest([a EXCEPT !.freereg = @ - extra], t[2])

Cond(f, x) ==
  LET r == Expr(f, x)
      g == GoIfTrue(r[1], IF r[2].k = "NIL" THEN [r[2] EXCEPT !.k = "FALSE"] ELSE r[2])
  IN <<g[1], g[2].f>>

WhileStat(f, x, b) ==
  LET g == GetLabel(f)
      c == Cond(g, x)
      h == LeaveBlock(JumpTo(Block(EnterBlock(c[1], TRUE), b), Pc(g)))
  IN PatchToHere(h, c[2])

RepeatStat(f, b, x) ==
  LET g == GetLabel(f)
      s == Statements(EnterBlock(EnterBlock(g, TRUE), FALSE), b, 1, TRUE)
      c == Cond(s, x)
      h == LeaveBlock(IF Top(c[1]).upval THEN PatchClose(c[1], c[2], Top(c[1]).nactvar) ELSE c[1])
  IN LeaveBlock(PatchList(h, c[2], Pc(g)))

ForBody(f0, base, nvars, isnum, b) ==
  LET f == AdjustLocalVars(f0, 3)
      p == IF isnum THEN LET g == Code(f, "FORPREP", base, Pending, 0) IN <<g, {Len(g.code)}>> ELSE Jump(f)
      prep == Len(p[1].code)
      s == Reserve(AdjustLocalVars(EnterBlock(p[1], FALSE), nvars), nvars)
      g == PatchToHere(LeaveBlock(Block(s, b)), p[2])
      e == IF isnum THEN Code(g, "FORLOOP", base, Pending, 0)
           ELSE Code(Code(g, "TFORCALL", base, 0, nvars), "TFORLOOP", base + 2, Pending, 0)
  IN PatchList(e, {Len(e.code)}, prep + 1)

RECURSIVE InNextRegs(_, _)
InNextRegs(f, xs) ==
  IF xs = <<>> THEN f
  ELSE LET r == Expr(f, xs[1]) IN InNextRegs(Exp2NextReg(r[1], r[2])[1], Tail(xs))

ForNum(f, x, exps, b) ==
  LET g == NewLocalVars(EnterBlock(f, TRUE), <<"(for index)", "(for limit)", "(for step)", x>>)
      h == InNextRegs(g, exps)
      one == AddK(h, <<"num", 1>>)
      s == IF Len(exps) = 3 THEN h ELSE Reserve(CodeK(one[1], h.freereg, one[2]), 1)
  IN LeaveBlock(ForBody(s, f.freereg, 1, TRUE, b))

ForList(f, names, exps, b) ==
  LET g == NewLocalVars(EnterBlock(f, TRUE), <<"(for generator)", "(for state)", "(for control)">> \o names)
      r == ExpList(g, exps)
      s == CheckStack(AdjustAssign(r[1], 3, Len(exps), r[2]), 3)
  IN LeaveBlock(ForBody(s, f.freereg, Len(names), FALSE, b))

IsNoop(s) == s[1] \in {"label", ";"}
Ends(b, i) == \A j \in i..Len(b) : IsNoop(b[j])
RECURSIVE SkipNoops(_, _, _, _)
SkipNoops(f, b, i, until) ==     \* <<f, i>>: i is where other statements start
  IF i > Len(b) \/ (i <= Len(b) /\ ~IsNoop(b[i])) THEN <<f, i>>
  ELSE LET r == Statement(f, b, i, until) IN SkipNoops(r[1], b, r[2], until)

(* Locals are out of scope at a label that ends a block, unless an until   *)
(* follows.                                                                *)
LabelStat(f, b, i, until) ==
  LET repeated == \E j \in DOMAIN f.label : j > Top(f).firstlabel /\ f.label[j].name = b[i][2]
      l == Len(f.label) + 1
      g == [IF repeated THEN Fail(f, "label already defined") ELSE f
            EXCEPT !.label = Append(@, Label(f, b[i][2], Pc(f)))]
      r == SkipNoops(g, b, i + 1, until)
      h == IF r[2] > Len(b) /\ ~until THEN [r[1] EXCEPT !.label[l].nactvar = Top(f).nactvar] ELSE r[1]
  IN <<FindGotos(h, h.label[l], Top(f).firstgoto + 1), r[2]>>

(* <<f, escapelist>>                                                       *)
TestThenBlock(f, x, b, escape, more) ==
  LET r == Expr(f, x)
      jumps == b # <<>> /\ b[1][1] \in {"goto", "break"}
      gf == GoIfFalse(r[1], r[2])
      gs == GotoStat(EnterBlock(gf[1], FALSE), gf[2].t, IF b[1][1] = "goto" THEN b[1][2] ELSE "break")
      sk == SkipNoops(gs, b, 2, FALSE)
      js == Jump(sk[1])
      gt == GoIfTrue(r[1], r[2])
      then == IF jumps THEN <<Statements(js[1], b, sk[2], FALSE), js[2]>>
              ELSE <<Statements(EnterBlock(gt[1], FALSE), b, 1, FALSE), gt[2].f>>
      g == LeaveBlock(then[1])
      j == Jump(g)
  IN IF jumps /\ Ends(b, 2) THEN <<LeaveBlock(sk[1]), escape>>
     ELSE IF more THEN <<PatchToHere(j[1], then[2]), escape \cup j[2]>>
     ELSE <<PatchToHere(g, then[2]), escape>>

RECURSIVE IfStat(_, _, _, _)
IfStat(f, parts, els, escape) ==
  IF parts = <<>> THEN PatchToHere(IF els = <<>> THEN f ELSE Block(f, els[1]), escape)
  ELSE LET r == TestThenBlock(f, parts[1][1], parts[1][2], escape, Len(parts) > 1 \/ els # <<>>)
       IN IfStat(r[1], Tail(parts), els, r[2])

LocalStat(f, names, exps) ==
  LET g == NewLocalVars(f, names)
      r == IF exps = <<>> THEN <<g, Exp("VOID", 0)>> ELSE ExpList(g, exps)
  IN AdjustLocalVars(AdjustAssign(r[1], Len(names), Len(exps), r[2]), Len(names))

RetStat(f, exps) ==
  LET r == ExpList(f, exps)
      g == SetReturns(r[1], r[2], MultRet)
      tail == r[2].k = "CALL" /\ Len(exps) = 1
      t == Assert_([g EXCEPT !.code[r[2].info].op = "TAILCALL"], At(g, r[2]).a = f.nactvar)
      a == Exp2AnyReg(r[1], r[2])
      n == Exp2NextReg(r[1], r[2])[1]
  IN CASE exps = <<>> -> Ret(f, 0, 0)
       [] exps # <<>> /\ HasMultRet(r[2]) -> Ret(IF tail THEN t ELSE g, f.nactvar, MultRet)
       [] exps # <<>> /\ ~HasMultRet(r[2]) /\ Len(exps) = 1 -> Ret(a[1], a[2].info, 1)
       [] OTHER -> Ret(Assert_(n, Len(exps) = n.freereg - f.nactvar), f.nactvar, Len(exps))

Simple(f, s) ==
  CASE s[1] = "local"  -> LocalStat(f, s[2], s[3])
    [] s[1] = "localfun" -> Body(AdjustLocalVars(NewLocalVar(f, s[2]), 1), s[3], FALSE)[1]
    [] s[1] = "function" -> LET v == SuffixedExp(f, s[2])
                                b == Body(v[1], s[4], s[3])
                            IN StoreVar(b[1], v[2], b[2])
    [] s[1] = "assign" -> Assignment(f, s[2], s[3])
    [] s[1] \in {"call", "method"} ->
         LET r == SuffixedExp(f, s) IN [r[1] EXCEPT !.code[r[2].info].c = 1]
    [] s[1] = "do"     -> Block(f, s[2])
    [] s[1] = "while"  -> WhileStat(f, s[2], s[3])
    [] s[1] = "repeat" -> RepeatStat(f, s[2], s[3])
    [] s[1] = "if"     -> IfStat(f, s[2], s[3], {})
    [] s[1] = "for"    -> ForNum(f, s[2], s[3], s[4])
    [] s[1] = "forin"  -> ForList(f, s[2], s[3], s[4])
    [] s[1] = "return" -> RetStat(f, s[2])
    [] s[1] \in {"goto", "break"} ->
         LET j == Jump(f) IN GotoStat(j[1], j[2], IF s[1] = "goto" THEN s[2] ELSE "break")
    [] s[1] = ";" -> f

FreeRegs(f) ==
  [Assert_(f, f.maxstack >= f.freereg /\ f.freereg >= f.nactvar) EXCEPT !.freereg = f.nactvar]

Statement(f, b, i, until) ==
  LET r == IF b[i][1] = "label" THEN LabelStat(f, b, i, until) ELSE <<Simple(f, b[i]), i + 1>>
  IN <<FreeRegs(r[1]), r[2]>>

Statements(f, b, i, until) ==
  IF i > Len(b) \/ f.err # "" THEN f
  ELSE LET r == Statement(f, b, i, until) IN Statements(r[1], b, r[2], until)

MainFunc(b) ==
  LET f == [OpenFunc(Outermost) EXCEPT !.vararg = TRUE]
  IN CloseFunc(Statements(NewUpvalue(f, "_ENV", Exp("LOCAL", 0)), b, 1, FALSE))
=============================================================================
