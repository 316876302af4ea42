----------------------------- MODULE LuaMeaning -----------------------------
(***************************************************************************)
(* What a Lua program means: an evaluation of its syntax tree, by which    *)
(* the compiled program is judged.  A variable is a cell of its own, made  *)
(* when control enters its scope.                                          *)
(*                                                                         *)
(* Operations on values from outside the program (functions, objects with  *)
(* metamethods) are events with an answer; s.given are the answers of one  *)
(* run and s.out the events so far, with their answers.                    *)
(***************************************************************************)
EXTENDS Integers, Sequences, FiniteSets, TLC

Null == <<"nil">>
Bool(p) == IF p THEN <<"true">> ELSE <<"false">>
IsFalse(v) == v[1] \in {"nil", "false"}
Number(v) == v[1] \in {"num", "nan"}
Foreign(v) == v[1] \in {"ext", "glob", "env"}

(* Tables of the program: sets of pairs of a key and a value.              *)
Put(h, k, v) == {e \in h : e[1] # k} \cup (IF v = Null THEN {} ELSE {<<k, v>>})
Show(v, heap) ==
  CASE v[1] = "fun" -> <<"fun">>
    [] v[1] = "tab" -> <<"tab", v[2], {<<e[1], IF e[2][1] = "fun" THEN <<"fun">> ELSE e[2]>> : e \in heap[v[2]]}>>
    [] OTHER -> v
Shown(args, heap) == [i \in DOMAIN args |-> Show(args[i], heap)]

Extern(n) == <<"ext", n>>
Answers(op, n) ==               \* of the n-th event
  CASE op \in {"EQ", "LT", "LE"} -> {<<"true">>, <<"false">>}
    [] op = "CALL" -> {<<>>, <<Extern(n)>>, <<Extern(n), Extern(-n)>>}
    [] op = "GET"  -> {<<"nil">>, Extern(n)}
    [] op = "SET"  -> {Null}
    [] OTHER -> {Extern(n)}
Arguments == <<<<"glob", <<"str", "a">>>>, <<"glob", <<"str", "b">>>>>>

ArithOps == {"ADD", "SUB", "MUL", "MOD"}

(* Is the operation an error, known, or up to what is outside?             *)
Kind(op, a) ==
  LET some(S) == \E i \in DOMAIN a : a[i][1] \in S
      all(S)  == \A i \in DOMAIN a : a[i][1] \in S
      outside == {"ext", "glob", "env"}
  IN CASE op \in ArithOps \cup {"UNM"} ->
            IF all({"num", "nan"}) THEN "known" ELSE IF some(outside) THEN "ask" ELSE "error"
       [] op \in {"LT", "LE"} ->
            IF all({"num", "nan"}) THEN "known" ELSE IF some(outside) \/ all({"str"}) THEN "ask" ELSE "error"
       [] op = "EQ" -> IF all(outside) /\ a[1] # a[2] THEN "ask" ELSE "known"
       [] op = "CONCAT" -> IF some(outside) \/ all({"num", "str"}) THEN "ask" ELSE "error"
       [] op = "LEN" -> IF some(outside \cup {"tab", "str"}) THEN "ask" ELSE "error"
       [] op = "GET" -> CASE a[1] = <<"env">> \/ a[1][1] = "tab" -> "known"
                          [] Foreign(a[1]) -> "ask"
                          [] OTHER -> "error"
       [] op = "SET" -> CASE a[1][1] = "tab" /\ a[2] # Null -> "known"
                          [] Foreign(a[1]) -> "ask"
                          [] OTHER -> "error"
       [] op = "CALL" -> IF Foreign(a[1]) THEN "ask" ELSE "error"

Known(op, a, heap) ==
  LET x == a[1][2]
      y == a[2][2]
      nan == \E i \in DOMAIN a : a[i][1] = "nan"
  IN CASE op \in {"ADD", "SUB", "MUL", "MOD", "UNM"} /\ nan -> <<"nan">>
       [] op = "MOD" /\ ~nan -> IF y = 0 THEN <<"nan">> ELSE <<"num", x - (x \div y) * y>>
       [] op = "ADD" /\ ~nan -> <<"num", x + y>>
       [] op = "SUB" /\ ~nan -> <<"num", x - y>>
       [] op = "MUL" /\ ~nan -> <<"num", x * y>>
       [] op = "UNM" /\ ~nan -> <<"num", -x>>
       [] op = "LT" -> Bool(~nan /\ x < y)
       [] op = "LE" -> Bool(~nan /\ x <= y)
       [] op = "EQ" -> Bool(a[1] = a[2])
       [] op = "GET" -> IF a[1] = <<"env">> THEN <<"glob", a[2]>>
                        ELSE LET S == {e \in heap[x] : e[1] = a[2]}
                             IN IF S = {} THEN Null ELSE (CHOOSE e \in S : TRUE)[2]
       [] op = "SET" -> Null

-----------------------------------------------------------------------------
(* An operation: <<answer, s>>.                                            *)
Do(op, args, s) ==
  LET kind == Kind(op, args)
      n == Len(s.out) + 1
      ev == <<op, Shown(args, s.heap)>>
  IN CASE s.st # "ok" -> <<Null, s>>
       [] s.st = "ok" /\ kind = "error" -> <<Null, [s EXCEPT !.st = "error"]>>
       [] s.st = "ok" /\ kind = "ask" /\ n > Len(s.given) -> <<Null, [s EXCEPT !.st = op]>>
       [] s.st = "ok" /\ kind = "ask" /\ n <= Len(s.given) ->
            <<s.given[n], [s EXCEPT !.out = Append(@, ev \o <<s.given[n]>>)]>>
       [] OTHER -> <<Known(op, args, s.heap),
                     IF op = "SET" THEN [s EXCEPT !.heap[args[1][2]] = Put(@, args[2], args[3])] ELSE s>>

Declare(env, s, name, v) ==       \* <<env, s>>
  <<(name :> (Len(s.cells) + 1)) @@ env, [s EXCEPT !.cells = Append(@, v)]>>
RECURSIVE DeclareAll(_, _, _, _)
DeclareAll(env, s, names, vs) ==
  IF names = <<>> THEN <<env, s>>
  ELSE LET d == Declare(env, s, names[1], IF vs = <<>> THEN Null ELSE vs[1])
       IN DeclareAll(d[1], d[2], Tail(names), IF vs = <<>> THEN vs ELSE Tail(vs))

First(vs) == IF vs = <<>> THEN Null ELSE vs[1]

(* Grouping: the operator that binds least is applied last; of those that  *)
(* bind alike the rightmost one, but the leftmost ".." .                   *)
Level == << {"or"}, {"and"}, {"==", "~=", "<", "<=", ">", ">="}, {".."}, {"+", "-"}, {"*", "%"} >>
Operator(x) == Len(x) = 1 /\ x[1] \in {"not", "-", "#"} \cup UNION {Level[i] : i \in DOMAIN Level}
Binary(xs) == {i \in 2..Len(xs) : Operator(xs[i]) /\ ~Operator(xs[i - 1])}
Least(xs) ==
  LET l == CHOOSE m \in DOMAIN Level :
             /\ \E i \in Binary(xs) : xs[i][1] \in Level[m]
             /\ \A i \in Binary(xs), n \in 1..(m - 1) : xs[i][1] \notin Level[n]
      S == {i \in Binary(xs) : xs[i][1] \in Level[l]}
  IN IF Level[l] = {".."} THEN CHOOSE i \in S : \A j \in S : i <= j
     ELSE CHOOSE i \in S : \A j \in S : j <= i

RECURSIVE Eval(_, _, _), Values(_, _, _), Multi(_, _, _), Apply(_, _, _), Ops(_, _, _), Fill(_, _, _, _, _),
          Exec(_, _, _, _, _), Run(_, _, _), Loop(_, _, _, _), Count(_, _, _, _, _, _), Iterate(_, _, _, _, _)

(* The one value of an expression.                                         *)
Eval(x, env, s) == LET r == Multi(x, env, s) IN <<First(r[1]), r[2]>>

(* The values of a list of expressions: all of those of the last.          *)
Values(xs, env, s) ==
  IF xs = <<>> THEN <<<<>>, s>>
  ELSE IF Len(xs) = 1 THEN Multi(xs[1], env, s)
  ELSE LET v == Eval(xs[1], env, s)
           r == Values(Tail(xs), env, v[2])
       IN <<<<v[1]>> \o r[1], r[2]>>

One(r) == <<<<r[1]>>, r[2]>>

Multi(x, env, s) ==
  CASE x[1] \in {"nil", "true", "false", "num", "str"} -> <<<<x>>, s>>
    [] x[1] = "dots" -> <<env["..."], s>>
    [] x[1] = "name" -> IF x[2] \in DOMAIN env THEN <<<<s.cells[env[x[2]]]>>, s>>
                        ELSE One(Do("GET", <<<<"env">>, <<"str", x[2]>>>>, s))
    [] x[1] = "paren" -> One(Eval(x[2], env, s))
    [] x[1] = "index" -> LET r == Values(<<<<"paren", x[2]>>, <<"paren", x[3]>>>>, env, s)
                         IN One(Do("GET", r[1], r[2]))
    [] x[1] = "call" -> LET f == Eval(x[2], env, s)
                            r == Values(x[3], env, f[2])
                        IN Apply(f[1], r[1], r[2])
    [] x[1] = "method" -> LET o == Eval(x[2], env, s)
                              m == Do("GET", <<o[1], <<"str", x[3]>>>>, o[2])
                              r == Values(x[4], env, m[2])
                          IN Apply(m[1], <<o[1]>> \o r[1], r[2])
    [] x[1] = "fun" -> <<<<<<"fun", [params |-> x[2], vararg |-> x[3], body |-> x[4], env |-> env]>>>>, s>>
    [] x[1] = "table" -> LET n == Len(s.heap) + 1
                         IN <<<<<<"tab", n>>>>, Fill(x[2], n, 1, env, [s EXCEPT !.heap = Append(@, {})])>>
    [] x[1] = "ops" -> One(Ops(x[2], env, s))

Fill(fields, n, i, env, s) ==
  IF fields = <<>> \/ s.st # "ok" THEN s
  ELSE LET x == fields[1]
           k == Eval(x[2], env, s)
           v == Eval(x[3], env, k[2])
           m == IF Len(fields) = 1 THEN Multi(x[2], env, s) ELSE One(Eval(x[2], env, s))
           items == {<<<<"num", i + j - 1>>, m[1][j]>> : j \in {l \in DOMAIN m[1] : m[1][l] # Null}}
       IN IF x[1] = "item"
          THEN Fill(Tail(fields), n, i + Len(m[1]), env, [m[2] EXCEPT !.heap[n] = @ \cup items])
          ELSE Fill(Tail(fields), n, i, env, Do("SET", <<<<"tab", n>>, k[1], v[1]>>, v[2])[2])

Ops(xs, env, s) ==
  LET i == Least(xs)
      op == xs[i][1]
      left == SubSeq(xs, 1, i - 1)
      right == SubSeq(xs, i + 1, Len(xs))
      a == Ops(left, env, s)
      b == Ops(right, env, a[2])
      u == Ops(Tail(xs), env, s)
      name == CASE op = "+" -> "ADD" [] op = "-" -> "SUB" [] op = "*" -> "MUL" [] op = "%" -> "MOD"
                [] op = ".." -> "CONCAT" [] op \in {"==", "~="} -> "EQ"
                [] op \in {"<", ">"} -> "LT" [] op \in {"<=", ">="} -> "LE"
      r == IF op \in {">", ">="} THEN Do(name, <<b[1], a[1]>>, b[2]) ELSE Do(name, <<a[1], b[1]>>, b[2])
  IN IF Binary(xs) = {}
     THEN IF Len(xs) = 1 THEN Eval(xs[1], env, s)
          ELSE CASE xs[1][1] = "not" -> <<Bool(IsFalse(u[1])), u[2]>>
                 [] xs[1][1] = "-" -> Do("UNM", <<u[1]>>, u[2])
                 [] xs[1][1] = "#" -> Do("LEN", <<u[1]>>, u[2])
     ELSE CASE op = "and" -> IF IsFalse(a[1]) THEN a ELSE b
            [] op = "or"  -> IF IsFalse(a[1]) THEN b ELSE a
            [] op = "~="  -> <<Bool(IsFalse(r[1])), r[2]>>
            [] OTHER -> r

(* A call: <<values, s>>.                                                  *)
Apply(f, args, s) ==
  LET d == DeclareAll(("..." :> SubSeq(args, Len(f[2].params) + 1, Len(args))) @@ f[2].env, s, f[2].params, args)
      r == Exec(f[2].body, 1, d[1], <<>>, d[2])
      a == Do("CALL", <<f>> \o args, s)
  IN IF s.st # "ok" THEN <<<<>>, s>>
     ELSE IF f[1] # "fun" THEN <<IF a[2].st = "ok" THEN a[1] ELSE <<>>, a[2]>>
     ELSE <<IF r[2][1] = "return" THEN r[2][2] ELSE <<>>, r[1]>>

-----------------------------------------------------------------------------
(* Statements: <<s, how control goes on, env>>.                            *)

Going == <<"next">>

(* The targets of an assignment, and the assignments from the last to the  *)
(* first.                                                                  *)
RECURSIVE Places(_, _, _), Assign(_, _, _)
Places(vars, env, s) ==       \* <<places, s>>
  IF vars = <<>> THEN <<<<>>, s>>
  ELSE LET x == vars[1]
           r == Values(<<<<"paren", x[2]>>, <<"paren", x[3]>>>>, env, s)
           here == CASE x[1] = "index" -> <<<<"at">> \o r[1], r[2]>>
                     [] x[1] = "name" /\ x[2] \in DOMAIN env -> <<<<"cell", env[x[2]]>>, s>>
                     [] OTHER -> <<<<"at", <<"env">>, <<"str", x[2]>>>>, s>>
           rest == Places(Tail(vars), env, here[2])
       IN <<<<here[1]>> \o rest[1], rest[2]>>
Assign(places, vs, s) ==
  IF places = <<>> THEN s
  ELSE LET n == Len(places)
           v == IF n > Len(vs) THEN Null ELSE vs[n]
           p == places[n]
       IN Assign(SubSeq(places, 1, n - 1), vs,
                 IF p[1] = "cell" THEN [s EXCEPT !.cells[p[2]] = v] ELSE Do("SET", <<p[2], p[3], v>>, s)[2])

Run(b, env, s) == LET r == Exec(b, 1, env, <<>>, s) IN <<r[1], r[2], env>>

Loop(x, b, env, s) ==           \* while
  LET c == Eval(x, env, s)
      r == Run(b, env, c[2])
  IN IF c[2].st # "ok" \/ IsFalse(c[1]) THEN <<c[2], Going, env>>
     ELSE IF r[2] = Going THEN Loop(x, b, env, r[1])
     ELSE <<r[1], IF r[2] = <<"goto", "break">> THEN Going ELSE r[2], env>>

RECURSIVE Until(_, _, _, _)
Until(b, x, env, s) ==          \* repeat; the condition sees the locals
  LET r == Exec(b, 1, env, <<>>, s)
      c == Eval(x, r[3], r[1])
  IN IF r[2] # Going THEN <<r[1], IF r[2] = <<"goto", "break">> THEN Going ELSE r[2], env>>
     ELSE IF c[2].st # "ok" \/ ~IsFalse(c[1]) THEN <<c[2], Going, env>>
     ELSE Until(b, x, env, c[2])

Count(x, i, v, b, env, s) ==    \* numeric for; v are the limit and the step
  LET d == Declare(env, s, x, <<"num", i>>)
      r == Run(b, d[1], d[2])
  IN IF ~(IF v[2] > 0 THEN i <= v[1] ELSE v[1] <= i) THEN <<s, Going, env>>
     ELSE IF r[2] = Going /\ r[1].st = "ok" THEN Count(x, i + v[2], v, b, env, r[1])
     ELSE <<r[1], IF r[2] = <<"goto", "break">> THEN Going ELSE r[2], env>>

Iterate(names, v, b, env, s) == \* generic for; v are the function, the state and the control value
  LET c == Apply(v[1], <<v[2], v[3]>>, s)
      d == DeclareAll(env, c[2], names, c[1])
      r == Run(b, d[1], d[2])
  IN IF c[2].st # "ok" \/ First(c[1]) = Null THEN <<c[2], Going, env>>
     ELSE IF r[2] = Going THEN Iterate(names, <<v[1], v[2], First(c[1])>>, b, env, r[1])
     ELSE <<r[1], IF r[2] = <<"goto", "break">> THEN Going ELSE r[2], env>>

Nth(vs, i) == IF i <= Len(vs) THEN vs[i] ELSE Null

RECURSIVE Choose(_, _, _, _)
Choose(parts, els, env, s) ==
  IF parts = <<>> THEN IF els = <<>> THEN <<s, Going, env>> ELSE Run(els[1], env, s)
  ELSE LET c == Eval(parts[1][1], env, s)
       IN IF c[2].st # "ok" THEN <<c[2], Going, env>>
          ELSE IF IsFalse(c[1]) THEN Choose(Tail(parts), els, env, c[2]) ELSE Run(parts[1][2], env, c[2])

Step(x, env, s) ==
  CASE x[1] = "local" -> LET r == Values(x[3], env, s)
                             d == DeclareAll(env, r[2], x[2], r[1]) IN <<d[2], Going, d[1]>>
    [] x[1] = "localfun" -> LET d == Declare(env, s, x[2], Null)
                                f == Eval(x[3], d[1], d[2])
                            IN <<[f[2] EXCEPT !.cells[Len(s.cells) + 1] = f[1]], Going, d[1]>>
    [] x[1] = "function" -> LET p == Places(<<x[2]>>, env, s)
                                f == Eval(IF x[3] THEN [x[4] EXCEPT ![2] = <<"self">> \o @] ELSE x[4], env, p[2])
                            IN <<Assign(p[1], <<f[1]>>, f[2]), Going, env>>
    [] x[1] = "assign" -> LET p == Places(x[2], env, s)
                              r == Values(x[3], env, p[2])
                          IN <<Assign(p[1], r[1], r[2]), Going, env>>
    [] x[1] \in {"call", "method"} -> <<Multi(x, env, s)[2], Going, env>>
    [] x[1] = "do" -> Run(x[2], env, s)
    [] x[1] = "while" -> Loop(x[2], x[3], env, s)
    [] x[1] = "repeat" -> Until(x[2], x[3], env, s)
    [] x[1] = "if" -> Choose(x[2], x[3], env, s)
    [] x[1] = "for" -> LET r == Values(x[3], env, s)
                           step == IF Len(x[3]) = 3 THEN Nth(r[1], 3) ELSE <<"num", 1>>
                       IN IF r[2].st = "ok" /\ (\E v \in {Nth(r[1], 1), Nth(r[1], 2), step} : v[1] # "num")
                          THEN <<[r[2] EXCEPT !.st = "error"], Going, env>>
                          ELSE IF r[2].st # "ok" THEN <<r[2], Going, env>>
                          ELSE Count(x[2], r[1][1][2], <<r[1][2][2], step[2]>>, x[4], env, r[2])
    [] x[1] = "forin" -> LET r == Values(x[3], env, s)
                         IN Iterate(x[2], <<Nth(r[1], 1), Nth(r[1], 2), Nth(r[1], 3)>>, x[4], env, r[2])
    [] x[1] = "return" -> LET r == Values(x[2], env, s) IN <<r[2], <<"return", r[1]>>, env>>
    [] x[1] = "goto" -> <<s, x, env>>
    [] x[1] = "break" -> <<s, <<"goto", "break">>, env>>
    [] x[1] \in {"label", ";"} -> <<s, Going, env>>

(* From statement i on; envs are what was declared at those before it.     *)
Exec(b, i, env, envs, s) ==
  LET seen == Append(envs, env)
      r == Step(b[i], env, s)
      S == {j \in DOMAIN b : b[j] = <<"label", r[2][2]>>}
      j == CHOOSE j \in S : TRUE
  IN IF i > Len(b) \/ s.st # "ok" THEN <<s, Going, env>>
     ELSE IF r[2] = Going THEN Exec(b, i + 1, r[3], seen, r[1])
     ELSE IF r[2][1] = "goto" /\ r[1].st = "ok" /\ S # {}
     THEN Exec(b, j, IF j <= i THEN seen[j] ELSE env,
               [l \in 1..(j - 1) |-> IF l <= i THEN seen[l] ELSE env], r[1])
     ELSE <<r[1], r[2], env>>

-----------------------------------------------------------------------------
(* A goto needs a label in an enclosing block of its function, and no      *)
(* local may come into scope on the way, unless the block ends there.      *)

RECURSIVE Escapes(_, _)
Inner(x) ==                     \* the blocks of a statement: <<block, in a loop>>
  CASE x[1] = "do" -> {<<x[2], FALSE>>}
    [] x[1] = "while" -> {<<x[3], TRUE>>}
    [] x[1] = "repeat" -> {<<x[2], TRUE>>}
    [] x[1] = "if" -> {<<x[2][i][2], FALSE>> : i \in DOMAIN x[2]} \cup {<<x[3][i], FALSE>> : i \in DOMAIN x[3]}
    [] x[1] \in {"for", "forin"} -> {<<x[4], TRUE>>}
    [] OTHER -> {}
Jumps(x) ==                     \* labels a statement may jump to
  CASE x[1] = "goto" -> {x[2]} [] x[1] = "break" -> {"break"}
    [] OTHER -> UNION {Escapes(y[1], x[1] = "repeat") \ (IF y[2] THEN {"break"} ELSE {}) : y \in Inner(x)}
Escapes(b, until) ==            \* labels a block jumps to and does not have
  LET void(j) == ~until /\ \A k \in (j + 1)..Len(b) : b[k][1] \in {"label", ";"}
      good(i, j) == j <= i \/ void(j) \/ \A k \in i..j : b[k][1] \notin {"local", "localfun"}
  IN {n \in UNION {Jumps(b[i]) : i \in DOMAIN b} :
        \E i \in DOMAIN b : n \in Jumps(b[i]) /\ ~\E j \in DOMAIN b : b[j] = <<"label", n>> /\ good(i, j)}

(* What a program does given the answers to its events: the events, how it *)
(* ends and what it returns.                                               *)
Meaning(b, given) ==
  LET r == Exec(b, 1, [x \in {"..."} |-> Arguments], <<>>,
                [cells |-> <<>>, heap |-> <<>>, out |-> <<>>, given |-> given, st |-> "ok"])
      s == r[1]
      ended(how, vs) == [trace |-> s.out, status |-> how, result |-> vs]
  IN IF Escapes(b, FALSE) # {} THEN [trace |-> <<>>, status |-> "rejected", result |-> <<>>]
     ELSE CASE s.st = "error" -> ended("error", <<>>)
            [] s.st = "ok" -> ended("done", IF r[2] = Going THEN <<>> ELSE Shown(r[2][2], s.heap))
            [] OTHER -> ended("stopped", <<>>)
=============================================================================
