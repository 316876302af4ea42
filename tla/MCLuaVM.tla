------------------------------ MODULE MCLuaVM ------------------------------
(* Programs for LuaVM, each for some constructs and how they meet.         *)
EXTENDS LuaVM

MCCompile(b) == LET main_ == MainFunc(b) IN main_
MCMean(b, answers) == LET m == Meaning(b, answers) IN m

V(x) == <<"name", x>>
K(n) == <<"num", n>>
S(x) == <<"str", x>>
O(xs) == <<"ops", xs>>
B(op) == <<op>>
Call(f, xs) == <<"call", f, xs>>
F(xs) == Call(V("f"), xs)
At_(t, k) == <<"index", t, k>>
Local(ns, xs) == <<"local", ns, xs>>
Set(vs, xs) == <<"assign", vs, xs>>
Return(xs) == <<"return", xs>>
Fun(ps, b) == <<"fun", ps, FALSE, b>>
If(c, b) == <<"if", <<<<c, b>>>>, <<>>>>
True == <<"true">>
Nil_ == <<"nil">>

(* Values of conditions: x = not (a < b) == c; y = f() and 1 or nil.       *)
P1 == << Local(<<"a", "x">>, <<F(<<>>)>>),
         Set(<<V("x")>>, <<O(<<B("not"), V("a"), B("and"), V("g"), B("or"), B("not"), V("a"), B("=="), K(1)>>)>>),
         Return(<<V("x"), O(<<V("a"), B("<"), K(1), B("or"), F(<<V("a")>>)>>)>>) >>
P2 == << Local(<<"a">>, <<F(<<>>)>>),
         Local(<<"b">>, <<O(<<V("a"), B("and"), <<"paren", O(<<V("a"), B(">="), V("b"), B("or"), Nil_>>)>>, B("and"), S("k")>>)>>),
         Return(<<V("b"), O(<<B("not"), <<"paren", O(<<V("a"), B("~="), V("b"), B("and"), V("b")>>)>>>>)>>) >>
(* Grouping, folding and constants past the last operand.                  *)
P3 == << Local(<<"a", "b">>, << <<"dots">> >>),
         Return(<<O(<<K(1), B("-"), K(2), B("-"), K(3), B("*"), V("a"), B("%"), K(4)>>),
                  O(<<B("-"), V("a"), B("+"), K(7), B(".."), K(5), B("%"), K(0), B(".."), B("#"), V("b")>>),
                  O(<<V("a"), B(">"), V("b"), B("=="), True>>)>>) >>
(* Loops whose closures keep their own variable.                           *)
P4 == << Local(<<"h">>, <<>>),
         <<"for", "i", <<K(1), K(2)>>, << If(V("h"), << <<"break">> >>),
             Set(<<V("h")>>, <<Fun(<<>>, <<Set(<<V("i")>>, <<O(<<V("i"), B("+"), K(1)>>)>>), Return(<<V("i")>>)>>)>>) >> >>,
         Return(<<Call(V("h"), <<>>), Call(V("h"), <<>>)>>) >>
P5 == << Local(<<"t">>, << <<"table", <<>>>> >>),
         <<"while", F(<<>>), << Local(<<"v">>, <<V("g")>>), Local(<<"n">>, <<O(<<B("#"), V("t")>>)>>),
             Set(<<At_(V("t"), V("n"))>>, <<Fun(<<"x">>, <<Set(<<V("v")>>, <<V("x")>>)>>)>>),
             If(O(<<V("v"), B("=="), V("n")>>), << <<"goto", "out">> >>), Call(At_(V("t"), V("n")), <<K(1)>>) >> >>,
         <<"label", "out">>, Return(<<V("t")>>) >>
P6 == << <<"repeat", << Local(<<"v">>, <<F(<<>>)>>), Local(<<"c">>, <<Fun(<<>>, <<Return(<<V("v")>>)>>)>>),
             Set(<<V("last")>>, <<V("c")>>), Set(<<V("v")>>, <<K(2)>>) >>,
           O(<<Call(V("c"), <<>>), B("=="), Call(V("last"), <<>>)>>) >> >>
(* Gotos, backwards and forwards, in and out of blocks.                    *)
P7 == << Local(<<"c">>, <<>>), <<"label", "again">>, Local(<<"v">>, <<K(1)>>),
         If(V("c"), << <<"do", <<If(F(<<V("v")>>), << <<"goto", "done">>, <<";">> >>)>> >> >>),
         Set(<<V("c")>>, <<Fun(<<>>, <<Set(<<V("v")>>, <<O(<<V("v"), B("+"), K(1)>>)>>), Return(<<V("v")>>)>>)>>),
         If(O(<<Call(V("c"), <<>>), B("<"), V("n")>>), << <<"goto", "again">>, <<"label", "unused">>, F(<<>>) >>),
         <<"do", << <<"goto", "done">> >> >>, <<"label", "done">> >>
P8 == << If(F(<<>>), << <<"goto", "l">> >>), Local(<<"v">>, <<K(1)>>), <<"label", "l">>, Return(<<V("v")>>) >>
P9 == << If(F(<<>>), << <<"goto", "l">> >>), Local(<<"v">>, <<K(1)>>), <<"label", "l">>, <<";">> >>
P10 == << <<"do", << <<"break">> >> >> >>
(* Assignments to several variables that depend on each other.             *)
P11 == << Local(<<"a", "b">>, << <<"dots">> >>),
          Set(<<At_(V("a"), V("b")), V("a"), V("b")>>, <<V("b"), V("a")>>),
          Set(<<V("a"), V("b")>>, <<V("b"), V("a")>>),
          Set(<<V("a"), At_(V("a"), K(1)), V("b")>>, <<F(<<>>), K(2)>>), Return(<<V("a"), V("b")>>) >>
P12 == << Local(<<"a">>, <<V("g")>>),
          Return(<<Call(<<"paren", Fun(<<"x">>, <<Set(<<At_(V("a"), V("x")), V("a"), V("x")>>, <<V("x"), Nil_, K(3), V("a")>>),
                                                  Return(<<V("x"), V("a")>>)>>)>>, <<V("a")>>), V("a")>>) >>
(* Constructors: items stored in parts, and all values of the last.        *)
P13 == << Return(<< <<"table", << <<"item", K(1)>>, <<"item", F(<<>>)>>, <<"rec", S("k"), V("g")>>, <<"item", Nil_>>,
                                  <<"rec", O(<<B("-"), K(1)>>), True>>, <<"item", <<"dots">> >> >> >>,
                   <<"table", << <<"item", K(1)>>, <<"item", K(2)>>, <<"item", F(<<>>)>> >> >> >>) >>
(* Calls: open arguments, tail calls, methods, arguments left out.         *)
P14 == << <<"localfun", "r", Fun(<<"n", "v">>,
             << If(O(<<V("n"), B("=="), K(0)>>), <<Return(<<V("v"), F(<<V("v")>>)>>)>>),
                Return(<<Call(V("r"), <<O(<<V("n"), B("-"), K(1)>>), Fun(<<>>, <<Return(<<V("v"), V("n")>>)>>)>>)>>) >>)>>,
          Return(<< <<"paren", Call(V("r"), <<K(1)>>)>>, Call(V("r"), <<K(1), K(2), K(3)>>) >>) >>
P15 == << Local(<<"t">>, << <<"table", << <<"rec", S("x"), K(1)>> >> >> >>),
          <<"function", At_(V("t"), S("m")), TRUE, <<"fun", <<"a">>, TRUE,
             << Local(<<"p", "q">>, << <<"dots">> >>), Set(<<At_(V("self"), S("x"))>>, <<V("q")>>),
                Return(<<O(<<At_(V("self"), S("x")), B(".."), V("a"), B(".."), V("p")>>), <<"dots">> >>) >> >> >>,
          <<"method", V("g"), "m", <<F(<<>>)>> >>,
          Return(<< <<"method", V("t"), "m", <<K(1), F(<<>>), F(<<>>)>> >> >>) >>
(* Generic loops, over a function of the program and over one outside.     *)
P16 == << Local(<<"s">>, <<K(0)>>),
          <<"forin", <<"i", "v">>, <<Fun(<<"t", "i">>, << If(O(<<V("i"), B("<"), V("t")>>),
               <<Return(<<O(<<V("i"), B("+"), K(1)>>), V("s")>>)>>) >>), K(2), K(0)>>,
             << Set(<<V("s")>>, <<Fun(<<>>, <<Return(<<V("i"), V("v")>>)>>)>>) >> >>,
          <<"forin", <<"w">>, <<F(<<>>)>>, << F(<<Call(V("s"), <<>>)>>) >> >>,
          <<"for", "i", <<K(2), K(1), O(<<B("-"), K(1)>>)>>, <<F(<<V("i")>>)>> >>,
          <<"for", "i", <<K(1), V("g")>>, <<>> >> >>
(* Nils next to each other with jumps between, and a chain of ifs.         *)
P17 == << Local(<<"a">>, <<>>), Local(<<"b", "c">>, <<>>),
          <<"while", F(<<V("a"), V("c")>>), << Set(<<V("a"), V("c")>>, <<K(1)>>), Local(<<"d">>, <<>>), F(<<V("d")>>),
              Set(<<V("a")>>, <<Nil_>>), Local(<<"e">>, <<>>) >> >>,
          <<"if", << <<O(<<V("a"), B("or"), F(<<>>)>>), <<Set(<<V("g")>>, <<True>>)>> >>,
                     <<O(<<V("c"), B("=="), Nil_>>), <<Return(<<V("c")>>)>> >> >>,
                  << <<F(<<V("b")>>)>> >> >> >>
(* Upvalues of upvalues, and a variable that two closures share.           *)
P18 == << Local(<<"n">>, <<K(0)>>), Local(<<"add">>, <<>>), Local(<<"get">>, <<>>),
          <<"do", << Local(<<"m">>, <<K(5)>>),
              Set(<<V("add")>>, <<Fun(<<>>, <<Set(<<V("n")>>, <<O(<<V("n"), B("+"), V("m")>>)>>)>>)>>),
              Set(<<V("get")>>, <<Fun(<<>>, <<Return(<<Fun(<<>>, <<Set(<<V("m")>>, <<K(7)>>), Return(<<V("n"), V("m")>>)>>)>>)>>)>>) >> >>,
          Local(<<"junk">>, <<K(9)>>), Call(V("add"), <<>>),
          Local(<<"x", "y">>, <<Call(Call(V("get"), <<>>), <<>>)>>), Call(V("add"), <<>>), Return(<<V("n"), V("x"), V("y")>>) >>
(* A block left by break and goto while its variables are captured.        *)
P19 == << Local(<<"c">>, <<>>),
          <<"while", True, << Local(<<"v">>, <<F(<<>>)>>), Set(<<V("c")>>, <<Fun(<<>>, <<Return(<<V("v")>>)>>)>>),
              If(V("v"), << Local(<<"w">>, <<K(1)>>), <<"break">> >>),
              <<"do", << Local(<<"u">>, <<K(2)>>), Set(<<V("c")>>, <<Fun(<<>>, <<Return(<<V("u")>>)>>)>>), <<"goto", "on">> >> >>,
              <<"label", "on">>, Local(<<"z">>, <<Call(V("c"), <<>>)>>), If(O(<<V("z"), B("=="), V("v")>>), << <<"break">> >>) >> >>,
          Local(<<"p", "q">>, <<K(3), K(4)>>), Return(<<Call(V("c"), <<>>)>>) >>
(* Nils in a loop, next to one before it.                                  *)
P20 == << Local(<<"a">>, <<>>),
          <<"repeat", << Local(<<"b">>, <<>>), F(<<V("a"), V("b")>>), Set(<<V("a"), V("b")>>, <<K(1), K(2)>>) >>, F(<<>>)>> >>
MCPrograms == {P1, P2, P3, P4, P5, P6, P7, P8, P9, P10, P11, P12, P13, P14, P15, P16, P17, P18, P19, P20}

(* A nil that is to be set each time control comes back to a label.        *)
P21 == << Local(<<"a">>, <<>>), <<"label", "top">>, Local(<<"b">>, <<>>), F(<<V("a"), V("b")>>),
          Set(<<V("a"), V("b")>>, <<K(1), K(2)>>), If(F(<<>>), << <<"goto", "top">> >>) >>
LabelProgram == {P21}
=============================================================================
