------------------------------ MODULE MCLuaGC ------------------------------
(* Instances of LuaGC: each program uses a few kinds of objects.           *)
EXTENDS LuaGC

Program(n, stack, start, ts, ms, run, full, fin, gen) ==
  [size |-> n, stack |-> stack, start |-> start, types |-> ts, modes |-> ms,
   running |-> run, full |-> full, finalizers |-> fin, generational |-> gen]

(* Ephemerons and full collections; weak values and strings; objects with  *)
(* finalizers; closures and their upvalues; old objects; weak entries.     *)
Tbl(m) == <<"table", m>>
P1 == Program(3, 1, <<Tbl("weakk"), Tbl("weakk")>>, {"table"}, {"strong"}, FALSE, TRUE, FALSE, FALSE)
P2 == Program(3, 2, <<Tbl("weakv"), Tbl("weakv")>>, {"string"}, {"strong"}, TRUE, FALSE, FALSE, FALSE)
P3 == Program(2, 1, <<>>, {"udata"}, {"strong"}, TRUE, FALSE, TRUE, TRUE)
P4 == Program(4, 3, << <<"proto", "strong">>, <<"thread", "strong">> >>, {"closure"}, {"strong"},
              TRUE, FALSE, FALSE, FALSE)
P5 == Program(2, 2, <<>>, {"table"}, {"strong"}, TRUE, TRUE, FALSE, TRUE)
P6 == Program(2, 1, <<>>, {"table"}, {"weakkv"}, TRUE, TRUE, FALSE, FALSE)
MCProfiles == {P1, P2, P3, P4, P5, P6}
=============================================================================
