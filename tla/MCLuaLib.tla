------------------------------ MODULE MCLuaLib ------------------------------
(***************************************************************************)
(* Five parts of the Lua core and its libraries, one in each behaviour:    *)
(* table.sort and file handles (with the variables and constants of LuaSort*)
(* and LuaFiles themselves), tables, precompiled chunks and patterns.      *)
(***************************************************************************)
EXTENDS LuaSort, LuaFiles

CONSTANTS Nil, Null

VARIABLES
  part,
  prog, t, length, cursor, left,                                \* LuaTable
  chunk, todo, load,                                             \* LuaDump
  job, src, found, out, depth, result                           \* LuaPattern

---------------------------------------------------------------------------
(* Tables: an array that grows past the initial sizes, with a string; keys *)
(* in one chain; integers far apart, with the search for # past MAX_INT.   *)
TabKeys == {1, 2, 3, 4, 8} \cup 11..13
Strings == 10
Universes ==
  {[keys |-> {1, 2, 3, 11}, hash |-> [k \in 1..13 |-> k]],
   [keys |-> {3, 4, 11, 12}, hash |-> [k \in 1..13 |-> IF k > Strings THEN 3 ELSE k]],
   [keys |-> {1, 2, 4, 8}, hash |-> [k \in 1..13 |-> k]]}
Tab == INSTANCE LuaTable WITH Keys <- TabKeys, MaxInt <- 8, MaxSize <- 2

(* Arrays: all short ones over few values, and longer ones already in      *)
(* order, in reverse order, and equal.                                     *)
SmallArrays ==
  UNION {[1..n -> 1..3] : n \in 0..4}
    \cup {<<3, 1, 4, 1, 5, 9>>, <<1, 2, 3, 4, 5, 6, 7>>, <<7, 6, 5, 4, 3, 2, 1>>, <<2, 2, 2, 2, 2, 2>>, <<1, 2, 3, 4, 5>>}

(* Two prototypes, one with the other twice inside it.                     *)
P0 == <<2, 3, 1, 0, 2, <<7, 8>>, << <<4, <<5>>>>, <<0>>, <<1, 1>> >>, <<>>, << <<0, 1>> >>, Null, <<2, 3>>,
        << << <<6>>, 0, 2>> >>, << <<9>> >> >>
P1 == <<0, 0, 0, 1, 3, <<1, 2, 3>>, << <<3, 6>>, <<4, <<>> >> >>, <<P0, P0>>, << <<1, 0>>, <<1, 1>> >>, <<1, 2>>,
        <<1, 1, 2>>, <<>>, << <<3>>, Null>> >>
Chunk == INSTANCE LuaDump WITH Protos <- {P0, P1}, Pieces <- {1, 2, 3, 1000}, Cut <- 2

(* Patterns.                                                               *)
AB == {"a", "b"}
Except(s) == (AB \cup {"nul"}) \ s
Class(c, r) == [kind |-> "class", class |-> c, rep |-> r]
Mark(k) == [kind |-> k]
Dollar == [kind |-> "$", class |-> {"$"}, rep |-> "1"]
Bal(x, y) == [kind |-> "%b", open |-> x, close |-> y]
Border(s) == [kind |-> "%f", class |-> s]
Back(n) == [kind |-> "%n", n |-> n]

Classes == {Class({"a"}, r) : r \in {"1", "?", "*", "+", "-"}}
             \cup {Class({"b"}, "1"), Class(AB, "*"), Class(AB, "-"), Class(Except({"a"}), "1")}
Items == Classes \cup {Mark("("), Mark("()"), Mark(")"), Dollar, Bal("a", "b"), Bal("a", "a"), Border(Except({"a"})),
                       Border({"a"}), Back(1), Mark("malformed")}
Single == {<<x>> : x \in Items} \cup {<<>>}
Short == Single \cup {<<x, y>> : x, y \in Items}
Paired == {<<Mark("("), x, Mark(")")>> \o y :
             x \in Classes, y \in {<<z>> : z \in Classes} \cup {<<Class(AB, "-"), Back(1)>>, <<Back(1), Dollar>>}}
Nested == {<<Mark("("), x, Mark("("), y, Mark(")"), Mark(")"), Class({"b"}, "1")>> :
             x \in {Class(AB, "*"), Class({"a"}, "-")}, y \in Classes}
            \cup {<<Mark("()"), Mark("("), Class(AB, "-"), Mark(")"), Back(2), Dollar>>,
                  <<Mark("("), Mark("("), Mark("(")>>,
                  <<Mark("("), Class(AB, "*"), Mark(")"), Back(1), Class({"b"}, "?"), Class({"a"}, "+")>>}
(* A bracket that closes nothing.                                          *)
Stray == {<<Mark(")")>>, <<Mark(")"), Class({"a"}, "1")>>, <<Class({"a"}, "1"), Mark(")")>>,
          <<Class({"b"}, "1"), Mark(")")>>, <<Class({"a"}, "?"), Mark(")")>>}
Job(c, s, p, an, from, m, w) ==
  [call |-> c, subject |-> s, pattern |-> p, anchor |-> an, init |-> from, max |-> m, with |-> w]
Calls ==
  {Job("gmatch", s, p, FALSE, 1, -1, 0) :
     s \in {<<>>, <<"a">>, <<"a", "b", "a">>, <<"b", "a", "a", "b">>, <<"a", "a", "b", "b">>},
     p \in Short \cup Paired \cup Nested}
  \cup {Job("find", <<"a", "b", "a">>, p, an, from, -1, 0) :
          p \in Single \cup Nested, an \in BOOLEAN, from \in {-5, -2, 0, 1, 2, 4, 5}}
  \cup {Job(c, <<"a", ")", "a">>, p, an, from, -1, 0) :
          c \in {"find", "match"}, p \in Stray, an \in BOOLEAN, from \in {-1, 1}}
  \cup {Job("match", <<"b", "a", "b">>, p, TRUE, 1, -1, 0) : p \in Short}
  \cup {Job("gsub", s, p, FALSE, 1, m, 0) :
          s \in {<<"a", "b", "a">>, <<"b", "a", "a">>}, p \in Single \cup Paired \cup Nested, m \in {-1, 0, 2}}
  \cup {Job("gsub", <<"a", "b", "a">>, p, FALSE, 1, -1, w) : p \in Single \cup Nested, w \in {1, 2, 10, 11}}
  \cup {Job("gsub", <<"a", "a">>, p, TRUE, 1, -1, 0) : p \in Short}
Pat == INSTANCE LuaPattern WITH Chars <- AB, MaxDepth <- 8, MaxCaptures <- 2

(* Files: the default ones and one more handle, one address for streams.   *)
SomeFormats == {<<"line">>, <<"eof", "all">>}

---------------------------------------------------------------------------
TabVars == <<prog, t, length, cursor, left>>
ChunkVars == <<chunk, todo, load>>
PatVars == <<job, src, found, out, depth, result>>
Vars == <<part, TabVars, vars, ChunkVars, PatVars, filesVars>>

NoTable == prog = Nil /\ t = Nil /\ length = Nil /\ cursor = Nil /\ left = Nil
NoSort == Init /\ a = <<>> /\ order = "less"
NoChunk == chunk = Nil /\ load = Nil /\ todo = Nil
NoPattern == job = Nil /\ src = Nil /\ found = Nil /\ out = Nil /\ depth = Nil /\ result = Nil

AllInit ==
  /\ FilesInit
  /\ \/ part = "table" /\ Tab!Init /\ NoSort /\ NoChunk /\ NoPattern
     \/ part = "sort" /\ Init /\ NoTable /\ NoChunk /\ NoPattern
     \/ part = "chunk" /\ Chunk!Init /\ NoTable /\ NoSort /\ NoPattern
     \/ part = "pattern" /\ Pat!Init /\ NoTable /\ NoSort /\ NoChunk
     \/ part = "files" /\ NoTable /\ NoSort /\ NoChunk /\ NoPattern

Tables == part = "table" /\ Tab!Next /\ UNCHANGED <<part, vars, ChunkVars, PatVars, filesVars>>
Sorting == part = "sort" /\ Next /\ UNCHANGED <<part, TabVars, ChunkVars, PatVars, filesVars>>
Chunks == part = "chunk" /\ Chunk!Next /\ UNCHANGED <<part, TabVars, vars, PatVars, filesVars>>
Patterns == part = "pattern" /\ Pat!Next /\ UNCHANGED <<part, TabVars, vars, ChunkVars, filesVars>>
Handled == part = "files" /\ FilesNext /\ UNCHANGED <<part, TabVars, vars, ChunkVars, PatVars>>
AllNext == Tables \/ Sorting \/ Chunks \/ Patterns \/ Handled

(* The fairness of the parts: sorting goes on, unreachable handles are     *)
(* finalized.                                                              *)
AllSpec == /\ AllInit /\ [][AllNext]_Vars
           /\ WF_vars(Sorting)
           /\ \A h \in Handles :
                WF_filesVars(part = "files" /\ Gc(h) /\ UNCHANGED <<part, TabVars, vars, ChunkVars, PatVars>>)

---------------------------------------------------------------------------
(* The properties of the parts, stated in their modules (Sorts and Returns *)
(* in LuaSort, Owned and NoneLeaks in LuaFiles).                           *)

(* LuaTable: a table is a map with a length and a traversal, and its hash  *)
(* part is sound.                                                          *)
AsMap == /\ part = "table" => Tab!Map!MapInit
         /\ [](part = "table" => Tab!Structured)
         /\ [][part = "table" => Tab!Map!MapStep]_TabVars

(* LuaDump: a dumped function is loaded as it was, or refused.             *)
RoundTrip == part = "chunk" => Chunk!RoundTrip

(* LuaPattern: matches are the first and preferred ones.                   *)
MatchesAsSaid == part = "pattern" => Pat!MatchesAsSaid

(* LuaPattern: gsub keeps what does not match.                             *)
PutTogether == part = "pattern" => Pat!PutTogether
=============================================================================
