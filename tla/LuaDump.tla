------------------------------ MODULE LuaDump ------------------------------
(***************************************************************************)
(* Precompiled chunks: string.dump (ldump.c) writes the prototype of a     *)
(* function block by block, load (lundump.c) reads it back through a       *)
(* stream that gets its input in pieces of any size (lzio.c).  A chunk is  *)
(* a sequence of cells: a byte is one, an int, a size, a number or an      *)
(* instruction two, since a piece may end inside of it.                    *)
(***************************************************************************)
EXTENDS Integers, Sequences, FiniteSets, SequencesExt

CONSTANTS
  Null,         \* no string
  Protos,       \* the prototypes dumped, tuples of the fields in the order below
  Pieces,       \* the sizes of the pieces a reader gives
  Cut           \* the size for which chunks are cut short too

VARIABLES
  chunk,        \* what is dumped and what becomes of it: [f, strip, cut, bad, piece]
  load,         \* the loader: its stream, values and error
  todo          \* what it has still to load

vars == <<chunk, todo, load>>

(* The fields of a prototype.                                              *)
Fields == <<"linedefined", "lastlinedefined", "numparams", "is_vararg", "maxstacksize",
            "code", "k", "p", "upvalues", "source", "lineinfo", "locvars", "upvalnames">>
Field(f, name) == f[CHOOSE i \in DOMAIN Fields : Fields[i] = name]

TNil == 0
TBoolean == 1
TNumber == 3
TString == 4

---------------------------------------------------------------------------
(* Writing.                                                                *)
DumpChar(x) == <<[v |-> x, part |-> 0]>>
DumpInt(x) == <<[v |-> x, part |-> 1], [v |-> x, part |-> 2]>>
Each(s, Dump(_)) == FlattenSeq([i \in DOMAIN s |-> Dump(s[i])])
DumpVector(s, Dump(_)) == DumpInt(Len(s)) \o Each(s, Dump)
DumpString(s) ==
  IF s = Null THEN DumpInt(0)
  ELSE DumpInt(Len(s) + 1) \o Each(s, DumpChar) \o DumpChar(0)

DumpConstant(o) ==
  DumpChar(o[1]) \o CASE o[1] = TNil -> <<>>
                      [] o[1] = TBoolean -> DumpChar(o[2])
                      [] o[1] = TNumber -> DumpInt(o[2])
                      [] o[1] = TString -> DumpString(o[2])

RECURSIVE DumpFunction(_, _), DumpProtos(_, _, _)
DumpProtos(ps, n, strip) ==
  IF n > Len(ps) THEN <<>> ELSE DumpFunction(ps[n], strip) \o DumpProtos(ps, n + 1, strip)
DumpConstants(f, strip) ==
  DumpVector(Field(f, "k"), DumpConstant)
    \o DumpInt(Len(Field(f, "p"))) \o DumpProtos(Field(f, "p"), 1, strip)
DumpUpvalues(f) == DumpVector(Field(f, "upvalues"), LAMBDA x : DumpChar(x[1]) \o DumpChar(x[2]))
(* Mutant: the names of the upvalues are written although the rest is not. *)
DumpDebugNames(f, strip) ==
  LET kept(s) == IF strip THEN <<>> ELSE s
  IN DumpString(IF strip THEN Null ELSE Field(f, "source"))
       \o DumpVector(kept(Field(f, "lineinfo")), DumpInt)
       \o DumpVector(kept(Field(f, "locvars")),
                     LAMBDA x : DumpString(x[1]) \o DumpInt(x[2]) \o DumpInt(x[3]))
       \o DumpVector(Field(f, "upvalnames"), DumpString)
DumpDebug(f, strip) ==
  LET kept(s) == IF strip THEN <<>> ELSE s
  IN DumpString(IF strip THEN Null ELSE Field(f, "source"))
       \o DumpVector(kept(Field(f, "lineinfo")), DumpInt)
       \o DumpVector(kept(Field(f, "locvars")),
                     LAMBDA x : DumpString(x[1]) \o DumpInt(x[2]) \o DumpInt(x[3]))
       \o DumpVector(kept(Field(f, "upvalnames")), DumpString)
DumpFunction(f, strip) ==
  DumpInt(Field(f, "linedefined")) \o DumpInt(Field(f, "lastlinedefined"))
    \o DumpChar(Field(f, "numparams")) \o DumpChar(Field(f, "is_vararg"))
    \o DumpChar(Field(f, "maxstacksize")) \o DumpVector(Field(f, "code"), DumpInt)
    \o DumpConstants(f, strip) \o DumpUpvalues(f) \o DumpDebug(f, strip)

(* luaU_header, a cell for each part that LoadHeader tells apart: the      *)
(* first byte, the rest of the signature, version and format, the sizes of *)
(* the machine's types, and the tail.                                      *)
Header == [i \in 1..5 |-> [v |-> -i, part |-> 0]]
Dump(f, strip) == Header \o DumpFunction(f, strip)

---------------------------------------------------------------------------
(* Reading.  s = [z, vals, err]: the stream, the values read and not yet   *)
(* part of another one (a leaf, or parts that became one), and the error   *)
(* thrown.  z = [cells, at, n]: all the reader will give, the next cell,   *)
(* and how many of them are at hand.                                       *)
Fill(z) == [z EXCEPT !.n = IF chunk.piece < Len(z.cells) - z.at + 1 THEN chunk.piece
                           ELSE Len(z.cells) - z.at + 1]
RECURSIVE ZRead(_, _, _)
ZRead(z, n, got) ==             \* luaZ_read: fewer than n at the end of the input
  IF n = 0 THEN [z |-> z, got |-> got, missing |-> 0]
  ELSE LET y == IF z.n = 0 THEN Fill(z) ELSE z
           m == IF n <= y.n THEN n ELSE y.n
       IN IF y.n = 0 THEN [z |-> y, got |-> got, missing |-> n]
          ELSE ZRead([y EXCEPT !.at = @ + m, !.n = @ - m], n - m,
                     got \o SubSeq(y.cells, y.at, y.at + m - 1))

Throw(s, why) == [s EXCEPT !.err = why]
LoadBlock(s, n, Value(_)) ==
  LET r == ZRead(s.z, n, <<>>)
  IN IF s.err # "none" THEN s
     ELSE IF r.missing # 0 THEN Throw(s, "truncated")
     ELSE [s EXCEPT !.z = r.z, !.vals = Append(@, [leaf |-> Value(r.got)])]
Top(s) == Last(s.vals).leaf
Dropped(s, n) == [s EXCEPT !.vals = SubSeq(@, 1, Len(@) - n)]
Joined(s, n) ==                 \* the last n values become one
  IF s.err # "none" THEN s
  ELSE LET k == Len(s.vals) - n
       IN [s EXCEPT !.vals = Append(SubSeq(@, 1, k), [parts |-> SubSeq(@, k + 1, Len(@))])]

LoadChar(s) == LoadBlock(s, 1, LAMBDA c : IF c[1].part = 0 THEN c[1].v ELSE -1)
LoadInt(s) ==
  LET r == LoadBlock(s, 2, LAMBDA c : IF c[1].part = 1 /\ c[2].part = 2 /\ c[1].v = c[2].v THEN c[1].v ELSE -1)
  IN IF r.err = "none" /\ Top(r) < 0 THEN Throw(r, "corrupted") ELSE r
LoadString(s) ==
  LET r == LoadInt(s)
      chars == LoadBlock(Dropped(r, 1), Top(r), LAMBDA c : [i \in 1..Top(r) - 1 |-> c[i].v])
  IN IF r.err # "none" THEN r
     ELSE IF Top(r) = 0 THEN [r EXCEPT !.vals[Len(r.vals)].leaf = Null]
     ELSE chars

(* What is still to be loaded is a sequence: a value of some kind, a       *)
(* vector of them after its length, and n values to be made one.           *)
One(kind) == [op |-> "one", kind |-> kind, n |-> 0]
Vector(kind) == [op |-> "vector", kind |-> kind, n |-> 0]
Join(n) == [op |-> "join", kind |-> "", n |-> n]

LoadConstants == <<Vector("constant"), Vector("function")>>
LoadUpvalues == <<Vector("upvalue")>>
LoadDebug == <<One("string"), Vector("int"), Vector("locvar"), Vector("string")>>
LoadFunction ==
  <<One("int"), One("int"), One("char"), One("char"), One("char"), Vector("int")>>
    \o LoadConstants \o LoadUpvalues \o LoadDebug \o <<Join(Len(Fields))>>
LoadConstant(tag) ==
  CASE tag = TNil -> <<Join(1)>>
    [] tag = TBoolean -> <<One("char"), Join(2)>>
    [] tag = TNumber -> <<One("int"), Join(2)>>
    [] tag = TString -> <<One("string"), Join(2)>>

Parts(kind) == CASE kind = "function" -> LoadFunction
                 [] kind = "upvalue" -> <<One("char"), One("char"), Join(2)>>
                 [] kind = "locvar" -> <<One("string"), One("int"), One("int"), Join(3)>>
                 [] OTHER -> <<>>
(* The first byte has been read by f_parser.                               *)
LoadHeader(s) ==
  LET r == LoadBlock(s, Len(Header) - 1, LAMBDA c : <<Header[1]>> \o c)
      same(n) == SubSeq(Top(r), 1, n) = SubSeq(Header, 1, n)
  IN IF r.err # "none" THEN r
     ELSE IF same(5) THEN Dropped(r, 1)
     ELSE Throw(r, CASE ~same(2) -> "not a"
                     [] same(2) /\ ~same(3) -> "version mismatch in"
                     [] same(3) /\ ~same(4) -> "incompatible"
                     [] OTHER -> "corrupted")

LoadOne(s, kind) ==
  CASE kind \in {"char", "constant"} -> LoadChar(s)
    [] kind = "int" -> LoadInt(s)
    [] kind = "string" -> LoadString(s)
    [] kind = "header" -> LoadHeader(s)
    [] OTHER -> s

---------------------------------------------------------------------------
(* A chunk reaches load whole, cut short, or with a wrong header cell.     *)
Cells(c) ==
  LET all == Dump(c.f, c.strip)
  IN SubSeq([i \in DOMAIN all |-> IF i = c.bad THEN [v |-> -9, part |-> 0] ELSE all[i]],
            1, c.cut)
First(cells) ==                 \* what zgetc leaves
  LET z == Fill([cells |-> cells, at |-> 1, n |-> 0]) IN [z EXCEPT !.at = 2, !.n = @ - 1]
Init ==
  /\ \E f \in Protos, strip \in BOOLEAN, piece \in Pieces :
       \E bad \in {0, 2, 3, 4, 5}, cut \in 1..Len(Dump(f, strip)) :
         /\ bad # 0 \/ piece # Cut => cut = Len(Dump(f, strip))
         /\ chunk = [f |-> f, strip |-> strip, piece |-> piece, cut |-> cut, bad |-> bad]
  /\ load = [z |-> First(Cells(chunk)), vals |-> <<>>, err |-> "none"]
  /\ todo = <<One("header")>> \o LoadFunction

Loading == todo # <<>> /\ load.err = "none"
Doing(op) == Loading /\ Head(todo).op = op
LoadJoin ==
  /\ Doing("join") /\ load' = Joined(load, Head(todo).n)
  /\ todo' = Tail(todo) /\ UNCHANGED chunk
LoadVector ==
  /\ Doing("vector")
  /\ LET r == LoadInt(load)
         n == Top(r)
     IN IF r.err # "none" THEN load' = r /\ UNCHANGED todo
        ELSE /\ load' = Dropped(r, 1)
             /\ todo' = [i \in 1..n |-> One(Head(todo).kind)] \o <<Join(n)>> \o Tail(todo)
  /\ UNCHANGED chunk
LoadValue ==
  /\ Doing("one")
  /\ LET kind == Head(todo).kind
         r == LoadOne(load, kind)
     IN IF r.err # "none" THEN load' = r /\ UNCHANGED todo
        ELSE /\ load' = r
             /\ todo' = (IF kind = "constant" THEN LoadConstant(Top(r)) ELSE Parts(kind)) \o Tail(todo)
  /\ UNCHANGED chunk
Ended == ~Loading /\ UNCHANGED vars
Next == LoadJoin \/ LoadVector \/ LoadValue \/ Ended
Spec == Init /\ [][Next]_vars

---------------------------------------------------------------------------
RECURSIVE Plain(_)
Plain(v) == IF "leaf" \in DOMAIN v THEN v.leaf ELSE [i \in DOMAIN v.parts |-> Plain(v.parts[i])]

RECURSIVE Stripped(_)
Stripped(f) ==
  [i \in DOMAIN f |-> CASE Fields[i] = "p" -> [n \in DOMAIN f[i] |-> Stripped(f[i][n])]
                        [] Fields[i] = "source" -> Null
                        [] Fields[i] \in {"lineinfo", "locvars", "upvalnames"} -> <<>>
                        [] OTHER -> f[i]]

(* A dumped function is loaded as it was, without what strip leaves out,   *)
(* however the reader cuts the chunk into pieces; a chunk that ends early  *)
(* is refused as truncated, one with another header for what is wrong.     *)
RoundTrip ==
  LET whole == chunk.cut = Len(Dump(chunk.f, chunk.strip))
      wrong == CASE chunk.bad = 2 -> "not a" [] chunk.bad = 3 -> "version mismatch in"
                 [] chunk.bad = 4 -> "incompatible" [] chunk.bad = 5 -> "corrupted"
                 [] OTHER -> IF whole THEN "none" ELSE "truncated"
  IN ~Loading =>
       /\ load.err = wrong
       /\ wrong = "none" => Len(load.vals) = 1 /\ Plain(load.vals[1]) = IF chunk.strip THEN Stripped(chunk.f) ELSE chunk.f
=============================================================================
