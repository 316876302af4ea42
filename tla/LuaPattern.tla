----------------------------- MODULE LuaPattern -----------------------------
(***************************************************************************)
(* Pattern matching (lstrlib.c): the backtracking matcher with its one     *)
(* record of captures that every alternative changes and must put back,    *)
(* and string.find, match, gmatch and gsub that start it at one position   *)
(* after another.  A pattern is a sequence of items.  A character class is *)
(* the set of its characters, "nul" being the byte after the end of the    *)
(* subject.  Positions count from 0, as the pointers do.                   *)
(***************************************************************************)
EXTENDS Integers, Sequences, FiniteSets, SequencesExt, FiniteSetsExt

CONSTANTS
  Chars,            \* the characters of subjects and patterns
  Calls,            \* the calls: records of call, subject, pattern, anchor, init, max and with
  MaxDepth,         \* MAXCCALLS
  MaxCaptures       \* LUA_MAXCAPTURES

VARIABLES
  job,              \* the call
  src,              \* where the next match is tried
  found,            \* the matches so far: from, upto and the captures
  out,              \* the result of gsub: pieces of the subject and replacements
  depth,            \* matchdepth between two tries
  result            \* "running", "end" or the error

vars == <<job, src, found, out, depth, result>>

subject == job.subject
pattern == job.pattern
Size == Len(subject)
NULL == -1
Unfinished == -1
Position == -2

(* The character at a position, with the zero at the end.                  *)
At(s) == IF s = Size THEN "nul" ELSE subject[s + 1]
Stretch(s, e) == SubSeq(subject, s + 1, e)

---------------------------------------------------------------------------
(* A state of the matcher is the captures, the depth left and the error.   *)
Ans(ms, at) == [ms |-> ms, at |-> at]
Fail(ms) == Ans(ms, NULL)
Error(ms, what) == Ans([ms EXCEPT !.err = what], NULL)
Failed(r) == r.at = NULL /\ r.ms.err = ""

SingleMatch(s, item) == s < Size /\ At(s) \in item.class

(* The first place where the closing characters have made up for the       *)
(* opening ones.  The end is looked for first: both may be one character.  *)
RECURSIVE Balanced(_, _, _)
Balanced(s, cont, item) ==
  IF s >= Size THEN NULL
  ELSE IF At(s) = item.close
       THEN IF cont = 1 THEN s + 1 ELSE Balanced(s + 1, cont - 1, item)
       ELSE Balanced(s + 1, IF At(s) = item.open THEN cont + 1 ELSE cont, item)
MatchBalance(s, item) == IF At(s) # item.open THEN NULL ELSE Balanced(s + 1, 1, item)

Frontier(s, item) ==
  /\ (IF s = 0 THEN "nul" ELSE At(s - 1)) \notin item.class
  /\ At(s) \in item.class

Open(ms) == {n \in DOMAIN ms.caps : ms.caps[n].len = Unfinished}

(* The length of a position capture is a huge size, so that nothing        *)
(* matches it.                                                             *)
MatchCapture(ms, s, n) ==
  IF n \notin DOMAIN ms.caps \ Open(ms) THEN Error(ms, "invalid capture index")
  ELSE LET c == ms.caps[n]
       IN Ans(ms, IF c.len >= 0 /\ c.len <= Size - s /\ Stretch(c.init, c.init + c.len) = Stretch(s, s + c.len)
                  THEN s + c.len ELSE NULL)

RECURSIVE Match(_, _, _), Item(_, _, _), Shorter(_, _, _, _), MinExpand(_, _, _)

UndoneStart(ms) == [ms EXCEPT !.caps = Front(@)]
StartCapture(ms, s, p, what) ==
  IF Len(ms.caps) >= MaxCaptures THEN Error(ms, "too many captures")
  ELSE LET r == Match([ms EXCEPT !.caps = Append(@, [init |-> s, len |-> what])], s, p)
       IN IF Failed(r) THEN Fail(UndoneStart(r.ms)) ELSE r

(* Mutant: a capture closed by an alternative that failed stays closed.    *)
LeftClosed(ms, l) == ms
UndoneEnd(ms, l) == [ms EXCEPT !.caps[l].len = Unfinished]
EndCapture(ms, s, p) ==
  IF Open(ms) = {} THEN Error(ms, "invalid pattern capture")
  ELSE LET l == Max(Open(ms))
           r == Match([ms EXCEPT !.caps[l].len = s - ms.caps[l].init], s, p)
       IN IF Failed(r) THEN Fail(UndoneEnd(r.ms, l)) ELSE r

(* As many as there are, then one less at a time.                          *)
Longest(s, item) == Max({i \in 0..Size - s : \A k \in 0..i - 1 : SingleMatch(s + k, item)})
Shorter(ms, s, p, i) ==
  IF i < 0 THEN Fail(ms)
  ELSE LET r == Match(ms, s + i, p + 1) IN IF Failed(r) THEN Shorter(r.ms, s, p, i - 1) ELSE r
MaxExpand(ms, s, p) == Shorter(ms, s, p, Longest(s, pattern[p]))

MinExpand(ms, s, p) ==
  LET r == Match(ms, s, p + 1)
  IN IF Failed(r) /\ SingleMatch(s, pattern[p]) THEN MinExpand(r.ms, s + 1, p) ELSE r

Optional(ms, s, p) ==
  LET r == Match(ms, s + 1, p + 1) IN IF Failed(r) THEN Item(r.ms, s, p + 1) ELSE r

(* The default case: a class and its suffix.                               *)
Repeated(ms, s, p) ==
  LET rep == pattern[p].rep
  IN IF ~SingleMatch(s, pattern[p])
     THEN IF rep \in {"*", "?", "-"} THEN Item(ms, s, p + 1) ELSE Fail(ms)
     ELSE CASE rep = "?" -> Optional(ms, s, p)
            [] rep = "+" -> MaxExpand(ms, s + 1, p)
            [] rep = "*" -> MaxExpand(ms, s, p)
            [] rep = "-" -> MinExpand(ms, s, p)
            [] OTHER -> Item(ms, s + 1, p + 1)

(* The places after which match jumps to its start again.                  *)
Onward(r, p) == IF r.at = NULL THEN r ELSE Item(r.ms, r.at, p + 1)
Item(ms, s, p) ==
  IF p > Len(pattern) THEN Ans(ms, s)
  ELSE LET item == pattern[p]
       IN CASE item.kind = "(" -> StartCapture(ms, s, p + 1, Unfinished)
            [] item.kind = "()" -> StartCapture(ms, s, p + 1, Position)
            [] item.kind = ")" -> EndCapture(ms, s, p + 1)
            [] item.kind = "$" /\ p = Len(pattern) -> Ans(ms, IF s = Size THEN s ELSE NULL)
            [] item.kind = "%b" -> Onward(Ans(ms, MatchBalance(s, item)), p)
            [] item.kind = "%f" -> Onward(Ans(ms, IF Frontier(s, item) THEN s ELSE NULL), p)
            [] item.kind = "%n" -> Onward(MatchCapture(ms, s, item.n), p)
            [] item.kind = "malformed" -> Error(ms, "malformed pattern")
            [] OTHER -> Repeated(ms, s, p)

Match(ms, s, p) ==
  IF ms.depth = 0 THEN Error(ms, "pattern too complex")
  ELSE LET r == Item([ms EXCEPT !.depth = @ - 1], s, p)
       IN IF r.ms.err # "" THEN r ELSE [r EXCEPT !.ms.depth = @ + 1]

Try(s) == Match([caps |-> <<>>, depth |-> depth, err |-> ""], s, 1)

---------------------------------------------------------------------------
(* posrelat, and the start that find and match make of it                  *)
PosRelat(pos) == IF pos >= 0 THEN pos ELSE IF -pos > Size THEN 0 ELSE Size + pos + 1
Start(pos) == Max({PosRelat(pos), 1})

(* A closing bracket is not among the special characters.                  *)
NoSpecials ==
  \A p \in DOMAIN pattern :
    \/ pattern[p].kind = ")"
    \/ pattern[p].kind = "class" /\ pattern[p].rep = "1" /\ Cardinality(pattern[p].class) = 1
Plain == job.call = "find" /\ NoSpecials /\ ~job.anchor

Init ==
  /\ job \in Calls
  /\ found = <<>> /\ out = <<>> /\ depth = MaxDepth
  /\ IF job.call \in {"find", "match"}
     THEN src = Start(job.init) - 1 /\ result = IF Start(job.init) > Size + 1 THEN "end" ELSE "running"
     ELSE src = 0 /\ result = "running"

(* The byte of an item in a plain pattern: the bracket, or the one member  *)
(* of the class.                                                           *)
Bytes == [p \in DOMAIN pattern |->
            IF pattern[p].kind = ")" THEN ")" ELSE CHOOSE c \in pattern[p].class : TRUE]
FindPlain ==
  LET places == {s \in src..Size - Len(pattern) : Stretch(s, s + Len(pattern)) = Bytes}
  IN /\ job.call = "find" /\ Plain /\ result = "running"
     /\ result' = "end"
     /\ found' = IF places = {} THEN <<>>
                 ELSE <<[from |-> Min(places), upto |-> Min(places) + Len(pattern), caps |-> <<>>]>>
     /\ UNCHANGED <<job, src, out, depth>>

Hit(r) == [from |-> src, upto |-> r.at, caps |-> r.ms.caps]

(* What a try leaves: the error, or the depth for the next one.            *)
Tried(r) == depth' = r.ms.depth
Broken(r) == /\ r.ms.err # "" /\ result' = r.ms.err
             /\ UNCHANGED <<job, src, found, out, depth>>
PushCaptures(r) == IF Open(r.ms) # {} THEN "unfinished capture" ELSE ""

FindNext ==
  LET r == Try(src)
  IN /\ job.call \in {"find", "match"} /\ ~Plain /\ result = "running"
     /\ \/ Broken(r)
        \/ /\ r.at # NULL
           /\ IF PushCaptures(r) # "" THEN result' = PushCaptures(r) /\ UNCHANGED found
              ELSE result' = "end" /\ found' = <<Hit(r)>>
           /\ Tried(r) /\ UNCHANGED <<job, src, out>>
        \/ /\ Failed(r) /\ Tried(r)
           /\ IF src < Size /\ ~job.anchor THEN src' = src + 1 /\ UNCHANGED result
              ELSE result' = "end" /\ UNCHANGED src
           /\ UNCHANGED <<job, found, out>>

(* The iterator of gmatch keeps where the next search starts; a match of   *)
(* nothing moves it one place on.                                          *)
GmatchNext ==
  LET r == Try(src)
  IN /\ job.call = "gmatch" /\ result = "running"
     /\ \/ Broken(r)
        \/ /\ r.at # NULL
           /\ IF PushCaptures(r) # "" THEN result' = PushCaptures(r) /\ UNCHANGED <<src, found>>
              ELSE /\ found' = Append(found, Hit(r))
                   /\ src' = IF r.at = src THEN r.at + 1 ELSE r.at
                   /\ result' = IF src' > Size THEN "end" ELSE result
           /\ Tried(r) /\ UNCHANGED <<job, out>>
        \/ /\ Failed(r) /\ Tried(r)
           /\ src' = src + 1 /\ result' = IF src' > Size THEN "end" ELSE result
           /\ UNCHANGED <<job, found, out>>

(* push_onecapture: the n-th capture, or the whole match when there is     *)
(* none.                                                                   *)
Whole(r) == <<"kept", src, r.at>>
OneCapture(r, n) ==
  IF n > Len(r.ms.caps) THEN IF n = 1 THEN Whole(r) ELSE <<"no such capture">>
  ELSE LET c == r.ms.caps[n]
       IN IF c.len = Unfinished THEN <<"unfinished capture">>
          ELSE IF c.len = Position THEN <<"number", c.init>> ELSE <<"kept", c.init, c.init + c.len>>

Table == 10
Function == 11

(* What a match is replaced by: the capture %1 to %9, the match for %0, or *)
(* what a table or a function answers.  A function is given all the        *)
(* captures, a table the first; either may answer nothing, and the text is *)
(* kept.                                                                   *)
Replacements(r) ==
  CASE job.with \in 0..9 -> {IF job.with = 0 THEN Whole(r) ELSE OneCapture(r, job.with)}
    [] job.with = Table /\ Len(OneCapture(r, 1)) = 1 -> {OneCapture(r, 1)}
    [] job.with = Function /\ PushCaptures(r) # "" -> {<<PushCaptures(r)>>}
    [] OTHER -> {Whole(r), <<"new", src>>, <<"invalid replacement value">>}

(* The limit is read as a size: a negative one is none.                    *)
Limit == IF job.max < 0 THEN Size + 1 ELSE job.max

(* Where the search goes on and the text so far: after the match, or one   *)
(* character on, which is kept, when there was none or an empty one.       *)
(* Mutant: the character after an empty match is not kept.                 *)
MovedUnkept(text, upto) ==
  [src |-> IF upto > src THEN upto ELSE Min({src + 1, Size}), out |-> text]
Moved(text, upto) ==
  CASE upto > src -> [src |-> upto, out |-> text]
    [] upto <= src /\ src < Size -> [src |-> src + 1, out |-> Append(text, <<"kept", src, src + 1>>)]
    [] OTHER -> [src |-> src, out |-> text]

(* The loop ends at the end of the subject, when it is anchored and at the *)
(* limit, and the rest of the subject follows.                             *)
GsubMove(text, upto, hits) ==
  LET m == Moved(text, upto)
      s == m.src
  IN /\ src' = s
     /\ IF s = src \/ job.anchor \/ hits >= Limit
        THEN result' = "end" /\ out' = IF s < Size THEN Append(m.out, <<"kept", s, Size>>) ELSE m.out
        ELSE out' = m.out /\ UNCHANGED result

GsubNone ==
  /\ job.call = "gsub" /\ result = "running" /\ Limit = 0
  /\ out' = <<<<"kept", 0, Size>>>> /\ result' = "end"
  /\ UNCHANGED <<job, src, found, depth>>
GsubNext ==
  LET r == Try(src)
  IN /\ job.call = "gsub" /\ result = "running" /\ Limit > 0
     /\ \/ Broken(r)
        \/ /\ r.at # NULL
           /\ \E text \in Replacements(r) :
                IF Len(text) = 1 THEN result' = text[1] /\ UNCHANGED <<src, found, out>>
                ELSE /\ found' = Append(found, Hit(r))
                     /\ GsubMove(Append(out, text), r.at, Len(found) + 1)
           /\ Tried(r) /\ UNCHANGED job
        \/ Failed(r) /\ GsubMove(out, src, Len(found)) /\ Tried(r) /\ UNCHANGED <<job, found>>

Ended == result # "running" /\ UNCHANGED vars
Next == FindPlain \/ FindNext \/ GmatchNext \/ GsubNone \/ GsubNext \/ Ended
Spec == Init /\ [][Next]_vars

---------------------------------------------------------------------------
(* What a match is, said without a search.  A layout of the first m items  *)
(* from a place is where each of them starts and ends in the subject.      *)
Items == DOMAIN pattern
Opens == {k \in Items : pattern[k].kind \in {"(", "()"}}
OpenBefore(k) == {o \in Opens : o < k}

(* Where nothing is special find takes a bracket for the character it is.  *)
Literal(k) == pattern[k].kind = ")" /\ Plain

(* Brackets pair as they do in any text; position captures are closed.     *)
Closes(k, o) ==
  /\ pattern[k].kind = ")" /\ pattern[o].kind = "(" /\ o < k
  /\ LET between == {m \in o + 1..k - 1 : TRUE}
         up(h) == Cardinality({m \in between : m <= h /\ pattern[m].kind = "("})
         down(h) == Cardinality({m \in between : m <= h /\ pattern[m].kind = ")"})
     IN up(k) = down(k) /\ \A h \in between : down(h) <= up(h)
Capture(n) == CHOOSE o \in Opens : Cardinality(OpenBefore(o)) = n - 1
Known(n, k) == /\ n \in 1..Cardinality(OpenBefore(k))
               /\ \/ pattern[Capture(n)].kind = "()"
                  \/ \E c \in 1..k - 1 : Closes(c, Capture(n))
Wrong(k) ==
  LET kind == pattern[k].kind
  IN \/ kind = "malformed"
     \/ kind \in {"(", "()"} /\ Cardinality(OpenBefore(k)) >= MaxCaptures
     \/ kind = ")" /\ ~Plain /\ \A o \in Opens : ~Closes(k, o)
     \/ kind = "%n" /\ ~Known(pattern[k].n, k)
FirstWrong == Min({k \in Items : Wrong(k)} \cup {Len(pattern) + 1})

CapturedBy(at, o) ==
  [init |-> at[o],
   len |-> IF pattern[o].kind = "()" THEN Position
           ELSE IF \E c \in DOMAIN at \cap Items : Closes(c, o) THEN at[CHOOSE c \in Items : Closes(c, o)] - at[o]
           ELSE Unfinished]
Captured(at) == [n \in 1..Cardinality(Opens) |-> CapturedBy(at, Capture(n))]

Even(s, e, item) ==
  Cardinality({i \in s..e - 1 : At(i) = item.open}) = Cardinality({i \in s..e - 1 : At(i) = item.close})
Balances(s, e, item) ==
  /\ e - s >= 2 /\ At(s) = item.open /\ At(e - 1) = item.close
  /\ IF item.open = item.close THEN \A i \in s + 1..e - 2 : At(i) # item.close
     ELSE Even(s, e, item) /\ \A i \in s + 1..e - 1 : ~Even(s, i, item)

Repeats(len, rep) == CASE rep = "?" -> len <= 1 [] rep = "+" -> len >= 1 [] rep = "1" -> len = 1 [] OTHER -> TRUE
Fits(k, at) ==
  LET item == pattern[k]
      s == at[k]
      e == at[k + 1]
  IN CASE Literal(k) -> e = s + 1 /\ At(s) = ")"
       [] item.kind \in {"(", "()", ")"} /\ ~Literal(k) -> e = s
       [] item.kind = "$" /\ k = Len(pattern) -> s = Size /\ e = s
       [] item.kind = "%b" -> Balances(s, e, item)
       [] item.kind = "%f" -> e = s /\ Frontier(s, item)
       [] item.kind = "%n" -> LET c == CapturedBy(at, Capture(item.n))
                              IN c.len >= 0 /\ Stretch(s, e) = Stretch(c.init, c.init + c.len)
       [] OTHER -> Repeats(e - s, item.rep) /\ \A i \in s..e - 1 : At(i) \in item.class

RECURSIVE Layouts(_, _)
Layouts(s, m) ==
  IF m = 0 THEN {<<s>>}
  ELSE UNION {{at \in {Append(less, e) : e \in less[m]..Size} : Fits(m, at)} : less \in Layouts(s, m - 1)}

(* Of two layouts the one to take is that which gives more to the first    *)
(* item they differ at, or less if the item is a lazy one.                 *)
Better(at, other) ==
  LET k == Min({h \in DOMAIN at : at[h] # other[h]}) - 1
  IN IF pattern[k].rep = "-" THEN at[k + 1] < other[k + 1] ELSE at[k + 1] > other[k + 1]
Best(s) == LET all == Layouts(s, Len(pattern))
           IN CHOOSE at \in all : \A other \in all : other = at \/ Better(at, other)

Spoils(s) == FirstWrong <= Len(pattern) /\ Layouts(s, FirstWrong - 1) # {}
Matches(s) == FirstWrong > Len(pattern) /\ Layouts(s, Len(pattern)) # {}

(* The places a finished call has decided on.                              *)
First == IF job.call \in {"find", "match"} THEN Start(job.init) - 1 ELSE 0
Decided ==
  CASE found # <<>> /\ (job.call \in {"find", "match"} \/ (job.call = "gsub" /\ Len(found) = Limit))
         -> First..found[Len(found)].from
    [] job.call = "gsub" /\ Limit = 0 -> {}
    [] job.anchor /\ job.call # "gmatch" -> {First} \cap 0..Size
    [] OTHER -> First..Size
Within(i) == \E n \in DOMAIN found : found[n].from < i /\ i < found[n].upto

(* A call that ends has found the first places where the pattern fits,     *)
(* outside of earlier matches, and for each the preferred way to fit it    *)
(* with the captures that go with it, whatever was tried and given up on   *)
(* the way; it fails where the search comes to an item that means nothing. *)
(* Every try gives back the depth it used.                                 *)
MatchesAsSaid ==
  /\ depth = MaxDepth
  /\ result = "end" =>
       /\ \A n \in DOMAIN found :
            LET best == Best(found[n].from)
            IN /\ found[n].upto = best[Len(best)]
               /\ found[n].caps = Captured(best)
       /\ \A s \in Decided : /\ ~Spoils(s) \/ Within(s)
                            /\ (\E n \in DOMAIN found : found[n].from = s) <=> (Matches(s) /\ ~Within(s))
  /\ result \in {"malformed pattern", "too many captures", "invalid pattern capture", "invalid capture index"} =>
        Spoils(src)
  /\ result = "unfinished capture" => \E o \in Opens : \A c \in Items : pattern[o].kind = "(" /\ ~Closes(c, o)

(* gsub leaves out nothing and doubles nothing: what it puts together      *)
(* when every match is replaced by itself is the subject.                  *)
PutTogether ==
  job.call = "gsub" /\ job.with = 0 =>
    /\ \A n \in DOMAIN out : out[n][2] = (IF n = 1 THEN 0 ELSE out[n - 1][3])
    /\ result = "end" /\ Size > 0 => out[Len(out)][3] = Size
=============================================================================
