------------------------------- MODULE LuaGC -------------------------------
(***************************************************************************)
(* The garbage collector of the interpreter (src/lua/src/lgc.c), with the  *)
(* parts of lfunc.c, lstring.c and lvm.c that it depends on.  A program    *)
(* (the mutator) changes objects between any two steps of the collector;   *)
(* barriers keep it from hiding an object from the traversal.              *)
(*                                                                         *)
(* An object is a number, free when no memory is allocated for it.  Main   *)
(* is the main thread: what its stack holds is what the program can reach. *)
(***************************************************************************)
EXTENDS Naturals, Sequences, FiniteSets, SequencesExt

CONSTANTS
  N,          \* how many objects there can be at a time
  MaxEntries, \* how many entries an object has
  Profiles    \* which objects a program uses and what it does with them

Main == 0
Obj  == 1..N
Node == 0..N
None == N + 1         \* a value that is not collectable
Start == N + 2         \* a pointer to the head of a list, not into an object

ASSUME LuaGCAssumption ==
  /\ N \in Nat \ {0}  /\ MaxEntries \in Nat
  /\ \A f \in Profiles :
       /\ f.types \subseteq {"table", "udata", "string", "closure", "proto", "thread"}
       /\ f.modes \subseteq {"strong", "weakv", "weakk", "weakkv"}
       /\ f.size \in 1..N /\ f.stack \in Nat
       /\ f.start \in Seq({"table", "udata", "proto", "thread"} \X {"strong", "weakv", "weakk", "weakkv"})
       /\ Len(f.start) <= N
       /\ \A k \in 1..Len(f.start) : f.start[k][1] # "table" => f.start[k][2] = "strong"
       /\ {f.running, f.finalizers, f.generational, f.full} \subseteq BOOLEAN

VARIABLES
  type,       \* of an object; "free" if there is none
  mark,       \* its color: one of two whites, gray or black
  old,        \* its bit for generational collections
  mode,       \* of a table: which of its references are weak
  entries,    \* what it refers to, as pairs of a key and a value
  cache,      \* of a prototype: its last closure
  open,       \* of an open upvalue: the thread in whose stack its value is
  allgc, finobj, tobefnz,                      \* lists of objects, in order
  gray, grayagain, weak, allweak, ephemeron,   \* what is still to be traversed
  currentwhite, gcstate, gckind,
  sweepgc, sweepfin,  \* where sweeping goes on: the object swept last
  sweepstr,           \* strings not yet swept
  pending,    \* an object that is being given a finalizer
  goal,       \* why the collector runs alone, "none" if it does not
  kind0,      \* the mode to return to after a full collection
  profile,    \* rigid: the profile of this program
  finalized,  \* objects whose finalizer was called or is about to be
  owed        \* history: objects with a finalizer that was not called

object == <<type, mark, old, mode, entries, cache, open>>
lists  == <<allgc, finobj, tobefnz>>
grays  == <<gray, grayagain, weak, allweak, ephemeron>>
state  == <<currentwhite, gcstate, gckind, sweepgc, sweepfin, sweepstr, pending, goal, kind0>>
vars   == <<object, lists, grays, state, profile, finalized, owed>>
duty   == <<profile, finalized, owed>>

Types   == {"table", "udata", "string", "closure", "proto", "thread", "upval"}
Whites  == {"w0", "w1"}
Other   == IF currentwhite = "w0" THEN "w1" ELSE "w0"
Live    == {o \in Node : type[o] # "free"}
White   == {o \in Live : mark[o] \in Whites}
Dead    == {o \in Live : mark[o] = Other}
Vals(o) == {e[2] : e \in entries[o]} \ {None}
Keys(o) == {e[1] : e \in entries[o]} \ {None}
Refs(o) == Vals(o) \cup Keys(o)
Opened(t) == {u \in Live : open[u] = t}
Elems(s)  == {s[i] : i \in 1..Len(s)}
Without(s, S) ==
  LET f[k \in 0..Len(s)] ==
        IF k = 0 THEN <<>> ELSE IF s[k] \in S THEN f[k - 1] ELSE Append(f[k - 1], s[k])
  IN f[Len(s)]

KeepInvariant == gckind = "gen" \/ gcstate = "propagate"
SweepStates   == {"enterfin", "enterall", "sweepstring", "sweepudata", "sweep"}

TypeOK ==
  /\ type \in [Node -> Types \cup {"free"}] /\ type[Main] = "thread"
  /\ mark \in [Node -> Whites \cup {"gray", "black"}]
  /\ old \in [Node -> BOOLEAN]
  /\ mode \in [Node -> {"strong", "weakv", "weakk", "weakkv"}]
  /\ entries \in [Node -> SUBSET ((Obj \cup {None}) \X (Obj \cup {None}))]
  /\ cache \in [Node -> Obj \cup {None}]
  /\ open \in [Node -> Node \cup {None}]
  /\ \A s \in {allgc, finobj, tobefnz} : s \in Seq(Obj) /\ Len(s) = Cardinality(Elems(s))
  /\ \A S \in {gray, grayagain, weak, allweak, ephemeron} : S \subseteq Node
  /\ currentwhite \in Whites
  /\ gcstate \in SweepStates \cup {"pause", "propagate"}
  /\ {gckind, kind0} \subseteq {"normal", "gen"}
  /\ {sweepgc, sweepfin} \subseteq Obj \cup {None, Start} /\ pending \in Obj \cup {None}
  /\ sweepstr \subseteq Obj
  /\ goal \in {"none", "finish", "collect", "regen", "minor", "togen", "whiten",
              "close", "closed"}
  /\ owed \subseteq Obj /\ finalized \subseteq Obj

(* The objects that a program has to begin with are on the stack.          *)
Given == 1..Len(profile.start)
Init ==
  /\ profile \in Profiles
  /\ type = [o \in Node |-> IF o = Main THEN "thread"
                            ELSE IF o \in Given THEN profile.start[o][1] ELSE "free"]
  /\ mark = [o \in Node |-> "w0"]
  /\ old = [o \in Node |-> FALSE]
  /\ mode = [o \in Node |-> IF o \in Given THEN profile.start[o][2] ELSE "strong"]
  /\ entries = [o \in Node |-> IF o = Main THEN {<<None, x>> : x \in Given} ELSE {}]
  /\ cache = [o \in Node |-> None]
  /\ open = [o \in Node |-> None]
  /\ allgc = [x \in Given |-> x] /\ finobj = <<>> /\ tobefnz = <<>>
  /\ gray = {} /\ grayagain = {} /\ weak = {} /\ allweak = {} /\ ephemeron = {}
  /\ currentwhite = "w0" /\ gcstate = "pause" /\ gckind = "normal" /\ kind0 = "normal"
  /\ sweepgc = None /\ sweepfin = None /\ sweepstr = {}
  /\ pending = None /\ goal = "none"
  /\ owed = {} /\ finalized = {}

-----------------------------------------------------------------------------
(* Marking.                                                                *)

(* What is marked when S is: userdata and upvalues pass it on at once, so  *)
(* it is the least set with S that nothing in W is missing from.           *)
Passed(o) == IF type[o] \in {"udata", "upval"} THEN Vals(o) ELSE {}
Through(S, W) ==
  LET sets   == {S \cup X : X \in SUBSET (W \ S)}
      closed == {X \in sets : \A o \in X : Passed(o) \cap W \subseteq X}
  IN {o \in Node : \A X \in closed : o \in X}
Touched(S) == IF S \cap White = {} THEN {} ELSE Through(S \cap White, White)

Queued(T) == {o \in T : type[o] \in {"table", "closure", "proto", "thread"}}

(* Strings, userdata and closed upvalues are black at once; open upvalues  *)
(* stay gray; the others are gray and wait to be traversed.                *)
ColorOf(o) ==
  IF type[o] \in {"string", "udata"} \/ (type[o] = "upval" /\ open[o] = None)
  THEN "black" ELSE "gray"
Marked(T) == [o \in Node |-> IF o \in T THEN ColorOf(o) ELSE mark[o]]

-----------------------------------------------------------------------------
(* The mutator.  It works on what is on the stack.                         *)

Stack == Vals(Main)
Running == goal = "none" /\ pending = None /\ gcstate \notin {"enterfin", "enterall"}
Pushed(o) == [entries EXCEPT ![Main] = @ \cup {<<None, o>>}]
Room == Cardinality(Stack) < profile.stack

New(o, t, m) ==
  /\ Running /\ Room /\ type[o] = "free" /\ o <= profile.size
  /\ \A p \in Obj : p < o => type[p] # "free"
  /\ t \in profile.types \ {"closure"} /\ (t # "table" => m = "strong") /\ m \in profile.modes
  /\ type' = [type EXCEPT ![o] = t]
  /\ mark' = [mark EXCEPT ![o] = currentwhite]
  /\ mode' = [mode EXCEPT ![o] = m]
  /\ entries' = Pushed(o)
  /\ allgc' = IF t = "string" THEN allgc ELSE <<o>> \o allgc
  /\ UNCHANGED <<old, cache, open, finobj, tobefnz, duty>> /\ UNCHANGED <<grays, state>>

(* A string that is there already is used again, although it may be dead.  *)
Intern(o) ==
  /\ Running /\ Room /\ type[o] = "string"
  /\ mark' = IF o \in Dead THEN [mark EXCEPT ![o] = currentwhite] ELSE mark
  /\ entries' = Pushed(o)
  /\ UNCHANGED <<type, old, mode, cache, open, duty>> /\ UNCHANGED <<lists, grays, state>>

Get(o) ==
  /\ Running /\ Room /\ o \in Stack
  /\ \E x \in IF type[o] = "closure" THEN UNION {Vals(u) : u \in Vals(o)} ELSE Refs(o) :
       x \notin Stack /\ entries' = Pushed(x)
  /\ UNCHANGED <<type, mark, old, mode, cache, open, duty>>
  /\ UNCHANGED <<lists, grays, state>>

Pop(o) ==
  /\ Running /\ o \in Stack
  /\ entries' = [entries EXCEPT ![Main] = @ \ {<<None, o>>}]
  /\ UNCHANGED <<type, mark, old, mode, cache, open, duty>>
  /\ UNCHANGED <<lists, grays, state>>

(* Mutant: a table without the barrier.                                    *)
NoBarrierBack(o, S) == UNCHANGED <<mark, gray, grayagain>>

(* A black object that gets a white one becomes gray again ...             *)
BarrierBack(o, S) ==
  IF mark[o] = "black" /\ S \cap White # {}
  THEN mark' = [mark EXCEPT ![o] = "gray"] /\ grayagain' = grayagain \cup {o} /\ UNCHANGED gray
  ELSE UNCHANGED <<mark, gray, grayagain>>

(* ... or the white one is marked; while sweeping, the black one is made   *)
(* white instead.                                                          *)
Barrier(o, S) ==
  IF mark[o] = "black" /\ S \cap White # {}
  THEN IF KeepInvariant
       THEN mark' = Marked(Touched(S)) /\ gray' = gray \cup Queued(Touched(S))
       ELSE mark' = [mark EXCEPT ![o] = currentwhite] /\ UNCHANGED gray
  ELSE UNCHANGED <<mark, gray>>

SetTable(o, k, v) ==
  /\ Running /\ type[o] = "table" /\ o \in Stack
  /\ {k, v} \subseteq Stack \cup {None} /\ {k, v} # {None}
  /\ k = None \/ mode[o] \in {"weakk", "weakkv"}
  /\ LET rest == {e \in entries[o] : e[1] # k \/ k = None} IN
     /\ Cardinality(rest) < MaxEntries
     /\ entries' = [entries EXCEPT ![o] = rest \cup {<<k, v>>}]
  /\ BarrierBack(o, {k, v} \ {None})
  /\ UNCHANGED <<type, old, mode, cache, open, duty, weak, allweak, ephemeron>>
  /\ UNCHANGED <<lists, state>>

Clear(o) ==
  /\ Running /\ type[o] \in {"table", "thread"} /\ o \in Stack
  /\ \E e \in entries[o] : entries' = [entries EXCEPT ![o] = @ \ {e}]
  /\ UNCHANGED <<type, mark, old, mode, cache, open, duty>>
  /\ UNCHANGED <<lists, grays, state>>

(* The environment of a userdata, a constant of a prototype.               *)
SetField(o, v) ==
  /\ Running /\ type[o] \in {"udata", "proto"} /\ {o, v} \subseteq Stack
  /\ entries' = [entries EXCEPT ![o] = {<<None, v>>}]
  /\ Barrier(o, {v})
  /\ UNCHANGED <<type, old, mode, cache, open, duty>>
  /\ UNCHANGED <<grayagain, weak, allweak, ephemeron>> /\ UNCHANGED <<lists, state>>

(* The upvalue of a closure on the stack.  While it is open its value is   *)
(* in the stack of the thread.                                             *)
SetUpval(c, u, v) ==
  /\ Running /\ {c, v} \subseteq Stack /\ type[c] = "closure"
  /\ u \in Vals(c) /\ type[u] = "upval"
  /\ entries' = [entries EXCEPT ![IF open[u] = None THEN u ELSE open[u]] = {<<None, v>>}]
  /\ Barrier(u, {v})
  /\ UNCHANGED <<type, old, mode, cache, open, duty>>
  /\ UNCHANGED <<grayagain, weak, allweak, ephemeron>> /\ UNCHANGED <<lists, state>>

(* The stack of a coroutine is written without a barrier.                  *)
Move(t, v) ==
  /\ Running /\ type[t] = "thread" /\ t \in Stack /\ v \in Stack
  /\ entries' = [entries EXCEPT ![t] = {<<None, v>>}]
  /\ UNCHANGED <<type, mark, old, mode, cache, open, duty>>
  /\ UNCHANGED <<lists, grays, state>>

(* A function is created from its prototype; its upvalue is the slot of    *)
(* the running thread, or an upvalue of the function around it.  The last  *)
(* closure is used again when it has the same upvalue.                     *)
GetCached(p, t) ==
  /\ Running /\ Room /\ {p, t} \subseteq Stack /\ type[p] = "proto" /\ type[t] = "thread"
  /\ cache[p] # None /\ \E u \in Vals(cache[p]) : open[u] = t
  /\ entries' = Pushed(cache[p])
  /\ UNCHANGED <<type, mark, old, mode, cache, open, duty>>
  /\ UNCHANGED <<lists, grays, state>>

(* The prototype gets a new closure: the first is marked, or in a sweep    *)
(* the prototype made white; for a later one it becomes gray again.        *)
BarrierProto(p, c, m) ==
  IF m[p] # "black" THEN mark' = m /\ UNCHANGED <<gray, grayagain>>
  ELSE IF cache[p] # None
  THEN mark' = [m EXCEPT ![p] = "gray"] /\ grayagain' = grayagain \cup {p} /\ UNCHANGED gray
  ELSE IF KeepInvariant
  THEN mark' = [m EXCEPT ![c] = "gray"] /\ gray' = gray \cup {c} /\ UNCHANGED grayagain
  ELSE mark' = [m EXCEPT ![p] = currentwhite] /\ UNCHANGED <<gray, grayagain>>

(* An open upvalue that is dead but not yet freed is used again.           *)
NewClosure(p, t, c, u) ==
  /\ Running /\ Room /\ {p, t} \subseteq Stack /\ type[p] = "proto" /\ type[t] = "thread"
  /\ "closure" \in profile.types
  /\ cache[p] # None => \A x \in Vals(cache[p]) : open[x] # t
  /\ type[c] = "free" /\ \A x \in Obj : x < c => type[x] # "free"
  /\ IF Opened(t) # {} THEN u \in Opened(t)
     ELSE type[u] = "free" /\ u # c /\ \A x \in Obj : x < u /\ x # c => type[x] # "free"
  /\ type' = [type EXCEPT ![c] = "closure", ![u] = "upval"]
  /\ open' = [open EXCEPT ![u] = t]
  /\ entries' = [Pushed(c) EXCEPT ![c] = {<<None, p>>, <<None, u>>}]
  /\ allgc' = <<c>> \o allgc
  /\ cache' = [cache EXCEPT ![p] = c]
  /\ BarrierProto(p, c, [mark EXCEPT ![c] = currentwhite,
                                     ![u] = IF u \in White \/ type[u] = "free"
                                            THEN currentwhite ELSE @])
  /\ UNCHANGED <<old, mode, finobj, tobefnz, weak, allweak, ephemeron, duty>>
  /\ UNCHANGED state

(* Mutant: an upvalue is closed without marking the value it takes over.   *)
ClosedUnmarked(u) ==
  /\ allgc' = <<u>> \o allgc
  /\ open' = [open EXCEPT ![u] = None]
  /\ entries' = [entries EXCEPT ![u] = entries[open[u]]]
  /\ mark' = IF mark[u] = "gray" THEN [mark EXCEPT ![u] = "black"] ELSE mark
  /\ UNCHANGED <<old, gray>>

(* The slot of a thread goes out of scope, or the thread is freed: an      *)
(* upvalue takes the value over and is listed with the other objects.      *)
Closed(u) ==
  /\ allgc' = <<u>> \o allgc
  /\ open' = [open EXCEPT ![u] = None]
  /\ entries' = [entries EXCEPT ![u] = entries[open[u]]]
  /\ IF mark[u] # "gray" THEN UNCHANGED <<mark, old, gray>>
     ELSE IF KeepInvariant
     THEN LET T == Touched(Vals(open[u])) IN
          /\ mark' = [Marked(T) EXCEPT ![u] = "black"]
          /\ old' = [old EXCEPT ![u] = FALSE] /\ gray' = gray \cup Queued(T)
     ELSE mark' = [mark EXCEPT ![u] = currentwhite]
          /\ old' = [old EXCEPT ![u] = FALSE] /\ UNCHANGED gray

Freed(S) ==
  /\ type' = [o \in Node |-> IF o \in S THEN "free" ELSE type[o]]
  /\ mode' = [o \in Node |-> IF o \in S THEN "strong" ELSE mode[o]]
  /\ cache' = [o \in Node |-> IF o \in S THEN None ELSE cache[o]]
  /\ finalized' = finalized \ S

CloseUpvals(t, u) ==
  /\ Running /\ type[t] = "thread" /\ t \in Stack /\ u \in Opened(t)
  /\ IF u \in Dead
     THEN /\ Freed({u})
          /\ mark' = [mark EXCEPT ![u] = "w0"] /\ old' = [old EXCEPT ![u] = FALSE]
          /\ open' = [open EXCEPT ![u] = None]
          /\ UNCHANGED <<entries, allgc, gray>>
     ELSE Closed(u) /\ UNCHANGED <<type, mode, cache, finalized>>
  /\ UNCHANGED <<finobj, tobefnz, grayagain, weak, allweak, ephemeron, profile, owed>>
  /\ UNCHANGED state

-----------------------------------------------------------------------------
(* Finalizers.                                                             *)

(* Mutant: a second finalizer for an object whose first was called.        *)
SetFinalizerAgain(o) ==
  /\ Running /\ profile.finalizers /\ o \in Stack /\ o \in Elems(allgc)
  /\ type[o] = "udata" \/ (type[o] = "table" /\ mode[o] = "strong")
  /\ pending' = o
  /\ UNCHANGED <<object, lists, grays, duty>>
  /\ UNCHANGED <<currentwhite, gcstate, gckind, sweepgc, sweepfin, sweepstr, goal, kind0>>

(* An object gets a metatable with a finalizer: it moves from the list of  *)
(* all objects to that of the objects with one.  A sweep that stands on it *)
(* goes on to the next live object first.                                  *)
SetFinalizer(o) ==
  /\ Running /\ profile.finalizers /\ o \in Stack /\ o \in Elems(allgc) \ finalized
  /\ type[o] = "udata" \/ (type[o] = "table" /\ mode[o] = "strong")
  /\ pending' = o
  /\ UNCHANGED <<object, lists, grays, duty>>
  /\ UNCHANGED <<currentwhite, gcstate, gckind, sweepgc, sweepfin, sweepstr, goal, kind0>>

Finalizable(o) ==
  /\ pending = o /\ sweepgc # o
  /\ allgc' = Without(allgc, {o}) /\ finobj' = <<o>> \o finobj
  /\ mark' = IF gcstate = "propagate" THEN mark ELSE [mark EXCEPT ![o] = currentwhite]
  /\ old' = [old EXCEPT ![o] = FALSE]
  /\ owed' = owed \cup {o} /\ pending' = None
  /\ UNCHANGED <<type, mode, entries, cache, open, tobefnz, grays, profile, finalized>>
  /\ UNCHANGED <<currentwhite, gcstate, gckind, sweepgc, sweepfin, sweepstr, goal, kind0>>

CallFinalizer ==
  /\ (Running /\ Room) \/ goal = "close"
  /\ tobefnz # <<>>
  /\ LET o == tobefnz[1] IN
     /\ tobefnz' = Tail(tobefnz) /\ allgc' = <<o>> \o allgc
     /\ mark' = IF gcstate = "propagate" THEN mark ELSE [mark EXCEPT ![o] = currentwhite]
     /\ old' = IF gcstate = "propagate" THEN old ELSE [old EXCEPT ![o] = FALSE]
     /\ entries' = IF goal = "close" THEN entries ELSE Pushed(o)
     /\ owed' = owed \ {o}
  /\ UNCHANGED <<type, mode, cache, open, finobj, grays, state, profile, finalized>>

-----------------------------------------------------------------------------
(* The collector.                                                          *)

Collecting ==
  /\ pending = None /\ goal \notin {"close", "closed"}
  /\ goal # "none" \/ gckind = "normal" \/ gcstate \in {"enterfin", "enterall"}

(* Where a collection that runs alone goes on when the state g is reached. *)
Reaches(g) ==
  LET to == CASE goal = "finish" /\ g = "propagate" -> "collect"
              [] goal = "collect" /\ g = "pause" -> IF kind0 = "gen" THEN "regen" ELSE "none"
              [] goal \in {"regen", "togen"} /\ g = "propagate" -> "none"
              [] goal \in {"minor", "whiten"} /\ g = "pause" -> "none"
              [] OTHER -> goal
  IN /\ goal' = to
     /\ gckind' = IF goal \in {"regen", "togen"} /\ to = "none" THEN "gen" ELSE gckind
     /\ gcstate' = IF goal = "minor" /\ to = "none" THEN "propagate" ELSE g

Restart ==
  /\ Collecting /\ gcstate = "pause" /\ (goal = "none" => profile.running)
  /\ LET T == Through({Main} \cup Elems(tobefnz), White \cup Elems(tobefnz)) IN
     mark' = Marked(T) /\ gray' = Queued(T)
  /\ old' = [o \in Node |-> old[o] /\ o \notin Elems(tobefnz)]
  /\ grayagain' = {} /\ weak' = {} /\ allweak' = {} /\ ephemeron' = {}
  /\ Reaches("propagate")
  /\ UNCHANGED <<type, mode, entries, cache, open, lists, duty>>
  /\ UNCHANGED <<currentwhite, sweepgc, sweepfin, sweepstr, pending, kind0>>

IsString(x) == x # None /\ type[x] = "string"

(* What a traversal of o marks, when the objects of M are marked.          *)
Strong(o, M) ==
  IF type[o] = "upval" /\ open[o] # None THEN Vals(open[o])
  ELSE CASE mode[o] = "strong" -> Refs(o)
         [] mode[o] = "weakv"  -> Keys(o) \cup {x \in Vals(o) : IsString(x)}
         [] mode[o] = "weakk"  -> {x \in Keys(o) : IsString(x)} \cup
              ({e[2] : e \in {f \in entries[o] : f[1] \in M \cup {None} \/ IsString(f[1])}} \ {None})
         [] OTHER -> {}

(* Whether an entry of a table must be removed if no more than M is marked.*)
Clears(x, M)    == x # None /\ x \notin M /\ ~IsString(x)
ClearsKey(o, M) == \E x \in Keys(o) : Clears(x, M)
ClearsVal(o, M) == \E x \in Vals(o) : Clears(x, M)
Undecided(o, M) == \E e \in entries[o] : Clears(e[1], M) /\ e[2] \notin M \cup {None}

(* One gray object is traversed.                                           *)
Propagate(o) ==
  /\ Collecting /\ gcstate = "propagate" /\ o \in gray
  /\ LET M == Live \ White
         T == Touched(Strong(o, M))
         lazy == type[o] = "thread" \/ mode[o] # "strong"
     IN
     /\ mark' = [Marked(T) EXCEPT ![o] = IF lazy THEN "gray" ELSE "black"]
     /\ gray' = (gray \ {o}) \cup Queued(T)
     /\ grayagain' = IF \/ type[o] = "thread"
                        \/ (mode[o] = "weakv" /\ ~ClearsVal(o, M \cup T))
                     THEN grayagain \cup {o} ELSE grayagain
     /\ weak' = IF mode[o] = "weakv" /\ ClearsVal(o, M \cup T) THEN weak \cup {o} ELSE weak
     /\ allweak' = IF mode[o] = "weakkv" THEN allweak \cup {o} ELSE allweak
     /\ ephemeron' = IF mode[o] = "weakk" THEN ephemeron \cup {o} ELSE ephemeron
     /\ cache' = IF cache[o] \in White THEN [cache EXCEPT ![o] = None] ELSE cache
  /\ UNCHANGED <<type, old, mode, entries, open, lists, state, duty>>

(* What is marked in the end when M is and Q is still to be traversed: the *)
(* least set with M to which the traversals add nothing.                   *)
Spread(M, Q) ==
  LET sets   == {M \cup X : X \in SUBSET (Node \ M)}
      closed == {X \in sets : \A o \in Q \cup (X \ M) : Strong(o, X) \subseteq X}
  IN {o \in Node : \A X \in closed : o \in X}

Tables(m, S) == {o \in S : type[o] = "table" /\ mode[o] = m}

(* The end of the marking, in one step: what the program did meanwhile,    *)
(* ephemerons until nothing changes, weak tables cleared of what is dead,  *)
(* objects whose finalizers are due, and all that these need.              *)
Atomic ==
  /\ Collecting /\ gcstate = "propagate" /\ gray = {}
  /\ LET M0  == Live \ White
         U   == {u \in Live : type[u] = "upval" /\ open[u] # None /\ mark[u] = "gray"}
         Q1  == grayagain \cup weak \cup ephemeron
         M1  == Spread(M0, Q1 \cup U)
         Tr1 == Q1 \cup (M1 \ M0)
         fin == Without(finobj, M1)
         Q2  == Elems(tobefnz) \cup Elems(fin)
         M2  == Spread(M1 \cup Q2, Q2 \cup Tables("weakk", Tr1))
         Tr2 == Q2 \cup (M2 \ M1)
         all == Tr1 \cup Tr2
         wk1 == {o \in Tables("weakv", Tr1) : ClearsVal(o, M1)}
         wk  == wk1 \cup {o \in Tables("weakv", Tr2) : ClearsVal(o, M2)}
         aw1 == allweak \cup Tables("weakkv", Tr1)
                \cup {o \in Tables("weakk", Tr1) : ClearsKey(o, M1) /\ ~Undecided(o, M1)}
         eph == {o \in Tables("weakk", all) : Undecided(o, M2)}
         aw  == aw1 \cup Tables("weakkv", Tr2)
                \cup {o \in Tables("weakk", all) \ eph : ClearsKey(o, M2)}
         Goes(o, e) == \/ (o \in wk1 \cup aw1 /\ Clears(e[2], M1))
                       \/ (o \in wk \cup aw /\ Clears(e[2], M2))
                       \/ (o \in eph \cup aw /\ Clears(e[1], M2))
         kept == [o \in Node |-> {e \in entries[o] : ~Goes(o, e)}]
         strs == {x \in Live : IsString(x) /\ \E o \in aw : \E e \in kept[o] : x \in {e[1], e[2]}}
     IN
     /\ finobj' = Without(finobj, Elems(fin)) /\ tobefnz' = tobefnz \o fin
     /\ finalized' = finalized \cup Elems(fin)
     /\ mark' = [o \in Node |->
                   IF o \in all THEN IF \/ type[o] = "thread" \/ mode[o] # "strong"
                                        \/ (type[o] = "upval" /\ open[o] # None)
                                     THEN "gray" ELSE "black"
                   ELSE IF o \in strs THEN "black" ELSE mark[o]]
     /\ old' = [o \in Node |-> old[o] /\ o \notin Q2]
     /\ entries' = kept
     /\ cache' = [o \in Node |-> IF o \in all /\ cache[o] \in White THEN None ELSE cache[o]]
     /\ weak' = wk /\ allweak' = aw /\ ephemeron' = eph
     /\ grayagain' = {o \in all : type[o] = "thread"} \cup (Tables("weakv", all) \ wk)
                     \cup (Tables("weakk", all) \ (eph \cup aw))
  /\ currentwhite' = Other
  /\ gcstate' = "enterfin" /\ sweepfin' = Start
  /\ UNCHANGED <<type, mode, open, allgc, gray, profile, owed>>
  /\ UNCHANGED <<gckind, sweepgc, sweepstr, pending, goal, kind0>>

(* The object at a pointer into a list, None at the end.                   *)
At(s, p) ==
  LET k == IF p = Start THEN 1 ELSE (CHOOSE i \in 1..Len(s) : s[i] = p) + 1
  IN IF k > Len(s) THEN None ELSE s[k]

Stops(c) == c = None \/ (c \notin Dead /\ gckind = "gen" /\ old[c])

(* The pointer after the sweep of the object at p.                         *)
Beyond(s, p) ==
  LET c == At(s, p) IN IF Stops(c) THEN None ELSE IF c \in Dead THEN p ELSE c

(* An object is freed if it is dead, else it is white again or, in the     *)
(* generational mode, old.  The upvalues of a thread are swept with it, or *)
(* closed when it is freed.                                                *)
SweepOne(c) ==
  LET ups   == IF c \in Live /\ type[c] = "thread" THEN Opened(c) ELSE {}
      gone  == ({c} \cup ups) \cap Dead
      moved == IF c \in Dead THEN ups \ Dead ELSE {}
      stays == ({c} \cup ups) \ (gone \cup moved)
  IN IF Stops(c) THEN UNCHANGED <<object, allgc, finobj, finalized>>
     ELSE /\ Freed(gone)
          /\ mark' = [o \in Node |->
               CASE o \in gone -> "w0"
                 [] o \in stays /\ gckind # "gen" -> currentwhite
                 [] o \in moved /\ mark[o] = "gray" ->
                      IF KeepInvariant THEN "black" ELSE currentwhite
                 [] OTHER -> mark[o]]
          /\ old' = [o \in Node |-> CASE o \in gone \cup moved -> FALSE
                                      [] o \in stays -> gckind = "gen"
                                      [] OTHER -> old[o]]
          /\ entries' = [o \in Node |-> CASE o \in gone -> {}
                                          [] o \in moved -> entries[c]
                                          [] OTHER -> entries[o]]
          /\ open' = [o \in Node |-> IF o \in gone \cup moved THEN None ELSE open[o]]
          /\ allgc' = SetToSeq(moved) \o Without(allgc, gone)
          /\ finobj' = Without(finobj, gone)

(* The sweep begins with each list up to its first live object, so that    *)
(* what is created in front of it meanwhile is not visited.                *)
EnterFin ==
  /\ Collecting /\ gcstate = "enterfin"
  /\ SweepOne(At(finobj, sweepfin)) /\ sweepfin' = Beyond(finobj, sweepfin)
  /\ IF sweepfin' = Start THEN UNCHANGED <<gcstate, sweepgc>>
     ELSE gcstate' = "enterall" /\ sweepgc' = Start
  /\ UNCHANGED <<tobefnz, grays, profile, owed>>
  /\ UNCHANGED <<currentwhite, gckind, sweepstr, pending, goal, kind0>>

EnterAll ==
  /\ Collecting /\ gcstate = "enterall"
  /\ SweepOne(At(allgc, sweepgc)) /\ sweepgc' = Beyond(allgc, sweepgc)
  /\ IF sweepgc' = Start THEN UNCHANGED <<gcstate, sweepstr>>
     ELSE gcstate' = "sweepstring" /\ sweepstr' = {o \in Live : type[o] = "string"}
  /\ UNCHANGED <<tobefnz, grays, profile, owed>>
  /\ UNCHANGED <<currentwhite, gckind, sweepfin, pending, goal, kind0>>

SweepString ==
  /\ Collecting /\ gcstate = "sweepstring"
  /\ \/ \E o \in sweepstr : SweepOne(o) /\ sweepstr' = sweepstr \ {o} /\ UNCHANGED gcstate
     \/ /\ sweepstr = {} /\ gcstate' = "sweepudata"
        /\ UNCHANGED <<object, allgc, finobj, finalized, sweepstr>>
  /\ UNCHANGED <<tobefnz, grays, profile, owed>>
  /\ UNCHANGED <<currentwhite, gckind, sweepgc, sweepfin, pending, goal, kind0>>

SweepUdata ==
  /\ Collecting /\ gcstate = "sweepudata"
  /\ IF sweepfin = None
     THEN /\ gcstate' = "sweep"
          /\ UNCHANGED <<object, allgc, finobj, finalized, sweepfin>>
     ELSE /\ SweepOne(At(finobj, sweepfin)) /\ sweepfin' = Beyond(finobj, sweepfin)
          /\ UNCHANGED gcstate
  /\ UNCHANGED <<tobefnz, grays, profile, owed>>
  /\ UNCHANGED <<currentwhite, gckind, sweepgc, sweepstr, pending, goal, kind0>>

(* Also done at once when the object at the pointer gets a finalizer.      *)
Sweep ==
  /\ \/ Collecting /\ gcstate = "sweep"
     \/ pending # None /\ pending = sweepgc
  /\ sweepgc # None
  /\ SweepOne(At(allgc, sweepgc)) /\ sweepgc' = Beyond(allgc, sweepgc)
  /\ UNCHANGED <<tobefnz, grays, profile, owed>>
  /\ UNCHANGED <<currentwhite, gcstate, gckind, sweepfin, sweepstr, pending, goal, kind0>>

EndCycle ==
  /\ Collecting /\ gcstate = "sweep" /\ sweepgc = None
  /\ IF gckind = "gen" THEN old' = [old EXCEPT ![Main] = TRUE] /\ UNCHANGED mark
     ELSE mark' = [mark EXCEPT ![Main] = currentwhite] /\ old' = [old EXCEPT ![Main] = FALSE]
  /\ Reaches("pause")
  /\ UNCHANGED <<type, mode, entries, cache, open, lists, grays, duty>>
  /\ UNCHANGED <<currentwhite, sweepgc, sweepfin, sweepstr, pending, kind0>>

-----------------------------------------------------------------------------
(* Collections that run alone, from their beginning to their end.          *)

EnterSweep == gcstate' = "enterfin" /\ sweepfin' = Start

(* Mutant: a full collection goes on from what was marked before.          *)
StartFullMarked ==
  /\ Running /\ profile.full
  /\ kind0' = gckind /\ gckind' = "normal"
  /\ goal' = IF gcstate = "propagate" THEN "collect" ELSE "finish"
  /\ UNCHANGED <<object, lists, grays, duty>>
  /\ UNCHANGED <<currentwhite, gcstate, sweepgc, sweepfin, sweepstr, pending>>

(* A full collection, also one for want of memory in any mode: what may be *)
(* black is swept first, without freeing anything.                         *)
StartFull ==
  /\ Running /\ profile.full
  /\ kind0' = gckind /\ gckind' = "normal" /\ goal' = "finish"
  /\ IF KeepInvariant THEN EnterSweep ELSE UNCHANGED <<gcstate, sweepfin>>
  /\ UNCHANGED <<object, lists, grays, duty>>
  /\ UNCHANGED <<currentwhite, sweepgc, sweepstr, pending>>

(* A collection of the young objects.                                      *)
StartMinor ==
  /\ Running /\ gckind = "gen" /\ goal' = "minor"
  /\ UNCHANGED <<object, lists, grays, duty>>
  /\ UNCHANGED <<currentwhite, gcstate, gckind, sweepgc, sweepfin, sweepstr, pending, kind0>>

ToGenerational ==
  /\ Running /\ profile.generational /\ gckind = "normal"
  /\ IF gcstate = "propagate" THEN gckind' = "gen" /\ UNCHANGED goal
     ELSE goal' = "togen" /\ UNCHANGED gckind
  /\ UNCHANGED <<object, lists, grays, duty>>
  /\ UNCHANGED <<currentwhite, gcstate, sweepgc, sweepfin, sweepstr, pending, kind0>>

ToIncremental ==
  /\ Running /\ gckind = "gen"
  /\ gckind' = "normal" /\ goal' = "whiten" /\ EnterSweep
  /\ UNCHANGED <<object, lists, grays, duty>>
  /\ UNCHANGED <<currentwhite, sweepgc, sweepstr, pending, kind0>>

(* The program ends: every finalizer is called, in order, and all is freed.*)
Close ==
  /\ Running /\ profile.finalizers /\ goal' = "close"
  /\ tobefnz' = tobefnz \o finobj /\ finobj' = <<>>
  /\ finalized' = finalized \cup Elems(finobj)
  /\ UNCHANGED <<object, allgc, grays, profile, owed>>
  /\ UNCHANGED <<currentwhite, gcstate, gckind, sweepgc, sweepfin, sweepstr, pending, kind0>>

FreeAll ==
  /\ goal = "close" /\ tobefnz = <<>> /\ goal' = "closed"
  /\ Freed(Obj) /\ allgc' = <<>> /\ entries' = [o \in Node |-> {}]
  /\ open' = [o \in Node |-> None] /\ gckind' = "normal"
  /\ UNCHANGED <<mark, old, finobj, tobefnz, grays, profile, owed>>
  /\ UNCHANGED <<currentwhite, gcstate, sweepgc, sweepfin, sweepstr, pending, kind0>>

-----------------------------------------------------------------------------
Mutate ==
  \/ /\ Running
     /\ \/ \E o \in Obj, t \in profile.types \ {"closure"}, m \in profile.modes : New(o, t, m)
        \/ \E o \in Obj : Intern(o)
        \/ \E o \in Stack :
             \/ Get(o) \/ Pop(o) \/ Clear(o) \/ SetFinalizer(o)
             \/ \E k, v \in Stack \cup {None} : SetTable(o, k, v)
             \/ \E v \in Stack : SetField(o, v) \/ Move(o, v) \/ GetCached(o, v)
             \/ \E v \in Stack, u \in Vals(o) : SetUpval(o, u, v)
             \/ \E u \in Opened(o) : CloseUpvals(o, u)
             \/ /\ "closure" \in profile.types
                /\ \E t \in Stack, c, u \in Obj : NewClosure(o, t, c, u)
  \/ \E o \in Obj : Finalizable(o)
  \/ CallFinalizer

Collect ==
  \/ Restart \/ Atomic \/ \E o \in Node : Propagate(o)
  \/ EnterFin \/ EnterAll \/ SweepString \/ SweepUdata \/ Sweep \/ EndCycle
  \/ StartFull \/ StartMinor \/ ToGenerational \/ ToIncremental \/ Close \/ FreeAll

Next == Mutate \/ Collect
Spec == Init /\ [][Next]_vars

-----------------------------------------------------------------------------
(* What the value of an upvalue, the constants of a prototype, an entry of *)
(* a table lead to.                                                        *)
Leads(o) ==
  (IF open[o] # None THEN Vals(open[o]) ELSE Refs(o)) \cup ({cache[o]} \ {None})

(* What is not dead leads to nothing that is dead or freed, whatever was   *)
(* stored while the collector was under way; and everything has its type.  *)
NoDangling == TypeOK /\ \A o \in Live \ Dead : Leads(o) \subseteq Live \ Dead

(* While marking, and always in the generational mode, a black object      *)
(* refers to no white one, and every gray object is waiting in just one of *)
(* the lists of what is still to be traversed, or is an open upvalue.      *)
TriColor ==
  KeepInvariant /\ gcstate = "propagate" /\ goal # "closed" =>
    /\ \A o \in Live : mark[o] = "black" => (Leads(o) \ {cache[o]}) \cap White = {}
    /\ \A o \in Live : mark[o] = "gray" /\ open[o] = None =>
         Cardinality({i \in 1..5 : o \in grays[i]}) = 1
    /\ \A i \in 1..5 : \A o \in grays[i] : o \in Live /\ mark[o] = "gray"

(* An object with a finalizer is kept until the finalizer was called, and  *)
(* all are called before the program ends.                                 *)
Finalized ==
  /\ owed = Elems(finobj) \cup Elems(tobefnz) /\ Elems(tobefnz) \subseteq finalized
  /\ Elems(finobj) \cap finalized = {}
  /\ owed \subseteq Live
  /\ goal = "closed" => owed = {}

(* A full collection frees all that the program cannot reach: it does not  *)
(* reach through weak references, nor to the value of an ephemeron whose   *)
(* key it does not reach.                                                  *)
Reached == Spread({Main} \cup Elems(tobefnz), {Main} \cup Elems(tobefnz))
FullCollects ==
  [][goal = "collect" /\ goal' # "collect" =>
       \A o \in Live \ Reached :
         type[o] = "string" /\ \E t \in Reached : o \in Refs(t)]_vars


====
