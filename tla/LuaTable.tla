------------------------------ MODULE LuaTable ------------------------------
(***************************************************************************)
(* The tables of the Lua core (ltable.c): an array part and a hash part of *)
(* chained nodes without buckets (Brent's variation), resized when no free *)
(* node is left, with the traversal by next and the binary search of #.    *)
(* Integers stand for all keys: those below Strings are Lua's integers,    *)
(* the others strings, which the collector may let die.  The value stored  *)
(* under a key is told by the key.                                         *)
(***************************************************************************)
EXTENDS Integers, Sequences, FiniteSets, SequencesExt

CONSTANTS
  Nil, Strings,
  Keys,         \* all keys
  Universes,    \* sets of records [keys, hash]: the keys a program uses, the hashes of all
  MaxInt,       \* MAX_INT
  MaxSize       \* bound on the sizes a program asks for

VARIABLES
  prog,         \* the record of Universes
  t,            \* struct Table
  length, cursor, left

vars == <<prog, t, length, cursor, left>>

Invalid == 0                    \* no key: the error of next
IsInt(k) == k # Nil /\ k < Strings
Pow2 == {1, 2, 4, 8, 16}
Ceil2(n) == CHOOSE p \in Pow2 : p >= n /\ \A q \in Pow2 : q >= n => p <= q
Largest(S) == CHOOSE x \in S : \A y \in S : y <= x

(* The node vector: positions 0..size-1; next is -1 at the end of a chain; *)
(* lastfree: every node from it on is taken.  An empty part is the dummy.  *)
Free == [key |-> Nil, dead |-> FALSE, val |-> Nil, next |-> -1]
SetNodeVector(tab, size) ==
  LET n == IF size = 0 THEN 1 ELSE Ceil2(size)
  IN [tab EXCEPT !.node = [i \in 0..n - 1 |-> Free], !.dummy = (size = 0),
                 !.lastfree = IF size = 0 THEN 0 ELSE n]
SizeNode(tab) == Cardinality(DOMAIN tab.node)

MainPosition(tab, k) ==
  LET size == SizeNode(tab)
  IN IF IsInt(k) THEN prog.hash[k] % (IF size = 1 THEN 1 ELSE size - 1) ELSE prog.hash[k] % size

(* The node of a key, -1 when it has none; next also finds a dead key.     *)
RECURSIVE Search(_, _, _, _)
Search(tab, i, k, dead) ==
  IF i = -1 \/ (tab.node[i].key = k /\ (dead \/ ~tab.node[i].dead)) THEN i
  ELSE Search(tab, tab.node[i].next, k, dead)
Node(tab, k, dead) == Search(tab, MainPosition(tab, k), k, dead)
InArray(tab, k) == IsInt(k) /\ k \in 1..Len(tab.array)

Get(tab, k) ==
  IF InArray(tab, k) THEN tab.array[k]
  ELSE LET i == Node(tab, k, FALSE) IN IF i = -1 THEN Nil ELSE tab.node[i].val

---------------------------------------------------------------------------
(* Sizes.  A power of two is good for the array part when more than half   *)
(* of it would be used, and the largest good one is taken (computesizes).  *)
IntKeys(tab) ==
  {k \in DOMAIN tab.array : tab.array[k] # Nil}
    \cup {tab.node[i].key : i \in {j \in DOMAIN tab.node : tab.node[j].val # Nil /\ IsInt(tab.node[j].key)}}
TotalUse(tab) ==
  Cardinality({k \in DOMAIN tab.array : tab.array[k] # Nil})
    + Cardinality({i \in DOMAIN tab.node : tab.node[i].val # Nil})
ComputeSizes(ints) ==
  LET upTo(p) == Cardinality({k \in ints : k \in 1..p})
      good == {p \in Pow2 : /\ p \div 2 < Cardinality({k \in ints : k > 0}) /\ upTo(p) > p \div 2
                            /\ upTo(p) > (IF p = 1 THEN 0 ELSE upTo(p \div 2))}
  IN IF good = {} THEN 0 ELSE Largest(good)

RECURSIVE NewKey(_, _, _)

(* luaH_set and the assignment                                             *)
Put(tab, k, v) ==
  IF InArray(tab, k) THEN [tab EXCEPT !.array[k] = v]
  ELSE LET i == Node(tab, k, FALSE)
       IN IF i # -1 THEN [tab EXCEPT !.node[i].val = v] ELSE NewKey(tab, k, v)

PutAll(tab, pairs) == FoldLeft(LAMBDA x, p : Put(x, p[1], p[2]), tab, pairs)

(* The slice that vanishes when the array part shrinks                     *)
Slice(tab, nasize) ==
  SelectSeq([k \in 1..Len(tab.array) |-> <<k, tab.array[k]>>], LAMBDA p : p[1] > nasize /\ p[2] # Nil)

Resize(tab, nasize, nhsize) ==
  LET sized(n) == [k \in 1..n |-> IF k <= Len(tab.array) THEN tab.array[k] ELSE Nil]
      new == SetNodeVector([tab EXCEPT !.array = sized(nasize)], nhsize)
      size == SizeNode(tab)
      nodes == [i \in 1..size |-> <<tab.node[size - i].key, tab.node[size - i].val>>]
  IN PutAll(new, Slice(tab, nasize) \o SelectSeq(nodes, LAMBDA p : p[2] # Nil))

Rehash(tab, k) ==
  LET ints == IntKeys(tab) \cup (IF IsInt(k) THEN {k} ELSE {})
      nasize == ComputeSizes(ints)
      na == Cardinality({i \in ints : i \in 1..nasize})
  IN Resize(tab, nasize, TotalUse(tab) + 1 - na)

Moved(tab, prev, mp, n, new) ==
  [tab EXCEPT !.lastfree = n, !.node[prev].next = n, !.node[n] = tab.node[mp],
              !.node[mp] = [new EXCEPT !.next = -1]]

(* luaH_newkey: the main position of a new key is taken by a key in its    *)
(* own main position, which stays, or by one that is not, which moves.     *)
NewKey(tab, k, v) ==
  LET mp == MainPosition(tab, k)
      taken == tab.node[mp].val # Nil \/ tab.dummy
      frees == {i \in 0..tab.lastfree - 1 : tab.node[i].key = Nil}
      n == Largest(frees)
      other == MainPosition(tab, tab.node[mp].key)
      prev == CHOOSE i \in DOMAIN tab.node : tab.node[i].next = mp
      new == [key |-> k, dead |-> FALSE, val |-> v, next |-> tab.node[mp].next]
  IN CASE ~taken -> [tab EXCEPT !.node[mp] = new]
       [] taken /\ frees = {} -> Put(Rehash(tab, k), k, v)
       [] taken /\ frees # {} /\ other # mp -> Moved(tab, prev, mp, n, new)
       [] OTHER -> [tab EXCEPT !.lastfree = n, !.node[n] = new, !.node[mp].next = n]

---------------------------------------------------------------------------
(* Traversal: the array part, then the nodes in their order.               *)
Places(tab) == Len(tab.array) + SizeNode(tab)
At(tab, i) == IF i <= Len(tab.array) THEN [key |-> i, val |-> tab.array[i]]
              ELSE tab.node[i - Len(tab.array) - 1]

(* Mutant: a key that died since the last step is not found again.         *)
FindIndexLive(tab, k) ==
  IF k = Nil THEN 0
  ELSE IF InArray(tab, k) THEN k
  ELSE LET i == Node(tab, k, FALSE) IN IF i = -1 THEN -1 ELSE Len(tab.array) + i + 1

(* findindex; -1 for a key that has no place.                              *)
FindIndex(tab, k) ==
  IF k = Nil THEN 0
  ELSE IF InArray(tab, k) THEN k
  ELSE LET i == Node(tab, k, TRUE) IN IF i = -1 THEN -1 ELSE Len(tab.array) + i + 1
After(tab, i) == {j \in i + 1..Places(tab) : At(tab, j).val # Nil}

---------------------------------------------------------------------------
(* The length.                                                             *)
RECURSIVE Halve(_, _, _)
Halve(tab, i, j) ==             \* i is zero or present, j is not
  IF j - i <= 1 THEN i
  ELSE LET m == (i + j) \div 2 IN IF Get(tab, m) = Nil THEN Halve(tab, i, m) ELSE Halve(tab, m, j)
RECURSIVE Linear(_, _)
Linear(tab, i) == IF Get(tab, i) = Nil THEN i - 1 ELSE Linear(tab, i + 1)
RECURSIVE Unbound(_, _, _)
Unbound(tab, i, j) ==
  IF Get(tab, j) = Nil THEN Halve(tab, i, j)
  ELSE IF 2 * j > MaxInt THEN Linear(tab, 1) ELSE Unbound(tab, j, 2 * j)
GetN(tab) ==
  LET j == Len(tab.array)
  IN IF j > 0 /\ tab.array[j] = Nil THEN Halve(tab, 0, j)
     ELSE IF tab.dummy THEN j ELSE Unbound(tab, j, j + 1)

---------------------------------------------------------------------------
Init ==
  /\ prog \in Universes
  /\ \E a, h \in 0..MaxSize :          \* OP_NEWTABLE
       t = Resize([array |-> <<>>, node |-> [i \in {0} |-> Free], dummy |-> TRUE, lastfree |-> 0], a, h)
  /\ length = 0 /\ cursor = Nil /\ left = {}

(* luaV_settable: a key that is not there gets a place even for nil.       *)
Set(k, v) ==
  LET present == Get(t, k) # Nil
  IN /\ t' = Put(t, k, v)
     /\ cursor' = IF present THEN cursor ELSE Nil
     /\ left' = IF ~present THEN {} ELSE IF v = Nil THEN left \ {k} ELSE left
     /\ UNCHANGED <<prog, length>>

Next1 ==
  LET i == FindIndex(t, cursor)
      js == After(t, i)
      k == At(t, CHOOSE j \in js : \A m \in js : j <= m).key
      all == IF cursor = Nil THEN {j \in prog.keys : Get(t, j) # Nil} ELSE left
  IN /\ cursor # Invalid
     /\ IF i = -1 THEN cursor' = Invalid /\ UNCHANGED left
        ELSE IF js = {} THEN cursor' = Nil /\ UNCHANGED left
        ELSE cursor' = k /\ left' = all \ {k}
     /\ UNCHANGED <<prog, t, length>>

Length == length' = GetN(t) /\ UNCHANGED <<prog, t, cursor, left>>

(* OP_SETLIST: room for the items                                          *)
ResizeArray(n) ==
  /\ n > Len(t.array) /\ cursor = Nil
  /\ t' = Resize(t, n, IF t.dummy THEN 0 ELSE SizeNode(t)) /\ UNCHANGED <<prog, length, cursor, left>>

(* The collector marks the key of an empty node as dead (removeentry).     *)
Die(i) ==
  /\ t.node[i].key # Nil /\ ~IsInt(t.node[i].key) /\ t.node[i].val = Nil
  /\ t' = [t EXCEPT !.node[i].dead = TRUE] /\ UNCHANGED <<prog, length, cursor, left>>

Next ==
  \/ \E k \in prog.keys : \E v \in {k, Nil} : Set(k, v)
  \/ Next1 \/ Length
  \/ \E n \in 1..MaxSize : ResizeArray(n)
  \/ \E i \in DOMAIN t.node : Die(i)

Spec == Init /\ [][Next]_vars

---------------------------------------------------------------------------
(* The hash part is sound: chains do not join, a key is met from its       *)
(* main position, once, no node from lastfree on is free, and an           *)
(* integer that has a place in the array part has no other.                *)
Structured ==
  LET used == {i \in DOMAIN t.node : t.node[i].key # Nil}
  IN /\ t.lastfree \in 0..SizeNode(t) /\ length \in 0..MaxInt /\ cursor \in Keys \cup {Nil} /\ left \subseteq Keys
     /\ SizeNode(t) \in Pow2 /\ (t.dummy => used = {})
     /\ \A i \in used :
          /\ t.node[i].dead => t.node[i].val = Nil
          /\ t.node[i].val # Nil => Node(t, t.node[i].key, FALSE) = i /\ ~InArray(t, t.node[i].key)
          /\ \A j \in used : (i # j /\ t.node[i].key = t.node[j].key) => t.node[i].dead \/ t.node[j].dead
     /\ \A i, j \in DOMAIN t.node : t.node[i].next = t.node[j].next => i = j \/ t.node[i].next = -1
     /\ \A i \in DOMAIN t.node : i >= t.lastfree /\ ~t.dummy => t.node[i].next = -1 \/ t.node[i].key # Nil

(* To a program the table is a map: an assignment changes one key and no   *)
(* resizing loses or moves a value, # is a border, and next meets every    *)
(* key that stays once, whatever is assigned to keys that are there and    *)
(* whichever keys die.                                                     *)
Map == INSTANCE LuaMap WITH contents <- [k \in Keys |-> Get(t, k)]
AsMap == Map!MapSpec
=============================================================================
