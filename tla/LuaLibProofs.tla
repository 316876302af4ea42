---------------------------- MODULE LuaLibProofs ----------------------------
(***************************************************************************)
(* Proofs about two parts of the Lua library: table.sort, for all arrays   *)
(* of numbers of any length, and the file handles, for any number of       *)
(* handles, streams and iterators.                                         *)
(***************************************************************************)
EXTENDS LuaSort, LuaFiles, SequenceTheorems, FiniteSetTheorems, TLAPS

(* table.sort: what is kept while it runs.                                 *)
Element == [key : Int, from : Int]
Active == pc \in {"ends", "low", "high", "up", "down"}

TypeInv ==
  /\ a \in Seq(Element) /\ order \in {"less", "any"}
  /\ l \in Int /\ u \in Int /\ i \in Int /\ j \in Int
  /\ rest \in Seq(Int \X Int)
  /\ pc \in {"ends", "low", "high", "up", "down", "done", "error"}

(* Swaps lose and double nothing.                                          *)
Complete == {a[n].from : n \in DOMAIN a} = DOMAIN a

(* The parts left to do lie in the array, apart from each other.           *)
Apart(p, q) == p[2] < q[1] \/ q[2] < p[1]
Within(p, s) == 1 <= p[1] /\ p[2] <= Len(s)
Separate(parts, s) ==
  /\ \A n \in 1..Len(parts) : Within(parts[n], s)
  /\ \A m, n \in 1..Len(parts) : m # n => Apart(parts[m], parts[n])

PartsInv ==
  /\ Separate(rest, a)
  /\ Active => /\ 1 <= l /\ l < u /\ u <= Len(a)
               /\ \A n \in 1..Len(rest) : Apart(<<l, u>>, rest[n])

(* The partition stays between its ends, whatever the comparisons answer.  *)
PlaceInv ==
  /\ pc \in {"low", "high"} => l < i /\ i < u
  /\ pc \in {"up", "down"} => /\ l < i /\ i <= u /\ j < u /\ u - l > 2
                              /\ pc = "up" => l < j
                              /\ pc = "down" => l <= j /\ j < u - 1

(* Answers that follow the order of the keys: what the partition has seen  *)
(* so far is on the right side of the pivot, which is next to the end.     *)
KeyInv ==
  /\ pc \in {"low", "high"} => a[l].key <= a[u].key
  /\ pc = "high" => a[l].key <= a[i].key
  /\ pc \in {"up", "down"} => /\ i < u
                              /\ \A n \in l..i - 1 : a[n].key <= a[u - 1].key
                              /\ \A n \in j + 1..u : a[n].key >= a[u - 1].key
  /\ pc = "up" => a[j].key >= a[u - 1].key
  /\ pc = "down" => a[i].key >= a[u - 1].key

(* Two elements are in order, or in one of the parts left to do.           *)
Among(parts, m, n) == \E k \in 1..Len(parts) : parts[k][1] <= m /\ n <= parts[k][2]
Pending(m, n) == (Active /\ l <= m /\ n <= u) \/ Among(rest, m, n)
OrderInv ==
  /\ pc # "error"
  /\ \A m, n \in 1..Len(a) : m < n => a[m].key <= a[n].key \/ Pending(m, n)
  /\ pc = "done" => rest = <<>>

IInv ==
  /\ TypeInv /\ Complete /\ PartsInv /\ PlaceInv
  /\ order = "less" => KeyInv /\ OrderInv

-----------------------------------------------------------------------------
(* Swaps.                                                                  *)

LEMMA SwapElements ==
  ASSUME NEW s \in Seq(Element), NEW m \in 1..Len(s), NEW n \in 1..Len(s)
  PROVE  /\ Swapped(s, m, n) \in Seq(Element)
         /\ Len(Swapped(s, m, n)) = Len(s)
         /\ DOMAIN Swapped(s, m, n) = DOMAIN s
         /\ DOMAIN s = 1..Len(s)
         /\ \A x \in 1..Len(s) :
              Swapped(s, m, n)[x] = IF x = n THEN s[m] ELSE IF x = m THEN s[n] ELSE s[x]
BY DEF Swapped

(* s has the elements of a: those outside of the part being sorted at      *)
(* their places, those of the part somewhere in it.                        *)
Inner(s) ==
  /\ s \in Seq(Element) /\ Len(s) = Len(a)
  /\ {s[n].from : n \in 1..Len(s)} = 1..Len(s)
  /\ \A x \in 1..Len(s) : IF x \in l..u THEN \E y \in l..u : s[x] = a[y] ELSE s[x] = a[x]

LEMMA ArrayInner ==
  ASSUME TypeInv, Complete
  PROVE  Inner(a)
<1>1. a \in Seq(Element) /\ DOMAIN a = 1..Len(a)
  BY DEF TypeInv
<1>2. {a[n].from : n \in 1..Len(a)} = 1..Len(a)
  BY <1>1, Zenon DEF Complete
<1>3. ASSUME NEW x \in 1..Len(a)
      PROVE  IF x \in l..u THEN \E y \in l..u : a[x] = a[y] ELSE a[x] = a[x]
  OBVIOUS
<1> QED BY <1>1, <1>2, <1>3, ZenonT(40) DEF Inner

LEMMA SwapInner ==
  ASSUME TypeInv, PartsInv, Active, NEW s, Inner(s), NEW m \in l..u, NEW n \in l..u
  PROVE  Inner(Swapped(s, m, n))
<1> DEFINE t == Swapped(s, m, n)
<1>1. s \in Seq(Element) /\ m \in 1..Len(s) /\ n \in 1..Len(s)
  BY DEF TypeInv, PartsInv, Inner
<1>2. /\ t \in Seq(Element) /\ Len(t) = Len(s)
      /\ \A x \in 1..Len(s) : t[x] = IF x = n THEN s[m] ELSE IF x = m THEN s[n] ELSE s[x]
  BY <1>1, SwapElements, ZenonT(60)
<1> HIDE DEF t
<1>3. {t[x].from : x \in 1..Len(t)} = {s[x].from : x \in 1..Len(s)}
  <2>1. ASSUME NEW x \in 1..Len(s) PROVE \E y \in 1..Len(s) : t[x] = s[y]
    BY <1>1, <1>2
  <2>2. ASSUME NEW x \in 1..Len(s) PROVE \E y \in 1..Len(s) : s[x] = t[y]
    <3>1. s[x] = t[IF x = m THEN n ELSE IF x = n THEN m ELSE x]
      BY <1>1, <1>2
    <3> QED BY <3>1, <1>1
  <2>3. Len(t) = Len(s)
    BY <1>2
  <2>4. ASSUME NEW x \in 1..Len(t) PROVE \E y \in 1..Len(s) : t[x].from = s[y].from
    <3>1. PICK y \in 1..Len(s) : t[x] = s[y]
      BY <2>1, <2>3
    <3>2. t[x].from = s[y].from
      BY <3>1, Zenon
    <3> QED BY <3>2
  <2>5. ASSUME NEW x \in 1..Len(s) PROVE \E y \in 1..Len(t) : s[x].from = t[y].from
    <3>1. PICK y \in 1..Len(t) : s[x] = t[y]
      BY <2>2, <2>3
    <3>2. s[x].from = t[y].from
      BY <3>1, Zenon
    <3> QED BY <3>2
  <2>6. ASSUME NEW z \in {t[x].from : x \in 1..Len(t)} PROVE z \in {s[x].from : x \in 1..Len(s)}
    <3>1. PICK x \in 1..Len(t) : z = t[x].from
      BY Zenon
    <3> QED BY <2>4, <3>1, Zenon
  <2>7. ASSUME NEW z \in {s[x].from : x \in 1..Len(s)} PROVE z \in {t[x].from : x \in 1..Len(t)}
    <3>1. PICK x \in 1..Len(s) : z = s[x].from
      BY Zenon
    <3> QED BY <2>5, <3>1, Zenon
  <2> QED BY <2>6, <2>7, Zenon
<1>4. ASSUME NEW x \in 1..Len(s)
      PROVE  IF x \in l..u THEN \E y \in l..u : t[x] = a[y] ELSE t[x] = a[x]
  <2>1. \A y \in 1..Len(s) : IF y \in l..u THEN \E z \in l..u : s[y] = a[z] ELSE s[y] = a[y]
    BY Zenon DEF Inner
  <2>2. t[x] = IF x = n THEN s[m] ELSE IF x = m THEN s[n] ELSE s[x]
    BY <1>2
  <2>3. CASE x = n
    BY <1>1, <2>1, <2>2, <2>3, SMTT(30)
  <2>4. CASE x # n /\ x = m
    BY <1>1, <2>1, <2>2, <2>4, SMTT(30)
  <2>5. CASE x # n /\ x # m
    BY <2>1, <2>2, <2>5, SMTT(30)
  <2> QED BY <2>3, <2>4, <2>5
<1> QED BY <1>2, <1>3, <1>4 DEF Inner, t

(* What is outside of the part keeps its order to what is inside.          *)
LEMMA InnerOrder ==
  ASSUME TypeInv, PartsInv, Active, OrderInv, NEW s, Inner(s),
         NEW m \in 1..Len(s), NEW n \in 1..Len(s), m < n, ~(l <= m /\ n <= u)
  PROVE  s[m].key <= s[n].key \/ Among(rest, m, n)
<1>1. ASSUME NEW x \in 1..Len(a), NEW y \in 1..Len(a), x < y, ~(l <= x /\ y <= u)
      PROVE  a[x].key <= a[y].key \/ Among(rest, x, y)
  BY <1>1 DEF OrderInv, Pending
<1>2. Len(s) = Len(a) /\ Len(a) \in Nat /\ l \in Int /\ u \in Int /\ 1 <= l /\ l < u /\ u <= Len(a)
  BY DEF TypeInv, PartsInv, Inner
<1>3. /\ m \notin l..u => s[m] = a[m]
      /\ n \notin l..u => s[n] = a[n]
  BY DEF Inner
<1>4. ASSUME NEW k \in 1..Len(rest)
      PROVE  /\ rest[k][1] \in Int /\ rest[k][2] \in Int
             /\ u < rest[k][1] \/ rest[k][2] < l
  <2>1. rest[k] \in Int \X Int
    BY DEF TypeInv
  <2>2. Apart(<<l, u>>, rest[k])
    BY DEF PartsInv
  <2> QED BY <2>1, <2>2 DEF Apart
<1>5. CASE m \notin l..u /\ n \notin l..u
  BY <1>1, <1>2, <1>3, <1>5
<1>6. CASE m \in l..u
  <2>1. PICK y \in l..u : s[m] = a[y]
    BY <1>6 DEF Inner
  <2>2. n > u /\ s[n] = a[n]
    BY <1>2, <1>3, <1>6
  <2>3. ~Among(rest, y, n)
    BY <1>2, <1>4, <2>2, SMTT(30) DEF Among
  <2> QED BY <1>1, <1>2, <2>1, <2>2, <2>3
<1>7. CASE m \notin l..u /\ n \in l..u
  <2>1. PICK y \in l..u : s[n] = a[y]
    BY <1>7 DEF Inner
  <2>2. m < l /\ s[m] = a[m]
    BY <1>2, <1>3, <1>7
  <2>3. ~Among(rest, m, y)
    BY <1>2, <1>4, <2>2, SMTT(30) DEF Among
  <2> QED BY <1>1, <1>2, <2>1, <2>2, <2>3
<1> QED BY <1>5, <1>6, <1>7

-----------------------------------------------------------------------------
(* What a step that ends the part, or goes on in it, has to show.          *)

LEMMA Suffix ==
  ASSUME NEW T, NEW s \in Seq(T), NEW n \in 1..Len(s)
  PROVE  /\ SubSeq(s, n + 1, Len(s)) \in Seq(T)
         /\ Len(SubSeq(s, n + 1, Len(s))) = Len(s) - n
         /\ \A k \in 1..Len(s) - n : SubSeq(s, n + 1, Len(s))[k] = s[n + k]
<1>1. n + 1 \in Int /\ Len(s) \in Nat /\ \A x \in n + 1..Len(s) : s[x] \in T
  OBVIOUS
<1>2. /\ SubSeq(s, n + 1, Len(s)) \in Seq(T)
      /\ Len(SubSeq(s, n + 1, Len(s))) = IF n + 1 <= Len(s) THEN Len(s) - (n + 1) + 1 ELSE 0
      /\ \A x \in 1..Len(s) - (n + 1) + 1 : SubSeq(s, n + 1, Len(s))[x] = s[n + 1 + x - 1]
  BY <1>1, SubSeqProperties
<1> QED BY <1>1, <1>2

LEMMA ContinueParts ==
  ASSUME TypeInv, NEW parts \in Seq(Int \X Int), NEW s \in Seq(Element),
         Separate(parts, s), a' = s, Continue(parts)
  PROVE  /\ l' \in Int /\ u' \in Int /\ rest' \in Seq(Int \X Int) /\ pc' \in {"ends", "done"}
         /\ PartsInv'
         /\ pc' = "done" => rest' = <<>>
         /\ \A m, n \in Int : m < n /\ Among(parts, m, n) => Pending(m, n)'
<1>1. DOMAIN parts = 1..Len(parts) /\ Len(parts) \in Nat
  OBVIOUS
<1>2. ASSUME NEW k \in 1..Len(parts)
      PROVE  /\ parts[k] = <<parts[k][1], parts[k][2]>> /\ parts[k][1] \in Int /\ parts[k][2] \in Int
             /\ 1 <= parts[k][1] /\ parts[k][2] <= Len(s)
  <2>1. parts[k] \in Int \X Int
    OBVIOUS
  <2> QED BY <2>1 DEF Separate, Within
<1>3. CASE \A n \in DOMAIN parts : ~Long(parts[n])
  <2>1. pc' = "done" /\ rest' = <<>> /\ l' = l /\ u' = u
    BY <1>3, <1>1 DEF Continue
  <2>2. PartsInv'
    BY <2>1 DEF PartsInv, Separate, Active
  <2>3. ASSUME NEW m \in Int, NEW n \in Int, m < n, Among(parts, m, n) PROVE FALSE
    <3>1. PICK k \in 1..Len(parts) : parts[k][1] <= m /\ n <= parts[k][2]
      BY <2>3 DEF Among
    <3>2. ~(parts[k][1] < parts[k][2])
      BY <1>1, <1>3 DEF Long
    <3>3. parts[k][1] \in Int /\ parts[k][2] \in Int
      BY <1>2
    <3> QED BY <2>3, <3>1, <3>2, <3>3
  <2> QED BY <2>1, <2>2, <2>3 DEF TypeInv
<1>4. CASE \E n \in DOMAIN parts : Long(parts[n])
  <2>1. PICK n \in 1..Len(parts) :
          /\ Long(parts[n]) /\ \A m \in 1..n - 1 : ~Long(parts[m])
          /\ pc' = "ends" /\ l' = parts[n][1] /\ u' = parts[n][2]
          /\ rest' = SubSeq(parts, n + 1, Len(parts))
    BY <1>1, <1>4 DEF Continue
  <2>2. /\ rest' \in Seq(Int \X Int) /\ Len(rest') = Len(parts) - n
        /\ \A k \in 1..Len(parts) - n : rest'[k] = parts[n + k]
    BY <2>1, Suffix
  <2>3. Separate(rest', s)
    <3>1. ASSUME NEW k \in 1..Len(rest') PROVE Within(rest'[k], s)
      BY <1>1, <2>2 DEF Separate
    <3>2. ASSUME NEW k \in 1..Len(rest'), NEW m \in 1..Len(rest'), k # m
          PROVE  Apart(rest'[k], rest'[m])
      <4>1. n + k \in 1..Len(parts) /\ n + m \in 1..Len(parts) /\ n + k # n + m
        BY <1>1, <2>2, <3>2
      <4>2. Apart(parts[n + k], parts[n + m])
        BY <4>1 DEF Separate
      <4>3. rest'[k] = parts[n + k] /\ rest'[m] = parts[n + m]
        BY <2>2, <3>2
      <4> QED BY <4>2, <4>3
    <3> QED BY <3>1, <3>2 DEF Separate
  <2>4. ASSUME NEW k \in 1..Len(rest') PROVE Apart(<<l', u'>>, rest'[k])
    <3> DEFINE x == n + k
    <3>1. k \in 1..Len(parts) - n /\ rest'[k] = parts[x]
      BY <2>2
    <3>4. n \in Int /\ k \in Int /\ Len(parts) \in Int /\ 1 <= n /\ 1 <= k /\ k <= Len(parts) - n
      BY <1>1, <3>1
    <3>3. x \in 1..Len(parts) /\ n < x
      BY <3>4
    <3> HIDE DEF x
    <3>2. Apart(parts[n], parts[x])
      BY <1>1, <3>3 DEF Separate
    <3> QED BY <1>2, <2>1, <3>1, <3>2, <3>3
  <2>5. 1 <= l' /\ l' < u' /\ u' <= Len(s)
    BY <1>2, <2>1 DEF Long
  <2>6. ASSUME NEW m \in Int, NEW x \in Int, m < x, Among(parts, m, x)
        PROVE  Pending(m, x)'
    <3>1. PICK k \in 1..Len(parts) : parts[k][1] <= m /\ x <= parts[k][2]
      BY <2>6 DEF Among
    <3>2. k >= n
      BY <1>1, <1>2, <2>1, <2>6, <3>1, SMTT(30) DEF Long
    <3>3. CASE k = n
      BY <2>1, <3>1, <3>3 DEF Pending, Active
    <3>4. CASE k > n
      <4>0. n \in Int /\ k \in Int /\ Len(parts) \in Int /\ k <= Len(parts) /\ n < k
        BY <1>1, <3>4
      <4>1. k - n \in 1..Len(rest') /\ n + (k - n) = k
        <5>1. Len(rest') = Len(parts) - n
          BY <2>2
        <5> QED BY <4>0, <5>1
      <4>2. rest'[k - n] = parts[k]
        BY <2>2, <4>1
      <4> QED BY <3>1, <4>1, <4>2 DEF Pending, Among
    <3> QED BY <3>2, <3>3, <3>4
  <2>7. PartsInv'
    BY <2>3, <2>4, <2>5, a' = s DEF PartsInv, Separate, Within
  <2> QED BY <1>2, <2>1, <2>2, <2>6, <2>7
<1> QED BY <1>3, <1>4

(* The step ends the part: what is inside is in order, or in one of parts. *)
LEMMA PartDone ==
  ASSUME IInv, NEW s, Inner(s), a' = s, order' = order, i' \in Int, j' \in Int,
         NEW parts \in Seq(Int \X Int), Separate(parts, s), Continue(parts),
         order = "less" => \A m, n \in 1..Len(s) : m < n => s[m].key <= s[n].key \/ Among(parts, m, n)
  PROVE  IInv'
<1> USE DEF IInv
<1>1. s \in Seq(Element) /\ Len(s) \in Nat /\ DOMAIN s = 1..Len(s) /\ {s[n].from : n \in 1..Len(s)} = 1..Len(s)
  BY DEF Inner
<1>2. /\ l' \in Int /\ u' \in Int /\ rest' \in Seq(Int \X Int) /\ pc' \in {"ends", "done"}
      /\ PartsInv'
      /\ pc' = "done" => rest' = <<>>
      /\ \A m, n \in Int : m < n /\ Among(parts, m, n) => Pending(m, n)'
  BY <1>1, ContinueParts
<1>3. TypeInv'
  BY <1>1, <1>2 DEF TypeInv
<1>4. Complete'
  BY <1>1, Zenon DEF Complete
<1>5. PlaceInv' /\ KeyInv'
  BY <1>2 DEF PlaceInv, KeyInv
<1>6. ASSUME order = "less" PROVE OrderInv'
  <2>1. ASSUME NEW m \in 1..Len(s), NEW n \in 1..Len(s), m < n
        PROVE  s[m].key <= s[n].key \/ Pending(m, n)'
    <3>1. m \in Int /\ n \in Int
      BY <1>1
    <3> QED BY <1>2, <1>6, <2>1, <3>1
  <2> QED BY <1>2, <2>1 DEF OrderInv
<1> QED BY <1>2, <1>3, <1>4, <1>5, <1>6

(* The step goes on in the part.                                           *)
LEMMA PartKept ==
  ASSUME IInv, NEW s, Inner(s), a' = s, UNCHANGED <<order, l, u, rest>>, i' \in Int, j' \in Int,
         Active, pc' \in {"low", "high", "up", "down"}, PlaceInv', order = "less" => KeyInv'
  PROVE  IInv'
<1> USE DEF IInv
<1>1. s \in Seq(Element) /\ Len(s) = Len(a) /\ DOMAIN s = 1..Len(s) /\ {s[n].from : n \in 1..Len(s)} = 1..Len(s)
  BY DEF Inner
<1>2. TypeInv'
  BY <1>1 DEF TypeInv
<1>3. Complete'
  BY <1>1, Zenon DEF Complete
<1>4. PartsInv'
  BY <1>1 DEF PartsInv, Separate, Within, Active
<1>5. ASSUME order = "less" PROVE OrderInv'
  <2>1. ASSUME NEW m \in 1..Len(s), NEW n \in 1..Len(s), m < n
        PROVE  s[m].key <= s[n].key \/ (l <= m /\ n <= u) \/ Among(rest, m, n)
    BY <1>5, <2>1, InnerOrder
  <2>2. Among(rest, 1, 1)' <=> Among(rest', 1, 1)
    BY DEF Among
  <2> QED BY <1>1, <2>1 DEF OrderInv, Pending, Among, Active
<1> QED BY <1>2, <1>3, <1>4, <1>5

-----------------------------------------------------------------------------
(* The steps.                                                              *)

LEMMA Bounds ==
  ASSUME IInv, Active
  PROVE  /\ a \in Seq(Element) /\ Len(a) \in Nat
         /\ l \in Int /\ u \in Int /\ i \in Int /\ j \in Int
         /\ 1 <= l /\ l < u /\ u <= Len(a)
         /\ rest \in Seq(Int \X Int) /\ Separate(rest, a)
         /\ TypeInv /\ PartsInv /\ Inner(a)
<1>1. TypeInv /\ Complete /\ PartsInv
  BY DEF IInv
<1>2. Inner(a)
  BY <1>1, ArrayInner
<1>3. a \in Seq(Element) /\ l \in Int /\ u \in Int /\ i \in Int /\ j \in Int /\ rest \in Seq(Int \X Int)
  BY <1>1 DEF TypeInv
<1>4. 1 <= l /\ l < u /\ u <= Len(a) /\ Separate(rest, a)
  BY <1>1 DEF PartsInv
<1>5. Len(a) \in Nat
  BY <1>3
<1> QED BY <1>1, <1>2, <1>3, <1>4, <1>5

LEMMA Half ==
  ASSUME NEW x \in Int, NEW y \in Int, x + 2 <= y
  PROVE  (x + y) \div 2 \in Int /\ x < (x + y) \div 2 /\ (x + y) \div 2 < y
OBVIOUS

(* A swap that Inner allows, element by element.                           *)
LEMMA SwapIn ==
  ASSUME IInv, Active, NEW s, Inner(s), NEW m \in l..u, NEW n \in l..u
  PROVE  /\ Inner(Swapped(s, m, n))
         /\ s \in Seq(Element) /\ Len(s) = Len(a)
         /\ \A x \in 1..Len(a) :
              Swapped(s, m, n)[x] = IF x = n THEN s[m] ELSE IF x = m THEN s[n] ELSE s[x]
<1>1. s \in Seq(Element) /\ Len(s) = Len(a)
  BY DEF Inner
<1>2. m \in 1..Len(s) /\ n \in 1..Len(s)
  BY <1>1, Bounds
<1> QED BY <1>1, <1>2, Bounds, SwapInner, SwapElements

LEMMA EndsStep ==
  ASSUME IInv, NEW answer \in BOOLEAN, Ends(answer), order' = order
  PROVE  IInv'
<1> DEFINE s == IF answer THEN Swapped(a, l, u) ELSE a
<1>1. Active /\ pc = "ends" /\ a' = s /\ (order = "less" => (answer <=> a[u].key < a[l].key))
  BY DEF Ends, Active, SwapIf, Less
<1>2. Inner(s) /\ (order = "less" => s[l].key <= s[u].key)
  <2>1. l \in l..u /\ u \in l..u /\ l \in 1..Len(a) /\ u \in 1..Len(a) /\ l # u
    BY <1>1, Bounds
  <2>2. a[l] \in Element /\ a[u] \in Element
    BY <1>1, <2>1, Bounds
  <2>3. CASE answer
    <3>1. Inner(s) /\ s[l] = a[u] /\ s[u] = a[l]
      BY <1>1, <2>1, <2>3, Bounds, SwapIn, ZenonT(40)
    <3>2. order = "less" => a[u].key < a[l].key /\ a[u].key \in Int /\ a[l].key \in Int
      BY <1>1, <2>2, <2>3 DEF Element
    <3>3. order = "less" => s[l].key <= s[u].key
      BY <3>1, <3>2
    <3> QED BY <3>1, <3>3
  <2>4. CASE ~answer
    BY <1>1, <2>2, <2>4, Bounds, SMTT(30) DEF Element
  <2> QED BY <2>3, <2>4
<1>3. s \in Seq(Element) /\ Len(s) = Len(a)
  BY <1>2 DEF Inner
<1> HIDE DEF s
<1>4. CASE u - l = 1
  <2>1. Continue(rest) /\ i' = i /\ j' = j
    BY <1>4 DEF Ends
  <2>2. ASSUME order = "less", NEW m \in 1..Len(s), NEW n \in 1..Len(s), m < n
        PROVE  s[m].key <= s[n].key \/ Among(rest, m, n)
    <3>1. CASE l <= m /\ n <= u
      <4>1. m = l /\ n = u
        BY <1>1, <1>3, <1>4, <2>2, <3>1, Bounds
      <4> QED BY <1>2, <2>2, <4>1
    <3>2. CASE ~(l <= m /\ n <= u)
      BY <1>1, <1>2, <2>2, <3>2, Bounds, InnerOrder DEF IInv
    <3> QED BY <3>1, <3>2
  <2>3. Separate(rest, s)
    BY <1>1, <1>3, Bounds DEF Separate, Within
  <2> QED BY <1>1, <1>2, <2>1, <2>2, <2>3, Bounds, PartDone
<1>5. CASE u - l # 1
  <2>1. pc' = "low" /\ i' = Mid /\ UNCHANGED <<l, u, j, rest>>
    BY <1>5 DEF Ends
  <2>2. Mid \in Int /\ l < Mid /\ Mid < u
    <3>1. l + 2 <= u
      BY <1>1, <1>5, Bounds
    <3> QED BY <1>1, <3>1, Bounds, Half DEF Mid
  <2>3. PlaceInv'
    BY <2>1, <2>2 DEF PlaceInv
  <2>4. order = "less" => KeyInv'
    BY <1>1, <1>2, <2>1 DEF KeyInv
  <2> QED BY <1>1, <1>2, <2>1, <2>2, <2>3, <2>4, Bounds, PartKept
<1> QED BY <1>4, <1>5

(* The pivot is in its place: the two elements before it and the one after *)
(* it are, and the partition starts, or the part has no other element.     *)
LEMMA PivotStep ==
  ASSUME IInv, pc \in {"low", "high"}, order' = order, NEW s, Inner(s), Pivot(s),
         order = "less" => s[l].key <= s[i].key /\ s[i].key <= s[u].key
  PROVE  IInv'
<1>1. Active /\ l < i /\ i < u /\ i \in l..u /\ u - 1 \in l..u /\ s \in Seq(Element) /\ Len(s) = Len(a)
  <2>1. Active
    BY DEF Active
  <2>2. l < i /\ i < u
    BY DEF IInv, PlaceInv
  <2> QED BY <2>1, <2>2, Bounds DEF Inner
<1>0. l \in Int /\ u \in Int /\ i \in Int /\ 1 <= l /\ l < u /\ u <= Len(a) /\ Len(a) \in Nat
  BY <1>1, Bounds
<1>2. CASE u - l = 2
  <2>1. a' = s /\ Continue(rest) /\ i' = i /\ j' = j
    BY <1>2 DEF Pivot
  <2>2. ASSUME order = "less", NEW m \in 1..Len(s), NEW n \in 1..Len(s), m < n
        PROVE  s[m].key <= s[n].key \/ Among(rest, m, n)
    <3>1. CASE l <= m /\ n <= u
      <4>1. s[l] \in Element /\ s[i] \in Element /\ s[u] \in Element
        BY <1>1, Bounds
      <4>2. m \in {l, i} /\ n \in {i, u} /\ (m = i => n = u)
        BY <1>1, <1>2, <2>2, <3>1, Bounds, SMTT(30)
      <4>3. s[l].key <= s[u].key
        BY <2>2, <4>1 DEF Element
      <4> QED BY <2>2, <4>2, <4>3
    <3>2. CASE ~(l <= m /\ n <= u)
      BY <1>1, <2>2, <3>2, Bounds, InnerOrder DEF IInv
    <3> QED BY <3>1, <3>2
  <2>3. Separate(rest, s)
    BY <1>1, Bounds DEF Separate, Within
  <2> QED BY <1>1, <2>1, <2>2, <2>3, Bounds, PartDone
<1>3. CASE u - l # 2
  <2> DEFINE t == Swapped(s, i, u - 1)
  <2>1. a' = t /\ pc' = "up" /\ i' = l + 1 /\ j' = u - 1 /\ UNCHANGED <<l, u, rest>>
    BY <1>3 DEF Pivot
  <2>2. /\ Inner(t)
        /\ \A x \in 1..Len(a) : t[x] = IF x = u - 1 THEN s[i] ELSE IF x = i THEN s[u - 1] ELSE s[x]
    <3>1. PICK n \in l..u : n = u - 1
      BY <1>1
    <3> QED BY <1>1, <3>1, SwapIn, SMTT(30)
  <2> HIDE DEF t
  <2>3. u - l > 2
    BY <1>0, <1>1, <1>3
  <2>4. PlaceInv'
    BY <1>1, <2>1, <2>3, Bounds DEF PlaceInv
  <2>5. ASSUME order = "less" PROVE KeyInv'
    <3>1. t[l] = s[l] /\ t[u] = s[u] /\ t[u - 1] = s[i]
      <4>1. /\ l \in 1..Len(a) /\ u \in 1..Len(a) /\ u - 1 \in 1..Len(a)
            /\ l # u - 1 /\ l # i /\ u # i /\ u # u - 1
        BY <1>0, <1>1, <2>3
      <4> QED BY <2>2, <4>1
    <3>2. s[i] \in Element
      BY <1>1, Bounds
    <3>3. t[l].key <= t[u - 1].key /\ t[u - 1].key <= t[u].key /\ t[u - 1].key \in Int /\ t[u].key \in Int
      <4>1. s[u] \in Element
        BY <1>1, Bounds
      <4> QED BY <2>5, <3>1, <3>2, <4>1 DEF Element
    <3>4. \A n \in l'..i' - 1 : n = l
      BY <2>1, Bounds, <1>1
    <3>5. \A n \in j' + 1..u' : n = u
      BY <2>1, Bounds, <1>1
    <3>6. i' < u' /\ u' - 1 = u - 1 /\ j' = u - 1
      BY <2>1, <2>3, Bounds, <1>1
    <3> HIDE DEF t
    <3> QED BY <2>1, <3>3, <3>4, <3>5, <3>6 DEF KeyInv
  <2>6. i' \in Int /\ j' \in Int
    BY <1>1, <2>1, Bounds
  <2> QED BY <1>1, <2>1, <2>2, <2>4, <2>5, <2>6, PartKept
<1> QED BY <1>2, <1>3

LEMMA LowStep ==
  ASSUME IInv, NEW answer \in BOOLEAN, Low(answer), order' = order
  PROVE  IInv'
<1>1. /\ Active /\ pc = "low" /\ l < i /\ i < u /\ (order = "less" => (answer <=> a[i].key < a[l].key))
  BY DEF IInv, PlaceInv, Low, Active, Less
<1>2. /\ l \in l..u /\ i \in l..u /\ l \in 1..Len(a) /\ i \in 1..Len(a) /\ u \in 1..Len(a)
      /\ l # i /\ l # u /\ i # u
  BY <1>1, Bounds
<1>3. a[l] \in Element /\ a[i] \in Element /\ a[u] \in Element
  BY <1>1, <1>2, Bounds
<1>4. order = "less" => a[l].key <= a[u].key
  BY <1>1 DEF IInv, KeyInv
<1>5. CASE answer
  <2> DEFINE s == Swapped(a, i, l)
  <2>1. Pivot(s)
    BY <1>5 DEF Low
  <2>2. Inner(s) /\ s[l] = a[i] /\ s[i] = a[l] /\ s[u] = a[u]
    BY <1>1, <1>2, Bounds, SwapIn
  <2> HIDE DEF s
  <2>3. order = "less" => s[l].key <= s[i].key /\ s[i].key <= s[u].key
    BY <1>1, <1>3, <1>4, <1>5, <2>2 DEF Element
  <2> QED BY <1>1, <2>1, <2>2, <2>3, PivotStep
<1>6. CASE ~answer
  <2>1. pc' = "high" /\ UNCHANGED <<a, l, u, i, j, rest>>
    BY <1>6 DEF Low
  <2>2. PlaceInv'
    BY <1>1, <2>1 DEF PlaceInv
  <2>3. ASSUME order = "less" PROVE KeyInv'
    <3>1. a[l].key <= a[i].key
      BY <1>1, <1>3, <1>6, <2>3 DEF Element
    <3> QED BY <1>4, <2>1, <2>3, <3>1 DEF KeyInv
  <2> QED BY <1>1, <2>1, <2>2, <2>3, Bounds, PartKept
<1> QED BY <1>5, <1>6

LEMMA HighStep ==
  ASSUME IInv, NEW answer \in BOOLEAN, High(answer), order' = order
  PROVE  IInv'
<1> DEFINE s == IF answer THEN Swapped(a, i, u) ELSE a
<1>1. /\ Active /\ pc = "high" /\ l < i /\ i < u /\ (order = "less" => (answer <=> a[u].key < a[i].key))
      /\ Pivot(s)
  BY DEF IInv, PlaceInv, High, Active, Less
<1>2. /\ u \in l..u /\ i \in l..u /\ l \in 1..Len(a) /\ i \in 1..Len(a) /\ u \in 1..Len(a)
      /\ l # i /\ l # u /\ i # u
  BY <1>1, Bounds
<1>3. a[l] \in Element /\ a[i] \in Element /\ a[u] \in Element
  BY <1>1, <1>2, Bounds
<1>4. order = "less" => a[l].key <= a[u].key /\ a[l].key <= a[i].key
  BY <1>1 DEF IInv, KeyInv
<1>5. CASE answer
  <2>1. Inner(s) /\ s[l] = a[l] /\ s[i] = a[u] /\ s[u] = a[i]
    BY <1>1, <1>2, <1>5, Bounds, SwapIn
  <2> HIDE DEF s
  <2>2. order = "less" => s[l].key <= s[i].key /\ s[i].key <= s[u].key
    BY <1>1, <1>3, <1>4, <1>5, <2>1 DEF Element
  <2> QED BY <1>1, <2>1, <2>2, PivotStep
<1>6. CASE ~answer
  <2>1. s = a /\ Inner(s)
    BY <1>1, <1>6, Bounds
  <2> HIDE DEF s
  <2>2. order = "less" => s[l].key <= s[i].key /\ s[i].key <= s[u].key
    BY <1>1, <1>3, <1>4, <1>6, <2>1 DEF Element
  <2> QED BY <1>1, <2>1, <2>2, PivotStep
<1> QED BY <1>5, <1>6

(* A search that leaves the part: only when the answers follow no order.   *)
LEMMA ErrorStep ==
  ASSUME IInv, Active, order # "less", pc' = "error", UNCHANGED <<a, order, l, u, i, j, rest>>
  PROVE  IInv'
<1>1. TypeInv'
  BY DEF IInv, TypeInv
<1>2. Complete'
  BY Zenon DEF IInv, Complete
<1>3. PartsInv' /\ PlaceInv'
  BY DEF IInv, PartsInv, PlaceInv, Separate, Within, Active
<1> QED BY <1>1, <1>2, <1>3 DEF IInv

LEMMA UpStep ==
  ASSUME IInv, NEW answer \in BOOLEAN, Up(answer), order' = order
  PROVE  IInv'
<1>1. /\ Active /\ pc = "up" /\ l < i /\ i <= u /\ l < j /\ j < u /\ u - l > 2
      /\ UNCHANGED <<a, l, u, rest>>
      /\ order = "less" => (answer <=> a[i].key < a[u - 1].key)
  BY DEF IInv, PlaceInv, Up, Active, Less
<1>2. /\ l \in Int /\ u \in Int /\ i \in Int /\ j \in Int /\ Len(a) \in Nat /\ 1 <= l /\ u <= Len(a)
      /\ Inner(a)
  BY <1>1, Bounds
<1>3. a[i].key \in Int /\ a[u - 1].key \in Int
  <2>1. i \in 1..Len(a) /\ u - 1 \in 1..Len(a) /\ a \in Seq(Element)
    BY <1>1, <1>2, Bounds
  <2>2. a[i] \in Element /\ a[u - 1] \in Element
    BY <2>1
  <2> QED BY <2>2 DEF Element
<1>4. ASSUME order = "less"
      PROVE  /\ i < u /\ a[j].key >= a[u - 1].key
             /\ \A n \in l..i - 1 : a[n].key <= a[u - 1].key
             /\ \A n \in j + 1..u : a[n].key >= a[u - 1].key
  BY <1>1, <1>4 DEF IInv, KeyInv
<1>5. CASE ~answer
  <2>1. pc' = "down" /\ j' = j - 1 /\ i' = i
    BY <1>5 DEF Up
  <2>2. PlaceInv'
    BY <1>1, <1>2, <2>1 DEF PlaceInv
  <2>3. ASSUME order = "less" PROVE KeyInv'
    <3>1. a[i].key >= a[u - 1].key
      BY <1>1, <1>3, <1>5, <2>3
    <3>2. \A n \in (j - 1) + 1..u : n = j \/ n \in j + 1..u
      BY <1>2
    <3>3. \A n \in (j - 1) + 1..u : a[n].key >= a[u - 1].key
      BY <1>4, <2>3, <3>2, Zenon
    <3> QED BY <1>1, <1>4, <2>1, <2>3, <3>1, <3>3 DEF KeyInv
  <2>4. i' \in Int /\ j' \in Int
    BY <1>2, <2>1
  <2> QED BY <1>1, <1>2, <2>1, <2>2, <2>3, <2>4, PartKept
<1>6. CASE answer /\ i >= u
  <2>1. order # "less"
    BY <1>2, <1>4, <1>6
  <2>2. pc' = "error" /\ UNCHANGED <<i, j>>
    BY <1>6 DEF Up
  <2> QED BY <1>1, <2>1, <2>2, ErrorStep
<1>7. CASE answer /\ ~(i >= u)
  <2>1. i' = i + 1 /\ UNCHANGED <<j, pc>>
    BY <1>7 DEF Up
  <2>2. PlaceInv'
    BY <1>1, <1>2, <1>7, <2>1 DEF PlaceInv
  <2>3. ASSUME order = "less" PROVE KeyInv'
    <3>1. a[i].key < a[u - 1].key
      BY <1>1, <1>7, <2>3
    <3>2. i # u - 1
      BY <1>3, <3>1
    <3>3. i' < u
      BY <1>2, <1>7, <2>1, <3>2
    <3>4. \A n \in l..i' - 1 : n = i \/ n \in l..i - 1
      BY <1>2, <2>1
    <3>5. a[i].key <= a[u - 1].key
      BY <1>3, <3>1
    <3>6. \A n \in l..i' - 1 : a[n].key <= a[u - 1].key
      BY <1>4, <2>3, <3>4, <3>5, Zenon
    <3> QED BY <1>1, <1>4, <2>1, <2>3, <3>3, <3>6 DEF KeyInv
  <2>4. i' \in Int /\ j' \in Int
    BY <1>2, <2>1
  <2> QED BY <1>1, <1>2, <2>1, <2>2, <2>3, <2>4, PartKept
<1> QED BY <1>5, <1>6, <1>7

(* Two parts in front of the ones left to do.                              *)
LEMMA TwoParts ==
  ASSUME NEW r \in Seq(Int \X Int), NEW p \in Int \X Int, NEW q \in Int \X Int
  PROVE  /\ <<p, q>> \o r \in Seq(Int \X Int) /\ Len(<<p, q>> \o r) = Len(r) + 2
         /\ (<<p, q>> \o r)[1] = p /\ (<<p, q>> \o r)[2] = q
         /\ \A k \in 1..Len(r) : (<<p, q>> \o r)[k + 2] = r[k]
<1>1. <<p, q>> \in Seq(Int \X Int) /\ Len(<<p, q>>) = 2 /\ <<p, q>>[1] = p /\ <<p, q>>[2] = q
  OBVIOUS
<1>2. /\ <<p, q>> \o r \in Seq(Int \X Int) /\ Len(<<p, q>> \o r) = Len(<<p, q>>) + Len(r)
      /\ \A k \in 1..Len(<<p, q>>) + Len(r) :
           (<<p, q>> \o r)[k] = IF k <= Len(<<p, q>>) THEN <<p, q>>[k] ELSE r[k - Len(<<p, q>>)]
  BY <1>1, ConcatProperties
<1> QED BY <1>1, <1>2

(* The halves of a part, in front of the parts left to do.                 *)
AreHalves(p, q, lo, x, up) ==
  (p = <<lo, x - 1>> /\ q = <<x + 1, up>>) \/ (q = <<lo, x - 1>> /\ p = <<x + 1, up>>)
LEMMA Halves ==
  ASSUME NEW s \in Seq(Element), NEW r \in Seq(Int \X Int), Separate(r, s),
         NEW lo \in Int, NEW up \in Int, NEW x \in Int,
         1 <= lo, lo <= x, x <= up, up <= Len(s), \A k \in 1..Len(r) : Apart(<<lo, up>>, r[k]),
         NEW p, NEW q, AreHalves(p, q, lo, x, up)
  PROVE  /\ <<p, q>> \o r \in Seq(Int \X Int)
         /\ Separate(<<p, q>> \o r, s)
         /\ \A m, n \in Int :
              (lo <= m /\ n < x) \/ (x < m /\ n <= up) \/ Among(r, m, n) => Among(<<p, q>> \o r, m, n)
<1> DEFINE parts == <<p, q>> \o r
<1>1. p \in Int \X Int /\ q \in Int \X Int /\ p \in {<<lo, x - 1>>, <<x + 1, up>>} /\ q \in {<<lo, x - 1>>, <<x + 1, up>>}
  <2>1. <<lo, x - 1>> \in Int \X Int /\ <<x + 1, up>> \in Int \X Int
    OBVIOUS
  <2> QED BY <2>1 DEF AreHalves
<1>2. /\ parts \in Seq(Int \X Int) /\ Len(parts) = Len(r) + 2 /\ parts[1] = p /\ parts[2] = q
      /\ \A k \in 1..Len(r) : parts[k + 2] = r[k]
  BY <1>1, TwoParts
<1> HIDE DEF parts
<1>3. Len(r) \in Nat /\ Len(s) \in Nat
  OBVIOUS
<1>4. ASSUME NEW k \in 1..Len(parts)
      PROVE  k = 1 \/ k = 2 \/ (k - 2 \in 1..Len(r) /\ parts[k] = r[k - 2])
  <2>1. k - 2 \in 1..Len(r) => parts[(k - 2) + 2] = r[k - 2]
    BY <1>2
  <2> QED BY <1>2, <1>3, <2>1
<1>5. Within(p, s) /\ Within(q, s)
  BY <1>1, <1>3 DEF Within
<1>6. Apart(p, q) /\ Apart(q, p)
  BY DEF Apart, AreHalves
<1>7. ASSUME NEW k \in 1..Len(r) PROVE Apart(p, r[k]) /\ Apart(q, r[k]) /\ Apart(r[k], p) /\ Apart(r[k], q)
  <2>1. r[k] \in Int \X Int
    OBVIOUS
  <2>2. Apart(<<lo, up>>, r[k])
    OBVIOUS
  <2>3. r[k][1] \in Int /\ r[k][2] \in Int /\ (up < r[k][1] \/ r[k][2] < lo)
    BY <2>1, <2>2 DEF Apart
  <2>4. ASSUME NEW t \in {<<lo, x - 1>>, <<x + 1, up>>} PROVE Apart(t, r[k]) /\ Apart(r[k], t)
    BY <2>3 DEF Apart
  <2> QED BY <1>1, <2>4
<1>8. Separate(parts, s)
  <2>1. ASSUME NEW k \in 1..Len(parts) PROVE Within(parts[k], s)
    <3>1. CASE k \in {1, 2}
      BY <1>2, <1>5, <3>1
    <3>2. CASE k - 2 \in 1..Len(r) /\ parts[k] = r[k - 2]
      BY <3>2 DEF Separate
    <3> QED BY <1>4, <3>1, <3>2
  <2>2. ASSUME NEW k \in 1..Len(parts), NEW m \in 1..Len(parts), k # m
        PROVE  Apart(parts[k], parts[m])
    <3>1. CASE k \in {1, 2} /\ m \in {1, 2}
      <4>1. (k = 1 /\ m = 2) \/ (k = 2 /\ m = 1)
        BY <2>2, <3>1
      <4> QED BY <1>2, <1>6, <4>1, Zenon
    <3>2. CASE k \in {1, 2} /\ m - 2 \in 1..Len(r) /\ parts[m] = r[m - 2]
      BY <1>2, <1>7, <3>2
    <3>3. CASE m \in {1, 2} /\ k - 2 \in 1..Len(r) /\ parts[k] = r[k - 2]
      BY <1>2, <1>7, <3>3
    <3>4. CASE k - 2 \in 1..Len(r) /\ parts[k] = r[k - 2] /\ m - 2 \in 1..Len(r) /\ parts[m] = r[m - 2]
      <4>1. k - 2 # m - 2
        BY <1>2, <1>3, <2>2
      <4>2. Apart(r[k - 2], r[m - 2])
        BY <3>4, <4>1 DEF Separate
      <4> QED BY <3>4, <4>2
    <3> QED BY <1>4, <3>1, <3>2, <3>3, <3>4
  <2> QED BY <2>1, <2>2 DEF Separate
<1>9. ASSUME NEW m \in Int, NEW n \in Int, (lo <= m /\ n < x) \/ (x < m /\ n <= up) \/ Among(r, m, n)
      PROVE  Among(parts, m, n)
  <2>1. 1 \in 1..Len(parts) /\ 2 \in 1..Len(parts)
    BY <1>2, <1>3
  <2>2. CASE lo <= m /\ n < x
    <3>1. parts[1] = <<lo, x - 1>> \/ parts[2] = <<lo, x - 1>>
      BY <1>2, Zenon DEF AreHalves
    <3>2. n <= x - 1
      BY <2>2
    <3>3. ASSUME NEW k \in {1, 2}, parts[k] = <<lo, x - 1>> PROVE Among(parts, m, n)
      <4>1. parts[k][1] = lo /\ parts[k][2] = x - 1
        BY <3>3
      <4> QED BY <2>1, <2>2, <3>2, <4>1 DEF Among
    <3> QED BY <3>1, <3>3
  <2>3. CASE x < m /\ n <= up
    <3>1. parts[1] = <<x + 1, up>> \/ parts[2] = <<x + 1, up>>
      BY <1>2, Zenon DEF AreHalves
    <3>2. x + 1 <= m
      BY <2>3
    <3>3. ASSUME NEW k \in {1, 2}, parts[k] = <<x + 1, up>> PROVE Among(parts, m, n)
      <4>1. parts[k][1] = x + 1 /\ parts[k][2] = up
        BY <3>3
      <4> QED BY <2>1, <2>3, <3>2, <4>1 DEF Among
    <3> QED BY <3>1, <3>3
  <2>4. CASE Among(r, m, n)
    <3>1. PICK k \in 1..Len(r) : r[k][1] <= m /\ n <= r[k][2]
      BY <2>4 DEF Among
    <3>2. k + 2 \in 1..Len(parts) /\ parts[k + 2] = r[k]
      BY <1>2, <1>3
    <3> QED BY <3>1, <3>2 DEF Among
  <2> QED BY <1>9, <2>2, <2>3, <2>4
<1> QED BY <1>2, <1>8, <1>9 DEF parts

(* The partition is over: the pivot comes between the two halves.          *)
LEMMA PartitionedStep ==
  ASSUME IInv, pc = "down", j < i, order' = order, Partitioned
  PROVE  IInv'
<1>1. /\ Active /\ l < i /\ i <= u /\ l <= j /\ j < u - 1 /\ u - l > 2
  BY DEF IInv, PlaceInv, Active
<1>2. /\ l \in Int /\ u \in Int /\ i \in Int /\ j \in Int /\ Len(a) \in Nat /\ 1 <= l /\ u <= Len(a)
      /\ Inner(a) /\ rest \in Seq(Int \X Int) /\ Separate(rest, a)
  BY <1>1, Bounds
<1> DEFINE s == Swapped(a, u - 1, i)
<1>3. /\ Inner(s)
      /\ \A x \in 1..Len(a) : s[x] = IF x = i THEN a[u - 1] ELSE IF x = u - 1 THEN a[i] ELSE a[x]
  <2>1. PICK n \in l..u : n = u - 1
    BY <1>1, <1>2
  <2>2. i \in l..u
    BY <1>1, <1>2
  <2> QED BY <1>1, <1>2, <2>1, <2>2, SwapIn
<1>4. s \in Seq(Element) /\ Len(s) = Len(a)
  BY <1>3 DEF Inner
<1> DEFINE p == IF i - l < u - i THEN <<l, i - 1>> ELSE <<i + 1, u>>
           q == IF i - l < u - i THEN <<i + 1, u>> ELSE <<l, i - 1>>
           parts == <<p, q>> \o rest
<1>5. a' = s /\ Continue(parts) /\ i' = i /\ j' = j
  BY DEF Partitioned, Lower
<1> HIDE DEF s
<1>6. /\ parts \in Seq(Int \X Int) /\ Separate(parts, s)
      /\ \A m, n \in Int : (l <= m /\ n < i) \/ (i < m /\ n <= u) \/ Among(rest, m, n) => Among(parts, m, n)
  <2>1. AreHalves(p, q, l, i, u)
    BY DEF AreHalves
  <2>2. \A k \in 1..Len(rest) : Apart(<<l, u>>, rest[k])
    BY <1>1 DEF IInv, PartsInv
  <2>3. Separate(rest, s)
    BY <1>2, <1>4 DEF Separate, Within
  <2>4. l <= i /\ i <= u /\ 1 <= l /\ u <= Len(s)
    BY <1>1, <1>2, <1>4
  <2>5. ASSUME NEW p1, NEW q1, AreHalves(p1, q1, l, i, u)
        PROVE  /\ <<p1, q1>> \o rest \in Seq(Int \X Int) /\ Separate(<<p1, q1>> \o rest, s)
               /\ \A m, n \in Int :
                    (l <= m /\ n < i) \/ (i < m /\ n <= u) \/ Among(rest, m, n) => Among(<<p1, q1>> \o rest, m, n)
    BY <1>2, <1>4, <2>2, <2>3, <2>4, <2>5, Halves
  <2> HIDE DEF p, q
  <2> QED BY <2>1, <2>5
<1> HIDE DEF p, q, parts
<1>7. ASSUME order = "less", NEW m \in 1..Len(s), NEW n \in 1..Len(s), m < n
      PROVE  s[m].key <= s[n].key \/ Among(parts, m, n)
  <2>0. m \in Int /\ n \in Int
    OBVIOUS
  <2>1. CASE ~(l <= m /\ n <= u)
    <3>1. s[m].key <= s[n].key \/ Among(rest, m, n)
      BY <1>1, <1>3, <1>7, <2>1, Bounds, InnerOrder DEF IInv
    <3> QED BY <1>6, <2>0, <3>1
  <2>2. CASE l <= m /\ n <= u /\ (n < i \/ i < m)
    BY <1>6, <2>0, <2>2
  <2>3. CASE l <= m /\ n <= u /\ m <= i /\ i <= n
    <3>1. /\ i < u /\ a[i].key >= a[u - 1].key
          /\ \A x \in l..i - 1 : a[x].key <= a[u - 1].key
          /\ \A x \in j + 1..u : a[x].key >= a[u - 1].key
      BY <1>7 DEF IInv, KeyInv
    <3>2. s[i] = a[u - 1] /\ u - 1 \in 1..Len(a) /\ i \in 1..Len(a)
      BY <1>1, <1>2, <1>3
    <3>3. \A x \in 1..Len(a) : a[x].key \in Int
      <4>1. \A x \in 1..Len(a) : a[x] \in Element
        BY <1>1, Bounds
      <4> QED BY <4>1 DEF Element
    <3>4. s[m].key <= s[i].key
      <4>1. CASE m = i
        BY <3>2, <3>3, <4>1
      <4>2. CASE m < i
        <5>1. s[m] = a[m] /\ m \in l..i - 1
          BY <1>1, <1>2, <1>3, <1>4, <2>3, <3>1, <4>2
        <5> QED BY <3>1, <3>2, <5>1
      <4> QED BY <1>2, <2>0, <2>3, <4>1, <4>2
    <3>5. s[i].key <= s[n].key
      <4>1. CASE n = i
        BY <3>2, <3>3, <4>1
      <4>2. CASE i < n /\ n = u - 1
        <5>1. s[n] = a[i]
          BY <1>3, <1>4, <4>2
        <5> QED BY <3>1, <3>2, <3>3, <5>1
      <4>3. CASE i < n /\ n # u - 1
        <5>1. s[n] = a[n] /\ n \in j + 1..u
          BY <1>1, <1>2, <1>3, <1>4, <2>3, <4>3, j < i
        <5>2. a[n].key >= a[u - 1].key /\ a[n].key \in Int
          BY <1>4, <3>1, <3>3, <5>1
        <5> QED BY <3>2, <3>3, <5>1, <5>2
      <4> QED BY <1>2, <2>0, <2>3, <4>1, <4>2, <4>3
    <3>6. s[m].key \in Int /\ s[n].key \in Int /\ s[i].key \in Int
      <4>1. s[m] \in Element /\ s[n] \in Element /\ s[i] \in Element
        BY <1>4, <3>2
      <4> QED BY <4>1 DEF Element
    <3> QED BY <3>4, <3>5, <3>6
  <2> QED BY <1>2, <2>0, <2>1, <2>2, <2>3
<1> QED BY <1>2, <1>3, <1>5, <1>6, <1>7, PartDone

LEMMA DownStep ==
  ASSUME IInv, NEW answer \in BOOLEAN, Down(answer), order' = order
  PROVE  IInv'
<1>1. /\ Active /\ pc = "down" /\ l < i /\ i <= u /\ l <= j /\ j < u - 1 /\ u - l > 2
      /\ order = "less" => (answer <=> a[u - 1].key < a[j].key)
  BY DEF IInv, PlaceInv, Down, Active, Less
<1>2. /\ l \in Int /\ u \in Int /\ i \in Int /\ j \in Int /\ Len(a) \in Nat /\ 1 <= l /\ u <= Len(a)
      /\ Inner(a)
  BY <1>1, Bounds
<1>3. a[j].key \in Int /\ a[u - 1].key \in Int /\ a[l].key \in Int
  <2>1. j \in 1..Len(a) /\ u - 1 \in 1..Len(a) /\ l \in 1..Len(a) /\ a \in Seq(Element)
    BY <1>1, <1>2, Bounds
  <2>2. a[j] \in Element /\ a[u - 1] \in Element /\ a[l] \in Element
    BY <2>1
  <2> QED BY <2>2 DEF Element
<1>4. ASSUME order = "less"
      PROVE  /\ i < u /\ a[i].key >= a[u - 1].key
             /\ \A n \in l..i - 1 : a[n].key <= a[u - 1].key
             /\ \A n \in j + 1..u : a[n].key >= a[u - 1].key
  BY <1>1, <1>4 DEF IInv, KeyInv
<1>5. CASE answer /\ j <= l
  <2>1. order # "less"
    <3>1. l \in l..i - 1 /\ j = l
      BY <1>1, <1>2, <1>5
    <3> QED BY <1>1, <1>3, <1>4, <1>5, <3>1
  <2>2. pc' = "error" /\ UNCHANGED <<a, l, u, i, j, rest>>
    BY <1>5 DEF Down
  <2> QED BY <1>1, <2>1, <2>2, ErrorStep
<1>6. CASE answer /\ ~(j <= l)
  <2>1. j' = j - 1 /\ UNCHANGED <<pc, a, l, u, i, rest>>
    BY <1>6 DEF Down
  <2>2. PlaceInv'
    BY <1>1, <1>2, <1>6, <2>1 DEF PlaceInv
  <2>3. ASSUME order = "less" PROVE KeyInv'
    <3>1. a[j].key >= a[u - 1].key
      BY <1>1, <1>3, <1>6, <2>3
    <3>2. \A n \in (j - 1) + 1..u : n = j \/ n \in j + 1..u
      BY <1>2
    <3>3. \A n \in (j - 1) + 1..u : a[n].key >= a[u - 1].key
      BY <1>4, <2>3, <3>1, <3>2, Zenon
    <3> QED BY <1>1, <1>4, <2>1, <2>3, <3>3 DEF KeyInv
  <2>4. i' \in Int /\ j' \in Int
    BY <1>2, <2>1
  <2> QED BY <1>1, <1>2, <2>1, <2>2, <2>3, <2>4, PartKept
<1>7. CASE ~answer /\ j < i
  BY <1>1, <1>7, PartitionedStep DEF Down
<1>8. CASE ~answer /\ ~(j < i)
  <2> DEFINE s == Swapped(a, i, j)
  <2>1. a' = s /\ pc' = "up" /\ i' = i + 1 /\ UNCHANGED <<l, u, j, rest>>
    BY <1>8 DEF Down
  <2>2. i \in l..u /\ j \in l..u
    BY <1>1, <1>2, <1>8
  <2>3. Inner(s) /\ \A x \in 1..Len(a) : s[x] = IF x = j THEN a[i] ELSE IF x = i THEN a[j] ELSE a[x]
    BY <1>1, <1>2, <2>2, SwapIn
  <2> HIDE DEF s
  <2>4. PlaceInv'
    BY <1>1, <1>2, <1>8, <2>1 DEF PlaceInv
  <2>5. ASSUME order = "less" PROVE KeyInv'
    <3>1. s[u - 1] = a[u - 1] /\ s[i] = a[j] /\ s[j] = a[i]
      BY <1>1, <1>2, <1>8, <2>2, <2>3
    <3>2. a[j].key <= a[u - 1].key
      BY <1>1, <1>3, <1>8, <2>5
    <3>3. ASSUME NEW n \in l..i PROVE s[n].key <= s[u - 1].key
      <4>1. CASE n = i
        BY <3>1, <3>2, <4>1
      <4>2. CASE n # i
        <5>1. n \in l..i - 1 /\ s[n] = a[n]
          BY <1>1, <1>2, <1>8, <2>3, <4>2
        <5> QED BY <1>4, <2>5, <3>1, <5>1
      <4> QED BY <4>1, <4>2
    <3>4. ASSUME NEW n \in j + 1..u PROVE s[n].key >= s[u - 1].key
      <4>1. s[n] = a[n]
        BY <1>1, <1>2, <1>8, <2>3
      <4> QED BY <1>4, <2>5, <3>1, <4>1
    <3>5. l..(i + 1) - 1 = l..i /\ i + 1 < u
      BY <1>1, <1>2, <1>8
    <3>6. s[j].key >= s[u - 1].key
      BY <1>4, <2>5, <3>1
    <3> QED BY <2>1, <3>3, <3>4, <3>5, <3>6 DEF KeyInv
  <2>6. i' \in Int /\ j' \in Int
    BY <1>2, <2>1
  <2> QED BY <1>1, <2>1, <2>3, <2>4, <2>5, <2>6, PartKept
<1> QED BY <1>5, <1>6, <1>7, <1>8

(* An array in its first state, in no order and with nothing done.         *)
LEMMA FirstState ==
  ASSUME Init
  PROVE  IInv
<1>1. PICK s \in Arrays :
        /\ a = [n \in 1..Len(s) |-> [key |-> s[n], from |-> n]]
        /\ order \in {"less"} \cup (IF Len(s) <= MaxAny THEN {"any"} ELSE {})
        /\ l = 1 /\ u = Len(s) /\ pc = IF Len(s) > 1 THEN "ends" ELSE "done"
  BY DEF Init
<1>2. s \in Seq(Int) /\ Len(s) \in Nat /\ DOMAIN a = 1..Len(s) /\ i = 0 /\ j = 0 /\ rest = <<>>
  BY <1>1, LuaSortAssumption DEF Init
<1>3. \A n \in 1..Len(s) : a[n] \in Element /\ a[n].from = n
  BY <1>1, <1>2 DEF Element
<1>4. a \in Seq(Element) /\ Len(a) = Len(s)
  BY <1>1, <1>2 DEF Element
<1>5. TypeInv
  BY <1>1, <1>2, <1>4 DEF TypeInv
<1>6. Complete
  <2>1. {a[n].from : n \in 1..Len(s)} = {n : n \in 1..Len(s)}
    BY <1>3, Zenon
  <2> QED BY <1>2, <2>1 DEF Complete
<1>7. PartsInv /\ PlaceInv /\ KeyInv
  BY <1>1, <1>2, <1>4 DEF PartsInv, Separate, Active, PlaceInv, KeyInv
<1>8. OrderInv
  BY <1>1, <1>2, <1>4 DEF OrderInv, Pending, Active
<1> QED BY <1>5, <1>6, <1>7, <1>8 DEF IInv

LEMMA StepKept ==
  ASSUME IInv, [Next]_vars
  PROVE  IInv'
<1>1. ASSUME UNCHANGED vars PROVE IInv'
  <2>1. TypeInv' /\ PartsInv' /\ PlaceInv'
    BY <1>1 DEF IInv, vars, TypeInv, PartsInv, PlaceInv, Separate, Within, Active
  <2>2. Complete'
    BY <1>1, Zenon DEF IInv, vars, Complete
  <2>3. order = "less" => KeyInv'
    BY <1>1 DEF IInv, vars, KeyInv
  <2>4. order = "less" => OrderInv'
    BY <1>1 DEF IInv, vars, OrderInv, Pending, Among, Active
  <2> QED BY <1>1, <2>1, <2>2, <2>3, <2>4 DEF IInv, vars
<1>2. ASSUME Ended, order' = order PROVE IInv'
  BY <1>1, <1>2 DEF Ended, vars
<1>3. CASE Next
  <2>1. PICK answer \in BOOLEAN :
          /\ Ends(answer) \/ Low(answer) \/ High(answer) \/ Up(answer) \/ Down(answer) \/ Ended
          /\ order' = order
    BY <1>3 DEF Next
  <2> QED BY <1>2, <2>1, EndsStep, LowStep, HighStep, UpStep, DownStep
<1> QED BY <1>1, <1>3

(* An ordered array: the neighbours are in order.                          *)
LEMMA Sorted ==
  ASSUME IInv
  PROVE  Sorts
<1>1. a \in Seq(Element) /\ DOMAIN a = 1..Len(a) /\ Len(a) \in Nat
  BY DEF IInv, TypeInv
<1>2. {a[n].from : n \in DOMAIN a} = DOMAIN a
  BY DEF IInv, Complete
<1>3. ASSUME pc \in {"up", "down"}
      PROVE  1 <= l /\ l < i /\ i <= u /\ u <= Len(a) /\ l <= j /\ j < u
  <2>1. Active
    BY <1>3 DEF Active
  <2>2. l < i /\ i <= u /\ j < u /\ (pc = "up" => l < j) /\ (pc = "down" => l <= j)
    BY <1>3 DEF IInv, PlaceInv
  <2> QED BY <1>3, <2>1, <2>2, Bounds
<1>4. ASSUME order = "less", pc = "done", NEW n \in 1..Len(a) - 1
      PROVE  a[n].key <= a[n + 1].key
  <2>1. n \in 1..Len(a) /\ n + 1 \in 1..Len(a) /\ n < n + 1
    BY <1>1
  <2>2. a[n].key <= a[n + 1].key \/ Pending(n, n + 1)
    BY <1>4, <2>1 DEF IInv, OrderInv
  <2>3. ~Pending(n, n + 1)
    BY <1>4 DEF IInv, OrderInv, Pending, Active, Among
  <2> QED BY <2>2, <2>3
<1>5. order = "less" => pc # "error"
  BY DEF IInv, OrderInv
<1> QED BY <1>2, <1>3, <1>4, <1>5 DEF Sorts

(* table.sort of an array of any length: no element is lost or doubled and *)
(* nothing outside of the array is touched, whatever the comparisons       *)
(* answer; answers that follow the keys sort it, and no error is raised.   *)
THEOREM SortsCorrect == Spec => []Sorts
<1>1. Init => IInv
  BY FirstState
<1>2. IInv /\ [Next]_vars => IInv'
  BY StepKept
<1>3. IInv => Sorts
  BY Sorted
<1> QED BY <1>1, <1>2, <1>3, PTL DEF Spec

---------------------------------------------------------------------------
(* File handles: what is kept while they are opened, used and closed.      *)
Kinds == {"fclose", "pclose"}

FilesTyped ==
  /\ streams = [f \in Files |-> streams[f]]
  /\ \A f \in Files : /\ streams[f] = [k \in {"by", "left"} |-> streams[f][k]]
                      /\ streams[f].by \in {"closed", "fopen", "popen", "std"}
  /\ handles \in [Handles -> [f : Files \cup {None}, closef : Kinds \cup {"free", "none", "noclose"}]]
  /\ default \in [{"input", "output"} -> Handles]
  /\ DOMAIN iters = Iterators
  /\ \A x \in Iterators : iters[x] = NoIter \/ iters[x].h \in Handles
  /\ holds \subseteq Handles /\ final \subseteq Handles

(* What can be reached has a stream, and was not finalized.                *)
ReachInv ==
  \A h \in Handles : h \in Reached => /\ handles[h].f # None /\ handles[h].closef # "free"
                                      /\ h \notin final

(* A handle marked open has an open stream of its kind, and no other handle *)
(* that is marked so has it.                                                *)
MarkInv ==
  \A h \in Handles :
    /\ handles[h].f # None =>
         /\ handles[h].closef = "fclose" => streams[handles[h].f].by = "fopen"
         /\ handles[h].closef = "pclose" => streams[handles[h].f].by = "popen"
         /\ handles[h].closef = "noclose" => streams[handles[h].f].by = "std"
    /\ handles[h].closef = "noclose" => handles[h].f # None
    /\ handles[h].closef = "free" => handles[h].f = None
    /\ \A g \in Handles :
         handles[g].f = handles[h].f /\ handles[h].f # None /\ handles[g].closef \in Kinds
           /\ handles[h].closef \in Kinds => g = h

(* Who closes an open stream.                                              *)
CloserInv ==
  \A f \in Files : streams[f].by \in {"fopen", "popen"} =>
    \E h \in Handles : handles[h].f = f /\ handles[h].closef \in Kinds

(* A finalizer leaves nothing to close.                                    *)
FinalInv ==
  \A h \in final : /\ handles[h].closef # "free"
                   /\ handles[h].f # None => handles[h].closef \notin Kinds

FilesInv == FilesTyped /\ ReachInv /\ MarkInv /\ CloserInv /\ FinalInv /\ ~undefined

LEMMA ReachedTyped ==
  ASSUME LuaFilesAssumption, FilesTyped
  PROVE  \A h \in Handles :
           h \in Reached <=> \/ h \in holds \/ h = default.input \/ h = default.output
                             \/ \E x \in Iterators : iters[x].h = h
  BY DEF LuaFilesAssumption, FilesTyped, Reached

LEMMA FilesFirst ==
  ASSUME LuaFilesAssumption, FilesInit
  PROVE  FilesInv
<1>1. "in" \in Handles /\ "out" \in Handles /\ "stdin" \in Files /\ "stdout" \in Files
  BY DEF LuaFilesAssumption
<1>2. \A h \in Handles : handles[h] = IF h = "in" THEN [f |-> "stdin", closef |-> "noclose"]
                                      ELSE IF h = "out" THEN [f |-> "stdout", closef |-> "noclose"]
                                      ELSE Free
  BY DEF FilesInit
<1>3. FilesTyped
  <2>1. handles \in [Handles -> [f : Files \cup {None}, closef : Kinds \cup {"free", "none", "noclose"}]]
    BY <1>1 DEF FilesInit, Free, Kinds
  <2>2. /\ streams = [f \in Files |-> streams[f]]
        /\ \A f \in Files : /\ streams[f] = [k \in {"by", "left"} |-> streams[f][k]]
                            /\ streams[f].by \in {"closed", "fopen", "popen", "std"}
    BY DEF FilesInit
  <2>3. default \in [{"input", "output"} -> Handles]
    BY <1>1 DEF FilesInit
  <2>4. DOMAIN iters = Iterators /\ \A x \in Iterators : iters[x] = NoIter \/ iters[x].h \in Handles
    BY DEF FilesInit
  <2> QED
    BY <1>1, <2>1, <2>2, <2>3, <2>4 DEF FilesTyped, FilesInit
<1>4. \A f \in Files : streams[f].by = IF f \in Std THEN "std" ELSE "closed"
  BY DEF FilesInit
<1>5. ReachInv
  <2>1. \A h \in Handles : h \in Reached => h = "in" \/ h = "out"
    BY <1>3, ReachedTyped DEF FilesInit, NoIter, LuaFilesAssumption
  <2>2. None # "stdin" /\ None # "stdout"
    BY DEF LuaFilesAssumption
  <2> QED
    BY <1>2, <2>1, <2>2 DEF ReachInv, FilesInit
<1>6. MarkInv
  BY <1>1, <1>2, <1>4 DEF MarkInv, Free, Kinds, Std, LuaFilesAssumption
<1>7. CloserInv
  BY <1>4 DEF CloserInv
<1> QED
  BY <1>3, <1>5, <1>6, <1>7 DEF FilesInv, FinalInv, FilesInit

(* A new handle is one that nothing reached, marked with its stream.       *)
LEMMA OpenedKept ==
  ASSUME LuaFilesAssumption, FilesInv, NEW h \in Handles, NEW f \in (Files \ Std) \cup {None},
         NEW closef, NEW by, <<closef, by>> \in {<<"fclose", "fopen">>, <<"pclose", "popen">>},
         Opened(h, f, closef, by)
  PROVE  /\ h \notin Reached /\ h \notin final
         /\ handles' \in [Handles -> [f : Files \cup {None}, closef : Kinds \cup {"free", "none", "noclose"}]]
         /\ streams' = [g \in Files |-> streams'[g]]
         /\ \A g \in Files : /\ streams'[g] = [k \in {"by", "left"} |-> streams'[g][k]]
                             /\ streams'[g].by \in {"closed", "fopen", "popen", "std"}
         /\ handles'[h].f = f /\ handles'[h].closef # "free"
         /\ \A g \in Handles : g # h => handles'[g] = handles[g]
         /\ MarkInv' /\ CloserInv'
<1>1. handles[h].f = None /\ handles[h].closef = "free"
  BY DEF Opened, Free
<1>2. h \notin Reached /\ h \notin final
  BY <1>1 DEF FilesInv, ReachInv, FinalInv
<1>3. closef \in Kinds /\ closef # "free" /\ by \in {"fopen", "popen"}
      /\ (closef = "fclose" => by = "fopen") /\ (closef = "pclose" => by = "popen")
  BY DEF Kinds
<1>4. /\ handles \in [Handles -> [f : Files \cup {None}, closef : Kinds \cup {"free", "none", "noclose"}]]
      /\ handles' = [handles EXCEPT ![h] = [f |-> f, closef |-> closef]]
  BY DEF FilesInv, FilesTyped, Opened
<1>5. handles' \in [Handles -> [f : Files \cup {None}, closef : Kinds \cup {"free", "none", "noclose"}]]
  BY <1>3, <1>4
<1>6. /\ handles'[h] = [f |-> f, closef |-> closef]
      /\ \A g \in Handles : g # h => handles'[g] = handles[g]
  BY <1>4
<1>7. /\ \A g \in Files : g # f => streams'[g] = streams[g]
      /\ f # None => streams[f].by = "closed" /\ streams'[f] = [by |-> by, left |-> Lines]
      /\ streams' = [g \in Files |-> streams'[g]]
  BY DEF FilesInv, FilesTyped, Opened
<1>8. \A g \in Files : /\ streams'[g] = [k \in {"by", "left"} |-> streams'[g][k]]
                       /\ streams'[g].by \in {"closed", "fopen", "popen", "std"}
  <2> TAKE g \in Files
  <2>1. CASE g = f
    BY <1>3, <1>7, <2>1 DEF LuaFilesAssumption
  <2>2. CASE g # f
    BY <1>7, <2>2 DEF FilesInv, FilesTyped
  <2> QED
    BY <2>1, <2>2
<1>9. \A g \in Handles : handles[g].f # None /\ handles[g].closef \in Kinds \cup {"noclose"} => handles[g].f # f
  BY <1>4, <1>7 DEF FilesInv, MarkInv, Kinds
<1>10. MarkInv'
  <2>1. ASSUME NEW g \in Handles
        PROVE  /\ handles'[g].f # None =>
                    /\ handles'[g].closef = "fclose" => streams'[handles'[g].f].by = "fopen"
                    /\ handles'[g].closef = "pclose" => streams'[handles'[g].f].by = "popen"
                    /\ handles'[g].closef = "noclose" => streams'[handles'[g].f].by = "std"
               /\ handles'[g].closef = "noclose" => handles'[g].f # None
               /\ handles'[g].closef = "free" => handles'[g].f = None
    <3>1. CASE g = h
      BY <1>3, <1>6, <1>7, <3>1 DEF Kinds
    <3>2. CASE g # h
      <4>1. handles'[g] = handles[g]
        BY <1>6, <3>2
      <4>2. handles[g].f # None /\ handles[g].closef \in Kinds \cup {"noclose"}
              => streams'[handles[g].f] = streams[handles[g].f]
        BY <1>4, <1>7, <1>9
      <4> QED
        BY <4>1, <4>2 DEF FilesInv, MarkInv, Kinds
    <3> QED
      BY <3>1, <3>2
  <2>2. ASSUME NEW g \in Handles, NEW k \in Handles, handles'[g].f = handles'[k].f, handles'[k].f # None,
               handles'[g].closef \in Kinds, handles'[k].closef \in Kinds
        PROVE  g = k
    BY <1>6, <1>9, <2>2 DEF FilesInv, MarkInv
  <2> QED
    BY <2>1, <2>2 DEF MarkInv
<1>11. CloserInv'
  <2> SUFFICES ASSUME NEW g \in Files, streams'[g].by \in {"fopen", "popen"}
               PROVE  \E k \in Handles : handles'[k].f = g /\ handles'[k].closef \in Kinds
    BY DEF CloserInv
  <2>1. CASE g = f
    BY <1>3, <1>6, <2>1
  <2>2. CASE g # f
    <3>1. PICK k \in Handles : handles[k].f = g /\ handles[k].closef \in Kinds
      BY <1>7, <2>2 DEF FilesInv, CloserInv
    <3>2. k # h
      BY <1>1, <3>1 DEF Kinds
    <3> QED
      BY <1>6, <3>1, <3>2
  <2> QED
    BY <2>1, <2>2
<1> QED
  BY <1>2, <1>3, <1>5, <1>6, <1>7, <1>8, <1>10, <1>11

(* A handle that is marked open and has a stream is closed in the right    *)
(* way, and nothing else changes.                                          *)
LEMMA CloseKept ==
  ASSUME LuaFilesAssumption, FilesInv, NEW h \in Handles, ~Closed(h), handles[h].f # None,
         AuxClose(h)
  PROVE  /\ handles' \in [Handles -> [f : Files \cup {None}, closef : Kinds \cup {"free", "none", "noclose"}]]
         /\ streams' = [g \in Files |-> streams'[g]]
         /\ \A g \in Files : /\ streams'[g] = [k \in {"by", "left"} |-> streams'[g][k]]
                             /\ streams'[g].by \in {"closed", "fopen", "popen", "std"}
         /\ handles'[h].closef \notin Kinds
         /\ \A g \in Handles : /\ handles'[g].f = handles[g].f
                               /\ handles[g].closef # "free" => handles'[g].closef # "free"
                               /\ handles'[g].closef \in Kinds => handles[g].closef \in Kinds
         /\ MarkInv' /\ CloserInv' /\ ~undefined'
<1> DEFINE f == handles[h].f
<1>1. /\ handles \in [Handles -> [f : Files \cup {None}, closef : Kinds \cup {"free", "none", "noclose"}]]
      /\ f \in Files /\ handles[h].closef \in Kinds \cup {"noclose"}
  BY DEF FilesInv, FilesTyped, MarkInv, Closed
<1>2. handles' = [handles EXCEPT ![h] = Marked(h)]
  BY DEF AuxClose
<1>3. Marked(h) = [f |-> f, closef |-> IF handles[h].closef = "noclose" THEN "noclose" ELSE "none"]
  BY <1>1 DEF Marked
<1>4. handles' \in [Handles -> [f : Files \cup {None}, closef : Kinds \cup {"free", "none", "noclose"}]]
  BY <1>1, <1>2, <1>3
<1>5. /\ handles'[h].f = f
      /\ handles'[h].closef = IF handles[h].closef = "noclose" THEN "noclose" ELSE "none"
      /\ \A g \in Handles : g # h => handles'[g] = handles[g]
  BY <1>1, <1>2, <1>3
<1>6. Closes(streams[f].by) = handles[h].closef
  BY <1>1 DEF FilesInv, MarkInv, Closes, Kinds
<1>7. ~undefined'
  BY <1>6 DEF AuxClose, FilesInv
<1>8. /\ handles[h].closef = "noclose" => streams' = streams
      /\ handles[h].closef # "noclose" => streams' = [streams EXCEPT ![f] = [by |-> "closed", left |-> 0]]
  BY DEF AuxClose
<1>9. /\ streams' = [g \in Files |-> streams'[g]]
      /\ \A g \in Files : g # f => streams'[g] = streams[g]
      /\ handles[h].closef = "noclose" => streams'[f] = streams[f]
      /\ handles[h].closef # "noclose" => streams'[f] = [by |-> "closed", left |-> 0]
  BY <1>1, <1>8 DEF FilesInv, FilesTyped
<1>10. \A g \in Files : /\ streams'[g] = [k \in {"by", "left"} |-> streams'[g][k]]
                        /\ streams'[g].by \in {"closed", "fopen", "popen", "std"}
  <2> TAKE g \in Files
  <2>1. CASE streams'[g] = streams[g]
    BY <2>1 DEF FilesInv, FilesTyped
  <2>2. CASE streams'[g] = [by |-> "closed", left |-> 0]
    BY <2>2
  <2> QED
    BY <1>1, <1>9, <2>1, <2>2
<1>11. \A g \in Handles : /\ handles'[g].f = handles[g].f
                          /\ handles[g].closef # "free" => handles'[g].closef # "free"
                          /\ handles'[g].closef \in Kinds => handles[g].closef \in Kinds
  BY <1>5 DEF Kinds
<1>12. MarkInv'
  <2>1. ASSUME NEW g \in Handles
        PROVE  /\ handles'[g].f # None =>
                    /\ handles'[g].closef = "fclose" => streams'[handles'[g].f].by = "fopen"
                    /\ handles'[g].closef = "pclose" => streams'[handles'[g].f].by = "popen"
                    /\ handles'[g].closef = "noclose" => streams'[handles'[g].f].by = "std"
               /\ handles'[g].closef = "noclose" => handles'[g].f # None
               /\ handles'[g].closef = "free" => handles'[g].f = None
    <3>1. CASE g = h
      BY <1>1, <1>5, <1>9, <3>1 DEF FilesInv, MarkInv
    <3>2. CASE g # h
      <4>1. handles'[g] = handles[g] /\ (handles[g].f # None => handles[g].f \in Files)
        BY <1>1, <1>5, <3>2
      <4>2. CASE handles[h].closef = "noclose"
        BY <1>9, <4>1, <4>2 DEF FilesInv, MarkInv
      <4>3. CASE handles[h].closef # "noclose"
        <5>1. handles[g].closef \in Kinds => handles[g].f # f
          BY <1>1, <3>2, <4>3 DEF FilesInv, MarkInv
        <5>2. handles[g].closef = "noclose" => handles[g].f # f
          BY <1>1, <4>3 DEF FilesInv, MarkInv, Kinds
        <5> QED
          BY <1>9, <4>1, <5>1, <5>2 DEF FilesInv, MarkInv, Kinds
      <4> QED
        BY <4>2, <4>3
    <3> QED
      BY <3>1, <3>2
  <2>2. ASSUME NEW g \in Handles, NEW k \in Handles, handles'[g].f = handles'[k].f, handles'[k].f # None,
               handles'[g].closef \in Kinds, handles'[k].closef \in Kinds
        PROVE  g = k
    BY <1>11, <2>2 DEF FilesInv, MarkInv
  <2> QED
    BY <2>1, <2>2 DEF MarkInv
<1>13. CloserInv'
  <2> SUFFICES ASSUME NEW g \in Files, streams'[g].by \in {"fopen", "popen"}
               PROVE  \E k \in Handles : handles'[k].f = g /\ handles'[k].closef \in Kinds
    BY DEF CloserInv
  <2>1. streams'[g] = streams[g] /\ (g = f => handles[h].closef = "noclose")
    BY <1>9
  <2>2. PICK k \in Handles : handles[k].f = g /\ handles[k].closef \in Kinds
    BY <2>1 DEF FilesInv, CloserInv
  <2>3. k # h
    BY <2>1, <2>2 DEF Kinds
  <2> QED
    BY <1>5, <2>2, <2>3
<1> QED
  BY <1>4, <1>5, <1>7, <1>9, <1>10, <1>11, <1>12, <1>13 DEF Kinds

(* The use of an open stream, which changes what is left of it at most.    *)
LEMMA UseKept ==
  ASSUME LuaFilesAssumption, FilesInv, NEW f \in Files, NEW x,
         Touch(f), streams[f].by # "closed",
         streams' = streams \/ streams' = [streams EXCEPT ![f].left = x], UNCHANGED handles
  PROVE  /\ streams' = [g \in Files |-> streams'[g]]
         /\ \A g \in Files : /\ streams'[g] = [k \in {"by", "left"} |-> streams'[g][k]]
                             /\ streams'[g].by \in {"closed", "fopen", "popen", "std"}
         /\ MarkInv' /\ CloserInv' /\ ~undefined'
<1>1. /\ streams = [g \in Files |-> streams[g]]
      /\ \A g \in Files : streams[g] = [k \in {"by", "left"} |-> streams[g][k]]
  BY DEF FilesInv, FilesTyped
<1>2. \A g \in Files : streams'[g].by = streams[g].by /\ streams'[g] = [k \in {"by", "left"} |-> streams'[g][k]]
  <2>1. CASE streams' = streams
    BY <1>1, <2>1
  <2>2. CASE streams' = [streams EXCEPT ![f].left = x]
    <3>1. \A g \in Files : streams'[g] = IF g = f THEN [streams[g] EXCEPT !.left = x] ELSE streams[g]
      BY <1>1, <2>2
    <3> QED
      BY <1>1, <3>1
  <2> QED
    BY <2>1, <2>2
<1>3. streams' = [g \in Files |-> streams'[g]]
  BY <1>1
<1>4. MarkInv' /\ CloserInv'
  <2>1. \A h \in Handles : handles[h].f # None => handles[h].f \in Files
    BY DEF FilesInv, FilesTyped
  <2> QED
    BY <1>2, <2>1 DEF FilesInv, MarkInv, CloserInv
<1>5. ~undefined'
  BY DEF Touch, FilesInv, LuaFilesAssumption
<1> QED
  BY <1>2, <1>3, <1>4, <1>5 DEF FilesInv, FilesTyped

(* What a step has to show of what is reached.                             *)
Kept(h) == handles'[h].f = handles[h].f /\ (handles[h].closef # "free" => handles'[h].closef # "free")

LEMMA ReachKept ==
  ASSUME LuaFilesAssumption, FilesInv, FilesTyped', UNCHANGED final,
         \A h \in Handles : h \in Reached' =>
           \/ h \in Reached /\ Kept(h)
           \/ h \notin final /\ handles'[h].f # None /\ handles'[h].closef # "free"
  PROVE  ReachInv'
  BY DEF FilesInv, ReachInv, Kept

LEMMA ReachedNext ==
  ASSUME LuaFilesAssumption, FilesTyped'
  PROVE  \A h \in Handles :
           h \in Reached' <=> \/ h \in holds' \/ h = default'.input \/ h = default'.output
                              \/ \E x \in Iterators : iters'[x].h = h
  BY DEF LuaFilesAssumption, FilesTyped, Reached

(* Calls that make a handle, which gives a way to reach it if it was       *)
(* opened.                                                                 *)
LEMMA OpenStep ==
  ASSUME LuaFilesAssumption, FilesInv, NEW h \in Handles, NEW f \in (Files \ Std) \cup {None}, UNCHANGED final,
         \/ \E kind \in {"fopen", "popen"} : Open(h, f, kind)
         \/ \E k \in {"input", "output"} : SetDefault(k, h, f)
         \/ \E x \in Iterators, formats \in Formats : LinesOfName(x, h, f, formats)
  PROVE  FilesInv'
<1>1. PICK closef, by : /\ <<closef, by>> \in {<<"fclose", "fopen">>, <<"pclose", "popen">>}
                        /\ Opened(h, f, closef, by)
  <2>1. ASSUME NEW kind \in {"fopen", "popen"}, Open(h, f, kind)
        PROVE  Opened(h, f, IF kind = "popen" THEN "pclose" ELSE "fclose", kind)
    BY <2>1 DEF Open
  <2>2. OpenCheck(h, f) => Opened(h, f, "fclose", "fopen")
    BY DEF OpenCheck
  <2>3. CASE \E kind \in {"fopen", "popen"} : Open(h, f, kind)
    BY <2>1, <2>3
  <2>4. CASE \/ \E k \in {"input", "output"} : SetDefault(k, h, f)
             \/ \E x \in Iterators, formats \in Formats : LinesOfName(x, h, f, formats)
    BY <2>2, <2>4 DEF SetDefault, LinesOfName
  <2> QED
    BY <2>3, <2>4
<1>2. /\ h \notin Reached /\ h \notin final
      /\ handles' \in [Handles -> [f : Files \cup {None}, closef : Kinds \cup {"free", "none", "noclose"}]]
      /\ streams' = [g \in Files |-> streams'[g]]
      /\ \A g \in Files : /\ streams'[g] = [k \in {"by", "left"} |-> streams'[g][k]]
                          /\ streams'[g].by \in {"closed", "fopen", "popen", "std"}
      /\ handles'[h].f = f /\ handles'[h].closef # "free"
      /\ \A g \in Handles : g # h => handles'[g] = handles[g]
      /\ MarkInv' /\ CloserInv'
  BY <1>1, OpenedKept
<1>3. undefined' = undefined
  BY DEF Open, SetDefault, LinesOfName
<1> DEFINE Ways ==
      /\ default' \in [{"input", "output"} -> Handles]
      /\ DOMAIN iters' = Iterators
      /\ \A x \in Iterators : iters'[x] = NoIter \/ iters'[x].h \in Handles
      /\ holds' \subseteq Handles
      /\ f = None => default' = default /\ iters' = iters /\ holds' = holds
      /\ holds' \subseteq holds \cup {h}
      /\ \A k \in {"input", "output"} : default'[k] \in {default[k], h}
      /\ \A x \in Iterators : iters'[x].h \in {iters[x].h, h}
<1>4. Ways
  <2>1. /\ default \in [{"input", "output"} -> Handles] /\ DOMAIN iters = Iterators /\ holds \subseteq Handles
        /\ \A x \in Iterators : iters[x] = NoIter \/ iters[x].h \in Handles
    BY DEF FilesInv, FilesTyped
  <2>2. CASE \E kind \in {"fopen", "popen"} : Open(h, f, kind)
    BY <2>1, <2>2 DEF Open
  <2>3. ASSUME NEW k \in {"input", "output"}, SetDefault(k, h, f)
        PROVE  Ways
    BY <2>1, <2>3 DEF SetDefault
  <2>4. ASSUME NEW x \in Iterators, NEW formats \in Formats, LinesOfName(x, h, f, formats)
        PROVE  Ways
    BY <2>1, <2>4 DEF LinesOfName
  <2> QED
    BY <2>2, <2>3, <2>4
<1>5. FilesTyped'
  BY <1>2, <1>4 DEF FilesTyped, FilesInv
<1>6. ReachInv'
  <2>1. \A g \in Handles : g \in Reached' => g \in Reached \/ (g = h /\ f # None)
    BY <1>4, <1>5, ReachedTyped, ReachedNext DEF FilesInv
  <2>2. ASSUME NEW g \in Handles, g \in Reached'
        PROVE  \/ g \in Reached /\ Kept(g)
               \/ g \notin final /\ handles'[g].f # None /\ handles'[g].closef # "free"
    BY <1>2, <2>1, <2>2 DEF Kept
  <2> QED
    BY <1>5, <2>2, ReachKept
<1>7. FinalInv'
  BY <1>2 DEF FilesInv, FilesTyped, FinalInv
<1> QED
  BY <1>2, <1>3, <1>5, <1>6, <1>7 DEF FilesInv

(* Calls that change the ways to reach handles only, and add none to a     *)
(* handle that was not reached.                                            *)
LEMMA WaysStep ==
  ASSUME LuaFilesAssumption, FilesInv, UNCHANGED final,
         \/ \E k \in {"input", "output"} : GetDefault(k) \/ \E h \in Handles : UseAsDefault(k, h)
         \/ \E h \in Handles : Drop(h)
         \/ \E x \in Iterators : \/ \E h \in Handles, formats \in Formats : LinesOf(x, h, formats)
                                 \/ DropIterator(x)
  PROVE  FilesInv'
<1> DEFINE Ways ==
      /\ default' \in [{"input", "output"} -> Handles]
      /\ DOMAIN iters' = Iterators
      /\ \A x \in Iterators : iters'[x] = NoIter \/ iters'[x].h \in Handles
      /\ holds' \subseteq Handles
      /\ holds' \subseteq Reached
      /\ \A k \in {"input", "output"} : default'[k] \in Reached
      /\ \A x \in Iterators : iters'[x].h \in Handles => iters'[x].h \in Reached
<1>1. /\ default \in [{"input", "output"} -> Handles] /\ DOMAIN iters = Iterators /\ holds \subseteq Handles
      /\ \A x \in Iterators : iters[x] = NoIter \/ iters[x].h \in Handles
      /\ holds \subseteq Reached
      /\ \A k \in {"input", "output"} : default[k] \in Reached
      /\ \A x \in Iterators : iters[x].h \in Reached
  BY DEF FilesInv, FilesTyped, Reached
<1>2. None \notin Handles
  BY DEF LuaFilesAssumption
<1>3. UNCHANGED <<streams, handles, undefined>> /\ Ways
  <2>1. ASSUME NEW k \in {"input", "output"}, GetDefault(k)
        PROVE  UNCHANGED <<streams, handles, undefined>> /\ Ways
    BY <1>1, <2>1 DEF GetDefault
  <2>2. ASSUME NEW k \in {"input", "output"}, NEW h \in Handles, UseAsDefault(k, h)
        PROVE  UNCHANGED <<streams, handles, undefined>> /\ Ways
    BY <1>1, <2>2 DEF UseAsDefault
  <2>3. ASSUME NEW h \in Handles, Drop(h)
        PROVE  UNCHANGED <<streams, handles, undefined>> /\ Ways
    BY <1>1, <2>3 DEF Drop
  <2>4. ASSUME NEW x \in Iterators, NEW h \in Handles, NEW formats \in Formats, LinesOf(x, h, formats)
        PROVE  UNCHANGED <<streams, handles, undefined>> /\ Ways
    BY <1>1, <2>4 DEF LinesOf
  <2>5. ASSUME NEW x \in Iterators, DropIterator(x)
        PROVE  UNCHANGED <<streams, handles, undefined>> /\ Ways
    BY <1>1, <1>2, <2>5 DEF DropIterator, NoIter
  <2> QED
    BY <2>1, <2>2, <2>3, <2>4, <2>5
<1>4. FilesTyped'
  BY <1>3 DEF FilesInv, FilesTyped
<1>5. ReachInv'
  <2>1. \A h \in Handles : h \in Reached' => h \in Reached /\ Kept(h)
    BY <1>3, <1>4, ReachedNext DEF Kept
  <2> QED
    BY <1>4, <2>1, ReachKept
<1>6. MarkInv' /\ CloserInv' /\ FinalInv'
  BY <1>3 DEF FilesInv, MarkInv, CloserInv, FinalInv
<1> QED
  BY <1>3, <1>4, <1>5, <1>6 DEF FilesInv

(* Steps that leave the ways to reach handles as they are.                 *)
LEMMA SameWays ==
  ASSUME LuaFilesAssumption, FilesInv, UNCHANGED <<default, iters, holds, final>>,
         handles' \in [Handles -> [f : Files \cup {None}, closef : Kinds \cup {"free", "none", "noclose"}]],
         streams' = [g \in Files |-> streams'[g]],
         \A g \in Files : /\ streams'[g] = [k \in {"by", "left"} |-> streams'[g][k]]
                          /\ streams'[g].by \in {"closed", "fopen", "popen", "std"},
         \A g \in Handles : Kept(g) /\ (handles'[g].closef \in Kinds => handles[g].closef \in Kinds),
         MarkInv', CloserInv', ~undefined'
  PROVE  FilesInv'
<1>1. FilesTyped'
  BY DEF FilesInv, FilesTyped
<1>2. ReachInv'
  <2>1. \A h \in Handles : h \in Reached' => h \in Reached
    BY DEF Reached
  <2> QED
    BY <1>1, <2>1, ReachKept
<1>3. FinalInv'
  BY DEF FilesInv, FilesTyped, FinalInv, Kept
<1> QED
  BY <1>1, <1>2, <1>3 DEF FilesInv

LEMMA ClosingStep ==
  ASSUME LuaFilesAssumption, FilesInv, NEW h \in Handles, ~Closed(h), handles[h].f # None,
         AuxClose(h), UNCHANGED <<default, iters, holds, final>>
  PROVE  FilesInv'
  BY CloseKept, SameWays DEF Kept

LEMMA UsingStep ==
  ASSUME LuaFilesAssumption, FilesInv, NEW h \in Handles, h \in Reached, ~Closed(h), NEW x,
         Touch(handles[h].f),
         streams' = streams \/ streams' = [streams EXCEPT ![handles[h].f].left = x],
         UNCHANGED <<handles, default, iters, holds, final>>
  PROVE  FilesInv'
<1> DEFINE f == handles[h].f
<1>1. f \in Files /\ streams[f].by # "closed"
  <2>1. handles[h] \in [f : Files \cup {None}, closef : Kinds \cup {"free", "none", "noclose"}]
    BY DEF FilesInv, FilesTyped
  <2>2. f # None /\ handles[h].closef \in Kinds \cup {"noclose"}
    BY <2>1 DEF FilesInv, ReachInv, Closed
  <2> QED
    BY <2>1, <2>2 DEF FilesInv, MarkInv, Kinds
<1>2. /\ streams' = [g \in Files |-> streams'[g]]
      /\ \A g \in Files : /\ streams'[g] = [k \in {"by", "left"} |-> streams'[g][k]]
                          /\ streams'[g].by \in {"closed", "fopen", "popen", "std"}
      /\ MarkInv' /\ CloserInv' /\ ~undefined'
  BY <1>1, UseKept
<1>3. handles' \in [Handles -> [f : Files \cup {None}, closef : Kinds \cup {"free", "none", "noclose"}]]
  BY DEF FilesInv, FilesTyped
<1> QED
  BY <1>2, <1>3, SameWays DEF Kept

LEMMA SameFiles ==
  ASSUME FilesInv, UNCHANGED filesVars
  PROVE  FilesInv'
  BY DEF FilesInv, FilesTyped, ReachInv, MarkInv, CloserInv, FinalInv, Reached, filesVars

(* Calls that close a handle or use its stream.                            *)
LEMMA HeapStep ==
  ASSUME LuaFilesAssumption, FilesInv, UNCHANGED final,
         \/ \E h \in Handles : Close(h) \/ CallGc(h)
         \/ \E h \in Handles, formats \in Formats : Read(h, formats)
         \/ \E h \in Handles, back \in BOOLEAN : Use(h, back)
         \/ \E x \in Iterators, broken \in BOOLEAN : ReadLine(x, broken)
  PROVE  FilesInv'
<1>1. ASSUME NEW h \in Handles, h \in Reached PROVE handles[h].f # None
  BY <1>1 DEF FilesInv, ReachInv
<1>2. /\ holds \subseteq Reached /\ default.input \in Reached /\ default.output \in Reached
      /\ \A x \in Iterators : iters[x].h \in Reached
  BY DEF Reached
<1>3. ASSUME NEW h \in Handles, Close(h) PROVE FilesInv'
  BY <1>1, <1>2, <1>3, ClosingStep DEF Close
<1>4. ASSUME NEW h \in Handles, CallGc(h) PROVE FilesInv'
  <2>1. CASE ~Closed(h) /\ handles[h].f # None
    BY <1>4, <2>1, ClosingStep DEF CallGc, Finalize
  <2>2. CASE ~(~Closed(h) /\ handles[h].f # None)
    BY <1>4, <2>2, SameFiles DEF CallGc, Finalize, filesVars
  <2> QED
    BY <2>1, <2>2
<1>5. ASSUME NEW h \in Handles, NEW formats \in Formats, Read(h, formats) PROVE FilesInv'
  <2>1. h \in Reached /\ ~Closed(h) /\ UNCHANGED <<handles, default, iters, holds>>
    BY <1>2, <1>5 DEF Read
  <2>2. Touch(handles[h].f) /\ \E left : streams' = [streams EXCEPT ![handles[h].f].left = left]
    BY <1>5 DEF Read, GRead
  <2> QED
    BY <2>1, <2>2, UsingStep
<1>6. ASSUME NEW h \in Handles, NEW back \in BOOLEAN, Use(h, back) PROVE FilesInv'
  <2>1. h \in Reached /\ ~Closed(h) /\ UNCHANGED <<handles, default, iters, holds>>
    BY <1>2, <1>6 DEF Use
  <2>2. Touch(handles[h].f) /\ (streams' = streams \/ streams' = [streams EXCEPT ![handles[h].f].left = Lines])
    BY <1>6 DEF Use
  <2> QED
    BY <2>1, <2>2, UsingStep
<1>7. ASSUME NEW x \in Iterators, NEW broken \in BOOLEAN, ReadLine(x, broken) PROVE FilesInv'
  <2> DEFINE h == iters[x].h
  <2>1. h \in Handles /\ h \in Reached /\ ~Closed(h) /\ UNCHANGED <<default, iters, holds>>
    BY <1>2, <1>7 DEF ReadLine, FilesInv, FilesTyped
  <2>2. \/ AuxClose(h)
        \/ Touch(handles[h].f) /\ UNCHANGED handles /\ \E left : streams' = [streams EXCEPT ![handles[h].f].left = left]
    BY <1>7 DEF ReadLine, GRead
  <2>3. CASE AuxClose(h)
    BY <1>1, <2>1, <2>3, ClosingStep
  <2>4. CASE Touch(handles[h].f) /\ UNCHANGED handles /\ \E left : streams' = [streams EXCEPT ![handles[h].f].left = left]
    <3>1. PICK left : streams' = [streams EXCEPT ![handles[h].f].left = left]
      BY <2>4
    <3> QED
      BY <2>1, <2>4, <3>1, UsingStep
  <2> QED
    BY <2>2, <2>3, <2>4
<1> QED
  BY <1>3, <1>4, <1>5, <1>6, <1>7

(* The finalizer of a handle that nothing reaches closes it.               *)
LEMMA GcStep ==
  ASSUME LuaFilesAssumption, FilesInv, NEW h \in Handles, Gc(h)
  PROVE  FilesInv'
<1>1. /\ h \notin Reached /\ handles[h].closef # "free" /\ final' = final \cup {h}
      /\ UNCHANGED <<default, iters, holds>> /\ Reached' = Reached
  <2>1. handles[h] \in [f : Files \cup {None}, closef : Kinds \cup {"free", "none", "noclose"}]
    BY DEF FilesInv, FilesTyped
  <2>2. handles[h].closef = "free" => handles[h] = Free
    BY <2>1 DEF FilesInv, MarkInv, Free
  <2> QED
    BY <2>2 DEF Gc, Unreached, Reached
<1>2. /\ handles' \in [Handles -> [f : Files \cup {None}, closef : Kinds \cup {"free", "none", "noclose"}]]
      /\ streams' = [g \in Files |-> streams'[g]]
      /\ \A g \in Files : /\ streams'[g] = [k \in {"by", "left"} |-> streams'[g][k]]
                          /\ streams'[g].by \in {"closed", "fopen", "popen", "std"}
      /\ handles'[h].f # None => handles'[h].closef \notin Kinds
      /\ \A g \in Handles : Kept(g) /\ (handles'[g].closef \in Kinds => handles[g].closef \in Kinds)
      /\ MarkInv' /\ CloserInv' /\ ~undefined'
  <2>1. CASE ~Closed(h) /\ handles[h].f # None
    BY <2>1, CloseKept DEF Gc, Finalize, Kept
  <2>2. CASE ~(~Closed(h) /\ handles[h].f # None)
    BY <2>2 DEF Gc, Finalize, Kept, Closed, Kinds, FilesInv, FilesTyped, MarkInv, CloserInv
  <2> QED
    BY <2>1, <2>2
<1>3. FilesTyped'
  BY <1>1, <1>2 DEF FilesInv, FilesTyped
<1>4. ReachInv'
  BY <1>1, <1>2 DEF FilesInv, ReachInv, Kept
<1>5. FinalInv'
  BY <1>1, <1>2 DEF FilesInv, FilesTyped, FinalInv, Kept
<1> QED
  BY <1>2, <1>3, <1>4, <1>5 DEF FilesInv

(* What is freed closes nothing any more.                                  *)
LEMMA SweptStep ==
  ASSUME LuaFilesAssumption, FilesInv, NEW h \in Handles, Swept(h)
  PROVE  FilesInv'
<1>1. /\ h \notin Reached /\ h \in final /\ final' = final \ {h}
      /\ UNCHANGED <<streams, default, iters, holds, undefined>> /\ Reached' = Reached
  BY DEF Swept, Unreached, Reached
<1>2. /\ handles' \in [Handles -> [f : Files \cup {None}, closef : Kinds \cup {"free", "none", "noclose"}]]
      /\ handles'[h] = Free /\ \A g \in Handles : g # h => handles'[g] = handles[g]
  BY DEF Swept, Free, FilesInv, FilesTyped
<1>3. FilesTyped'
  BY <1>1, <1>2 DEF FilesInv, FilesTyped
<1>4. ReachInv'
  BY <1>1, <1>2 DEF FilesInv, ReachInv
<1>5. MarkInv'
  <2>1. \A g \in Handles : g # h \/ (handles'[g].f = None /\ handles'[g].closef = "free")
    BY <1>2 DEF Free
  <2> QED
    BY <1>1, <1>2, <2>1 DEF FilesInv, MarkInv, Kinds
<1>6. CloserInv'
  <2> SUFFICES ASSUME NEW g \in Files, streams[g].by \in {"fopen", "popen"}
               PROVE  \E k \in Handles : handles'[k].f = g /\ handles'[k].closef \in Kinds
    BY <1>1 DEF CloserInv
  <2>1. PICK k \in Handles : handles[k].f = g /\ handles[k].closef \in Kinds
    BY DEF FilesInv, CloserInv
  <2>2. k # h
    BY <1>1, <2>1 DEF FilesInv, FinalInv, LuaFilesAssumption
  <2> QED
    BY <1>2, <2>1, <2>2
<1>7. FinalInv'
  BY <1>1, <1>2 DEF FilesInv, FilesTyped, FinalInv
<1> QED
  BY <1>1, <1>3, <1>4, <1>5, <1>6, <1>7 DEF FilesInv

LEMMA FilesNextInv ==
  ASSUME LuaFilesAssumption, FilesInv, [FilesNext]_filesVars
  PROVE  FilesInv'
<1>1. CASE FilesCall /\ UNCHANGED final
  <2>1. CASE \E h \in Handles, f \in (Files \ Std) \cup {None} :
               \/ \E kind \in {"fopen", "popen"} : Open(h, f, kind)
               \/ \E k \in {"input", "output"} : SetDefault(k, h, f)
               \/ \E x \in Iterators, formats \in Formats : LinesOfName(x, h, f, formats)
    BY <1>1, <2>1, OpenStep
  <2>2. CASE \/ \E k \in {"input", "output"} : GetDefault(k) \/ \E h \in Handles : UseAsDefault(k, h)
             \/ \E h \in Handles : Drop(h)
             \/ \E x \in Iterators : \/ \E h \in Handles, formats \in Formats : LinesOf(x, h, formats)
                                     \/ DropIterator(x)
    BY <1>1, <2>2, WaysStep
  <2>3. CASE \/ \E h \in Handles : Close(h) \/ CallGc(h)
             \/ \E h \in Handles, formats \in Formats : Read(h, formats)
             \/ \E h \in Handles, back \in BOOLEAN : Use(h, back)
             \/ \E x \in Iterators, broken \in BOOLEAN : ReadLine(x, broken)
    BY <1>1, <2>3, HeapStep
  <2> QED
    BY <1>1, <2>1, <2>2, <2>3 DEF FilesCall
<1>2. CASE \E h \in Handles : Gc(h) \/ Swept(h)
  BY <1>2, GcStep, SweptStep
<1>3. CASE UNCHANGED filesVars
  BY <1>3, SameFiles
<1> QED
  BY <1>1, <1>2, <1>3 DEF FilesNext

LEMMA FilesOwned ==
  ASSUME LuaFilesAssumption, FilesInv
  PROVE  Owned
<1>1. \A h \in Handles : handles[h] \in [f : Files \cup {None}, closef : Kinds \cup {"free", "none", "noclose"}]
  BY DEF FilesInv, FilesTyped
<1>2. ASSUME NEW f \in Files, streams[f].by \in {"fopen", "popen"}
      PROVE  Cardinality({h \in Handles : handles[h].f = f /\ handles[h].closef = Closes(streams[f].by)}) = 1
  <2>1. PICK h \in Handles : handles[h].f = f /\ handles[h].closef \in Kinds
    BY <1>2 DEF FilesInv, CloserInv
  <2>2. f # None
    BY DEF LuaFilesAssumption
  <2>3. Closes(streams[f].by) \in Kinds
    BY <1>2 DEF Closes, Kinds
  <2>4. handles[h].closef = Closes(streams[f].by)
    BY <1>2, <2>1, <2>2 DEF FilesInv, MarkInv, Closes, Kinds
  <2>5. \A g \in Handles : handles[g].f = f /\ handles[g].closef = Closes(streams[f].by) => g = h
    BY <2>1, <2>2, <2>3 DEF FilesInv, MarkInv
  <2>6. {g \in Handles : handles[g].f = f /\ handles[g].closef = Closes(streams[f].by)} = {h}
    BY <2>1, <2>4, <2>5
  <2> QED
    BY <2>6, FS_Singleton
<1>3. ASSUME NEW h \in Handles, handles[h].closef \in {"fclose", "pclose", "noclose"}, handles[h].f # None
      PROVE  Closes(streams[handles[h].f].by) = handles[h].closef
  BY <1>3 DEF FilesInv, MarkInv, Closes
<1> QED
  BY <1>2, <1>3 DEF Owned, FilesInv

(* For any number of handles, streams and iterators: no stream is used or  *)
(* closed after it was closed, and each open one has one handle that will  *)
(* close it, with the function of its kind (liolib.c:86-190).              *)
THEOREM OwnedCorrect == FilesSpec => []Owned
<1>1. FilesInit => FilesInv
  BY FilesFirst, LuaFilesAssumption
<1>2. FilesInv /\ [FilesNext]_filesVars => FilesInv'
  BY FilesNextInv, LuaFilesAssumption
<1>3. FilesInv => Owned
  BY FilesOwned, LuaFilesAssumption
<1> QED
  BY <1>1, <1>2, <1>3, PTL DEF FilesSpec
=============================================================================
