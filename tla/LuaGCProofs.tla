---------------------------- MODULE LuaGCProofs ----------------------------
(***************************************************************************)
(* Proofs about LuaGC, for every set of programs and however many objects  *)
(* each makes: what is reachable is never dead or freed, the three colors  *)
(* while marking, and objects with finalizers.                             *)
(*                                                                         *)
(* NoDangling says only that what is not dead leads to nothing dead.  To   *)
(* keep that, when the marking ends and the whites are exchanged, nothing  *)
(* marked may lead to a white object (GrayInv), which holds only if the    *)
(* traversal has every gray object in one of its lists.  To keep it while  *)
(* sweeping, what is dead must still be ahead of a sweep (SweptInv), where *)
(* ahead depends on the lists and on the places in them that the sweep has *)
(* reached (ListInv, PointInv); and in the generational mode, where a      *)
(* sweep stops at the first old object, everything behind an old object    *)
(* must be old (OldInv).  Each action then has one step that keeps all of  *)
(* this.                                                                   *)
(***************************************************************************)
EXTENDS LuaGC, WellFoundedInduction, SequenceTheorems, FiniteSetTheorems, TLAPS

-----------------------------------------------------------------------------
(* Induction, without an operator as a parameter.                          *)

(* A set of numbers has a least one.                                       *)
LEMMA Least ==
  ASSUME NEW S, S \subseteq Nat, S # {}
  PROVE  \E x \in S : \A y \in S : x <= y
<1>1. PICK x \in S : \A y \in S : ~(<<y, x>> \in OpToRel(<, Nat))
  BY WFMin, NatLessThanWellFounded, Zenon
<1>2. ASSUME NEW y \in S PROVE ~(y < x)
  <2>1. ~(<<y, x>> \in {ss \in Nat \X Nat : ss[1] < ss[2]})
    BY <1>1, Zenon DEF OpToRel
  <2>2. y \in Nat /\ x \in Nat
    OBVIOUS
  <2> QED
    BY <2>1, <2>2
<1> QED
  BY <1>2

(* A set with 0 and with the successor of each of its numbers has them all.*)
LEMMA Induction ==
  ASSUME NEW S, 0 \in S, \A n \in Nat : n \in S => n + 1 \in S
  PROVE  \A n \in Nat : n \in S
<1> DEFINE R == Nat \ S
<1>1. SUFFICES ASSUME R # {} PROVE FALSE
  OBVIOUS
<1>2. PICK x \in R : \A y \in R : x <= y
  <2>1. R \subseteq Nat
    OBVIOUS
  <2> HIDE DEF R
  <2> QED BY <1>1, <2>1, Least
<1>3. x \in Nat /\ x # 0
  OBVIOUS
<1>4. x - 1 \in Nat /\ x - 1 \notin R
  BY <1>2, <1>3
<1>5. x - 1 \in S /\ x = (x - 1) + 1
  BY <1>3, <1>4
<1> QED
  BY <1>4, <1>5

-----------------------------------------------------------------------------
(* Lists.                                                                  *)

(* What is found behind p.                                                 *)
After(s, p) == {s[k] : k \in {m \in 1..Len(s) : \E n \in 1..m - 1 : s[n] = p}}
Distinct(s) == \A m, n \in 1..Len(s) : s[m] = s[n] => m = n

(* Behind an object of a list there is only what is in the list.           *)
LEMMA AfterIn ==
  ASSUME NEW s, NEW p PROVE After(s, p) \subseteq Elems(s) /\ (p \notin Elems(s) => After(s, p) = {})
BY DEF After, Elems

(* A new object is put in front.                                           *)
LEMMA ListFront ==
  ASSUME NEW s \in Seq(Obj), NEW o \in Obj, Distinct(s), o \notin Elems(s)
  PROVE  /\ <<o>> \o s \in Seq(Obj) /\ Distinct(<<o>> \o s) /\ Elems(<<o>> \o s) = {o} \cup Elems(s)
         /\ \A p \in Elems(s) : After(<<o>> \o s, p) = After(s, p)
         /\ After(<<o>> \o s, o) = Elems(s)
<1> DEFINE t == <<o>> \o s
<1>1. /\ t \in Seq(Obj) /\ Len(t) = Len(s) + 1 /\ t[1] = o /\ Len(s) \in Nat
      /\ \A k \in 1..Len(s) : t[k + 1] = s[k]
  OBVIOUS
<1>2. \A k \in 1..Len(t) : k # 1 => k - 1 \in 1..Len(s) /\ t[k] = s[k - 1]
  BY <1>1
<1>3. \A k \in 1..Len(s) : s[k] # o
  BY DEF Elems
<1> HIDE DEF t
<1>4. Distinct(t)
  <2> SUFFICES ASSUME NEW m \in 1..Len(t), NEW n \in 1..Len(t), t[m] = t[n] PROVE m = n
    BY DEF Distinct
  <2>1. CASE m = 1 \/ n = 1
    BY <1>1, <1>2, <1>3, <2>1
  <2>2. CASE m # 1 /\ n # 1
    <3>1. m - 1 \in 1..Len(s) /\ n - 1 \in 1..Len(s) /\ s[m - 1] = s[n - 1]
      BY <1>2, <2>2
    <3>2. m - 1 = n - 1
      BY <3>1 DEF Distinct
    <3> QED
      BY <1>1, <3>2
  <2> QED
    BY <2>1, <2>2
<1>5. Elems(t) = {o} \cup Elems(s)
  <2>1. ASSUME NEW x \in Elems(t) PROVE x \in {o} \cup Elems(s)
    BY <1>1, <1>2, <2>1 DEF Elems
  <2>2. ASSUME NEW k \in 1..Len(s) PROVE s[k] \in Elems(t)
    BY <1>1, <2>2 DEF Elems
  <2>3. o \in Elems(t)
    BY <1>1 DEF Elems
  <2> QED
    BY <2>1, <2>2, <2>3 DEF Elems
<1>6. ASSUME NEW p \in Elems(s) PROVE After(t, p) = After(s, p)
  <2>1. p # o
    BY <1>3 DEF Elems
  <2>2. ASSUME NEW m \in 1..Len(t), NEW n \in 1..m - 1, t[n] = p PROVE t[m] \in After(s, p)
    <3>1. n # 1 /\ m # 1 /\ n \in 1..Len(t)
      BY <1>1, <2>1, <2>2
    <3>2. m - 1 \in 1..Len(s) /\ n - 1 \in 1..(m - 1) - 1 /\ s[n - 1] = p /\ t[m] = s[m - 1]
      BY <1>1, <1>2, <2>2, <3>1
    <3> QED
      BY <3>2 DEF After
  <2>3. ASSUME NEW m \in 1..Len(s), NEW n \in 1..m - 1, s[n] = p PROVE s[m] \in After(t, p)
    <3>1. m + 1 \in 1..Len(t) /\ n + 1 \in 1..(m + 1) - 1 /\ t[n + 1] = p /\ t[m + 1] = s[m]
      BY <1>1, <2>3
    <3> QED
      BY <3>1 DEF After
  <2> QED
    BY <2>2, <2>3 DEF After
<1>7. After(t, o) = Elems(s)
  <2>1. ASSUME NEW m \in 1..Len(t), NEW n \in 1..m - 1 PROVE t[m] \in Elems(s)
    <3>1. m # 1
      BY <1>1, <2>1
    <3> QED
      BY <1>2, <3>1 DEF Elems
  <2>2. ASSUME NEW m \in 1..Len(s) PROVE s[m] \in After(t, o)
    <3>1. m + 1 \in 1..Len(t) /\ 1 \in 1..(m + 1) - 1 /\ t[m + 1] = s[m]
      BY <1>1, <2>2
    <3> QED
      BY <1>1, <3>1 DEF After
  <2> QED
    BY <2>1, <2>2 DEF After, Elems
<1> QED
  BY <1>1, <1>4, <1>5, <1>6, <1>7 DEF t

(* The first object is taken.                                              *)
LEMMA ListTail ==
  ASSUME NEW s \in Seq(Obj), s # <<>>, Distinct(s)
  PROVE  /\ Tail(s) \in Seq(Obj) /\ Distinct(Tail(s)) /\ s[1] \in Elems(s)
         /\ Elems(Tail(s)) = Elems(s) \ {s[1]}
<1> DEFINE t == Tail(s)
<1>1. /\ t \in Seq(Obj) /\ Len(s) \in Nat /\ Len(s) > 0 /\ Len(t) = Len(s) - 1
      /\ \A k \in 1..Len(t) : t[k] = s[k + 1]
  OBVIOUS
<1> HIDE DEF t
<1>2. Distinct(t)
  <2> SUFFICES ASSUME NEW m \in 1..Len(t), NEW n \in 1..Len(t), t[m] = t[n] PROVE m = n
    BY DEF Distinct
  <2>1. m + 1 \in 1..Len(s) /\ n + 1 \in 1..Len(s) /\ s[m + 1] = s[n + 1]
    BY <1>1
  <2>2. m + 1 = n + 1
    BY <2>1 DEF Distinct
  <2> QED
    BY <1>1, <2>2
<1>3. ASSUME NEW k \in 1..Len(t) PROVE t[k] \in Elems(s) \ {s[1]}
  <2>1. k + 1 \in 1..Len(s) /\ 1 \in 1..Len(s) /\ k + 1 # 1 /\ t[k] = s[k + 1]
    BY <1>1, <1>3
  <2>2. s[k + 1] # s[1]
    BY <2>1 DEF Distinct
  <2> QED
    BY <2>1, <2>2 DEF Elems
<1>4. ASSUME NEW k \in 1..Len(s), s[k] # s[1] PROVE s[k] \in Elems(t)
  <2>1. k # 1 /\ k - 1 \in 1..Len(t) /\ t[k - 1] = s[k]
    BY <1>1, <1>4
  <2> QED
    BY <2>1 DEF Elems
<1>5. s[1] \in Elems(s)
  BY <1>1 DEF Elems
<1>6. Elems(t) = Elems(s) \ {s[1]}
  BY <1>3, <1>4 DEF Elems
<1> QED
  BY <1>1, <1>2, <1>5, <1>6 DEF t

(* One list is put behind another.                                         *)
LEMMA ListConcat ==
  ASSUME NEW r \in Seq(Obj), NEW s \in Seq(Obj), Distinct(r), Distinct(s), Elems(r) \cap Elems(s) = {}
  PROVE  /\ r \o s \in Seq(Obj) /\ Distinct(r \o s) /\ Elems(r \o s) = Elems(r) \cup Elems(s)
         /\ \A p \in Elems(s) : After(r \o s, p) = After(s, p)
<1> DEFINE t == r \o s
<1>1. /\ t \in Seq(Obj) /\ Len(r) \in Nat /\ Len(s) \in Nat /\ Len(t) = Len(r) + Len(s)
      /\ \A k \in 1..Len(r) : t[k] = r[k]
      /\ \A k \in 1..Len(s) : t[Len(r) + k] = s[k]
  OBVIOUS
<1>2. \A k \in 1..Len(t) : k \in 1..Len(r) \/ (k - Len(r) \in 1..Len(s) /\ t[k] = s[k - Len(r)])
  BY <1>1
<1> HIDE DEF t
<1>3. \A m \in 1..Len(r), n \in 1..Len(s) : r[m] # s[n]
  BY DEF Elems
<1>4. Distinct(t)
  <2> SUFFICES ASSUME NEW m \in 1..Len(t), NEW n \in 1..Len(t), t[m] = t[n] PROVE m = n
    BY DEF Distinct
  <2>1. CASE m \in 1..Len(r) /\ n \in 1..Len(r)
    BY <1>1, <2>1 DEF Distinct
  <2>2. CASE m \notin 1..Len(r) /\ n \notin 1..Len(r)
    <3>1. m - Len(r) = n - Len(r)
      BY <1>2, <2>2 DEF Distinct
    <3> QED
      BY <1>1, <3>1
  <2>3. CASE m \in 1..Len(r) /\ n \notin 1..Len(r)
    BY <1>1, <1>2, <1>3, <2>3
  <2>4. CASE m \notin 1..Len(r) /\ n \in 1..Len(r)
    BY <1>1, <1>2, <1>3, <2>4
  <2> QED
    BY <2>1, <2>2, <2>3, <2>4
<1>5. Elems(t) = Elems(r) \cup Elems(s)
  <2>1. ASSUME NEW k \in 1..Len(t) PROVE t[k] \in Elems(r) \cup Elems(s)
    BY <1>1, <1>2, <2>1 DEF Elems
  <2>2. ASSUME NEW k \in 1..Len(r) PROVE r[k] \in Elems(t)
    <3>1. k \in 1..Len(t) /\ t[k] = r[k]
      BY <1>1, <2>2
    <3> QED
      BY <3>1 DEF Elems
  <2>3. ASSUME NEW k \in 1..Len(s) PROVE s[k] \in Elems(t)
    <3>1. Len(r) + k \in 1..Len(t) /\ t[Len(r) + k] = s[k]
      BY <1>1, <2>3
    <3> QED
      BY <3>1 DEF Elems
  <2> QED
    BY <2>1, <2>2, <2>3 DEF Elems
<1>6. ASSUME NEW p \in Elems(s) PROVE After(t, p) = After(s, p)
  <2>1. \A k \in 1..Len(r) : t[k] # p
    BY <1>1, <1>3, <1>6 DEF Elems
  <2>2. ASSUME NEW m \in 1..Len(t), NEW n \in 1..m - 1, t[n] = p PROVE t[m] \in After(s, p)
    <3>1. n \in 1..Len(t) /\ n \notin 1..Len(r) /\ m \notin 1..Len(r)
      BY <1>1, <2>1, <2>2
    <3>2. m - Len(r) \in 1..Len(s) /\ n - Len(r) \in 1..(m - Len(r)) - 1
      BY <1>1, <1>2, <2>2, <3>1
    <3>3. s[n - Len(r)] = p /\ t[m] = s[m - Len(r)]
      BY <1>2, <2>2, <3>1
    <3> QED
      BY <3>2, <3>3 DEF After
  <2>3. ASSUME NEW m \in 1..Len(s), NEW n \in 1..m - 1, s[n] = p PROVE s[m] \in After(t, p)
    <3>1. /\ Len(r) + m \in 1..Len(t) /\ Len(r) + n \in 1..(Len(r) + m) - 1
          /\ t[Len(r) + n] = p /\ t[Len(r) + m] = s[m]
      BY <1>1, <2>3
    <3> QED
      BY <3>1 DEF After
  <2> QED
    BY <2>2, <2>3 DEF After
<1> QED
  BY <1>1, <1>4, <1>5, <1>6 DEF t

(* What Without leaves out, element by element.                            *)
Drops(s, S, f) ==
  f = [k \in 0..Len(s) |-> IF k = 0 THEN <<>> ELSE IF s[k] \in S THEN f[k - 1] ELSE Append(f[k - 1], s[k])]

(* There is such a function, however long the list.                        *)
LEMMA DropsExists ==
  ASSUME NEW s \in Seq(Obj), NEW S
  PROVE  \E f \in [0..Len(s) -> Seq(Obj)] : Drops(s, S, f)
<1> DEFINE Step(f, k) == f[k] = IF k = 0 THEN <<>> ELSE IF s[k] \in S THEN f[k - 1] ELSE Append(f[k - 1], s[k])
           R == {n \in Nat : \E f \in [0..Len(s) -> Seq(Obj)] : \A k \in 0..Len(s) : k <= n => Step(f, k)}
<1>0. Len(s) \in Nat /\ \A k \in 1..Len(s) : s[k] \in Obj
  OBVIOUS
<1>1. 0 \in R
  <2> DEFINE f == [k \in 0..Len(s) |-> <<>>]
  <2>1. f \in [0..Len(s) -> Seq(Obj)]
    OBVIOUS
  <2>2. \A k \in 0..Len(s) : k <= 0 => Step(f, k)
    BY <1>0
  <2> QED
    BY <2>1, <2>2
<1>2. ASSUME NEW n \in Nat, n \in R PROVE n + 1 \in R
  <2>1. PICK f \in [0..Len(s) -> Seq(Obj)] : \A k \in 0..Len(s) : k <= n => Step(f, k)
    BY <1>2
  <2> DEFINE g == [k \in 0..Len(s) |-> IF k = 0 THEN <<>> ELSE IF s[k] \in S THEN f[k - 1] ELSE Append(f[k - 1], s[k])]
  <2>2. g \in [0..Len(s) -> Seq(Obj)]
    <3> SUFFICES ASSUME NEW k \in 0..Len(s), k # 0
                 PROVE  (IF s[k] \in S THEN f[k - 1] ELSE Append(f[k - 1], s[k])) \in Seq(Obj)
      OBVIOUS
    <3>1. k - 1 \in 0..Len(s) /\ k \in 1..Len(s)
      BY <1>0
    <3>2. f[k - 1] \in Seq(Obj) /\ s[k] \in Obj
      BY <1>0, <3>1
    <3> QED
      BY <3>2
  <2>3. ASSUME NEW k \in 0..Len(s), k <= n PROVE g[k] = f[k]
    BY <2>1, <2>3
  <2>4. ASSUME NEW k \in 0..Len(s), k <= n + 1 PROVE Step(g, k)
    <3>1. CASE k = 0
      BY <3>1
    <3>2. CASE k # 0
      <4>1. k - 1 \in 0..Len(s) /\ k - 1 <= n
        BY <1>0, <2>4, <3>2
      <4>2. g[k - 1] = f[k - 1]
        BY <2>3, <4>1
      <4> QED
        BY <3>2, <4>2
    <3> QED
      BY <3>1, <3>2
  <2>5. \E h \in [0..Len(s) -> Seq(Obj)] : \A k \in 0..Len(s) : k <= n + 1 => Step(h, k)
    <3> HIDE DEF g, Step
    <3> QED BY <2>2, <2>4
  <2> QED
    BY <2>5, n + 1 \in Nat
<1>3. \A n \in Nat : n \in R
  <2> HIDE DEF R
  <2> QED
    BY <1>1, <1>2, Induction
<1>4. PICK f \in [0..Len(s) -> Seq(Obj)] : \A k \in 0..Len(s) : k <= Len(s) => Step(f, k)
  BY <1>0, <1>3
<1>5. Drops(s, S, f)
  <2>1. \A k \in 0..Len(s) : Step(f, k)
    BY <1>0, <1>4
  <2> QED
    BY <2>1 DEF Drops
<1> QED
  BY <1>5

(* An object is put behind a list.                                         *)
LEMMA ListAppend ==
  ASSUME NEW s \in Seq(Obj), NEW o \in Obj, Distinct(s), o \notin Elems(s)
  PROVE  /\ Append(s, o) \in Seq(Obj) /\ Distinct(Append(s, o)) /\ Elems(Append(s, o)) = Elems(s) \cup {o}
         /\ \A p \in Elems(s) : After(Append(s, o), p) = After(s, p) \cup {o}
         /\ After(Append(s, o), o) = {}
<1> DEFINE t == Append(s, o)
<1>1. /\ t \in Seq(Obj) /\ Len(s) \in Nat /\ Len(t) = Len(s) + 1 /\ t[Len(s) + 1] = o
      /\ \A k \in 1..Len(s) : t[k] = s[k]
  OBVIOUS
<1>2. \A k \in 1..Len(t) : k \in 1..Len(s) \/ k = Len(s) + 1
  BY <1>1
<1>3. \A k \in 1..Len(s) : s[k] # o
  BY DEF Elems
<1> HIDE DEF t
<1>4. Distinct(t)
  <2> SUFFICES ASSUME NEW m \in 1..Len(t), NEW n \in 1..Len(t), t[m] = t[n] PROVE m = n
    BY DEF Distinct
  <2>1. CASE m \in 1..Len(s) /\ n \in 1..Len(s)
    BY <1>1, <2>1 DEF Distinct
  <2>2. CASE m = Len(s) + 1 \/ n = Len(s) + 1
    BY <1>1, <1>2, <1>3, <2>2
  <2> QED
    BY <1>2, <2>1, <2>2
<1>5. Elems(t) = Elems(s) \cup {o}
  <2>1. ASSUME NEW k \in 1..Len(t) PROVE t[k] \in Elems(s) \cup {o}
    BY <1>1, <1>2, <2>1 DEF Elems
  <2>2. ASSUME NEW k \in 1..Len(s) PROVE s[k] \in Elems(t)
    <3>1. k \in 1..Len(t) /\ t[k] = s[k]
      BY <1>1, <2>2
    <3> QED
      BY <3>1 DEF Elems
  <2>3. o \in Elems(t)
    <3>1. Len(s) + 1 \in 1..Len(t)
      BY <1>1
    <3> QED
      BY <1>1, <3>1 DEF Elems
  <2> QED
    BY <2>1, <2>2, <2>3 DEF Elems
<1>6. ASSUME NEW p \in Elems(s) PROVE After(t, p) = After(s, p) \cup {o}
  <2>1. ASSUME NEW m \in 1..Len(t), NEW n \in 1..m - 1, t[n] = p PROVE t[m] \in After(s, p) \cup {o}
    <3>1. n \in 1..Len(s) /\ s[n] = p
      BY <1>1, <1>2, <2>1
    <3>2. CASE m \in 1..Len(s)
      BY <1>1, <2>1, <3>1, <3>2 DEF After
    <3> QED
      BY <1>1, <1>2, <3>2
  <2>2. ASSUME NEW m \in 1..Len(s), NEW n \in 1..m - 1, s[n] = p PROVE s[m] \in After(t, p)
    <3>1. m \in 1..Len(t) /\ n \in 1..Len(s) /\ t[n] = p /\ t[m] = s[m]
      BY <1>1, <2>2
    <3> QED
      BY <3>1, <2>2 DEF After
  <2>3. o \in After(t, p)
    <3>1. PICK n \in 1..Len(s) : s[n] = p
      BY <1>6 DEF Elems
    <3>2. Len(s) + 1 \in 1..Len(t) /\ n \in 1..(Len(s) + 1) - 1 /\ t[n] = p
      BY <1>1, <3>1
    <3> QED
      BY <1>1, <3>2 DEF After
  <2> QED
    BY <2>1, <2>2, <2>3 DEF After
<1>7. After(t, o) = {}
  <2> SUFFICES ASSUME NEW m \in 1..Len(t), NEW n \in 1..m - 1, t[n] = o PROVE FALSE
    BY DEF After
  <2>1. n \in 1..Len(s)
    BY <1>1
  <2> QED
    BY <1>1, <1>3, <2>1
<1> QED
  BY <1>1, <1>4, <1>5, <1>6, <1>7 DEF t

(* What is left of a list has the order it had.                            *)
LEMMA ListWithout ==
  ASSUME NEW s \in Seq(Obj), NEW S, Distinct(s)
  PROVE  /\ Without(s, S) \in Seq(Obj) /\ Distinct(Without(s, S)) /\ Elems(Without(s, S)) = Elems(s) \ S
         /\ \A p \in Elems(s) \ S : After(Without(s, S), p) = After(s, p) \ S
<1> DEFINE f == CHOOSE g : Drops(s, S, g)
           Upto(n) == {s[k] : k \in 1..n}
           Between(n, p) == {s[k] : k \in {m \in 1..n : \E i \in 1..m - 1 : s[i] = p}}
           Good(n) == /\ f[n] \in Seq(Obj) /\ Distinct(f[n]) /\ Elems(f[n]) = Upto(n) \ S
                      /\ \A p \in Upto(n) \ S : After(f[n], p) = Between(n, p) \ S
           R == {n \in Nat : n <= Len(s) => Good(n)}
<1>1. Without(s, S) = f[Len(s)]
  BY DEF Without, Drops
<1>2. Drops(s, S, f)
  <2>1. \E g : Drops(s, S, g)
    BY DropsExists
  <2> QED
    BY <2>1
<1> HIDE DEF f
<1>3. /\ Len(s) \in Nat /\ \A k \in 1..Len(s) : s[k] \in Obj
      /\ \A m, n \in 1..Len(s) : s[m] = s[n] => m = n
  BY DEF Distinct
<1>4. /\ f[0] = <<>>
      /\ \A k \in 1..Len(s) : f[k] = IF s[k] \in S THEN f[k - 1] ELSE Append(f[k - 1], s[k])
  <2>1. \A k \in 0..Len(s) : f[k] = IF k = 0 THEN <<>> ELSE IF s[k] \in S THEN f[k - 1] ELSE Append(f[k - 1], s[k])
    BY <1>2 DEF Drops
  <2> QED
    BY <1>3, <2>1
<1>5. 0 \in R
  <2>1. f[0] \in Seq(Obj) /\ Len(f[0]) = 0
    BY <1>4
  <2>2. Distinct(f[0]) /\ Elems(f[0]) = {}
    BY <2>1 DEF Distinct, Elems
  <2>3. Upto(0) = {}
    OBVIOUS
  <2> HIDE DEF Upto, Between
  <2> QED
    BY <2>1, <2>2, <2>3
<1>6. ASSUME NEW k \in Nat, k \in R PROVE k + 1 \in R
  <2> SUFFICES ASSUME k + 1 <= Len(s) PROVE Good(k + 1)
    OBVIOUS
  <2> DEFINE n == k + 1
             t == f[k]
  <2>0. k + 1 <= Len(s) /\ k <= Len(s) /\ n \in 1..Len(s) /\ n - 1 = k
    BY <1>3, <1>6
  <2>1. Good(k) /\ n \in 1..Len(s) /\ n - 1 = k
    <3> HIDE DEF Good
    <3> QED BY <1>6, <2>0
  <2>2. Upto(n) = Upto(k) \cup {s[n]} /\ s[n] \notin Upto(k)
    BY <1>3, <2>1
  <2>3. ASSUME NEW p \in Upto(k) PROVE Between(n, p) = Between(k, p) \cup {s[n]}
    <3>1. PICK m \in 1..k : s[m] = p
      OBVIOUS
    <3>2. ASSUME NEW m1 \in 1..n, NEW m2 \in 1..m1 - 1, s[m2] = p PROVE s[m1] \in Between(k, p) \cup {s[n]}
      BY <3>2, <2>1
    <3>3. s[n] \in Between(n, p)
      BY <3>1, <2>1
    <3>4. Between(k, p) \subseteq Between(n, p)
      BY <2>1
    <3> QED
      BY <3>2, <3>3, <3>4
  <2>4. Between(n, s[n]) = {}
    BY <1>3, <2>1
  <2>5. CASE s[n] \in S
    <3>1. f[n] = t
      BY <1>4, <2>1, <2>5
    <3>2. \A p \in Upto(n) \ S : p \in Upto(k) \ S /\ Between(n, p) \ S = Between(k, p) \ S
      BY <2>2, <2>3, <2>5
    <3>3. Upto(n) \ S = Upto(k) \ S
      BY <2>2, <2>5
    <3> HIDE DEF Upto, Between
    <3> QED
      BY <2>1, <3>1, <3>2, <3>3
  <2>6. CASE s[n] \notin S
    <3>1. f[n] = Append(t, s[n]) /\ s[n] \in Obj
      BY <1>3, <1>4, <2>1, <2>6
    <3>2. t \in Seq(Obj) /\ Distinct(t) /\ Elems(t) = Upto(k) \ S
      BY <2>1
    <3>3. s[n] \notin Elems(t)
      BY <2>2, <3>2
    <3> HIDE DEF Upto, Between, t, n
    <3>4. /\ f[n] \in Seq(Obj) /\ Distinct(f[n]) /\ Elems(f[n]) = Elems(t) \cup {s[n]}
          /\ \A p \in Elems(t) : After(f[n], p) = After(t, p) \cup {s[n]}
          /\ After(f[n], s[n]) = {}
      BY <3>1, <3>2, <3>3, ListAppend
    <3>5. Elems(f[n]) = Upto(n) \ S
      BY <2>2, <2>6, <3>2, <3>4
    <3>6. ASSUME NEW p \in Upto(n) \ S PROVE After(f[n], p) = Between(n, p) \ S
      <4>1. CASE p = s[n]
        BY <2>4, <3>4, <4>1
      <4>2. CASE p # s[n]
        <5>1. p \in Upto(k) \ S /\ p \in Elems(t)
          BY <2>2, <3>2, <4>2
        <5>2. After(t, p) = Between(k, p) \ S
          BY <2>1, <5>1 DEF t
        <5> QED
          BY <2>3, <2>6, <3>4, <5>1, <5>2
      <4> QED
        BY <4>1, <4>2
    <3> QED
      BY <3>4, <3>5, <3>6 DEF n
  <2> QED
    BY <2>5, <2>6
<1>7. \A n \in Nat : n \in R
  <2> HIDE DEF R
  <2> QED
    BY <1>5, <1>6, Induction
<1>8. Good(Len(s))
  <2> HIDE DEF Good
  <2>1. Len(s) \in R
    BY <1>3, <1>7
  <2> QED
    BY <1>3, <2>1
<1>9. Upto(Len(s)) = Elems(s) /\ \A p : Between(Len(s), p) = After(s, p)
  BY DEF Elems, After
<1> HIDE DEF Upto, Between
<1> QED
  BY <1>1, <1>8, <1>9

(* The objects of a set, in some order.                                    *)
LEMMA ListOfSet ==
  ASSUME NEW S \in SUBSET Obj
  PROVE  SetToSeq(S) \in Seq(Obj) /\ Distinct(SetToSeq(S)) /\ Elems(SetToSeq(S)) = S
<1>1. IsFiniteSet(S) /\ Cardinality(S) \in Nat
  <2>1. IsFiniteSet(Obj)
    BY LuaGCAssumption, FS_Interval DEF Obj
  <2> QED
    BY <2>1, FS_Subset, FS_CardinalityType
<1>2. PICK f \in [1..Cardinality(S) -> S] : IsInjective(f)
  <2>1. PICK f : f \in Bijection(1..Cardinality(S), S)
    BY <1>1, FS_CardinalityType DEF ExistsBijection
  <2>2. f \in [1..Cardinality(S) -> S] /\ \A m, n \in 1..Cardinality(S) : f[m] = f[n] => m = n
    BY <2>1 DEF Bijection, Injection, IsInjective
  <2> QED
    BY <2>2 DEF IsInjective
<1>3. \E g \in [1..Cardinality(S) -> S] : IsInjective(g)
  BY <1>2 DEF IsInjective
<1> DEFINE g == SetToSeq(S)
<1>4. g \in [1..Cardinality(S) -> S] /\ IsInjective(g)
  BY <1>3, Zenon DEF SetToSeq
<1> HIDE DEF g
<1>5. g \in Seq(Obj) /\ Len(g) = Cardinality(S) /\ Distinct(g)
  BY <1>1, <1>4 DEF IsInjective, Distinct
<1>6. Elems(g) = S
  <2>1. Elems(g) \subseteq S
    BY <1>4, <1>5 DEF Elems
  <2>2. S \subseteq Elems(g)
    <3>1. g \in Injection(1..Cardinality(S), S)
      BY <1>4 DEF Injection
    <3>2. Cardinality(1..Cardinality(S)) = Cardinality(S)
      BY <1>1, FS_Interval
    <3>3. g \in Surjection(1..Cardinality(S), S)
      BY <1>1, <3>1, <3>2, FS_Injection
    <3> QED
      BY <1>1, <1>4, <1>5, <3>3 DEF Surjection, Elems
  <2> QED
    BY <2>1, <2>2
<1> QED
  BY <1>5, <1>6 DEF g

-----------------------------------------------------------------------------
(* The parts of the inductive invariant.                                   *)

(* The program has ended; the collector is sweeping.                       *)
Over == goal \in {"close", "closed"}
Sweeping == gcstate \in SweepStates

(* What comes behind a pointer: all of the list at Start, nothing at None. *)
Rest(s, p) == IF p = None THEN {} ELSE IF p = Start THEN Elems(s) ELSE After(s, p)

(* What a sweep has still to visit, the open upvalues with their threads.  *)
InAll == IF gcstate = "enterfin" THEN Elems(allgc) ELSE Rest(allgc, sweepgc)
InFin == Rest(finobj, sweepfin)
InStr == IF gcstate \in {"enterfin", "enterall"} THEN {o \in Live : type[o] = "string"} ELSE sweepstr
Listed  == InAll \cup InFin \cup InStr \cup {Main}
Unswept == Listed \cup {o \in Live : open[o] \in Listed}

(* The types of the variables.                                             *)
TypeInv ==
  /\ profile \in Profiles
  /\ type \in [Node -> Types \cup {"free"}] /\ type[Main] = "thread"
  /\ mark \in [Node -> Whites \cup {"gray", "black"}]
  /\ old \in [Node -> BOOLEAN]
  /\ mode \in [Node -> {"strong", "weakv", "weakk", "weakkv"}]
  /\ entries \in [Node -> SUBSET ((Obj \cup {None}) \X (Obj \cup {None}))]
  /\ cache \in [Node -> Obj \cup {None}]
  /\ open \in [Node -> Node \cup {None}]
  /\ allgc \in Seq(Obj) /\ finobj \in Seq(Obj) /\ tobefnz \in Seq(Obj)
  /\ gray \subseteq Node /\ grayagain \subseteq Node
  /\ weak \subseteq Node /\ allweak \subseteq Node /\ ephemeron \subseteq Node
  /\ currentwhite \in Whites
  /\ gcstate \in SweepStates \cup {"pause", "propagate"}
  /\ gckind \in {"normal", "gen"} /\ kind0 \in {"normal", "gen"}
  /\ sweepgc \in Obj \cup {None, Start} /\ sweepfin \in Obj \cup {None, Start}
  /\ pending \in Obj \cup {None}
  /\ sweepstr \subseteq Obj
  /\ goal \in {"none", "finish", "collect", "regen", "minor", "togen", "whiten", "close", "closed"}
  /\ owed \subseteq Obj /\ finalized \subseteq Obj

(* What an object of each type can refer to.  An open upvalue has no value *)
(* of its own; it and a thread are never black.                            *)
KindInv ==
  /\ \A o \in Node : type[o] = "free" => ~old[o] \/ goal = "closed"
  /\ \A o \in Node : type[o] \in {"free", "string"} => entries[o] = {}
  /\ \A o \in Node : mode[o] # "strong" => type[o] = "table"
  /\ \A o \in Node : type[o] # "table" => \A e \in entries[o] : e[1] = None
  /\ \A o \in Node : cache[o] # None => type[o] = "proto"
  /\ \A o \in Node : open[o] # None =>
       /\ type[o] = "upval" /\ open[o] \in Obj /\ type[open[o]] = "thread"
       /\ mark[o] # "black" /\ entries[o] = {}
  /\ \A o \in Node : type[o] = "thread" => mark[o] # "black"

(* An object is in just one list, but a string and an open upvalue in none.*)
ListInv ==
  /\ Distinct(allgc) /\ Distinct(finobj) /\ Distinct(tobefnz)
  /\ Elems(allgc) \cap Elems(finobj) = {}
  /\ Elems(allgc) \cap Elems(tobefnz) = {}
  /\ Elems(finobj) \cap Elems(tobefnz) = {}
  /\ \A o \in Obj : o \in Elems(allgc) \cup Elems(finobj) \cup Elems(tobefnz)
                      <=> type[o] \notin {"free", "string"} /\ open[o] = None
  /\ \A o \in Elems(finobj) \cup Elems(tobefnz) : type[o] \in {"udata", "table"} /\ mode[o] = "strong"

(* What has a finalizer is in finobj until it is found unreachable and in  *)
(* tobefnz until the finalizer is called.                                  *)
FinInv ==
  /\ owed = Elems(finobj) \cup Elems(tobefnz) /\ Elems(tobefnz) \subseteq finalized
  /\ Elems(finobj) \cap finalized = {}
  /\ Over => finobj = <<>>
  /\ goal = "closed" => tobefnz = <<>> /\ Live = {Main} /\ entries[Main] = {}

(* Between the two steps of setting a finalizer the object stays ordinary. *)
PendingInv == pending # None =>
  /\ goal = "none" /\ gcstate \notin {"enterfin", "enterall"}
  /\ pending \in Elems(allgc) /\ pending \notin finalized /\ pending \notin Dead
  /\ type[pending] \in {"udata", "table"} /\ mode[pending] = "strong"

(* An open upvalue of a thread that the sweeps of the generational mode do *)
(* not come to any more.                                                   *)
Stale(o) == gckind = "gen" /\ open[o] # None /\ old[open[o]]
Young == \A o \in Live : mark[o] = currentwhite => Stale(o)

(* In the generational mode the collector waits while marking, and nothing *)
(* is created while it sweeps.                                             *)
GoalInv ==
  /\ goal = "minor" /\ Sweeping => Young
  /\ gckind = "gen" => goal \in {"none", "minor", "close"} /\ gcstate # "pause"
  /\ gckind = "gen" /\ goal # "minor" => gcstate = "propagate"
  /\ goal = "minor" => gckind = "gen"
  /\ goal = "whiten" => Sweeping
  /\ goal \in {"finish", "togen"} => gcstate # "propagate"
  /\ goal = "regen" => gcstate = "pause"
  /\ goal # "none" /\ ~Over => pending = None
  /\ Over => gcstate \notin {"enterfin", "enterall"} /\ pending = None

(* Where the sweep stands in each of its states.                           *)
PointInv == ~Over =>
  /\ ~Sweeping => sweepgc = None /\ sweepfin = None
  /\ gcstate # "sweepstring" => sweepstr = {}
  /\ gcstate = "enterfin" => sweepfin = Start /\ sweepgc = None
  /\ gcstate = "enterall" => sweepgc = Start
  /\ gcstate # "enterfin" => sweepfin \in Elems(finobj) \cup {None}
  /\ gcstate # "enterall" => sweepgc \in Elems(allgc) \cup {None}
  /\ gcstate = "sweep" => sweepfin = None
  /\ \A o \in sweepstr : type[o] = "string"

(* What is not dead leads to nothing dead or freed.                        *)
Sound == \A o \in Live \ Dead : Leads(o) \subseteq Live \ Dead

(* The main thread and what waits for its finalizer are not dead.          *)
Kept == Main \notin Dead /\ Elems(finobj) \cap Dead = {} /\ Elems(tobefnz) \cap Dead = {}

(* What is dead has still to be swept, or is such an upvalue.              *)
SweptInv == ~Over =>
  /\ \A o \in Dead : (Sweeping /\ o \in Unswept) \/ Stale(o)
  /\ gckind = "normal" /\ gcstate # "propagate" =>
       \A o \in Live \ Elems(tobefnz) : mark[o] = currentwhite \/ (Sweeping /\ o \in Unswept)

(* While marking, what is black refers to nothing white, what is gray is   *)
(* in one list of the traversal and every list holds what it is for.  When *)
(* the marking has ended, in the generational mode, nothing marked refers  *)
(* to anything white.                                                      *)
Grays == gray \cup grayagain \cup weak \cup allweak \cup ephemeron
GrayInv == KeepInvariant /\ goal # "closed" =>
  /\ \A o \in Live \ White : mark[o] = "black" \/ gcstate # "propagate" => Leads(o) \cap White = {}
  /\ \A o \in Live : mark[o] = "gray" /\ open[o] = None => o \in Grays
  /\ \A o \in Grays : mark[o] = "gray" /\ type[o] \in {"table", "closure", "proto", "thread"}
  /\ \A o \in weak : mode[o] = "weakv"
  /\ \A o \in ephemeron : mode[o] = "weakk"
  /\ \A o \in allweak : mode[o] \in {"weakk", "weakkv"}
  /\ gray \cap (grayagain \cup weak \cup allweak \cup ephemeron) = {}
  /\ grayagain \cap (weak \cup allweak \cup ephemeron) = {}
  /\ weak \cap (allweak \cup ephemeron) = {} /\ allweak \cap ephemeron = {}
  /\ mark[Main] = "gray"
  /\ gcstate # "propagate" => gray = {}

(* In a list, what is behind an old object is old as well, except that the *)
(* sweep has not made it so yet: U is what it has still to visit.          *)
OldRun(s, U) == \A x \in Elems(s) : \A y \in After(s, x) : old[x] /\ (x \in U \/ y \notin U) => old[y]
OldInv == ~Over =>
  /\ \A o \in Live : old[o] => mark[o] \notin Whites
  /\ \A o \in Elems(tobefnz) : ~old[o]
  /\ gckind = "normal" => \A o \in Live : old[o] => goal \in {"finish", "whiten"} /\ Sweeping /\ o \in Unswept
  /\ gckind = "gen" => /\ OldRun(allgc, IF Sweeping THEN InAll ELSE {})
                       /\ OldRun(finobj, IF Sweeping THEN InFin ELSE {})

(* The inductive invariant.                                                *)
IInv == /\ TypeInv /\ KindInv /\ ListInv /\ FinInv /\ PendingInv /\ GoalInv /\ PointInv
        /\ Sound /\ Kept /\ SweptInv /\ GrayInv /\ OldInv

(* The objects are numbered; the main thread is one apart from the others. *)
LEMMA Numbers ==
  /\ Main \in Node /\ Main \notin Obj /\ Obj \subseteq Node /\ \A o \in Node : o # Main => o \in Obj
  /\ None \notin Node /\ Start \notin Node /\ None # Start
BY LuaGCAssumption DEF Main, Node, Obj, None, Start

(* A list without repetitions is as long as its set is large.              *)
LEMMA ListCard ==
  ASSUME NEW s \in Seq(Obj), Distinct(s)
  PROVE  Len(s) = Cardinality(Elems(s))
<1>1. s \in [1..Len(s) -> Elems(s)] /\ \A x \in Elems(s) : \E k \in 1..Len(s) : s[k] = x
  BY DEF Elems
<1>2. s \in Injection(1..Len(s), Elems(s)) /\ s \in Surjection(1..Len(s), Elems(s))
  BY <1>1 DEF Injection, Surjection, IsInjective, Distinct
<1>3. s \in Bijection(1..Len(s), Elems(s))
  BY <1>2 DEF Bijection
<1> QED
  BY <1>3, FS_CountingElements, Len(s) \in Nat DEF ExistsBijection

(* The object at a pointer, and what is behind it.                         *)
LEMMA ListAt ==
  ASSUME NEW s \in Seq(Obj), NEW p \in Elems(s) \cup {Start}, Distinct(s)
  PROVE  \/ At(s, p) = None /\ Rest(s, p) = {}
         \/ /\ At(s, p) \in Elems(s) /\ At(s, p) # p
            /\ Rest(s, p) = {At(s, p)} \cup After(s, At(s, p)) /\ At(s, p) \notin After(s, At(s, p))
            /\ p \notin Rest(s, p)
<1> DEFINE k == IF p = Start THEN 1 ELSE (CHOOSE i \in 1..Len(s) : s[i] = p) + 1
<1>1. Len(s) \in Nat /\ \A m, n \in 1..Len(s) : s[m] = s[n] => m = n
  BY DEF Distinct
<1>2. Elems(s) \subseteq Obj /\ p # None
  BY Numbers DEF Elems
<1>3. k \in Nat \ {0} /\ (p = Start => k = 1) /\ (p # Start => k - 1 \in 1..Len(s) /\ s[k - 1] = p)
  <2>1. CASE p = Start
    BY <2>1
  <2>2. CASE p # Start
    <3>1. \E i \in 1..Len(s) : s[i] = p
      BY <2>2 DEF Elems
    <3>2. (CHOOSE i \in 1..Len(s) : s[i] = p) \in 1..Len(s) /\ s[CHOOSE i \in 1..Len(s) : s[i] = p] = p
      BY <3>1
    <3> QED
      BY <1>1, <2>2, <3>2
  <2> QED
    BY <2>1, <2>2
<1>4. At(s, p) = IF k > Len(s) THEN None ELSE s[k]
  BY Zenon DEF At
<1> HIDE DEF k
<1>5. Rest(s, p) = {s[m] : m \in k..Len(s)}
  <2>1. CASE p = Start
    BY <1>2, <1>3, <2>1 DEF Rest, Elems
  <2>2. CASE p # Start
    <3>1. Rest(s, p) = After(s, p)
      BY <1>2, <2>2 DEF Rest
    <3>2. ASSUME NEW m \in 1..Len(s), NEW n \in 1..m - 1, s[n] = p PROVE m \in k..Len(s)
      <4>1. n \in 1..Len(s) /\ n = k - 1
        BY <1>1, <1>3, <2>2, <3>2
      <4> QED
        BY <1>1, <1>3, <4>1
    <3>3. ASSUME NEW m \in k..Len(s) PROVE m \in 1..Len(s) /\ k - 1 \in 1..m - 1 /\ s[k - 1] = p
      BY <1>1, <1>3, <2>2
    <3> QED
      BY <3>1, <3>2, <3>3 DEF After
  <2> QED
    BY <2>1, <2>2
<1>6. CASE k > Len(s)
  <2>1. k..Len(s) = {}
    BY <1>1, <1>3, <1>6
  <2> QED
    BY <1>4, <1>5, <1>6, <2>1
<1>7. CASE ~(k > Len(s))
  <2>1. k \in 1..Len(s) /\ At(s, p) = s[k]
    BY <1>1, <1>3, <1>4, <1>7
  <2>2. After(s, s[k]) = {s[m] : m \in k + 1..Len(s)}
    <3>1. ASSUME NEW m \in 1..Len(s), NEW n \in 1..m - 1, s[n] = s[k] PROVE m \in k + 1..Len(s)
      <4>1. n \in 1..Len(s) /\ n = k
        BY <1>1, <2>1, <3>1
      <4> QED
        BY <1>1, <4>1
    <3>2. ASSUME NEW m \in k + 1..Len(s) PROVE m \in 1..Len(s) /\ k \in 1..m - 1
      BY <1>1, <2>1
    <3> QED
      BY <3>1, <3>2 DEF After
  <2>3. \A m \in k..Len(s) : m = k \/ m \in k + 1..Len(s)
    BY <1>1, <2>1
  <2>4. k \in k..Len(s) /\ k + 1..Len(s) \subseteq k..Len(s)
    BY <1>1, <2>1
  <2>5. Rest(s, p) = {s[k]} \cup After(s, s[k])
    BY <1>5, <2>2, <2>3, <2>4
  <2>6. s[k] \notin After(s, s[k])
    <3> SUFFICES ASSUME NEW m \in k + 1..Len(s), s[m] = s[k] PROVE FALSE
      BY <2>2
    <3> QED
      BY <1>1, <2>1
  <2>7. p \notin Rest(s, p)
    <3>1. CASE p = Start
      BY <1>2, <2>1, <2>5, <3>1, AfterIn, Numbers DEF Elems
    <3>2. CASE p # Start
      <4> SUFFICES ASSUME NEW m \in k..Len(s), s[m] = s[k - 1] PROVE FALSE
        BY <1>3, <1>5, <3>2
      <4>1. m \in 1..Len(s) /\ k - 1 \in 1..Len(s)
        BY <1>1, <1>3, <2>1, <3>2
      <4> QED
        BY <1>1, <4>1, <2>1
    <3> QED
      BY <3>1, <3>2
  <2>8. s[k] \in Elems(s) /\ s[k] # p
    BY <2>1, <2>5, <2>7 DEF Elems
  <2> QED
    BY <2>1, <2>5, <2>6, <2>7, <2>8
<1> QED
  BY <1>6, <1>7

-----------------------------------------------------------------------------
(* The colors.                                                             *)

LEMMA Colors ==
  ASSUME TypeInv
  PROVE  /\ Other \in Whites /\ Other # currentwhite /\ Whites = {Other, currentwhite}
         /\ "gray" \notin Whites /\ "black" \notin Whites
         /\ Dead \subseteq White /\ White \subseteq Live /\ Live \subseteq Node
         /\ \A o \in White : mark[o] = currentwhite \/ o \in Dead
BY DEF TypeInv, Other, Whites, Dead, White, Live

(* What the program can reach at once is not dead.                         *)
LEMMA StackAlive ==
  ASSUME TypeInv, KindInv, Sound, Kept
  PROVE  /\ Stack \subseteq Live \ Dead /\ Stack \subseteq Obj
         /\ Main \in Live /\ Main \notin Dead /\ open[Main] = None /\ cache[Main] = None
         /\ mode[Main] = "strong" /\ mark[Main] # "black" /\ \A e \in entries[Main] : e[1] = None
<1>1. /\ Main \in Live /\ Main \notin Dead /\ open[Main] = None /\ cache[Main] = None
      /\ mode[Main] = "strong" /\ mark[Main] # "black" /\ \A e \in entries[Main] : e[1] = None
  BY Numbers DEF TypeInv, KindInv, Kept, Live
<1>2. Stack \subseteq Leads(Main)
  BY <1>1 DEF Leads, Stack, Refs
<1>3. Stack \subseteq Obj
  BY Numbers DEF TypeInv, Stack, Vals
<1> QED
  BY <1>1, <1>2, <1>3 DEF Sound

(* What may be written while the program runs: entries that refer to what  *)
(* is not dead; colors so that what was swept stays white.                 *)
Stored ==
  /\ entries' \in [Node -> SUBSET ((Obj \cup {None}) \X (Obj \cup {None}))]
  /\ \A o \in Node : type[o] \in {"free", "string"} \/ open[o] # None => entries'[o] = {}
  /\ \A o \in Node : type[o] # "table" => \A e \in entries'[o] : e[1] = None
  /\ \A o \in Node : \A e \in entries'[o] :
       e \in entries[o] \/ {e[1], e[2]} \subseteq {x \in Live : x \notin Dead \/ mark'[x] = currentwhite} \cup {None}
Colored ==
  /\ mark' \in [Node -> Whites \cup {"gray", "black"}]
  /\ \A o \in Node :
       \/ mark'[o] = mark[o]
       \/ /\ KeepInvariant /\ mark[o] # Other /\ mark'[o] \in {"gray", "black"}
          /\ mark'[o] = "black" => type[o] # "thread" /\ open[o] = None
       \/ ~KeepInvariant /\ mark[o] = "black" /\ mark'[o] \in {"gray", currentwhite}
       \/ type[o] = "string" /\ mark[o] = Other /\ mark'[o] = currentwhite
Writes ==
  /\ Running /\ Stored /\ Colored
  /\ UNCHANGED <<type, old, mode, cache, open, allgc, finobj, tobefnz>>
  /\ UNCHANGED <<currentwhite, gcstate, gckind, sweepgc, sweepfin, sweepstr, pending, goal, kind0>>
  /\ UNCHANGED <<profile, finalized, owed>>
  /\ gray' \subseteq Node /\ grayagain' \subseteq Node
  /\ weak' \subseteq Node /\ allweak' \subseteq Node /\ ephemeron' \subseteq Node

(* Such a write keeps everything, if it keeps the colors in order.         *)
LEMMA WritesKeep ==
  ASSUME IInv, Writes, GrayInv'
  PROVE  IInv'
<1>1. TypeInv'
  BY DEF IInv, TypeInv, Writes, Stored, Colored, Whites
<1>2. KindInv'
  BY DEF IInv, KindInv, Writes, Stored, Colored, TypeInv, Whites
<1>3. Live' = Live /\ Other' = Other /\ Dead' \subseteq Dead /\ (\A o \in Dead \ Dead' : type[o] = "string")
  <2>1. Live' = Live /\ Other' = Other
    BY DEF Writes, Live, Other
  <2>2. ASSUME NEW o \in Live, mark'[o] = Other PROVE mark[o] = Other
    <3>1. o \in Node /\ Other # currentwhite /\ Other \notin {"gray", "black"}
      BY <2>2, Colors DEF IInv, Whites, Live
    <3> QED
      BY <2>2, <3>1 DEF Writes, Colored
  <2>3. ASSUME NEW o \in Live, mark[o] = Other, mark'[o] # Other, type[o] # "string" PROVE FALSE
    <3>1. o \in Node /\ Other \notin {"gray", "black"}
      BY <2>3, Colors DEF IInv, Whites, Live
    <3> QED
      BY <2>3, <3>1 DEF Writes, Colored
  <2> QED
    BY <2>1, <2>2, <2>3 DEF Dead
<1>0. ASSUME NEW x \in {y \in Live : y \notin Dead \/ mark'[y] = currentwhite} PROVE x \in Live \ Dead'
  BY <1>3, Colors DEF IInv, Dead
<1>4. ListInv'
  <2>1. Elems(allgc)' = Elems(allgc) /\ Elems(finobj)' = Elems(finobj) /\ Elems(tobefnz)' = Elems(tobefnz)
    BY DEF Writes, Elems
  <2>2. Distinct(allgc)' /\ Distinct(finobj)' /\ Distinct(tobefnz)'
    BY DEF IInv, ListInv, Writes, Distinct
  <2> QED
    BY <2>1, <2>2 DEF IInv, ListInv, Writes
<1>5. FinInv'
  BY <1>3 DEF IInv, FinInv, Writes, Elems, Over, Running
<1>6. PendingInv' /\ GoalInv'
  BY DEF IInv, GoalInv, PendingInv, Writes, Running, Over, Sweeping
<1>7. PointInv'
  BY DEF IInv, PointInv, Writes, Over, Sweeping, Elems
<1>8. Sound'
  <2> SUFFICES ASSUME NEW o \in Live, o \notin Dead', NEW x \in Leads(o)' PROVE x \in Live \ Dead'
    BY <1>3 DEF Sound
  <2>1. CASE o \in Dead
    BY <1>2, <1>3, <2>1 DEF Leads, Refs, Vals, Keys, KindInv, Writes, Stored, Live
  <2>2. CASE o \notin Dead
    <3>1. Leads(o) \subseteq Live \ Dead
      BY <2>2 DEF IInv, Sound
    <3>2. CASE open[o] # None
      <4>1. x \in Vals(open[o])'
        BY <3>2, <1>2, Numbers DEF Leads, Writes, KindInv, Live
      <4>2. PICK e \in entries'[open[o]] : x = e[2] /\ x # None
        BY <4>1 DEF Vals, Writes
      <4>3. open[o] \in Node
        BY <3>2, Numbers DEF IInv, KindInv, Live
      <4>4. CASE e \in entries[open[o]]
        BY <1>3, <3>1, <3>2, <4>2, <4>4 DEF Leads, Vals
      <4> QED
        <5>1. CASE e \notin entries[open[o]]
          <6>1. {e[1], e[2]} \subseteq {y \in Live : y \notin Dead \/ mark'[y] = currentwhite} \cup {None}
            BY <4>2, <4>3, <5>1 DEF Writes, Stored
          <6> QED
            BY <1>0, <1>3, <4>2, <6>1
        <5> QED
          BY <4>4, <5>1
    <3>3. CASE open[o] = None
      <4>1. CASE x = cache[o]
        <5>1. x # None
          BY <3>3 DEF Leads, Writes, Refs, Vals, Keys
        <5> QED
          BY <1>3, <3>1, <4>1, <5>1 DEF Leads, Writes
      <4>2. CASE x # cache[o]
        <5>1. PICK e \in entries'[o] : x \in {e[1], e[2]} /\ x # None
          BY <3>3, <4>2 DEF Leads, Writes, Refs, Vals, Keys
        <5>2. CASE e \in entries[o]
          BY <1>3, <3>1, <3>3, <5>1, <5>2 DEF Leads, Refs, Vals, Keys
        <5>3. CASE e \notin entries[o]
          <6>1. {e[1], e[2]} \subseteq {y \in Live : y \notin Dead \/ mark'[y] = currentwhite} \cup {None}
            BY <5>1, <5>3 DEF Writes, Stored, Live
          <6> QED
            BY <1>0, <1>3, <5>1, <6>1
        <5> QED
          BY <5>2, <5>3
      <4> QED
        BY <4>1, <4>2
    <3> QED
      BY <3>2, <3>3
  <2> QED
    BY <2>1, <2>2
<1>9. Kept'
  BY <1>3 DEF IInv, Kept, Writes, Elems
<1>10. InAll' = InAll /\ InFin' = InFin /\ InStr' = InStr /\ Unswept' = Unswept
  BY <1>3 DEF Writes, InAll, InFin, InStr, Unswept, Listed, Rest, Elems, After
<1>11. SweptInv'
  <2>1. ASSUME NEW o \in Dead', ~Over PROVE ((Sweeping /\ o \in Unswept) \/ Stale(o))'
    BY <1>3, <1>10, <2>1 DEF IInv, SweptInv, Stale, Writes, Sweeping
  <2>2. ASSUME gckind = "normal", gcstate # "propagate", ~Over, NEW o \in Live \ Elems(tobefnz)
        PROVE  mark'[o] = currentwhite \/ (Sweeping /\ o \in Unswept)
    <3>1. mark[o] = currentwhite \/ (Sweeping /\ o \in Unswept)
      BY <2>2 DEF IInv, SweptInv
    <3>2. ~KeepInvariant /\ o \in Node
      BY <2>2 DEF KeepInvariant, Live
    <3> QED
      BY <3>1, <3>2, Colors DEF IInv, Writes, Colored, Whites, TypeInv
  <2> QED
    BY <1>3, <1>10, <2>1, <2>2 DEF SweptInv, Over, Sweeping, Writes, Elems
<1>12. OldInv'
  <2>1. ASSUME NEW o \in Live, old[o], ~Over PROVE mark'[o] \notin Whites
    <3>1. mark[o] \notin Whites /\ o \in Node
      BY <2>1 DEF IInv, OldInv, Live
    <3>2. CASE ~KeepInvariant
      <4>1. gckind = "normal"
        BY <3>2 DEF IInv, TypeInv, KeepInvariant
      <4> QED
        BY <2>1, <4>1 DEF IInv, OldInv, Writes, Running
    <3>3. CASE KeepInvariant
      BY <3>1, <3>3, Colors DEF IInv, Writes, Colored, Whites
    <3> QED
      BY <3>2, <3>3
  <2> QED
    BY <1>3, <1>10, <2>1 DEF IInv, OldInv, OldRun, Writes, Over, Sweeping, Elems, After
<1> QED
  BY <1>1, <1>2, <1>4, <1>5, <1>6, <1>7, <1>8, <1>9, <1>11, <1>12 DEF IInv

(* No color that matters changes and what is black refers to nothing new.  *)
LEMMA QuietGray ==
  ASSUME IInv, Writes, White' = White, UNCHANGED <<gray, grayagain, weak, allweak, ephemeron>>,
         \A o \in Live \ White : mark'[o] = mark[o],
         \A o \in Node : mark[o] = "black" =>
           \A e \in entries'[o] : e \in entries[o] \/ {e[1], e[2]} \cap White = {}
  PROVE  GrayInv'
<1> SUFFICES ASSUME KeepInvariant, goal # "closed" PROVE GrayInv'
  BY DEF GrayInv, KeepInvariant, Writes
<1>1. Live' = Live /\ gcstate = "propagate" /\ Grays' = Grays
  BY DEF IInv, GoalInv, KeepInvariant, Writes, Running, Live, Grays
<1>2. ASSUME NEW o \in Live \ White, mark[o] = "black" PROVE Leads(o)' \cap White \subseteq Leads(o)
  <2>1. open[o] = None /\ open'[o] = None /\ cache'[o] = cache[o]
    BY <1>2 DEF IInv, KindInv, Live, Writes
  <2>2. ASSUME NEW x \in White, NEW e \in entries'[o], x \in {e[1], e[2]} PROVE e \in entries[o]
    BY <1>2, <2>2 DEF Live
  <2> QED
    BY <2>1, <2>2 DEF Leads, Refs, Vals, Keys
<1>3. \A o \in Grays : o \in Live \ White
  BY Colors DEF IInv, GrayInv, Live, White, Whites, Grays, TypeInv
<1>4. Main \in Live \ White
  BY Colors, Numbers DEF IInv, GrayInv, TypeInv, Live, White
<1>5. \A o \in Live : mark'[o] = "gray" <=> mark[o] = "gray"
  BY <1>1, Colors DEF IInv, White, Whites
<1>6. ASSUME NEW o \in Live \ White, mark'[o] = "black" PROVE Leads(o)' \cap White = {}
  <2>1. mark[o] = "black" /\ Leads(o) \cap White = {}
    BY <1>1, <1>6 DEF IInv, GrayInv
  <2> QED
    BY <1>2, <1>6, <2>1
<1> QED
  BY <1>1, <1>3, <1>4, <1>5, <1>6 DEF IInv, GrayInv, KeepInvariant, Writes

-----------------------------------------------------------------------------
(* What the program does with values on its stack.                         *)

(* What is not dead holds only values that are not.                        *)
LEMMA RefsAlive ==
  ASSUME TypeInv, KindInv, Sound, NEW o \in Live \ Dead
  PROVE  /\ Refs(o) \subseteq Live \ Dead /\ Vals(o) \subseteq Live \ Dead /\ Vals(o) \subseteq Obj
         /\ cache[o] \in (Live \ Dead) \cup {None} /\ Refs(o) \subseteq Obj
         /\ \A e \in entries[o] : {e[1], e[2]} \subseteq (Live \ Dead) \cup {None}
<1>1. Leads(o) \subseteq Live \ Dead
  BY DEF Sound
<1>2. cache[o] \in Leads(o) \/ cache[o] = None
  BY DEF Leads
<1>3. Refs(o) \subseteq Leads(o)
  <2>1. CASE open[o] = None
    BY <2>1 DEF Leads
  <2>2. CASE open[o] # None
    <3>1. entries[o] = {}
      BY <2>2 DEF KindInv, Live
    <3> QED
      BY <3>1 DEF Refs, Vals, Keys
  <2> QED
    BY <2>1, <2>2
<1>4. Vals(o) \subseteq Refs(o) /\ Refs(o) \subseteq Obj
  BY DEF Refs, Vals, Keys, TypeInv, Live
<1>5. ASSUME NEW e \in entries[o] PROVE {e[1], e[2]} \subseteq Refs(o) \cup {None}
  BY DEF Refs, Vals, Keys
<1> QED
  BY <1>1, <1>2, <1>3, <1>4, <1>5

(* What is the same after a write that changes no color.                   *)
LEMMA Plain ==
  ASSUME IInv, Running, Stored,
         UNCHANGED <<type, mark, old, mode, cache, open, duty>>, UNCHANGED <<lists, grays, state>>
  PROVE  Writes /\ UNCHANGED <<gray, grayagain, weak, allweak, ephemeron, mark>> /\ White' = White
<1>1. White' = White /\ Colored
  BY DEF White, Live, Colored, IInv, TypeInv
<1> QED
  BY <1>1 DEF Writes, IInv, TypeInv, duty, lists, grays, state

(* A value that is not dead may be put on the stack.                       *)
LEMMA PushStored ==
  ASSUME IInv, NEW x \in Live \ Dead, x \in Obj, entries' = Pushed(x)
  PROVE  Stored /\ \A o \in Node : mark[o] = "black" => entries'[o] = entries[o]
<1>1. /\ entries' = [entries EXCEPT ![Main] = entries[Main] \cup {<<None, x>>}]
      /\ open[Main] = None /\ type[Main] = "thread" /\ mark[Main] # "black"
      /\ \A e \in entries[Main] : e[1] = None
  BY StackAlive DEF IInv, TypeInv, Pushed
<1> QED
  BY <1>1, Numbers DEF IInv, TypeInv, KindInv, Stored

LEMMA GetStep == ASSUME IInv, NEW o \in Stack, Get(o) PROVE IInv'
<1>1. o \in Live \ Dead
  BY StackAlive DEF IInv
<1>2. PICK x \in IF type[o] = "closure" THEN UNION {Vals(u) : u \in Vals(o)} ELSE Refs(o) : entries' = Pushed(x)
  BY DEF Get
<1>3. x \in Live \ Dead /\ x \in Obj
  <2>1. CASE type[o] = "closure"
    <3>1. PICK u \in Vals(o) : x \in Vals(u)
      BY <1>2, <2>1
    <3>2. u \in Live \ Dead
      BY <1>1, RefsAlive DEF IInv
    <3> QED
      BY <3>1, <3>2, RefsAlive DEF IInv
  <2>2. CASE type[o] # "closure"
    BY <1>1, <1>2, <2>2, RefsAlive DEF IInv
  <2> QED
    BY <2>1, <2>2
<1>4. Stored /\ \A y \in Node : mark[y] = "black" => entries'[y] = entries[y]
  BY <1>2, <1>3, PushStored
<1>5. Writes /\ UNCHANGED <<gray, grayagain, weak, allweak, ephemeron, mark>> /\ White' = White
  BY <1>4, Plain DEF Get
<1> QED
  BY <1>4, <1>5, QuietGray, WritesKeep

LEMMA GetCachedStep == ASSUME IInv, NEW p \in Stack, NEW t \in Stack, GetCached(p, t) PROVE IInv'
<1>1. p \in Live \ Dead
  BY StackAlive DEF IInv
<1>2. cache[p] \in Live \ Dead /\ cache[p] \in Obj /\ entries' = Pushed(cache[p])
  BY <1>1, RefsAlive DEF IInv, TypeInv, GetCached, Live
<1>3. Stored /\ \A y \in Node : mark[y] = "black" => entries'[y] = entries[y]
  BY <1>2, PushStored
<1>4. Writes /\ UNCHANGED <<gray, grayagain, weak, allweak, ephemeron, mark>> /\ White' = White
  BY <1>3, Plain DEF GetCached
<1> QED
  BY <1>3, <1>4, QuietGray, WritesKeep

LEMMA PopStep == ASSUME IInv, NEW o \in Stack, Pop(o) PROVE IInv'
<1>1. Stored /\ \A y \in Node : entries'[y] \subseteq entries[y]
  <2>1. entries' = [entries EXCEPT ![Main] = entries[Main] \ {<<None, o>>}]
    BY DEF Pop
  <2>2. \A y \in Node : entries'[y] \subseteq entries[y]
    BY <2>1 DEF IInv, TypeInv
  <2>3. entries' \in [Node -> SUBSET ((Obj \cup {None}) \X (Obj \cup {None}))]
    BY <2>1, Numbers DEF IInv, TypeInv
  <2> QED
    BY <2>2, <2>3 DEF Stored, IInv, KindInv
<1>2. Writes /\ UNCHANGED <<gray, grayagain, weak, allweak, ephemeron, mark>> /\ White' = White
  BY <1>1, Plain DEF Pop
<1> QED
  BY <1>1, <1>2, QuietGray, WritesKeep

LEMMA ClearStep == ASSUME IInv, NEW o \in Stack, Clear(o) PROVE IInv'
<1>1. Stored /\ \A y \in Node : entries'[y] \subseteq entries[y]
  <2>1. PICK e \in entries[o] : entries' = [entries EXCEPT ![o] = entries[o] \ {e}]
    BY DEF Clear
  <2>2. \A y \in Node : entries'[y] \subseteq entries[y]
    BY <2>1 DEF IInv, TypeInv
  <2>3. entries' \in [Node -> SUBSET ((Obj \cup {None}) \X (Obj \cup {None}))]
    BY <2>1, Numbers, StackAlive DEF IInv, TypeInv
  <2> QED
    BY <2>2, <2>3 DEF Stored, IInv, KindInv
<1>2. Writes /\ UNCHANGED <<gray, grayagain, weak, allweak, ephemeron, mark>> /\ White' = White
  BY <1>1, Plain DEF Clear
<1> QED
  BY <1>1, <1>2, QuietGray, WritesKeep

LEMMA MoveStep == ASSUME IInv, NEW t \in Stack, NEW v \in Stack, Move(t, v) PROVE IInv'
<1>1. v \in Live \ Dead /\ v \in Obj /\ t \in Obj /\ t \in Node
  BY StackAlive, Numbers DEF IInv
<1>2. Stored /\ \A y \in Node : mark[y] = "black" => entries'[y] \subseteq entries[y]
  <2>1. entries' = [entries EXCEPT ![t] = {<<None, v>>}] /\ type[t] = "thread"
    BY DEF Move
  <2>2. open[t] = None /\ mark[t] # "black"
    BY <1>1, <2>1 DEF IInv, KindInv
  <2> QED
    BY <1>1, <2>1, <2>2 DEF Stored, IInv, TypeInv, KindInv
<1>3. Writes /\ UNCHANGED <<gray, grayagain, weak, allweak, ephemeron, mark>> /\ White' = White
  BY <1>2, Plain DEF Move
<1> QED
  BY <1>2, <1>3, QuietGray, WritesKeep

LEMMA InternStep == ASSUME IInv, NEW o \in Obj, Intern(o) PROVE IInv'
<1>1. /\ type[o] = "string" /\ o \in Live /\ o \in Node
      /\ mark' = IF o \in Dead THEN [mark EXCEPT ![o] = currentwhite] ELSE mark
  BY Numbers DEF Intern, Live
<1>2. Colored /\ White' = White /\ \A y \in Live \ White : mark'[y] = mark[y]
  <2>1. Live' = Live /\ mark[o] \in Whites \cup {"gray", "black"}
    BY <1>1 DEF Intern, Live, IInv, TypeInv
  <2>2. CASE o \in Dead
    <3>1. mark[o] = Other /\ Other \in Whites /\ currentwhite \in Whites /\ mark' = [mark EXCEPT ![o] = currentwhite]
      BY <1>1, <2>2, Colors DEF Dead, IInv, TypeInv
    <3>2. White' = White
      BY <1>1, <2>1, <3>1 DEF White, IInv, TypeInv
    <3> QED
      BY <1>1, <2>1, <3>1, <3>2 DEF Colored, IInv, TypeInv, White
  <2>3. CASE o \notin Dead
    <3>1. mark' = mark
      BY <1>1, <2>3
    <3> QED
      BY <2>1, <3>1 DEF Colored, White, IInv, TypeInv
  <2> QED
    BY <2>2, <2>3
<1>3. Stored /\ \A y \in Node : mark[y] = "black" => entries'[y] \subseteq entries[y]
  <2>1. /\ entries' = [entries EXCEPT ![Main] = entries[Main] \cup {<<None, o>>}]
        /\ open[Main] = None /\ type[Main] = "thread" /\ mark[Main] # "black"
        /\ \A e \in entries[Main] : e[1] = None
    BY StackAlive DEF IInv, TypeInv, Intern, Pushed
  <2>2. entries' \in [Node -> SUBSET ((Obj \cup {None}) \X (Obj \cup {None}))]
    BY <2>1, Numbers DEF IInv, TypeInv
  <2>3. o \in {x \in Live : x \notin Dead \/ mark'[x] = currentwhite}
    BY <1>1, Colors DEF IInv, TypeInv
  <2>4. ASSUME NEW y \in Node, NEW e \in entries'[y]
        PROVE  e \in entries[y] \/ (y = Main /\ e = <<None, o>>)
    BY <2>1, <2>4 DEF IInv, TypeInv
  <2>5. \A y \in Node : y # Main => entries'[y] = entries[y]
    BY <2>1 DEF IInv, TypeInv
  <2> QED
    BY <2>1, <2>2, <2>3, <2>4, <2>5 DEF Stored, IInv, KindInv
<1>4. Writes /\ UNCHANGED <<gray, grayagain, weak, allweak, ephemeron>>
  BY <1>2, <1>3 DEF Writes, Intern, IInv, TypeInv, duty, lists, grays, state
<1> QED
  BY <1>2, <1>3, <1>4, QuietGray, WritesKeep

-----------------------------------------------------------------------------
(* Marking.                                                                *)

(* Through is the least set with S that is closed: it is closed, and what  *)
(* is closed includes it.                                                  *)
LEMMA ThroughIs ==
  ASSUME NEW S \in SUBSET Node, NEW W \in SUBSET Node
  PROVE  /\ S \subseteq Through(S, W) /\ Through(S, W) \subseteq S \cup W
         /\ \A o \in Through(S, W) : Passed(o) \cap W \subseteq Through(S, W)
         /\ \A Y \in SUBSET Node : S \subseteq Y /\ (\A o \in Y : Passed(o) \cap W \subseteq Y) => Through(S, W) \subseteq Y
<1> DEFINE sets   == {S \cup X : X \in SUBSET (W \ S)}
           closed == {X \in sets : \A o \in X : Passed(o) \cap W \subseteq X}
<1>1. Through(S, W) = {o \in Node : \A X \in closed : o \in X}
  BY DEF Through
<1>2. \A Y : S \subseteq Y /\ Y \subseteq S \cup W => Y \in sets
  <2> SUFFICES ASSUME NEW Y, S \subseteq Y, Y \subseteq S \cup W PROVE Y \in sets
    OBVIOUS
  <2>1. Y = S \cup (Y \ S) /\ Y \ S \in SUBSET (W \ S)
    OBVIOUS
  <2> QED
    BY <2>1
<1>3. \A X \in sets : S \subseteq X /\ X \subseteq S \cup W
  OBVIOUS
<1>4. S \cup W \in closed
  BY <1>2
<1>5. \A X \in closed : X \in sets /\ \A o \in X : Passed(o) \cap W \subseteq X
  OBVIOUS
<1>6. ASSUME NEW Y \in SUBSET Node, S \subseteq Y, \A o \in Y : Passed(o) \cap W \subseteq Y
      PROVE  Y \cap (S \cup W) \in closed
  <2>1. Y \cap (S \cup W) \in sets
    BY <1>2, <1>6
  <2> HIDE DEF sets
  <2> QED
    BY <1>6, <2>1
<1> HIDE DEF closed
<1>7. S \subseteq Through(S, W) /\ Through(S, W) \subseteq S \cup W
  BY <1>1, <1>3, <1>4, <1>5
<1>8. ASSUME NEW o \in Through(S, W) PROVE Passed(o) \cap W \subseteq Through(S, W)
  BY <1>1, <1>5
<1>9. ASSUME NEW Y \in SUBSET Node, S \subseteq Y, \A o \in Y : Passed(o) \cap W \subseteq Y
      PROVE  Through(S, W) \subseteq Y
  <2>1. Y \cap (S \cup W) \in closed
    BY <1>6, <1>9
  <2> QED
    BY <1>1, <2>1
<1> QED
  BY <1>7, <1>8, <1>9

(* What a barrier or the traversal marks when it touches S.                *)
LEMMA TouchedIs ==
  ASSUME TypeInv, NEW S \in SUBSET Node
  PROVE  /\ S \cap White \subseteq Touched(S) /\ Touched(S) \subseteq White
         /\ \A o \in Touched(S) : Passed(o) \cap White \subseteq Touched(S)
         /\ KindInv /\ Sound /\ S \cap Dead = {} => Touched(S) \cap Dead = {}
<1>1. White \in SUBSET Node /\ S \cap White \in SUBSET Node
  BY DEF White, Live
<1>2. CASE S \cap White = {}
  BY <1>2 DEF Touched
<1>3. CASE S \cap White # {}
  <2>1. Touched(S) = Through(S \cap White, White)
    BY <1>3 DEF Touched
  <2>2. ASSUME KindInv, Sound, S \cap Dead = {} PROVE Touched(S) \cap Dead = {}
    <3>1. ASSUME NEW o \in Live \ Dead PROVE Passed(o) \subseteq Live \ Dead
      BY <2>2, <3>1, RefsAlive DEF Passed
    <3>2. S \cap White \subseteq Live \ Dead /\ Live \ Dead \in SUBSET Node
      BY <2>2 DEF White, Live
    <3>3. Through(S \cap White, White) \subseteq Live \ Dead
      <4> DEFINE Y == Live \ Dead
      <4>1. Y \in SUBSET Node /\ S \cap White \subseteq Y /\ \A o \in Y : Passed(o) \cap White \subseteq Y
        BY <3>1, <3>2
      <4> HIDE DEF Y
      <4>2. Through(S \cap White, White) \subseteq Y
        BY <1>1, <4>1, ThroughIs
      <4> QED
        BY <4>2 DEF Y
    <3> QED
      BY <2>1, <3>3
  <2> QED
    BY <1>1, <2>1, <2>2, ThroughIs
<1> QED
  BY <1>2, <1>3

(* What an object that is, or becomes, black refers to is marked.          *)
LEMMA MarkGray ==
  ASSUME IInv, gcstate = "propagate", goal = "none", NEW S \in SUBSET Node, NEW o \in Live \ White, o \notin Grays,
         mark' = [Marked(Touched(S)) EXCEPT ![o] = "black"], gray' = gray \cup Queued(Touched(S)),
         UNCHANGED <<type, mode, cache, gcstate, goal, grayagain, weak, allweak, ephemeron, currentwhite>>,
         \A x \in Node : x # o => open'[x] = open[x] /\ (type[x] # "thread" => entries'[x] = entries[x]),
         Leads(o)' \cap White \subseteq S
  PROVE  GrayInv'
<1> DEFINE T == Touched(S)
<1>1. /\ S \cap White \subseteq T /\ T \subseteq White /\ o \notin T
      /\ \A x \in T : Passed(x) \cap White \subseteq T
  BY TouchedIs DEF IInv
<1> HIDE DEF T
<1>2. \A x \in Node : mark'[x] = IF x = o THEN "black" ELSE IF x \in T THEN ColorOf(x) ELSE mark[x]
  BY DEF Marked, T, Live
<1>3. Live' = Live
  BY DEF Live
<1>4. White' = White \ T
  <2>1. \A x \in Node : ColorOf(x) \notin Whites
    BY Colors DEF ColorOf, IInv
  <2> QED
    BY <1>1, <1>2, <1>3, <2>1, Colors DEF White, Live, IInv
<1>5. /\ \A x \in Live \ White : mark[x] = "black" => Leads(x) \cap White = {}
      /\ \A x \in Live : mark[x] = "gray" /\ open[x] = None => x \in Grays
      /\ \A x \in Grays : mark[x] = "gray" /\ type[x] \in {"table", "closure", "proto", "thread"}
      /\ gray \cap (grayagain \cup weak \cup allweak \cup ephemeron) = {}
      /\ mark[Main] = "gray" /\ Main \in Grays
  BY StackAlive DEF IInv, GrayInv, KeepInvariant
<1>6. Grays' = Grays \cup Queued(T) /\ Main # o
  BY <1>5 DEF Grays, T
<1>7. ASSUME NEW x \in Live \ White', mark'[x] = "black" PROVE Leads(x)' \cap White' = {}
  <2>1. CASE x = o
    BY <1>1, <1>4, <2>1
  <2>2. CASE x # o
    <3>1. x \in Node /\ open[x] = None /\ open'[x] = None /\ cache'[x] = cache[x] /\ type[x] # "thread"
          /\ entries'[x] = entries[x]
      <4>1. CASE x \in T
        <5>1. type[x] \in {"string", "udata"} \/ (type[x] = "upval" /\ open[x] = None)
          BY <1>2, <1>7, <2>2, <4>1 DEF ColorOf, Live
        <5> QED
          BY <2>2, <5>1 DEF IInv, KindInv, Live
      <4>2. CASE x \notin T
        BY <1>2, <1>7, <2>2, <4>2 DEF IInv, KindInv, Live
      <4> QED
        BY <4>1, <4>2
    <3>2. Leads(x)' = Refs(x) \cup ({cache[x]} \ {None}) /\ Leads(x) = Leads(x)'
      BY <3>1 DEF Leads, Refs, Vals, Keys
    <3>3. CASE x \in T
      <4>1. type[x] \in {"string", "udata", "upval"}
        <5>1. mark[x] \in Whites
          BY <1>1, <3>3 DEF White
        <5> QED
          BY <1>2, <1>7, <2>2, <3>1, <3>3, <5>1, Colors DEF ColorOf, IInv
      <4>2. cache[x] = None /\ (\A e \in entries[x] : e[1] = None)
        BY <3>1, <4>1 DEF IInv, KindInv
      <4>3. Leads(x)' = Vals(x)
        BY <3>2, <4>2 DEF Refs, Vals, Keys
      <4>4. CASE type[x] = "string"
        <5>1. entries[x] = {}
          BY <3>1, <4>4 DEF IInv, KindInv
        <5> QED
          BY <4>3, <5>1 DEF Vals
      <4>5. CASE type[x] # "string"
        <5>1. Passed(x) = Vals(x)
          BY <4>1, <4>5 DEF Passed
        <5> QED
          BY <1>1, <1>4, <3>3, <4>3, <5>1
      <4> QED
        BY <4>4, <4>5
    <3>4. CASE x \notin T
      <4>1. x \in Live \ White /\ mark[x] = "black"
        BY <1>2, <1>4, <1>7, <2>2, <3>1, <3>4
      <4> QED
        BY <1>4, <1>5, <3>2, <4>1
    <3> QED
      BY <3>3, <3>4
  <2> QED
    BY <2>1, <2>2
<1>8. ASSUME NEW x \in Live, mark'[x] = "gray", open'[x] = None PROVE x \in Grays'
  <2>1. x \in Node /\ type[x] \in Types /\ x # o /\ open[x] = None
    BY <1>2, <1>8 DEF Live, IInv, TypeInv
  <2> QED
    BY <1>2, <1>5, <1>6, <1>8, <2>1 DEF ColorOf, Queued, Types
<1>9. ASSUME NEW x \in Grays' PROVE mark'[x] = "gray" /\ type[x] \in {"table", "closure", "proto", "thread"}
  <2>1. CASE x \in T
    <3>1. x \in Node /\ x # o /\ mark[x] # "gray"
      BY <1>1, <2>1, Colors DEF White, Live, IInv
    <3> QED
      BY <1>2, <1>5, <1>6, <1>9, <2>1, <3>1 DEF ColorOf, Queued
  <2>2. CASE x \notin T
    BY <1>2, <1>5, <1>6, <1>9, <2>2 DEF Queued, Grays, IInv, TypeInv
  <2> QED
    BY <2>1, <2>2
<1>10. T \cap Grays = {} /\ Main \notin T
  BY <1>1, <1>5, Colors, Numbers DEF White, IInv
<1>11. gray' \cap (grayagain \cup weak \cup allweak \cup ephemeron) = {} /\ mark'[Main] = "gray"
  BY <1>2, <1>5, <1>6, <1>10, Numbers DEF Grays, Queued, IInv, T
<1>12. Live' \ White' = Live \ White'
  BY <1>3
<1> QED
  BY <1>3, <1>7, <1>8, <1>9, <1>11 DEF IInv, GrayInv, KeepInvariant

(* The barriers keep the colors in order when a reference is written.      *)
LEMMA BarrierKeeps ==
  ASSUME IInv, Running, Stored, NEW o \in Live, NEW S \in SUBSET Node, S \cap Dead = {}, Barrier(o, S),
         \A x \in Node : x # o /\ type[x] # "thread" => entries'[x] = entries[x],
         \A e \in entries'[o] : e \in entries[o] \/ {e[1], e[2]} \cap White \subseteq S,
         UNCHANGED <<type, old, mode, cache, open, duty, grayagain, weak, allweak, ephemeron>>,
         UNCHANGED <<lists, state>>
  PROVE  IInv'
<1>1. /\ UNCHANGED <<type, old, mode, cache, open, allgc, finobj, tobefnz>>
      /\ UNCHANGED <<currentwhite, gcstate, gckind, sweepgc, sweepfin, sweepstr, pending, goal, kind0>>
      /\ UNCHANGED <<profile, finalized, owed, grayagain, weak, allweak, ephemeron>>
  BY DEF lists, state, duty
<1>2. gray' \subseteq Node /\ Colored => Writes
  BY <1>1 DEF Writes, IInv, TypeInv
<1>3. \A x \in Node : mark[x] = "black" => type[x] # "thread"
  BY DEF IInv, KindInv
<1>4. CASE mark[o] = "black" /\ S \cap White # {} /\ KeepInvariant
  <2> DEFINE T == Touched(S)
  <2>1. mark' = Marked(T) /\ gray' = gray \cup Queued(T)
    BY <1>4 DEF Barrier
  <2>2. T \subseteq White /\ T \cap Dead = {}
    BY TouchedIs DEF IInv
  <2> HIDE DEF T
  <2>3. Colored
    <3>1. \A x \in Node : mark'[x] = IF x \in T THEN ColorOf(x) ELSE mark[x]
      BY <2>1 DEF Marked
    <3>2. \A x \in T : mark[x] # Other
      BY <2>2 DEF White, Dead
    <3>3. \A x \in Node : /\ ColorOf(x) \in {"gray", "black"}
                          /\ ColorOf(x) = "black" => type[x] # "thread" /\ open[x] = None
      BY DEF ColorOf, IInv, KindInv
    <3>4. mark' \in [Node -> Whites \cup {"gray", "black"}]
      BY <2>1, <3>3 DEF Marked, IInv, TypeInv
    <3> QED
      BY <1>4, <3>1, <3>2, <3>3, <3>4 DEF Colored
  <2>4. gray' \subseteq Node
    BY <2>1, <2>2 DEF Queued, White, Live, IInv, TypeInv
  <2>5. Writes
    BY <1>2, <2>3, <2>4
  <2>6. GrayInv'
    <3>1. gcstate = "propagate" /\ goal = "none" /\ o \in Live \ White /\ type[o] # "free"
      <4>1. type[o] # "free" /\ o \in Node
        BY DEF Live
      <4> QED
        BY <1>4, <4>1, Colors DEF IInv, KeepInvariant, GoalInv, Running, White, Live, KindInv
    <3>2. o \notin Grays /\ Leads(o) \cap White = {}
      BY <1>4, <3>1 DEF IInv, GrayInv
    <3>3. open[o] = None
      BY <1>4 DEF IInv, KindInv, Live
    <3>4. Leads(o)' \cap White \subseteq S
      <4> SUFFICES ASSUME NEW y \in Leads(o)', y \in White, y \notin S PROVE FALSE
        OBVIOUS
      <4>1. y # None /\ y \notin Leads(o)
        BY <3>2, Numbers DEF White, Live
      <4>2. y # cache[o] /\ y \in Refs(o)'
        BY <1>1, <3>3, <4>1 DEF Leads
      <4>3. PICK e \in entries'[o] : y \in {e[1], e[2]}
        BY <4>2 DEF Refs, Vals, Keys
      <4>4. e \in entries[o]
        BY <4>3
      <4>5. y \in Leads(o)
        BY <3>3, <4>1, <4>3, <4>4 DEF Leads, Refs, Vals, Keys
      <4> QED
        BY <4>1, <4>5
    <3>5. mark' = [Marked(T) EXCEPT ![o] = "black"]
      BY <1>4, <2>1, <2>2, <3>1 DEF Marked, IInv, TypeInv
    <3> QED
      BY <1>1, <2>1, <3>1, <3>2, <3>4, <3>5, MarkGray DEF T
  <2> QED
    BY <2>5, <2>6, WritesKeep
<1>5. CASE mark[o] = "black" /\ S \cap White # {} /\ ~KeepInvariant
  <2>1. mark' = [mark EXCEPT ![o] = currentwhite] /\ gray' = gray
    BY <1>5 DEF Barrier
  <2>2. Colored
    BY <1>5, <2>1 DEF Colored, IInv, TypeInv
  <2>3. Writes
    BY <1>2, <2>1, <2>2 DEF IInv, TypeInv
  <2>4. GrayInv'
    BY <1>1, <1>5 DEF GrayInv, KeepInvariant
  <2> QED
    BY <2>3, <2>4, WritesKeep
<1>6. CASE ~(mark[o] = "black" /\ S \cap White # {})
  <2>1. mark' = mark /\ gray' = gray
    BY <1>6 DEF Barrier
  <2>2. Colored /\ White' = White
    BY <1>1, <2>1 DEF Colored, IInv, TypeInv, White, Live
  <2>3. Writes
    BY <1>2, <2>1, <2>2 DEF IInv, TypeInv
  <2>4. GrayInv'
    BY <1>1, <1>3, <1>6, <2>1, <2>2, <2>3, QuietGray
  <2> QED
    BY <2>3, <2>4, WritesKeep
<1> QED
  BY <1>4, <1>5, <1>6

LEMMA SetFieldStep == ASSUME IInv, NEW o \in Stack, NEW v \in Stack, SetField(o, v) PROVE IInv'
<1>1. /\ o \in Node /\ o \in Live /\ v \in Obj /\ v \in Live \ Dead /\ v \in Node /\ type[o] \in {"udata", "proto"} /\ open[o] = None
      /\ entries' = [entries EXCEPT ![o] = {<<None, v>>}]
  BY StackAlive, Numbers DEF IInv, SetField, KindInv
<1>2. Stored
  BY <1>1 DEF Stored, IInv, TypeInv, KindInv
<1>3. \A x \in Node : x # o => entries'[x] = entries[x]
  BY <1>1 DEF IInv, TypeInv
<1>4. \A e \in entries'[o] : {e[1], e[2]} \cap White \subseteq {v}
  BY <1>1, Numbers DEF IInv, TypeInv, White, Live
<1> QED
  BY <1>1, <1>2, <1>3, <1>4, BarrierKeeps DEF SetField

LEMMA SetUpvalStep ==
  ASSUME IInv, NEW c \in Stack, NEW v \in Stack, NEW u \in Vals(c), SetUpval(c, u, v) PROVE IInv'
<1>1. v \in Obj /\ v \in Live \ Dead /\ v \in Node /\ u \in Node /\ u \in Live
  BY StackAlive, RefsAlive, Numbers DEF IInv
<1> DEFINE w == IF open[u] = None THEN u ELSE open[u]
<1>2. /\ entries' = [entries EXCEPT ![w] = {<<None, v>>}] /\ w \in Node /\ open[w] = None
      /\ w = u \/ (type[w] = "thread" /\ w # u)
      /\ type[w] \notin {"free", "string", "table"}
  BY <1>1, Numbers DEF SetUpval, IInv, KindInv
<1> HIDE DEF w
<1>3. Stored
  BY <1>1, <1>2 DEF Stored, IInv, TypeInv, KindInv
<1>4. \A x \in Node : x # w => entries'[x] = entries[x]
  BY <1>2 DEF IInv, TypeInv
<1>5. \A e \in entries'[w] : {e[1], e[2]} \cap White \subseteq {v}
  BY <1>1, <1>2, Numbers DEF IInv, TypeInv, White, Live
<1> QED
  BY <1>1, <1>2, <1>3, <1>4, <1>5, BarrierKeeps DEF SetUpval

LEMMA SetTableStep ==
  ASSUME IInv, NEW o \in Stack, NEW k \in Stack \cup {None}, NEW v \in Stack \cup {None}, SetTable(o, k, v)
  PROVE  IInv'
<1> DEFINE more == {k, v} \ {None}
<1>1. /\ UNCHANGED <<type, old, mode, cache, open, allgc, finobj, tobefnz>>
      /\ UNCHANGED <<currentwhite, gcstate, gckind, sweepgc, sweepfin, sweepstr, pending, goal, kind0>>
      /\ UNCHANGED <<profile, finalized, owed, weak, allweak, ephemeron>>
  BY DEF SetTable, lists, state, duty
<1>2. /\ o \in Node /\ open[o] = None /\ type[o] = "table" /\ {k, v} \subseteq (Live \ Dead) \cup {None}
      /\ {k, v} \subseteq Obj \cup {None} /\ more \in SUBSET Node
  BY StackAlive, Numbers DEF IInv, SetTable, KindInv
<1>3. /\ \A x \in Node : x # o => entries'[x] = entries[x]
      /\ \A e \in entries'[o] : e \in entries[o] \/ e = <<k, v>>
      /\ entries' \in [Node -> SUBSET ((Obj \cup {None}) \X (Obj \cup {None}))]
  <2>1. PICK rest \in SUBSET entries[o] : entries' = [entries EXCEPT ![o] = rest \cup {<<k, v>>}]
    BY DEF SetTable
  <2> QED
    BY <1>2, <2>1 DEF IInv, TypeInv
<1>4. Stored
  <2>1. \A e : e = <<k, v>> => {e[1], e[2]} \subseteq (Live \ Dead) \cup {None}
    BY <1>2
  <2> QED
    BY <1>2, <1>3, <2>1 DEF Stored, IInv, KindInv
<1>5. gray' = gray /\ grayagain' \subseteq Node /\ Colored /\ White' = White
      /\ (mark[o] = "black" /\ more \cap White # {} =>
            mark' = [mark EXCEPT ![o] = "gray"] /\ grayagain' = grayagain \cup {o})
      /\ (~(mark[o] = "black" /\ more \cap White # {}) => mark' = mark /\ grayagain' = grayagain)
  <2>1. BarrierBack(o, more)
    BY DEF SetTable
  <2>2. CASE mark[o] = "black" /\ more \cap White # {}
    <3>1. mark' = [mark EXCEPT ![o] = "gray"] /\ grayagain' = grayagain \cup {o} /\ gray' = gray
      BY <2>1, <2>2 DEF BarrierBack
    <3>2. Colored /\ White' = White
      BY <1>1, <1>2, <2>2, <3>1, Colors DEF IInv, TypeInv, Colored, White, Live, Whites
    <3> QED
      BY <1>2, <2>2, <3>1, <3>2 DEF IInv, TypeInv
  <2>3. CASE ~(mark[o] = "black" /\ more \cap White # {})
    <3>1. mark' = mark /\ grayagain' = grayagain /\ gray' = gray
      BY <2>1, <2>3 DEF BarrierBack
    <3>2. Colored /\ White' = White
      BY <1>1, <3>1 DEF IInv, TypeInv, Colored, White, Live
    <3> QED
      BY <2>3, <3>1, <3>2 DEF IInv, TypeInv
  <2> QED
    BY <2>2, <2>3
<1>6. Writes
  BY <1>1, <1>4, <1>5 DEF Writes, SetTable, IInv, TypeInv
<1>7. GrayInv'
  <2>1. CASE mark[o] = "black" /\ more \cap White # {}
    <3> SUFFICES ASSUME KeepInvariant PROVE GrayInv'
      BY <1>1 DEF GrayInv, KeepInvariant
    <3>1. Live' = Live /\ gcstate = "propagate" /\ goal # "closed" /\ gcstate' = "propagate"
      BY <1>6 DEF IInv, GoalInv, KeepInvariant, Writes, Running, Live
    <3>2. Grays' = Grays \cup {o} /\ o \notin Grays
      BY <1>1, <1>5, <2>1, <3>1 DEF Grays, IInv, GrayInv, KeepInvariant
    <3>3. \A x \in Node : mark'[x] = IF x = o THEN "gray" ELSE mark[x]
      BY <1>2, <1>5, <2>1 DEF IInv, TypeInv
    <3>4. ASSUME NEW x \in Live \ White', mark'[x] = "black" PROVE Leads(x)' \cap White' = {}
      <4>1. x # o /\ x \in Node /\ mark[x] = "black"
        BY <3>3, <3>4 DEF Live
      <4>2. open[x] = None /\ open' = open /\ cache' = cache /\ entries'[x] = entries[x]
        BY <1>1, <1>3, <4>1 DEF IInv, KindInv
      <4>3. Leads(x)' = Leads(x)
        BY <4>2 DEF Leads, Refs, Vals, Keys
      <4> QED
        BY <1>5, <3>1, <3>4, <4>1, <4>3 DEF IInv, GrayInv
    <3>5. \A x \in Live : mark'[x] = "gray" /\ open[x] = None => x \in Grays'
      BY <3>1, <3>2, <3>3 DEF IInv, GrayInv, Live
    <3>6. \A x \in Grays' : mark'[x] = "gray" /\ type[x] \in {"table", "closure", "proto", "thread"}
      <4>1. \A x \in Grays : x \in Node
        BY DEF Grays, IInv, TypeInv
      <4> QED
        BY <1>2, <3>1, <3>2, <3>3, <4>1 DEF IInv, GrayInv
    <3>7. /\ gray \cap (grayagain' \cup weak \cup allweak \cup ephemeron) = {}
          /\ grayagain' \cap (weak \cup allweak \cup ephemeron) = {} /\ mark'[Main] = "gray"
      BY <1>5, <2>1, <3>1, <3>2, <3>3, Numbers DEF IInv, GrayInv, Grays
    <3> QED
      BY <1>1, <1>5, <3>1, <3>4, <3>5, <3>6, <3>7 DEF IInv, GrayInv, KeepInvariant
  <2>2. CASE ~(mark[o] = "black" /\ more \cap White # {})
    <3>1. ASSUME NEW x \in Node, mark[x] = "black", NEW e \in entries'[x]
          PROVE  e \in entries[x] \/ {e[1], e[2]} \cap White = {}
      <4>1. CASE x # o
        BY <1>3, <3>1, <4>1
      <4>2. CASE x = o /\ e = <<k, v>>
        <5>1. None \notin White
          BY Numbers DEF White, Live
        <5> QED
          BY <2>2, <3>1, <4>2, <5>1
      <4> QED
        BY <1>3, <3>1, <4>1, <4>2
    <3>2. mark' = mark /\ UNCHANGED <<gray, grayagain, weak, allweak, ephemeron>>
      BY <1>1, <1>5, <2>2
    <3> QED
      BY <1>5, <1>6, <3>1, <3>2, QuietGray
  <2> QED
    BY <2>1, <2>2
<1> QED
  BY <1>6, <1>7, WritesKeep

-----------------------------------------------------------------------------
(* New objects, and those that change lists.                               *)

LEMMA ListsIn ==
  ASSUME TypeInv
  PROVE  Elems(allgc) \subseteq Obj /\ Elems(finobj) \subseteq Obj /\ Elems(tobefnz) \subseteq Obj
BY DEF TypeInv, Elems

(* A new object in front of the list of all objects.                       *)
LEMMA Prepended ==
  ASSUME IInv, NEW o \in Obj, o \notin Elems(allgc), allgc' = <<o>> \o allgc
  PROVE  /\ allgc' \in Seq(Obj) /\ Distinct(allgc') /\ Elems(allgc') = {o} \cup Elems(allgc)
         /\ ~Over /\ gcstate \notin {"enterfin", "enterall"} /\ UNCHANGED <<gcstate, sweepgc>> => InAll' = InAll
         /\ ~old'[o] /\ (\A x \in Obj : x # o => old'[x] = old[x]) /\ OldRun(allgc, {}) => OldRun(allgc, {})'
<1>1. /\ allgc' \in Seq(Obj) /\ Distinct(allgc') /\ Elems(allgc') = {o} \cup Elems(allgc)
      /\ \A p \in Elems(allgc) : After(allgc', p) = After(allgc, p)
      /\ After(allgc', o) = Elems(allgc) /\ Elems(allgc) \subseteq Obj
  <2>1. allgc \in Seq(Obj) /\ Distinct(allgc)
    BY DEF IInv, TypeInv, ListInv
  <2>2. Elems(allgc) \subseteq Obj
    BY <2>1 DEF Elems
  <2> QED
    BY <2>1, <2>2, ListFront
<1>2. ASSUME ~Over, gcstate \notin {"enterfin", "enterall"}, UNCHANGED <<gcstate, sweepgc>> PROVE InAll' = InAll
  <2>1. sweepgc \in Elems(allgc) \cup {None}
    BY <1>2 DEF IInv, PointInv
  <2>2. sweepgc # Start /\ None # Start
    BY <1>1, <2>1, Numbers
  <2> QED
    BY <1>1, <1>2, <2>1, <2>2 DEF InAll, Rest
<1>3. ASSUME ~old'[o], \A x \in Obj : x # o => old'[x] = old[x], OldRun(allgc, {}) PROVE OldRun(allgc, {})'
  <2> SUFFICES ASSUME NEW x \in Elems(allgc'), NEW y \in After(allgc', x), old'[x] PROVE old'[y]
    BY DEF OldRun
  <2>1. x # o /\ x \in Elems(allgc) /\ y \in After(allgc, x)
    BY <1>1, <1>3
  <2>2. y \in Elems(allgc)
    BY <2>1, AfterIn
  <2>3. x \in Obj /\ y \in Obj /\ y # o
    BY <1>1, <2>1, <2>2
  <2> QED
    BY <1>3, <2>1, <2>3 DEF OldRun
<1> QED
  BY <1>1, <1>2, <1>3

(* While the program runs in the generational mode nothing is swept, and   *)
(* in the other nothing is old.                                            *)
LEMMA RunningFacts ==
  ASSUME IInv, Running \/ (pending # None)
  PROVE  /\ goal = "none" /\ ~Over /\ gcstate \notin {"enterfin", "enterall"}
         /\ gckind = "gen" => gcstate = "propagate" /\ ~Sweeping
         /\ KeepInvariant <=> gcstate = "propagate"
         /\ gckind = "normal" => \A o \in Live : ~old[o]
         /\ InStr = sweepstr /\ sweepgc \in Elems(allgc) \cup {None} /\ sweepfin \in Elems(finobj) \cup {None}
<1>1. goal = "none" /\ ~Over /\ gcstate \notin {"enterfin", "enterall"}
  BY DEF IInv, PendingInv, Running, Over
<1> QED
  BY <1>1 DEF IInv, GoalInv, KeepInvariant, OldInv, InStr, Sweeping, SweepStates, TypeInv, PointInv

LEMMA NewStep ==
  ASSUME IInv, NEW o \in Obj, NEW t \in profile.types \ {"closure"}, NEW m \in profile.modes, New(o, t, m)
  PROVE  IInv'
<1>1. /\ t \in {"table", "udata", "string", "proto", "thread"} /\ m \in {"strong", "weakv", "weakk", "weakkv"}
      /\ t # "table" => m = "strong"
  BY LuaGCAssumption DEF IInv, TypeInv, New
<1>2. /\ Running /\ type[o] = "free" /\ o \in Node /\ o # Main
      /\ type' = [type EXCEPT ![o] = t] /\ mark' = [mark EXCEPT ![o] = currentwhite]
      /\ mode' = [mode EXCEPT ![o] = m]
      /\ entries' = [entries EXCEPT ![Main] = entries[Main] \cup {<<None, o>>}]
      /\ allgc' = IF t = "string" THEN allgc ELSE <<o>> \o allgc
      /\ UNCHANGED <<old, cache, open, finobj, tobefnz, profile, finalized, owed>>
      /\ UNCHANGED <<gray, grayagain, weak, allweak, ephemeron>>
      /\ UNCHANGED <<currentwhite, gcstate, gckind, sweepgc, sweepfin, sweepstr, pending, goal, kind0>>
  BY Numbers DEF New, Pushed, grays, state, duty
<1>3. /\ goal = "none" /\ ~Over /\ gcstate \notin {"enterfin", "enterall"}
      /\ gckind = "gen" => gcstate = "propagate" /\ ~Sweeping
      /\ KeepInvariant => gcstate = "propagate"
      /\ InStr = sweepstr /\ InStr' = sweepstr /\ pending = None
  BY <1>2, RunningFacts DEF InStr, Running
<1>4. /\ o \notin Elems(allgc) /\ o \notin Elems(finobj) /\ o \notin Elems(tobefnz) /\ o \notin Live
      /\ entries[o] = {} /\ cache[o] = None /\ open[o] = None /\ mode[o] = "strong" /\ ~old[o]
  BY <1>2, <1>3 DEF IInv, ListInv, KindInv, Live
<1>5. /\ \A x \in Node : type'[x] = IF x = o THEN t ELSE type[x]
      /\ \A x \in Node : mark'[x] = IF x = o THEN currentwhite ELSE mark[x]
      /\ \A x \in Node : mode'[x] = IF x = o THEN m ELSE mode[x]
      /\ \A x \in Node : entries'[x] = IF x = Main THEN entries[Main] \cup {<<None, o>>} ELSE entries[x]
  BY <1>2 DEF IInv, TypeInv
<1>6. Live' = Live \cup {o} /\ Dead' = Dead /\ White' = White \cup {o} /\ o \notin Dead /\ o \notin White
  BY <1>1, <1>2, <1>4, <1>5, Colors DEF IInv, Live, Dead, White, Other, TypeInv
<1>7. /\ allgc' \in Seq(Obj) /\ Distinct(allgc') /\ InAll' = InAll
      /\ Elems(allgc') = Elems(allgc) \cup (IF t = "string" THEN {} ELSE {o})
      /\ OldRun(allgc, {}) => OldRun(allgc, {})'
  <2>1. CASE t = "string"
    BY <1>2, <2>1 DEF IInv, TypeInv, ListInv, InAll, Rest, OldRun, Elems, After
  <2>2. CASE t # "string"
    BY <1>2, <1>3, <1>4, <2>2, Prepended
  <2> QED
    BY <2>1, <2>2
<1>8. Elems(finobj)' = Elems(finobj) /\ Elems(tobefnz)' = Elems(tobefnz) /\ InFin' = InFin
      /\ Distinct(finobj)' = Distinct(finobj) /\ Distinct(tobefnz)' = Distinct(tobefnz)
  BY <1>2 DEF Elems, InFin, Rest, Distinct, After
<1>10. TypeInv'
  <2>1. entries' \in [Node -> SUBSET ((Obj \cup {None}) \X (Obj \cup {None}))]
    BY <1>2, Numbers DEF IInv, TypeInv
  <2>2. /\ type' \in [Node -> Types \cup {"free"}] /\ mode' \in [Node -> {"strong", "weakv", "weakk", "weakkv"}]
        /\ mark' \in [Node -> Whites \cup {"gray", "black"}] /\ type'[Main] = "thread"
    BY <1>1, <1>2, <1>5, Numbers DEF IInv, TypeInv, Types
  <2> QED
    BY <1>2, <1>7, <2>1, <2>2 DEF IInv, TypeInv
<1>11. KindInv'
  <2>1. \A x \in Node : x # o /\ x # Main => type'[x] = type[x] /\ mark'[x] = mark[x] /\ mode'[x] = mode[x] /\ entries'[x] = entries[x]
    BY <1>5
  <2>2. type[Main] = "thread" /\ open[Main] = None
    BY StackAlive DEF IInv, TypeInv
  <2>3. \A x \in Node : open[x] # None => open[x] # o /\ x # o /\ x # Main
    BY <1>2, <1>4, <2>2 DEF IInv, KindInv
  <2>4. currentwhite # "black"
    BY Colors DEF IInv, TypeInv
  <2> QED
    BY <1>1, <1>2, <1>3, <1>4, <1>5, <2>1, <2>2, <2>3, <2>4 DEF IInv, KindInv
<1>12. ListInv'
  BY <1>1, <1>2, <1>4, <1>5, <1>7, <1>8, Numbers DEF IInv, ListInv
<1>13. FinInv' /\ PendingInv' /\ GoalInv'
  BY <1>2, <1>3, <1>8 DEF IInv, FinInv, PendingInv, GoalInv, Over, Sweeping
<1>14. PointInv'
  <2>1. \A x \in sweepstr : type'[x] = "string"
    BY <1>2, <1>3, <1>5, Numbers DEF IInv, PointInv, TypeInv
  <2> QED
    BY <1>2, <1>3, <1>7, <1>8, <2>1 DEF IInv, PointInv, Over, Sweeping
<1>15. ASSUME NEW x \in Live \ Dead PROVE Leads(x)' \subseteq Leads(x) \cup (IF x = Main THEN {o} ELSE {})
  <2>1. x # o /\ x \in Node
    BY <1>4, <1>15 DEF Live
  <2>2. CASE open[x] = None
    BY <1>2, <1>5, <2>1, <2>2, StackAlive DEF IInv, Leads, Refs, Vals, Keys
  <2>3. CASE open[x] # None
    <3>1. open[x] # Main /\ open[x] \in Node
      BY <2>1, <2>3, Numbers DEF IInv, KindInv
    <3> QED
      BY <1>2, <1>5, <2>3, <3>1 DEF Leads, Vals
  <2> QED
    BY <2>2, <2>3
<1>16. Leads(o)' = {}
  BY <1>2, <1>4, <1>5 DEF Leads, Refs, Vals, Keys
<1>17. Sound'
  BY <1>6, <1>15, <1>16 DEF IInv, Sound
<1>18. Kept'
  BY <1>6, <1>8 DEF IInv, Kept
<1>19. Listed' = Listed /\ Unswept' = Unswept \cup ({o} \cap Unswept')
  <2>1. Listed' = Listed
    BY <1>3, <1>7, <1>8 DEF Listed
  <2> QED
    BY <1>2, <1>6, <2>1 DEF Unswept
<1>20. SweptInv'
  <2>1. \A x \in Dead : Stale(x)' = Stale(x)
    BY <1>2 DEF Stale
  <2> QED
    BY <1>2, <1>3, <1>5, <1>6, <1>8, <1>19, <2>1 DEF IInv, SweptInv, Sweeping, Over, Live
<1>21. GrayInv'
  <2> SUFFICES ASSUME KeepInvariant PROVE GrayInv'
    BY <1>2 DEF GrayInv, KeepInvariant
  <2>1. gcstate = "propagate"
    BY <1>3
  <2>2. ASSUME NEW x \in Live' \ White', mark'[x] = "black" PROVE Leads(x)' \cap White' = {}
    <3>1. x \in Live \ White /\ x # o /\ mark[x] = "black"
      BY <1>5, <1>6, <2>2 DEF Live
    <3>2. x # Main /\ x \in Live \ Dead
      BY <3>1, Colors, StackAlive DEF IInv
    <3>3. Leads(x)' \subseteq Leads(x) /\ o \notin Leads(x) /\ Leads(x) \cap White = {}
      BY <1>3, <1>4, <1>15, <2>1, <3>1, <3>2 DEF IInv, Sound, GrayInv
    <3> QED
      BY <1>6, <3>3
  <2>3. Grays' = Grays /\ o \notin Grays /\ Main # o
    BY <1>2, <1>3, <2>1 DEF IInv, GrayInv, Grays
  <2>4. \A x \in Live' : mark'[x] = "gray" /\ open'[x] = None => x \in Grays'
    BY <1>2, <1>3, <1>5, <1>6, <2>1, <2>3, Colors DEF IInv, GrayInv, Live, TypeInv
  <2>5. \A x \in Grays' : x \in Node /\ x # o
    BY <2>3 DEF IInv, TypeInv, Grays
  <2>6. /\ \A x \in Grays' : mark'[x] = "gray" /\ type'[x] \in {"table", "closure", "proto", "thread"}
        /\ \A x \in weak' : mode'[x] = "weakv"
        /\ \A x \in ephemeron' : mode'[x] = "weakk"
        /\ \A x \in allweak' : mode'[x] \in {"weakk", "weakkv"}
        /\ mark'[Main] = "gray"
    BY <1>2, <1>3, <1>5, <2>1, <2>3, <2>5, Numbers DEF IInv, GrayInv, Grays
  <2> QED
    BY <1>2, <1>3, <2>1, <2>2, <2>4, <2>6 DEF IInv, GrayInv
<1>22. OldInv'
  <2>1. \A x \in Live' : old'[x] => x \in Live /\ mark'[x] = mark[x]
    BY <1>2, <1>4, <1>5, <1>6 DEF Live
  <2>2. OldRun(finobj, {})' = OldRun(finobj, {})
    BY <1>2 DEF OldRun, Elems, After
  <2> QED
    BY <1>2, <1>3, <1>7, <1>8, <2>1, <2>2 DEF IInv, OldInv, Over, Sweeping
<1> QED
  BY <1>10, <1>11, <1>12, <1>13, <1>14, <1>17, <1>18, <1>20, <1>21, <1>22 DEF IInv

LEMMA NewClosureStep ==
  ASSUME IInv, NEW p \in Stack, NEW t \in Stack, NEW c \in Obj, NEW u \in Obj, NewClosure(p, t, c, u)
  PROVE  IInv'
<1> DEFINE m == [mark EXCEPT ![c] = currentwhite,
                            ![u] = IF u \in White \/ type[u] = "free" THEN currentwhite ELSE @]
<1>1. /\ Running /\ type[p] = "proto" /\ type[t] = "thread" /\ type[c] = "free"
      /\ type' = [type EXCEPT ![c] = "closure", ![u] = "upval"]
      /\ open' = [open EXCEPT ![u] = t]
      /\ entries' = [[entries EXCEPT ![Main] = entries[Main] \cup {<<None, c>>}]
                       EXCEPT ![c] = {<<None, p>>, <<None, u>>}]
      /\ allgc' = <<c>> \o allgc /\ cache' = [cache EXCEPT ![p] = c]
      /\ UNCHANGED <<old, mode, finobj, tobefnz, weak, allweak, ephemeron, profile, finalized, owed>>
      /\ UNCHANGED <<currentwhite, gcstate, gckind, sweepgc, sweepfin, sweepstr, pending, goal, kind0>>
      /\ u # c /\ (u \in Opened(t) \/ type[u] = "free")
  <2>1. u # c /\ (u \in Opened(t) \/ type[u] = "free")
    BY DEF NewClosure, Opened, Live
  <2> QED
    BY <2>1 DEF NewClosure, Pushed, duty, state
<1>2. BarrierProto(p, c, m)
  BY DEF NewClosure
<1>3. /\ goal = "none" /\ ~Over /\ gcstate \notin {"enterfin", "enterall"}
      /\ gckind = "gen" => gcstate = "propagate" /\ ~Sweeping
      /\ KeepInvariant <=> gcstate = "propagate"
      /\ gckind = "normal" => \A o \in Live : ~old[o]
      /\ InStr = sweepstr /\ InStr' = sweepstr /\ pending = None
  BY <1>1, RunningFacts DEF InStr, Running
<1>4. /\ c \notin Elems(allgc) /\ c \notin Elems(finobj) /\ c \notin Elems(tobefnz) /\ c \notin Live
      /\ entries[c] = {} /\ cache[c] = None /\ open[c] = None /\ mode[c] = "strong" /\ ~old[c]
      /\ c \in Node /\ u \in Node /\ c # Main /\ u # Main
  BY <1>1, <1>3, Numbers DEF IInv, ListInv, KindInv, Live
<1>5. /\ p \in Live \ Dead /\ t \in Live \ Dead /\ p \in Obj /\ t \in Obj /\ p \in Node /\ t \in Node
      /\ p \notin {c, u, Main, t} /\ t \notin {c, u, Main} /\ open[p] = None /\ open[t] = None
  BY <1>1, StackAlive, Numbers DEF IInv, KindInv, Opened
<1>6. /\ entries[u] = {} /\ cache[u] = None /\ mode[u] = "strong"
      /\ u \notin Elems(allgc) /\ u \notin Elems(finobj) /\ u \notin Elems(tobefnz)
      /\ \/ type[u] = "free" /\ u \notin Live /\ ~old[u] /\ open[u] = None
         \/ type[u] = "upval" /\ u \in Live /\ open[u] = t /\ mark[u] # "black"
  BY <1>1, <1>3, <1>4, <1>5, Numbers DEF IInv, KindInv, ListInv, Opened, Live
<1>7. /\ \A x \in Node : type'[x] = IF x = c THEN "closure" ELSE IF x = u THEN "upval" ELSE type[x]
      /\ \A x \in Node : open'[x] = IF x = u THEN t ELSE open[x]
      /\ \A x \in Node : cache'[x] = IF x = p THEN c ELSE cache[x]
      /\ \A x \in Node : entries'[x] = IF x = c THEN {<<None, p>>, <<None, u>>}
                            ELSE IF x = Main THEN entries[Main] \cup {<<None, c>>} ELSE entries[x]
  BY <1>1, <1>4, <1>5 DEF IInv, TypeInv
<1>8. m = [x \in Node |-> IF x = c THEN currentwhite
                           ELSE IF x = u THEN IF u \in White \/ type[u] = "free" THEN currentwhite ELSE mark[u]
                           ELSE mark[x]]
  BY <1>1, <1>4 DEF IInv, TypeInv
<1> HIDE DEF m
<1>9. m[p] = mark[p]
  BY <1>5, <1>8
<1>10. /\ mark' \in [Node -> Whites \cup {"gray", "black"}]
       /\ \A x \in Node \ {p, c} : mark'[x] = m[x]
       /\ mark'[c] = currentwhite \/ (mark'[c] = "gray" /\ KeepInvariant)
       /\ mark'[p] = mark[p] \/ (mark[p] = "black" /\ (mark'[p] = "gray" \/ (mark'[p] = currentwhite /\ ~KeepInvariant)))
       /\ mark[p] = "black" => mark'[p] # "black" \/ (KeepInvariant /\ mark'[c] = "gray")
  <2>1. m \in [Node -> Whites \cup {"gray", "black"}] /\ m[c] = currentwhite
    BY <1>4, <1>8 DEF IInv, TypeInv
  <2>2. CASE mark[p] # "black"
    <3>1. mark' = m
      BY <1>2, <1>9, <2>2 DEF BarrierProto
    <3> QED
      BY <1>5, <1>9, <2>1, <2>2, <3>1
  <2>3. CASE mark[p] = "black" /\ cache[p] # None
    <3>1. mark' = [m EXCEPT ![p] = "gray"]
      BY <1>2, <1>9, <2>3 DEF BarrierProto
    <3> QED
      BY <1>4, <1>5, <2>1, <2>3, <3>1
  <2>4. CASE mark[p] = "black" /\ cache[p] = None /\ KeepInvariant
    <3>1. mark' = [m EXCEPT ![c] = "gray"]
      BY <1>2, <1>9, <2>4 DEF BarrierProto
    <3> QED
      BY <1>4, <1>5, <1>9, <2>1, <2>4, <3>1
  <2>5. CASE mark[p] = "black" /\ cache[p] = None /\ ~KeepInvariant
    <3>1. mark' = [m EXCEPT ![p] = currentwhite]
      BY <1>2, <1>9, <2>5 DEF BarrierProto
    <3> QED
      BY <1>4, <1>5, <2>1, <2>5, <3>1, Colors DEF IInv, TypeInv
  <2> QED
    BY <2>2, <2>3, <2>4, <2>5
<1>11. /\ gray' = gray \/ (gray' = gray \cup {c} /\ mark'[c] = "gray")
       /\ grayagain' = grayagain \/ (grayagain' = grayagain \cup {p} /\ mark[p] = "black" /\ mark'[p] = "gray")
       /\ mark'[c] = "gray" => c \in gray'
       /\ mark[p] = "black" /\ mark'[p] = "gray" => p \in grayagain'
  <2>1. m \in [Node -> Whites \cup {"gray", "black"}] /\ m[c] = currentwhite
    BY <1>4, <1>8 DEF IInv, TypeInv
  <2> QED
    BY <1>2, <1>4, <1>5, <1>9, <2>1, Colors DEF BarrierProto, IInv, Whites, TypeInv
<1>12. /\ Live' = Live \cup {c, u} /\ Dead' = Dead \ {u} /\ c \notin Dead
       /\ White' \subseteq White \cup {c, u, p} /\ (u \in White' /\ u \in Live => u \in White)
       /\ p \in White' => p \in White \/ ~KeepInvariant
       /\ \A x \in Live : x \notin White => x \notin White' \/ (x = p /\ ~KeepInvariant)
  <2>1. Live' = Live \cup {c, u}
    BY <1>4, <1>7 DEF Live
  <2>2. Other' = Other /\ Other # currentwhite /\ Other \notin {"gray", "black"} /\ currentwhite \in Whites
    BY <1>1, Colors DEF Other, IInv, Whites, TypeInv
  <2>3. ASSUME NEW x \in Live', x \notin {c, u, p} PROVE x \in Live /\ mark'[x] = mark[x] /\ x \in Node
    BY <1>8, <1>10, <2>1, <2>3 DEF Live
  <2>4. mark'[u] = IF u \in White \/ type[u] = "free" THEN currentwhite ELSE mark[u]
    BY <1>1, <1>4, <1>5, <1>8, <1>10
  <2>5. mark'[c] # Other
    BY <1>10, <2>2
  <2>6. mark'[p] = Other <=> mark[p] = Other
    BY <1>10, <2>2
  <2>7. u \notin Dead'
    BY <2>2, <2>4, Colors DEF Dead, White, IInv, Live
  <2>8. Dead' = Dead \ {u} /\ c \notin Dead
    BY <1>4, <2>1, <2>2, <2>3, <2>5, <2>6, <2>7 DEF Dead
  <2>9. mark'[p] \in Whites => mark[p] \in Whites \/ ~KeepInvariant
    BY <1>10, <2>2, Colors DEF IInv
  <2> QED
    BY <1>4, <1>5, <2>1, <2>2, <2>3, <2>4, <2>8, <2>9 DEF White, Live
<1>13. /\ allgc' \in Seq(Obj) /\ Distinct(allgc') /\ InAll' = InAll
       /\ Elems(allgc') = {c} \cup Elems(allgc)
       /\ OldRun(allgc, {}) => OldRun(allgc, {})'
  BY <1>1, <1>3, <1>4, Prepended
<1>14. Elems(finobj)' = Elems(finobj) /\ Elems(tobefnz)' = Elems(tobefnz) /\ InFin' = InFin
       /\ Distinct(finobj)' = Distinct(finobj) /\ Distinct(tobefnz)' = Distinct(tobefnz)
  BY <1>1 DEF Elems, InFin, Rest, Distinct, After
<1>20. TypeInv'
  <2>0. TypeInv
    BY DEF IInv
  <2>1. entries' \in [Node -> SUBSET ((Obj \cup {None}) \X (Obj \cup {None}))]
    <3>1. entries \in [Node -> SUBSET ((Obj \cup {None}) \X (Obj \cup {None}))]
      BY <2>0 DEF TypeInv
    <3>2. /\ {<<None, p>>, <<None, u>>} \in SUBSET ((Obj \cup {None}) \X (Obj \cup {None}))
          /\ <<None, c>> \in (Obj \cup {None}) \X (Obj \cup {None})
      BY <1>5
    <3>3. entries[Main] \cup {<<None, c>>} \in SUBSET ((Obj \cup {None}) \X (Obj \cup {None}))
      BY <3>1, <3>2, Numbers
    <3> QED
      BY <1>1, <3>1, <3>2, <3>3
  <2>2. type' \in [Node -> Types \cup {"free"}] /\ type'[Main] = "thread"
    <3>1. type \in [Node -> Types \cup {"free"}] /\ type[Main] = "thread"
      BY <2>0 DEF TypeInv
    <3>2. type' = [type EXCEPT ![c] = "closure", ![u] = "upval"]
      BY <1>1
    <3>3. {"closure", "upval"} \subseteq Types \cup {"free"} /\ Main \in Node /\ c # Main /\ u # Main
      BY <1>4, Numbers DEF Types
    <3> QED
      BY <3>1, <3>2, <3>3
  <2>3. open' \in [Node -> Node \cup {None}] /\ cache' \in [Node -> Obj \cup {None}]
    <3>1. open \in [Node -> Node \cup {None}] /\ cache \in [Node -> Obj \cup {None}]
      BY <2>0 DEF TypeInv
    <3> QED
      BY <1>1, <1>5, <3>1
  <2>4. gray' \subseteq Node /\ grayagain' \subseteq Node
    BY <1>4, <1>5, <1>11, <2>0 DEF TypeInv
  <2>5. /\ profile' \in Profiles /\ old' \in [Node -> BOOLEAN]
        /\ mode' \in [Node -> {"strong", "weakv", "weakk", "weakkv"}]
        /\ finobj' \in Seq(Obj) /\ tobefnz' \in Seq(Obj)
        /\ weak' \subseteq Node /\ allweak' \subseteq Node /\ ephemeron' \subseteq Node
        /\ owed' \subseteq Obj /\ finalized' \subseteq Obj
    BY <1>1, <2>0 DEF TypeInv
  <2>6. /\ currentwhite' \in Whites /\ gcstate' \in SweepStates \cup {"pause", "propagate"}
        /\ gckind' \in {"normal", "gen"} /\ kind0' \in {"normal", "gen"}
        /\ sweepgc' \in Obj \cup {None, Start} /\ sweepfin' \in Obj \cup {None, Start}
        /\ pending' \in Obj \cup {None} /\ sweepstr' \subseteq Obj
        /\ goal' \in {"none", "finish", "collect", "regen", "minor", "togen", "whiten", "close", "closed"}
    BY <1>1, <2>0 DEF TypeInv
  <2>7. mark' \in [Node -> Whites \cup {"gray", "black"}] /\ allgc' \in Seq(Obj)
    BY <1>10, <1>13
  <2> QED
    BY <2>1, <2>2, <2>3, <2>4, <2>5, <2>6, <2>7 DEF TypeInv, Whites
<1>21. KindInv'
  <2>1. \A x \in Node : x \notin {c, u, p} => type'[x] = type[x] /\ mark'[x] = mark[x] /\ mode'[x] = mode[x] /\ open'[x] = open[x]
                          /\ cache'[x] = cache[x] /\ (x # Main => entries'[x] = entries[x])
    BY <1>1, <1>7, <1>8, <1>10
  <2>2. type[Main] = "thread" /\ open[Main] = None
    BY StackAlive DEF IInv, TypeInv
  <2>3. \A x \in Node : open[x] # None => open[x] \notin {c, u, p} /\ x \notin {c, p, Main}
    BY <1>1, <1>4, <1>5, <1>6, <2>2 DEF IInv, KindInv
  <2>4. mark'[c] # "black" /\ mark'[u] # "black"
    BY <1>1, <1>4, <1>5, <1>6, <1>8, <1>10, Colors DEF IInv, TypeInv, White, Live
  <2>5. /\ type'[c] = "closure" /\ type'[u] = "upval" /\ type'[p] = "proto" /\ type'[t] = "thread"
        /\ entries'[u] = {} /\ entries'[p] = entries[p] /\ mode'[c] = "strong" /\ mode'[u] = "strong" /\ mode'[p] = mode[p]
        /\ cache'[c] = None /\ cache'[u] = None /\ open'[c] = None /\ open'[p] = None /\ open'[u] = t
    <3>1. type'[c] = "closure" /\ type'[u] = "upval" /\ type'[p] = "proto" /\ type'[t] = "thread"
      BY <1>1, <1>4, <1>5, <1>7
    <3>2. entries'[u] = {} /\ entries'[p] = entries[p]
      BY <1>1, <1>4, <1>5, <1>6, <1>7
    <3>3. mode'[c] = "strong" /\ mode'[u] = "strong" /\ mode'[p] = mode[p]
      BY <1>1, <1>4, <1>6
    <3>4. cache'[c] = None /\ cache'[u] = None
      BY <1>4, <1>5, <1>6, <1>7
    <3>5. open'[c] = None /\ open'[p] = None /\ open'[u] = t
      BY <1>1, <1>4, <1>5, <1>7
    <3> QED
      BY <3>1, <3>2, <3>3, <3>4, <3>5
  <2>6. /\ \A e \in entries'[c] : e[1] = None
        /\ \A e \in entries'[Main] : e[1] = None
        /\ \A e \in entries'[p] : e[1] = None
    <3>1. \A e \in entries'[c] : e[1] = None
      BY <1>4, <1>7
    <3>2. \A e \in entries'[Main] : e[1] = None
      BY <1>4, <1>7, Numbers, StackAlive DEF IInv
    <3>3. \A e \in entries[p] : e[1] = None
      BY <1>1, <1>5 DEF IInv, KindInv
    <3> QED
      BY <2>5, <3>1, <3>2, <3>3
  <2>7. \A o \in Node : type'[o] = "free" => ~old'[o]
    BY <1>1, <1>3, <2>1, <2>5 DEF IInv, KindInv
  <2>8. \A o \in Node : type'[o] \in {"free", "string"} => entries'[o] = {}
    <3>1. type'[Main] = "thread"
      BY <1>4, <1>5, <2>1, <2>2, Numbers
    <3> QED
      BY <2>1, <2>5, <3>1 DEF IInv, KindInv
  <2>9. \A o \in Node : mode'[o] # "strong" => type'[o] = "table"
    <3>1. mode[p] = "strong"
      BY <1>1, <1>5 DEF IInv, KindInv
    <3> QED
      BY <2>1, <2>5, <3>1 DEF IInv, KindInv
  <2>10. \A o \in Node : type'[o] # "table" => \A e \in entries'[o] : e[1] = None
    BY <2>1, <2>5, <2>6 DEF IInv, KindInv
  <2>11. \A o \in Node : cache'[o] # None => type'[o] = "proto"
    BY <2>1, <2>5 DEF IInv, KindInv
  <2>12. ASSUME NEW o \in Node, open'[o] # None
         PROVE  /\ type'[o] = "upval" /\ open'[o] \in Obj /\ type'[open'[o]] = "thread"
                /\ mark'[o] # "black" /\ entries'[o] = {}
    <3>1. CASE o = u
      BY <1>5, <2>4, <2>5, <3>1
    <3>2. CASE o # u
      <4>1. o \notin {c, u, p, Main} /\ open[o] # None /\ open[o] \notin {c, u, p} /\ open[o] \in Node
        BY <2>1, <2>2, <2>3, <2>5, <2>12, <3>2, Numbers DEF IInv, KindInv
      <4> QED
        BY <2>1, <4>1 DEF IInv, KindInv
    <3> QED
      BY <3>1, <3>2
  <2>13. \A o \in Node : type'[o] = "thread" => mark'[o] # "black"
    BY <2>1, <2>5 DEF IInv, KindInv
  <2> QED
    BY <2>7, <2>8, <2>9, <2>10, <2>11, <2>12, <2>13 DEF KindInv
<1>22. ListInv'
  <2>1. ASSUME NEW o \in Obj
        PROVE  (o \in Elems(allgc) \cup Elems(finobj) \cup Elems(tobefnz))'
                  <=> type'[o] \notin {"free", "string"} /\ open'[o] = None
    <3>1. CASE o = c
      <4>1. type'[c] = "closure" /\ open'[c] = None /\ c \in Elems(allgc)'
        BY <1>1, <1>4, <1>7, <1>13
      <4> QED
        BY <3>1, <4>1
    <3>2. CASE o = u
      BY <1>1, <1>4, <1>5, <1>6, <1>7, <1>13, <1>14, <3>2, Numbers
    <3>3. CASE o # c /\ o # u
      <4>1. o \in Node /\ type'[o] = type[o] /\ open'[o] = open[o]
        BY <1>7, <3>3, Numbers
      <4> QED
        BY <1>13, <1>14, <3>3, <4>1 DEF IInv, ListInv
    <3> QED
      BY <3>1, <3>2, <3>3
  <2>2. \A o \in Elems(finobj) \cup Elems(tobefnz) : o \in Node /\ o # c /\ o # u
    BY <1>4, <1>6, Numbers DEF Elems, IInv, TypeInv
  <2> QED
    <3>1. \A o \in Elems(finobj) \cup Elems(tobefnz) : type'[o] \in {"udata", "table"} /\ mode'[o] = "strong"
      <4>1. \A o \in Elems(finobj) \cup Elems(tobefnz) : type[o] \in {"udata", "table"} /\ mode[o] = "strong"
        BY DEF IInv, ListInv
      <4>2. \A o \in Elems(finobj) \cup Elems(tobefnz) : type'[o] = type[o] /\ mode'[o] = mode[o]
        BY <1>1, <1>7, <2>2
      <4> QED
        BY <4>1, <4>2
    <3>2. /\ Elems(allgc)' \cap Elems(finobj)' = {} /\ Elems(allgc)' \cap Elems(tobefnz)' = {}
          /\ Elems(finobj)' \cap Elems(tobefnz)' = {} /\ Distinct(finobj)' /\ Distinct(tobefnz)'
      BY <1>4, <1>13, <1>14 DEF IInv, ListInv
    <3> QED
      BY <1>13, <1>14, <2>1, <3>1, <3>2 DEF ListInv
<1>23. FinInv' /\ PendingInv' /\ GoalInv'
  BY <1>1, <1>3, <1>14 DEF IInv, FinInv, PendingInv, GoalInv, Over, Sweeping
<1>24. PointInv'
  <2>1. \A x \in sweepstr : type'[x] = "string"
    <3>1. \A x \in sweepstr : x \in Node /\ type[x] = "string"
      BY <1>3, Numbers DEF IInv, PointInv, TypeInv
    <3> QED
      BY <1>1, <1>6, <1>7, <3>1
  <2> QED
    BY <1>1, <1>3, <1>13, <1>14, <2>1 DEF IInv, PointInv, Over, Sweeping
<1>25. Leads(c)' = {p, u} /\ Leads(u)' = Vals(t) /\ Leads(u)' \subseteq Live \ Dead
  <2>1. Leads(c)' = {p, u}
    <3>1. /\ open'[c] = None /\ cache'[c] = None /\ entries'[c] = {<<None, p>>, <<None, u>>}
          /\ p # None /\ u # None
      BY <1>1, <1>4, <1>5, <1>7, Numbers
    <3>2. Vals(c)' = {p, u} /\ Keys(c)' = {}
      BY <3>1 DEF Vals, Keys
    <3> QED
      BY <3>1, <3>2 DEF Leads, Refs
  <2>2. cache'[u] = None /\ open'[u] = t /\ t # None /\ entries'[t] = entries[t]
    BY <1>4, <1>5, <1>6, <1>7, Numbers
  <2>3. Leads(u)' = Vals(t)
    BY <2>2 DEF Leads, Vals
  <2> QED
    BY <1>5, <2>1, <2>3, RefsAlive DEF IInv
<1>26. ASSUME NEW x \in Live, x # u
       PROVE  Leads(x)' \subseteq Leads(x) \cup (IF x \in {Main, p} THEN {c} ELSE {})
  <2>1. x # c /\ x \in Node /\ open'[x] = open[x]
    BY <1>4, <1>7, <1>26 DEF Live
  <2>2. cache'[x] = IF x = p THEN c ELSE cache[x]
    BY <1>7, <2>1
  <2>3. CASE open[x] = None
    <3>1. entries'[x] \subseteq entries[x] \cup (IF x = Main THEN {<<None, c>>} ELSE {})
      BY <1>4, <1>7, <2>1
    <3>2. Refs(x)' \subseteq Refs(x) \cup (IF x = Main THEN {c} ELSE {})
      BY <3>1 DEF Refs, Vals, Keys
    <3> QED
      BY <2>1, <2>2, <2>3, <3>2 DEF Leads
  <2>4. CASE open[x] # None
    <3>1. open[x] \notin {Main, c} /\ open[x] \in Node
      BY <1>1, <2>1, <2>4, Numbers DEF IInv, KindInv
    <3>2. Vals(open[x])' = Vals(open[x])
      BY <1>7, <2>1, <3>1 DEF Vals
    <3> QED
      BY <2>1, <2>2, <2>4, <3>2 DEF Leads
  <2> QED
    BY <2>3, <2>4
<1>27. Sound'
  <2> SUFFICES ASSUME NEW x \in Live' \ Dead' PROVE Leads(x)' \subseteq Live' \ Dead'
    BY DEF Sound
  <2>1. Live \ Dead \subseteq Live' \ Dead' /\ {c, u} \subseteq Live' \ Dead'
    BY <1>12
  <2>2. CASE x \in {c, u}
    BY <1>5, <1>25, <2>1, <2>2
  <2>3. CASE x \notin {c, u}
    <3>1. x \in Live \ Dead
      BY <1>12, <2>3
    <3> QED
      BY <1>26, <2>1, <2>3, <3>1 DEF IInv, Sound
  <2> QED
    BY <2>2, <2>3
<1>28. Kept'
  BY <1>12, <1>14 DEF IInv, Kept
<1>29. Listed' = Listed /\ Unswept \subseteq Unswept'
  <2>1. Listed' = Listed
    BY <1>3, <1>13, <1>14 DEF Listed
  <2>2. \A x \in Live : open[x] \in Listed => open'[x] \in Listed
    <3>1. \A x \in Live : x \in Node
      BY DEF Live
    <3>2. u \in Live => open[u] = t
      BY <1>6
    <3> QED
      BY <1>7, <3>1, <3>2
  <2> QED
    BY <1>12, <2>1, <2>2 DEF Unswept
<1>30. SweptInv'
  <2>1. ASSUME NEW x \in Dead' PROVE ((Sweeping /\ x \in Unswept) \/ Stale(x))'
    <3>1. x \in Dead /\ x # u /\ x \in Node
      BY <1>12 DEF Dead, Live
    <3>2. open'[x] = open[x]
      BY <1>7, <3>1
    <3>3. (Sweeping /\ x \in Unswept) \/ Stale(x)
      BY <1>3, <3>1 DEF IInv, SweptInv
    <3> QED
      BY <1>1, <1>29, <3>2, <3>3 DEF Stale, Sweeping
  <2>2. ASSUME gckind = "normal", gcstate # "propagate", NEW x \in Live' \ Elems(tobefnz)
        PROVE  mark'[x] = currentwhite \/ (Sweeping /\ x \in Unswept')
    <3>1. x \in Live => mark[x] = currentwhite \/ (Sweeping /\ x \in Unswept)
      BY <1>3, <2>2 DEF IInv, SweptInv
    <3>2. CASE x = c
      BY <1>3, <1>10, <2>2, <3>2
    <3>3. CASE x = u
      <4>1. mark'[x] = IF u \in White \/ type[u] = "free" THEN currentwhite ELSE mark[u]
        BY <1>1, <1>4, <1>5, <1>8, <1>10, <3>3
      <4> QED
        BY <1>6, <1>29, <3>1, <3>3, <4>1
    <3>4. CASE x = p
      BY <1>5, <1>10, <1>29, <3>1, <3>4, Colors DEF IInv
    <3>5. CASE x \notin {c, u, p}
      <4>1. x \in Live /\ x \in Node /\ mark'[x] = mark[x]
        BY <1>8, <1>10, <1>12, <2>2, <3>5 DEF Live
      <4> QED
        BY <1>29, <3>1, <4>1
    <3> QED
      BY <3>2, <3>3, <3>4, <3>5
  <2> QED
    BY <1>1, <1>3, <1>14, <2>1, <2>2 DEF SweptInv, Sweeping
<1>31. GrayInv'
  <2> SUFFICES ASSUME KeepInvariant PROVE GrayInv'
    BY <1>1 DEF GrayInv, KeepInvariant
  <2>1. gcstate = "propagate" /\ goal # "closed"
    BY <1>3
  <2>2. /\ \A x \in Live \ White : mark[x] = "black" => Leads(x) \cap White = {}
        /\ \A x \in Live : mark[x] = "gray" /\ open[x] = None => x \in Grays
        /\ \A x \in Grays : mark[x] = "gray" /\ type[x] \in {"table", "closure", "proto", "thread"}
        /\ \A x \in weak : mode[x] = "weakv"
        /\ \A x \in ephemeron : mode[x] = "weakk"
        /\ \A x \in allweak : mode[x] \in {"weakk", "weakkv"}
        /\ gray \cap (grayagain \cup weak \cup allweak \cup ephemeron) = {}
        /\ grayagain \cap (weak \cup allweak \cup ephemeron) = {}
        /\ weak \cap (allweak \cup ephemeron) = {} /\ allweak \cap ephemeron = {}
        /\ mark[Main] = "gray"
    BY <2>1 DEF IInv, GrayInv
  <2>3. c \notin Grays /\ u \notin Grays /\ (mark[p] = "black" => p \notin Grays)
    BY <1>1, <1>6, <2>2
  <2>4. ASSUME NEW x \in Live' \ White', mark'[x] = "black" PROVE Leads(x)' \cap White' = {}
    <3>1. x # c /\ x # u
      BY <1>1, <1>4, <1>6, <1>8, <1>10, <1>5, <2>4, Colors DEF IInv, TypeInv
    <3>2. x \in Live /\ x \in Node /\ x # Main
      BY <1>5, <1>12, <2>2, <2>4, <3>1, <1>8, <1>10, Numbers, StackAlive DEF Live, IInv
    <3>3. mark[x] = "black" /\ x \notin White /\ (x = p => mark'[c] = "gray")
      BY <1>4, <1>8, <1>10, <2>4, <3>1, <3>2, Colors DEF IInv, White
    <3>4. Leads(x) \cap White = {} /\ Leads(x) \subseteq Live
      BY <2>2, <3>2, <3>3, Colors DEF IInv, Sound
    <3>5. Leads(x)' \subseteq Leads(x) \cup (IF x = p THEN {c} ELSE {})
      BY <1>26, <3>1, <3>2
    <3>6. mark'[c] = "gray" => c \notin White'
      BY Colors DEF White, IInv, Whites
    <3> SUFFICES ASSUME NEW y \in Leads(x)', y \in White' PROVE FALSE
      OBVIOUS
    <3>7. y # c
      BY <1>4, <3>3, <3>4, <3>5, <3>6
    <3>8. y \in Leads(x) /\ y \in Live /\ y \notin White
      BY <3>4, <3>5, <3>7
    <3> QED
      BY <1>12, <3>8
  <2>5. Grays' = Grays \cup (gray' \ gray) \cup (grayagain' \ grayagain)
    BY <1>1, <1>11 DEF Grays
  <2>6. ASSUME NEW x \in Live', mark'[x] = "gray", open'[x] = None PROVE x \in Grays'
    <3>1. x # u
      BY <1>4, <1>5, <1>7, <2>6, Numbers
    <3>2. CASE x = c
      BY <1>11, <2>6, <3>2 DEF Grays
    <3>3. CASE x = p
      <4>1. CASE mark[p] = "black"
        BY <1>11, <2>6, <3>3, <4>1 DEF Grays
      <4>2. CASE mark[p] # "black"
        BY <1>5, <1>10, <2>2, <2>5, <2>6, <3>3, <4>2
      <4> QED
        BY <4>1, <4>2
    <3>4. CASE x \notin {u, c, p}
      <4>1. x \in Live /\ x \in Node
        BY <1>12, <2>6, <3>4 DEF Live
      <4>2. mark[x] = "gray" /\ open[x] = None
        BY <1>7, <1>8, <1>10, <2>6, <3>4, <4>1
      <4> QED
        BY <2>2, <2>5, <4>1, <4>2
    <3> QED
      BY <3>1, <3>2, <3>3, <3>4
  <2>7. ASSUME NEW x \in Grays' PROVE mark'[x] = "gray" /\ type'[x] \in {"table", "closure", "proto", "thread"}
    <3>1. CASE x = c
      BY <1>4, <1>7, <1>11, <2>3, <2>5, <2>7, <1>5, <3>1
    <3>2. CASE x = p
      <4>1. type'[p] = "proto"
        BY <1>1, <1>5, <1>7
      <4>2. p \in Grays => mark[p] = "gray"
        BY <2>2
      <4>3. CASE p \in Grays
        <5>1. mark'[p] = "gray"
          BY <1>10, <4>2, <4>3
        <5> QED
          BY <3>2, <4>1, <5>1
      <4>4. CASE p \notin Grays
        <5>1. p \in gray' \ gray \/ p \in grayagain' \ grayagain
          BY <2>5, <2>7, <3>2, <4>4
        <5>2. p # c
          BY <1>5
        <5>3. mark'[p] = "gray"
          BY <1>11, <5>1, <5>2
        <5> QED
          BY <3>2, <4>1, <5>3
      <4> QED
        BY <4>3, <4>4
    <3>3. CASE x \notin {c, p}
      <4>1. x \in Grays /\ x \in Node /\ x # u
        BY <1>11, <2>3, <2>5, <2>7, <3>3 DEF Grays, IInv, TypeInv
      <4> QED
        BY <1>7, <1>8, <1>10, <2>2, <3>3, <4>1
    <3> QED
      BY <3>1, <3>2, <3>3
  <2>8. /\ gray' \cap (grayagain' \cup weak \cup allweak \cup ephemeron) = {}
        /\ grayagain' \cap (weak \cup allweak \cup ephemeron) = {}
    BY <1>5, <1>11, <2>2, <2>3 DEF Grays
  <2>9. mark'[Main] = "gray"
    BY <1>4, <1>5, <1>8, <1>10, <2>2, Numbers
  <2> QED
    BY <1>1, <2>1, <2>2, <2>4, <2>6, <2>7, <2>8, <2>9 DEF GrayInv
<1>32. OldInv'
  <2>1. ASSUME NEW x \in Live', old'[x] PROVE mark'[x] \notin Whites
    <3>1. x \in Live /\ old[x] /\ x \in Node
      BY <1>1, <1>4, <1>6, <1>12, <2>1 DEF Live
    <3>2. mark[x] \notin Whites /\ x \notin White
      BY <1>3, <3>1 DEF IInv, OldInv, White
    <3>3. KeepInvariant
      BY <1>3, <3>1 DEF IInv, TypeInv, KeepInvariant
    <3> QED
      BY <1>12, <2>1, <3>1, <3>2, <3>3 DEF White
  <2>2. OldRun(finobj, {})' = OldRun(finobj, {})
    BY <1>1 DEF OldRun, Elems, After
  <2>3. gckind = "normal" => \A x \in Live' : ~old'[x]
    BY <1>1, <1>3, <1>4, <1>6, <1>12
  <2> QED
    BY <1>1, <1>3, <1>13, <1>14, <2>1, <2>2, <2>3 DEF IInv, OldInv, Over, Sweeping
<1> QED
  BY <1>20, <1>21, <1>22, <1>23, <1>24, <1>27, <1>28, <1>30, <1>31, <1>32 DEF IInv

LEMMA CloseUpvalsStep ==
  ASSUME IInv, NEW t \in Stack, NEW u \in Opened(t), CloseUpvals(t, u) PROVE IInv'
<1>1. /\ Running /\ type[t] = "thread" /\ t \in Live \ Dead /\ t \in Obj /\ t \in Node
      /\ u \in Live /\ u \in Node /\ open[u] = t /\ t # None
      /\ UNCHANGED <<finobj, tobefnz, grayagain, weak, allweak, ephemeron, profile, owed>>
      /\ UNCHANGED <<currentwhite, gcstate, gckind, sweepgc, sweepfin, sweepstr, pending, goal, kind0>>
  BY StackAlive, Numbers DEF IInv, CloseUpvals, Opened, Live, state
<1>2. /\ type[u] = "upval" /\ mark[u] # "black" /\ entries[u] = {} /\ cache[u] = None /\ mode[u] = "strong"
      /\ u # t /\ u # Main /\ u \in Obj /\ open[t] = None /\ (\A e \in entries[t] : e[1] = None)
      /\ \A x \in Node : open[x] # None => open[x] # u /\ open[x] \in Node
  BY <1>1, Numbers DEF IInv, KindInv, TypeInv
<1>3. /\ goal = "none" /\ ~Over /\ gcstate \notin {"enterfin", "enterall"}
      /\ gckind = "gen" => gcstate = "propagate" /\ ~Sweeping
      /\ KeepInvariant <=> gcstate = "propagate"
      /\ gckind = "normal" => \A o \in Live : ~old[o]
      /\ InStr = sweepstr /\ InStr' = sweepstr /\ pending = None
  BY <1>1, RunningFacts DEF InStr, Running
<1>4. u \notin Elems(allgc) /\ u \notin Elems(finobj) /\ u \notin Elems(tobefnz)
  BY <1>1, <1>2 DEF IInv, ListInv
<1>5. Elems(finobj)' = Elems(finobj) /\ Elems(tobefnz)' = Elems(tobefnz) /\ InFin' = InFin
      /\ Distinct(finobj)' = Distinct(finobj) /\ Distinct(tobefnz)' = Distinct(tobefnz)
  BY <1>1 DEF Elems, InFin, Rest, Distinct, After
<1>6. \A x \in sweepstr : x \in Node /\ x # u /\ type[x] = "string"
  BY <1>2, <1>3, Numbers DEF IInv, PointInv, TypeInv
<1>7. CASE u \in Dead
  <2>1. /\ type' = [o \in Node |-> IF o = u THEN "free" ELSE type[o]]
        /\ mode' = [o \in Node |-> IF o = u THEN "strong" ELSE mode[o]]
        /\ cache' = [o \in Node |-> IF o = u THEN None ELSE cache[o]]
        /\ finalized' = finalized \ {u}
        /\ mark' = [mark EXCEPT ![u] = "w0"] /\ old' = [old EXCEPT ![u] = FALSE]
        /\ open' = [open EXCEPT ![u] = None]
        /\ UNCHANGED <<entries, allgc, gray>>
    BY <1>7 DEF CloseUpvals, Freed
  <2>2. /\ \A x \in Node : x # u => type'[x] = type[x] /\ mode'[x] = mode[x] /\ cache'[x] = cache[x]
                             /\ mark'[x] = mark[x] /\ old'[x] = old[x] /\ open'[x] = open[x]
        /\ type'[u] = "free" /\ mode'[u] = "strong" /\ cache'[u] = None /\ open'[u] = None /\ old'[u] = FALSE
        /\ entries' = entries /\ mark'[u] = "w0"
    BY <1>1, <2>1 DEF IInv, TypeInv
  <2>3. Live' = Live \ {u} /\ Dead' = Dead \ {u} /\ White' = White \ {u} /\ Live' \ Dead' = Live \ Dead
    <3>1. Other' = Other
      BY <1>1 DEF Other
    <3> QED
      BY <1>7, <2>2, <3>1 DEF Live, Dead, White
  <2>4. TypeInv'
    <3>1. /\ type' \in [Node -> Types \cup {"free"}] /\ mark' \in [Node -> Whites \cup {"gray", "black"}]
          /\ old' \in [Node -> BOOLEAN] /\ mode' \in [Node -> {"strong", "weakv", "weakk", "weakkv"}]
          /\ cache' \in [Node -> Obj \cup {None}] /\ open' \in [Node -> Node \cup {None}]
      BY <2>1 DEF IInv, TypeInv, Whites
    <3>2. type'[Main] = "thread" /\ finalized' \subseteq Obj
      BY <1>2, <2>1, <2>2, Numbers DEF IInv, TypeInv
    <3> QED
      BY <1>1, <2>1, <3>1, <3>2 DEF IInv, TypeInv, Whites
  <2>5. KindInv'
    BY <1>1, <1>2, <1>3, <2>2 DEF IInv, KindInv
  <2>6. Elems(allgc)' = Elems(allgc) /\ Distinct(allgc)' = Distinct(allgc) /\ InAll' = InAll
    BY <1>1, <2>1 DEF Elems, InAll, Rest, After, Distinct
  <2>7. ListInv'
    <3>1. \A x \in Elems(finobj) \cup Elems(tobefnz) : x \in Node /\ x # u
      BY <1>4, Numbers, ListsIn DEF IInv
    <3>2. \A x \in Obj : x \in Elems(allgc) \cup Elems(finobj) \cup Elems(tobefnz)
                           <=> type'[x] \notin {"free", "string"} /\ open'[x] = None
      BY <1>4, <2>2, Numbers DEF IInv, ListInv
    <3> QED
      BY <1>5, <2>2, <2>6, <3>1, <3>2 DEF IInv, ListInv
  <2>8. FinInv' /\ PendingInv' /\ GoalInv'
    <3>1. FinInv'
      BY <1>1, <1>3, <1>4, <1>5, <2>1 DEF IInv, FinInv, Over
    <3> QED
      BY <1>1, <1>3, <3>1 DEF IInv, PendingInv, GoalInv, Over, Sweeping
  <2>9. PointInv'
    BY <1>1, <1>3, <1>5, <1>6, <2>2, <2>6 DEF IInv, PointInv, Over, Sweeping
  <2>10. \A x \in Live \ Dead : Leads(x)' = Leads(x)
    BY <1>7, <2>2 DEF Leads, Refs, Vals, Keys, Live
  <2>11. Sound' /\ Kept'
    BY <1>4, <1>5, <2>3, <2>10 DEF IInv, Sound, Kept
  <2>12. Listed' = Listed /\ Unswept \ {u} \subseteq Unswept'
    <3>1. Listed' = Listed
      BY <1>3, <1>5, <2>6 DEF Listed
    <3> QED
      BY <2>2, <2>3, <3>1 DEF Unswept, Live
  <2>13. SweptInv'
    <3>1. ASSUME NEW x \in Dead' PROVE ((Sweeping /\ x \in Unswept) \/ Stale(x))'
      <4>1. x \in Dead /\ x # u /\ x \in Node
        BY <2>3, <3>1 DEF Dead, Live
      <4>2. open'[x] = open[x] /\ (open[x] # None => old'[open[x]] = old[open[x]])
        BY <1>2, <2>2, <4>1
      <4> QED
        BY <1>1, <1>3, <2>12, <4>1, <4>2 DEF IInv, SweptInv, Stale, Sweeping
    <3>2. \A x \in Live' : x \in Live /\ x # u /\ mark'[x] = mark[x]
      BY <2>2, <2>3 DEF Live
    <3> QED
      BY <1>1, <1>3, <1>5, <2>12, <3>1, <3>2 DEF IInv, SweptInv, Sweeping
  <2>14. GrayInv'
    <3> SUFFICES ASSUME KeepInvariant PROVE GrayInv'
      BY <1>1 DEF GrayInv, KeepInvariant
    <3>1. gcstate = "propagate" /\ Grays' = Grays
      BY <1>1, <1>3, <2>1 DEF Grays
    <3>2. u \notin Grays /\ \A x \in Grays : x \in Node
      BY <1>2, <1>3, <3>1 DEF IInv, GrayInv, TypeInv, Grays
    <3>3. ASSUME NEW x \in Live' \ White', mark'[x] = "black" PROVE Leads(x)' \cap White' = {}
      <4>1. x \in Live \ White /\ mark[x] = "black" /\ x \notin Dead
        BY <2>2, <2>3, <3>3, Colors DEF Live, IInv
      <4> QED
        BY <1>3, <2>3, <2>10, <3>1, <4>1 DEF IInv, GrayInv
    <3>4. \A x \in Live' : mark'[x] = "gray" /\ open'[x] = None => x \in Grays
      BY <1>3, <2>2, <2>3, <3>1 DEF IInv, GrayInv, Live
    <3>5. /\ \A x \in Grays : mark'[x] = "gray" /\ type'[x] \in {"table", "closure", "proto", "thread"} /\ mode'[x] = mode[x]
          /\ mark'[Main] = "gray"
      BY <1>2, <1>3, <2>2, <3>1, <3>2, Numbers DEF IInv, GrayInv
    <3> QED
      <4>1. /\ weak' = weak /\ ephemeron' = ephemeron /\ allweak' = allweak /\ gray' = gray /\ grayagain' = grayagain
            /\ gcstate' = gcstate /\ weak \subseteq Grays /\ ephemeron \subseteq Grays /\ allweak \subseteq Grays
        BY <1>1, <2>1 DEF Grays
      <4>2. /\ \A x \in weak : mode'[x] = "weakv"
            /\ \A x \in ephemeron : mode'[x] = "weakk"
            /\ \A x \in allweak : mode'[x] \in {"weakk", "weakkv"}
        BY <1>3, <3>1, <3>5, <4>1 DEF IInv, GrayInv
      <4>3. /\ gray \cap (grayagain \cup weak \cup allweak \cup ephemeron) = {}
            /\ grayagain \cap (weak \cup allweak \cup ephemeron) = {}
            /\ weak \cap (allweak \cup ephemeron) = {} /\ allweak \cap ephemeron = {}
        BY <1>3, <3>1 DEF IInv, GrayInv
      <4> QED
        BY <3>1, <3>3, <3>4, <3>5, <4>1, <4>2, <4>3 DEF GrayInv
  <2>15. OldInv'
    <3>1. \A x \in Live' : old'[x] => x \in Live /\ old[x] /\ mark'[x] = mark[x]
      BY <2>2, <2>3 DEF Live
    <3>2. \A x \in Obj : old'[x] => old[x]
      BY <2>2, Numbers
    <3>3. \A x \in Elems(allgc) \cup Elems(finobj) \cup Elems(tobefnz) : old'[x] = old[x]
      BY <1>4, <2>2, Numbers, ListsIn DEF IInv
    <3>4. OldRun(allgc, {}) => OldRun(allgc, {})'
      <4>1. allgc' = allgc /\ \A x : After(allgc, x) \subseteq Elems(allgc)
        BY <2>1, AfterIn
      <4> QED
        BY <3>3, <4>1 DEF OldRun
    <3>5. OldRun(finobj, {}) => OldRun(finobj, {})'
      <4>1. finobj' = finobj /\ \A x : After(finobj, x) \subseteq Elems(finobj)
        BY <1>1, AfterIn
      <4> QED
        BY <3>3, <4>1 DEF OldRun
    <3> QED
      BY <1>1, <1>3, <1>5, <3>1, <3>3, <3>4, <3>5 DEF IInv, OldInv, Over, Sweeping
  <2> QED
    BY <2>4, <2>5, <2>7, <2>8, <2>9, <2>11, <2>13, <2>14, <2>15 DEF IInv
<1>8. CASE u \notin Dead
  <2> DEFINE T == Touched(Vals(t))
  <2>1. /\ allgc' = <<u>> \o allgc
        /\ open' = [open EXCEPT ![u] = None]
        /\ entries' = [entries EXCEPT ![u] = entries[t]]
        /\ UNCHANGED <<type, mode, cache, finalized>>
        /\ \/ mark[u] # "gray" /\ UNCHANGED <<mark, old, gray>>
           \/ /\ mark[u] = "gray" /\ KeepInvariant
              /\ mark' = [Marked(T) EXCEPT ![u] = "black"]
              /\ old' = [old EXCEPT ![u] = FALSE] /\ gray' = gray \cup Queued(T)
           \/ /\ mark[u] = "gray" /\ ~KeepInvariant /\ mark' = [mark EXCEPT ![u] = currentwhite]
              /\ old' = [old EXCEPT ![u] = FALSE] /\ gray' = gray
    <3>1. Closed(u) /\ UNCHANGED <<type, mode, cache, finalized>>
      BY <1>8 DEF CloseUpvals
    <3>2. mark[u] # "gray" => UNCHANGED <<mark, old, gray>>
      BY <3>1 DEF Closed
    <3>3. mark[u] = "gray" /\ KeepInvariant =>
              /\ mark' = [Marked(T) EXCEPT ![u] = "black"]
              /\ old' = [old EXCEPT ![u] = FALSE] /\ gray' = gray \cup Queued(T)
      BY <1>1, <3>1 DEF Closed
    <3>4. mark[u] = "gray" /\ ~KeepInvariant =>
              /\ mark' = [mark EXCEPT ![u] = currentwhite]
              /\ old' = [old EXCEPT ![u] = FALSE] /\ gray' = gray
      BY <3>1 DEF Closed
    <3>5. /\ allgc' = <<u>> \o allgc
          /\ open' = [open EXCEPT ![u] = None]
          /\ entries' = [entries EXCEPT ![u] = entries[t]]
      BY <1>1, <3>1 DEF Closed
    <3> QED
      BY <3>1, <3>2, <3>3, <3>4, <3>5
  <2>2. /\ T \subseteq White /\ T \cap Dead = {} /\ Vals(t) \in SUBSET Node
        /\ Vals(t) \subseteq Live \ Dead /\ (u \notin T \/ mark[u] # "gray")
    <3>1. Vals(t) \subseteq Live \ Dead /\ Vals(t) \subseteq Obj
      BY <1>1, RefsAlive DEF IInv
    <3>2. T \subseteq White /\ T \cap Dead = {}
      BY <3>1, TouchedIs, Numbers DEF IInv
    <3>3. u \in T => mark[u] # "gray"
      BY <3>2, Colors DEF IInv, White
    <3> QED
      BY <3>1, <3>2, <3>3, Numbers
  <2> HIDE DEF T
  <2>3. /\ \A x \in Node : x # u => open'[x] = open[x] /\ entries'[x] = entries[x]
        /\ open'[u] = None /\ entries'[u] = entries[t] /\ ColorOf(u) \in {"gray", "black"}
        /\ type' = type /\ cache' = cache
    BY <1>1, <2>1 DEF IInv, TypeInv, ColorOf
  <2>4. \A x \in Node : mark'[x] = IF x = u
           THEN IF mark[u] # "gray" THEN mark[u] ELSE IF KeepInvariant THEN "black" ELSE currentwhite
           ELSE IF mark[u] = "gray" /\ KeepInvariant /\ x \in T THEN ColorOf(x) ELSE mark[x]
    BY <1>1, <2>1 DEF Marked, IInv, TypeInv
  <2>5. \A x \in Node : old'[x] = IF x = u /\ mark[u] = "gray" THEN FALSE ELSE old[x]
    BY <1>1, <2>1 DEF IInv, TypeInv
  <2>6. ~old'[u]
    <3>1. mark[u] # "gray" => u \in White
      BY <1>1, <1>2 DEF White, IInv, TypeInv, Whites
    <3>2. u \in White => ~old[u]
      BY <1>1, <1>3 DEF White, IInv, OldInv
    <3> QED
      BY <1>1, <2>5, <3>1, <3>2 DEF IInv, TypeInv
  <2>7. /\ \A x \in Node : ColorOf(x) \in {"gray", "black"}
        /\ \A x \in Node : ColorOf(x) = "black" => type[x] # "thread" /\ open[x] = None
    BY DEF ColorOf, IInv, KindInv
  <2>8. Live' = Live /\ Dead' = Dead /\ White' \subseteq White \cup (IF KeepInvariant THEN {} ELSE {u})
        /\ Other' = Other
    <3>1. Live' = Live /\ Other' = Other
      BY <1>1, <2>3 DEF Live, Other
    <3>2. ASSUME NEW x \in Live PROVE mark'[x] = Other <=> mark[x] = Other
      <4>1. x \in Node /\ Other \notin {"gray", "black"} /\ Other # currentwhite
        BY <3>2, Colors DEF Live, IInv, Whites
      <4>2. x \in T => mark[x] # Other
        BY <2>2, <3>2 DEF Dead
      <4> QED
        BY <2>4, <2>7, <4>1, <4>2
    <3>3. ASSUME NEW x \in Live, mark'[x] \in Whites PROVE mark[x] \in Whites \/ (x = u /\ ~KeepInvariant)
      <4>1. x \in Node
        BY DEF Live
      <4> QED
        BY <2>4, <2>7, <3>3, <4>1, Colors DEF IInv
    <3> QED
      BY <3>1, <3>2, <3>3 DEF Dead, White
  <2>9. /\ allgc' \in Seq(Obj) /\ Distinct(allgc') /\ InAll' = InAll
        /\ Elems(allgc') = {u} \cup Elems(allgc)
        /\ OldRun(allgc, {}) => OldRun(allgc, {})'
    <3>1. \A x \in Obj : x # u => old'[x] = old[x]
      BY <2>5, Numbers
    <3> QED
      BY <1>1, <1>2, <1>3, <1>4, <2>1, <2>6, <3>1, Prepended
  <2>10. TypeInv'
    <3>1. mark' \in [Node -> Whites \cup {"gray", "black"}]
      <4>1. CASE mark[u] = "gray" /\ KeepInvariant
        <5>1. Marked(T) \in [Node -> Whites \cup {"gray", "black"}]
          BY <2>7 DEF Marked, IInv, TypeInv
        <5> QED
          BY <2>1, <4>1, <5>1
      <4> QED
        BY <2>1, <4>1 DEF IInv, TypeInv
    <3>2. /\ old' \in [Node -> BOOLEAN] /\ open' \in [Node -> Node \cup {None}]
          /\ entries' \in [Node -> SUBSET ((Obj \cup {None}) \X (Obj \cup {None}))]
      BY <1>1, <2>1 DEF IInv, TypeInv
    <3>3. gray' \subseteq Node
      BY <2>1, <2>2 DEF IInv, TypeInv, Queued, White, Live
    <3> QED
      BY <1>1, <2>1, <2>9, <3>1, <3>2, <3>3 DEF IInv, TypeInv
  <2>11. KindInv'
    <3>1. \A x \in Node : mark'[x] = "black" => mark[x] = "black" \/ x = u \/ (type[x] # "thread" /\ open[x] = None)
      BY <2>4, <2>7
    <3>2. \A x \in Node : x = u \/ (open'[x] = open[x] /\ entries'[x] = entries[x] /\ old'[x] = old[x])
      BY <2>3, <2>5
    <3>3. type' = type /\ mode' = mode /\ cache' = cache /\ goal' = goal
      BY <1>1, <2>1
    <3> QED
      BY <1>1, <1>2, <1>3, <2>3, <3>1, <3>2, <3>3 DEF IInv, KindInv
  <2>12. ListInv'
    <3>1. ASSUME NEW x \in Obj
          PROVE (x \in Elems(allgc) \cup Elems(finobj) \cup Elems(tobefnz))'
                           <=> type'[x] \notin {"free", "string"} /\ open'[x] = None
      <4>1. CASE x = u
        BY <1>2, <2>3, <2>9, <4>1
      <4>2. CASE x # u
        <5>1. open'[x] = open[x] /\ type'[x] = type[x]
          BY <2>3, <4>2, Numbers
        <5> QED
          BY <1>5, <2>9, <4>2, <5>1 DEF IInv, ListInv
      <4> QED
        BY <4>1, <4>2
    <3>2. /\ Elems(allgc)' \cap Elems(finobj)' = {} /\ Elems(allgc)' \cap Elems(tobefnz)' = {}
          /\ Elems(finobj)' \cap Elems(tobefnz)' = {} /\ Distinct(finobj)' /\ Distinct(tobefnz)'
      BY <1>4, <1>5, <2>9 DEF IInv, ListInv
    <3> QED
      BY <1>5, <2>1, <2>9, <3>1, <3>2 DEF IInv, ListInv
  <2>13. FinInv' /\ PendingInv' /\ GoalInv' /\ PointInv'
    <3>1. FinInv'
      BY <1>1, <1>3, <1>5, <2>1 DEF IInv, FinInv, Over
    <3>2. PointInv'
      BY <1>1, <1>3, <1>5, <1>6, <2>1, <2>9 DEF IInv, PointInv, Over, Sweeping
    <3> QED
      BY <1>1, <1>3, <3>1, <3>2 DEF IInv, PendingInv, GoalInv, Over, Sweeping
  <2>14. Leads(u)' = Vals(t) /\ Leads(u) = Vals(t) /\ \A x \in Live : x # u => Leads(x)' = Leads(x)
    <3>1. Vals(u)' = Vals(t) /\ Keys(u)' = {}
      BY <1>2, <2>3 DEF Vals, Keys
    <3>2. Leads(u)' = Vals(t) /\ Leads(u) = Vals(t)
      BY <1>1, <1>2, <2>3, <3>1 DEF Leads, Refs
    <3>3. ASSUME NEW x \in Live, x # u PROVE Leads(x)' = Leads(x)
      <4>1. x \in Node /\ (open[x] # None => open[x] \in Node /\ open[x] # u)
        BY <1>2 DEF Live
      <4> QED
        BY <2>3, <3>3, <4>1 DEF Leads, Refs, Vals, Keys
    <3> QED
      BY <3>2, <3>3
  <2>15. Sound' /\ Kept'
    <3>1. \A x \in Live : Leads(x)' = Leads(x)
      BY <2>14
    <3> QED
      BY <1>5, <2>8, <3>1 DEF IInv, Sound, Kept
  <2>16. Listed' = Listed /\ Unswept \ {u} \subseteq Unswept'
    <3>1. Listed' = Listed
      BY <1>3, <1>5, <2>9 DEF Listed
    <3> QED
      BY <2>3, <2>8, <3>1 DEF Unswept, Live
  <2>17. SweptInv'
    <3>1. ASSUME NEW x \in Dead' PROVE ((Sweeping /\ x \in Unswept) \/ Stale(x))'
      <4>1. x \in Dead /\ x # u /\ x \in Node
        BY <1>8, <2>8, <3>1 DEF Dead, Live
      <4>2. open'[x] = open[x] /\ (open[x] # None => old'[open[x]] = old[open[x]])
        BY <1>2, <2>3, <2>5, <4>1
      <4> QED
        BY <1>1, <1>3, <2>16, <4>1, <4>2 DEF IInv, SweptInv, Stale, Sweeping
    <3>2. ASSUME gckind = "normal", gcstate # "propagate", NEW x \in Live \ Elems(tobefnz)
          PROVE  mark'[x] = currentwhite \/ (Sweeping /\ x \in Unswept')
      <4>1. x \in Node /\ ~KeepInvariant /\ (mark[x] = currentwhite \/ (Sweeping /\ x \in Unswept))
        BY <1>3, <3>2 DEF IInv, SweptInv, Live
      <4>2. CASE x = u
        <5>1. mark[u] # "gray" => mark[u] = currentwhite
          <6>1. mark[u] # "gray" => u \in White
            BY <1>1, <1>2 DEF White, IInv, TypeInv, Whites
          <6> QED
            BY <1>8, <6>1, Colors DEF IInv
        <5> QED
          BY <2>4, <4>1, <4>2, <5>1
      <4>3. CASE x # u
        BY <2>4, <2>16, <4>1, <4>3
      <4> QED
        BY <4>2, <4>3
    <3> QED
      BY <1>1, <1>3, <1>5, <2>8, <3>1, <3>2 DEF SweptInv, Sweeping
  <2>18. GrayInv'
    <3> SUFFICES ASSUME KeepInvariant PROVE GrayInv'
      BY <1>1 DEF GrayInv, KeepInvariant
    <3>1. gcstate = "propagate" /\ goal = "none"
      BY <1>3
    <3>2. u \notin Grays
      BY <1>2, <1>3, <3>1 DEF IInv, GrayInv
    <3>3. CASE mark[u] = "gray"
      <4>1. /\ mark' = [Marked(Touched(Vals(t))) EXCEPT ![u] = "black"]
            /\ gray' = gray \cup Queued(Touched(Vals(t)))
        BY <2>1, <3>3 DEF T
      <4>2. u \in Live \ White
        BY <1>1, <3>3, Colors DEF White, IInv
      <4>3. Leads(u)' \cap White \subseteq Vals(t)
        BY <2>14
      <4> QED
        BY <1>1, <2>1, <2>2, <2>3, <3>1, <3>2, <4>1, <4>2, <4>3, MarkGray
    <3>4. CASE mark[u] # "gray"
      <4>1. mark' = mark /\ gray' = gray /\ old' = old
        BY <2>1, <3>4
      <4>2. White' = White /\ Grays' = Grays
        BY <1>1, <2>8, <4>1 DEF White, Grays
      <4>3. \A x \in Live : mark[x] = "black" => x # u
        BY <1>2
      <4>4. \A x \in Live \ White : mark[x] = "black" => Leads(x)' \cap White = {}
        BY <2>14, <3>1, <4>3 DEF IInv, GrayInv
      <4>5. \A x \in Live : mark[x] = "gray" /\ open'[x] = None => x \in Grays
        BY <2>3, <3>1, <3>4 DEF IInv, GrayInv, Live
      <4> QED
        BY <1>1, <2>1, <2>8, <3>1, <4>1, <4>2, <4>4, <4>5 DEF IInv, GrayInv
    <3> QED
      BY <3>3, <3>4
  <2>19. OldInv'
    <3>1. ASSUME NEW x \in Live, old'[x] PROVE old[x] /\ mark'[x] \notin Whites
      <4>1. x # u /\ x \in Node /\ old[x]
        BY <2>5, <2>6, <3>1 DEF Live
      <4>2. mark[x] \notin Whites /\ mark'[x] \in Whites => mark[x] \in Whites
        BY <1>3, <2>4, <2>7, <4>1, Colors DEF IInv, OldInv, Live
      <4> QED
        BY <1>3, <3>1, <4>1, <4>2 DEF IInv, OldInv
    <3>2. OldRun(finobj, {}) => OldRun(finobj, {})'
      <4>1. finobj' = finobj /\ \A x : After(finobj, x) \subseteq Elems(finobj)
        BY <1>1, AfterIn
      <4>2. \A x \in Elems(finobj) : old'[x] = old[x]
        BY <1>4, <2>5, ListsIn, Numbers DEF IInv
      <4> QED
        BY <4>1, <4>2 DEF OldRun
    <3>3. \A x \in Elems(tobefnz) : old'[x] = old[x]
      BY <1>4, <2>5, ListsIn, Numbers DEF IInv
    <3> QED
      BY <1>1, <1>3, <1>5, <2>8, <2>9, <3>1, <3>2, <3>3 DEF IInv, OldInv, Over, Sweeping
  <2> QED
    BY <2>10, <2>11, <2>12, <2>13, <2>15, <2>17, <2>18, <2>19 DEF IInv
<1> QED
  BY <1>7, <1>8

-----------------------------------------------------------------------------
(* Finalizers.                                                             *)

LEMMA SetFinalizerStep == ASSUME IInv, NEW o \in Stack, SetFinalizer(o) PROVE IInv'
<1>1. /\ Running /\ pending' = o /\ o \in Elems(allgc) /\ o \notin finalized /\ o \in Live /\ o \notin Dead /\ o \in Obj
      /\ type[o] \in {"udata", "table"} /\ mode[o] = "strong"
      /\ UNCHANGED <<type, mark, old, mode, entries, cache, open, allgc, finobj, tobefnz>>
      /\ UNCHANGED <<gray, grayagain, weak, allweak, ephemeron, profile, finalized, owed>>
      /\ UNCHANGED <<currentwhite, gcstate, gckind, sweepgc, sweepfin, sweepstr, goal, kind0>>
  BY StackAlive DEF SetFinalizer, IInv, KindInv, Live, object, lists, grays, duty
<1>2. goal = "none" /\ gcstate \notin {"enterfin", "enterall"} /\ ~Over
  BY <1>1, RunningFacts DEF Running
<1>3. Live' = Live /\ Dead' = Dead /\ White' = White /\ Grays' = Grays
  BY <1>1 DEF Live, Dead, White, Grays, Other
<1>4. TypeInv' /\ KindInv'
  BY <1>1 DEF IInv, TypeInv, KindInv
<1>5. /\ Elems(allgc)' = Elems(allgc) /\ Elems(finobj)' = Elems(finobj) /\ Elems(tobefnz)' = Elems(tobefnz)
      /\ Distinct(allgc)' = Distinct(allgc) /\ Distinct(finobj)' = Distinct(finobj) /\ Distinct(tobefnz)' = Distinct(tobefnz)
      /\ InAll' = InAll /\ InFin' = InFin /\ InStr' = InStr /\ Unswept' = Unswept
      /\ OldRun(allgc, {})' = OldRun(allgc, {}) /\ OldRun(finobj, {})' = OldRun(finobj, {})
  BY <1>1, <1>3 DEF Elems, Distinct, InAll, InFin, InStr, Unswept, Listed, Rest, After, OldRun
<1>6. ListInv' /\ FinInv'
  BY <1>1, <1>3, <1>5 DEF IInv, ListInv, FinInv, Over
<1>7. PendingInv' /\ GoalInv' /\ PointInv'
  BY <1>1, <1>2, <1>3, <1>5 DEF IInv, GoalInv, PendingInv, PointInv, Over, Sweeping
<1>8. \A x : Leads(x)' = Leads(x) /\ Stale(x)' = Stale(x)
  BY <1>1 DEF Leads, Refs, Vals, Keys, Stale
<1>9. Sound' /\ Kept' /\ SweptInv'
  BY <1>1, <1>3, <1>5, <1>8 DEF IInv, Sound, Kept, SweptInv, Over, Sweeping
<1>10. GrayInv'
  BY <1>1, <1>3, <1>8 DEF IInv, GrayInv, KeepInvariant
<1>11. OldInv'
  <2>1. gckind = "gen" => ~Sweeping
    BY <1>1, RunningFacts
  <2> QED
    BY <1>1, <1>2, <1>3, <1>5, <2>1 DEF IInv, OldInv, Over, Sweeping
<1> QED
  BY <1>4, <1>6, <1>7, <1>9, <1>10, <1>11 DEF IInv

LEMMA FinalizableStep == ASSUME IInv, NEW o \in Obj, Finalizable(o) PROVE IInv'
<1>1. /\ pending = o /\ sweepgc # o /\ allgc' = Without(allgc, {o}) /\ finobj' = <<o>> \o finobj
      /\ mark' = IF gcstate = "propagate" THEN mark ELSE [mark EXCEPT ![o] = currentwhite]
      /\ old' = [old EXCEPT ![o] = FALSE] /\ owed' = owed \cup {o} /\ pending' = None
      /\ UNCHANGED <<type, mode, entries, cache, open, tobefnz, profile, finalized>>
      /\ UNCHANGED <<gray, grayagain, weak, allweak, ephemeron>>
      /\ UNCHANGED <<currentwhite, gcstate, gckind, sweepgc, sweepfin, sweepstr, goal, kind0>>
  BY DEF Finalizable, grays
<1>2. /\ goal = "none" /\ ~Over /\ gcstate \notin {"enterfin", "enterall"}
      /\ gckind = "gen" => gcstate = "propagate" /\ ~Sweeping
      /\ KeepInvariant <=> gcstate = "propagate"
      /\ gckind = "normal" => \A x \in Live : ~old[x]
      /\ InStr = sweepstr /\ InStr' = sweepstr
      /\ sweepgc \in Elems(allgc) \cup {None} /\ sweepfin \in Elems(finobj) \cup {None}
  BY <1>1, RunningFacts, Numbers DEF InStr
<1>3. /\ o \in Elems(allgc) /\ o \notin finalized /\ o \notin Dead /\ type[o] \in {"udata", "table"} /\ mode[o] = "strong"
      /\ o \in Node /\ o # Main /\ o \in Live
      /\ o \notin Elems(finobj) /\ o \notin Elems(tobefnz)
  BY <1>1, Numbers DEF IInv, PendingInv, ListInv, Live
<1>4. /\ allgc' \in Seq(Obj) /\ Distinct(allgc') /\ Elems(allgc') = Elems(allgc) \ {o}
      /\ \A p \in Elems(allgc) \ {o} : After(allgc', p) = After(allgc, p) \ {o}
  <2>1. allgc \in Seq(Obj) /\ Distinct(allgc)
    BY DEF IInv, TypeInv, ListInv
  <2> QED
    BY <1>1, <2>1, ListWithout
<1>5. /\ finobj' \in Seq(Obj) /\ Distinct(finobj') /\ Elems(finobj') = {o} \cup Elems(finobj)
      /\ \A p \in Elems(finobj) : After(finobj', p) = After(finobj, p)
  <2>1. finobj \in Seq(Obj) /\ Distinct(finobj) /\ o \notin Elems(finobj)
    BY <1>3 DEF IInv, TypeInv, ListInv
  <2>2. /\ <<o>> \o finobj \in Seq(Obj) /\ Distinct(<<o>> \o finobj)
        /\ Elems(<<o>> \o finobj) = {o} \cup Elems(finobj)
        /\ \A p \in Elems(finobj) : After(<<o>> \o finobj, p) = After(finobj, p)
    BY <2>1, ListFront
  <2>3. finobj' = <<o>> \o finobj
    BY <1>1
  <2> QED
    BY <2>2, <2>3
<1>6. InAll' = InAll \ {o} /\ InFin' = InFin
  <2>1. sweepgc # Start /\ sweepfin # Start
    BY <1>2, ListsIn, Numbers DEF IInv
  <2>2. InAll' = InAll \ {o}
    BY <1>1, <1>2, <1>4, <2>1 DEF InAll, Rest
  <2>3. InFin' = InFin
    BY <1>1, <1>2, <1>5, <2>1 DEF InFin, Rest
  <2> QED
    BY <2>2, <2>3
<1>7. /\ \A x \in Node : mark'[x] = IF x = o /\ gcstate # "propagate" THEN currentwhite ELSE mark[x]
      /\ \A x \in Node : old'[x] = IF x = o THEN FALSE ELSE old[x]
  BY <1>1, <1>3 DEF IInv, TypeInv
<1>8. Live' = Live /\ Dead' = Dead /\ Other' = Other
  <2>1. Live' = Live /\ Other' = Other /\ Other # currentwhite
    BY <1>1, Colors DEF Live, Other, IInv
  <2>2. mark[o] # Other
    BY <1>3 DEF Dead
  <2> QED
    BY <1>7, <2>1, <2>2 DEF Dead, Live
<1>9. TypeInv' /\ KindInv'
  <2>1. TypeInv'
    BY <1>1, <1>4, <1>5, Numbers DEF IInv, TypeInv, Whites
  <2>2. \A x \in Node : mark'[x] = mark[x] \/ (x = o /\ mark'[x] # "black")
    BY <1>7, Colors DEF IInv, TypeInv
  <2>3. KindInv'
    BY <1>1, <1>7, <2>2 DEF IInv, KindInv
  <2> QED
    BY <2>1, <2>3
<1>10. ListInv'
  <2>1. Elems(tobefnz)' = Elems(tobefnz) /\ Distinct(tobefnz)'
    BY <1>1 DEF Elems, Distinct, IInv, ListInv
  <2>2. \A x \in Obj : (x \in Elems(allgc) \cup Elems(finobj) \cup Elems(tobefnz))'
                         <=> x \in Elems(allgc) \cup Elems(finobj) \cup Elems(tobefnz)
    BY <1>3, <1>4, <1>5, <2>1
  <2>3. /\ Elems(allgc)' \cap Elems(finobj)' = {} /\ Elems(allgc)' \cap Elems(tobefnz)' = {}
        /\ Elems(finobj)' \cap Elems(tobefnz)' = {}
    BY <1>3, <1>4, <1>5, <2>1 DEF IInv, ListInv
  <2>4. \A x \in Elems(finobj)' \cup Elems(tobefnz)' : type'[x] \in {"udata", "table"} /\ mode'[x] = "strong"
    BY <1>1, <1>3, <1>5, <2>1 DEF IInv, ListInv
  <2> QED
    BY <1>1, <1>4, <1>5, <2>1, <2>2, <2>3, <2>4 DEF IInv, ListInv
<1>11. FinInv' /\ PendingInv' /\ GoalInv'
  <2>1. Elems(tobefnz)' = Elems(tobefnz)
    BY <1>1 DEF Elems
  <2>2. FinInv'
    BY <1>1, <1>2, <1>3, <1>5, <2>1 DEF IInv, FinInv, Over
  <2> QED
    BY <1>1, <1>2, <2>2 DEF IInv, PendingInv, GoalInv, Over, Sweeping
<1>12. PointInv'
  BY <1>1, <1>2, <1>4, <1>5 DEF IInv, PointInv, Over, Sweeping
<1>13. \A x : Leads(x)' = Leads(x)
  BY <1>1 DEF Leads, Refs, Vals, Keys
<1>14. Sound' /\ Kept'
  <2>1. Elems(tobefnz)' = Elems(tobefnz)
    BY <1>1 DEF Elems
  <2> QED
    BY <1>3, <1>5, <1>8, <1>13, <2>1 DEF IInv, Sound, Kept
<1>15. Listed' = Listed \/ Listed' = Listed \ {o}
  BY <1>2, <1>3, <1>6 DEF Listed
<1>16. Unswept \ {o} \subseteq Unswept'
  <2>1. \A x \in Live : open[x] # o
    BY <1>3, Numbers DEF IInv, KindInv, Live
  <2> QED
    BY <1>1, <1>8, <1>15, <2>1 DEF Unswept
<1>17. SweptInv'
  <2>1. ASSUME NEW x \in Dead PROVE ((Sweeping /\ x \in Unswept) \/ Stale(x))'
    <3>1. x # o /\ x \in Node
      BY <1>3, <2>1 DEF Dead, Live
    <3>2. open[x] # None => old'[open[x]] = old[open[x]]
      <4>1. open[x] # None => open[x] \in Node /\ open[x] # o
        BY <1>3, <3>1, Numbers DEF IInv, KindInv
      <4> QED
        BY <1>7, <4>1
    <3> QED
      BY <1>1, <1>2, <1>16, <2>1, <3>1, <3>2 DEF IInv, SweptInv, Stale, Sweeping
  <2>2. ASSUME gckind = "normal", gcstate # "propagate", NEW x \in Live \ Elems(tobefnz)
        PROVE  mark'[x] = currentwhite \/ (Sweeping /\ x \in Unswept')
    <3>1. x \in Node
      BY DEF Live
    <3> QED
      BY <1>2, <1>7, <1>16, <2>2, <3>1 DEF IInv, SweptInv
  <2>3. Elems(tobefnz)' = Elems(tobefnz)
    BY <1>1 DEF Elems
  <2> QED
    BY <1>1, <1>2, <1>8, <2>1, <2>2, <2>3 DEF SweptInv, Sweeping
<1>18. GrayInv'
  <2> SUFFICES ASSUME KeepInvariant PROVE GrayInv'
    BY <1>1 DEF GrayInv, KeepInvariant
  <2>1. mark' = mark /\ White' = White /\ Grays' = Grays
    BY <1>1, <1>2 DEF White, Live, Grays
  <2> QED
    BY <1>1, <1>8, <1>13, <2>1 DEF IInv, GrayInv, KeepInvariant
<1>19. OldInv'
  <2>1. Elems(tobefnz)' = Elems(tobefnz)
    BY <1>1 DEF Elems
  <2>2. ASSUME OldRun(allgc, {}) PROVE OldRun(allgc, {})'
    <3> SUFFICES ASSUME NEW x \in Elems(allgc'), NEW y \in After(allgc', x), old'[x] PROVE old'[y]
      BY DEF OldRun
    <3>1. x \in Elems(allgc) /\ x # o /\ y \in After(allgc, x) /\ y # o
      BY <1>4
    <3>2. x \in Node /\ y \in Node
      BY <3>1, AfterIn, ListsIn, Numbers DEF IInv
    <3> QED
      BY <1>7, <2>2, <3>1, <3>2 DEF OldRun
  <2>3. ASSUME OldRun(finobj, {}) PROVE OldRun(finobj, {})'
    <3> SUFFICES ASSUME NEW x \in Elems(finobj'), NEW y \in After(finobj', x), old'[x] PROVE old'[y]
      BY DEF OldRun
    <3>1. x \in Elems(finobj) /\ y \in After(finobj, x)
      BY <1>3, <1>5, <1>7
    <3>2. x \in Node /\ y \in Node /\ y # o
      BY <1>3, <3>1, AfterIn, ListsIn, Numbers DEF IInv
    <3> QED
      BY <1>7, <2>3, <3>1, <3>2 DEF OldRun
  <2>4. ASSUME NEW x \in Live, old'[x] PROVE old[x] /\ mark'[x] = mark[x]
    <3>1. x \in Node
      BY DEF Live
    <3> QED
      BY <1>7, <2>4, <3>1
  <2>5. \A x \in Elems(tobefnz) : ~old'[x]
    BY <1>2, <1>7, ListsIn, Numbers DEF IInv, OldInv
  <2> QED
    BY <1>1, <1>2, <1>8, <2>1, <2>2, <2>3, <2>4, <2>5 DEF IInv, OldInv, Over, Sweeping
<1> QED
  BY <1>9, <1>10, <1>11, <1>12, <1>14, <1>17, <1>18, <1>19 DEF IInv

LEMMA CallFinalizerStep == ASSUME IInv, CallFinalizer PROVE IInv'
<1> DEFINE o == tobefnz[1]
<1>1. /\ goal \in {"none", "close"} /\ tobefnz # <<>> /\ pending = None /\ gcstate \notin {"enterfin", "enterall"}
      /\ tobefnz' = Tail(tobefnz) /\ allgc' = <<o>> \o allgc
      /\ mark' = IF gcstate = "propagate" THEN mark ELSE [mark EXCEPT ![o] = currentwhite]
      /\ old' = IF gcstate = "propagate" THEN old ELSE [old EXCEPT ![o] = FALSE]
      /\ entries' = IF goal = "close" THEN entries ELSE [entries EXCEPT ![Main] = entries[Main] \cup {<<None, o>>}]
      /\ owed' = owed \ {o}
      /\ UNCHANGED <<type, mode, cache, open, finobj, profile, finalized>>
      /\ UNCHANGED <<gray, grayagain, weak, allweak, ephemeron>>
      /\ UNCHANGED <<currentwhite, gcstate, gckind, sweepgc, sweepfin, sweepstr, pending, goal, kind0>>
  BY DEF CallFinalizer, Running, Pushed, grays, state, IInv, GoalInv, Over
<1>2. /\ tobefnz' \in Seq(Obj) /\ Distinct(tobefnz') /\ o \in Elems(tobefnz)
      /\ Elems(tobefnz') = Elems(tobefnz) \ {o}
  <2>1. tobefnz \in Seq(Obj) /\ Distinct(tobefnz)
    BY DEF IInv, TypeInv, ListInv
  <2> QED
    BY <1>1, <2>1, ListTail
<1> HIDE DEF o
<1>3. /\ o \in Obj /\ o \in Node /\ o # Main /\ o \in Live \ Dead /\ type[o] \in {"udata", "table"} /\ mode[o] = "strong"
      /\ o \notin Elems(allgc) /\ o \notin Elems(finobj)
  BY <1>2, ListsIn, Numbers DEF IInv, ListInv, Kept, Live
<1>4. KeepInvariant <=> gcstate = "propagate"
  BY <1>1 DEF KeepInvariant, IInv, GoalInv
<1>5. /\ \A x \in Node : mark'[x] = IF x = o /\ gcstate # "propagate" THEN currentwhite ELSE mark[x]
      /\ \A x \in Node : old'[x] = IF x = o /\ gcstate # "propagate" THEN FALSE ELSE old[x]
      /\ \A x \in Node : entries'[x] = IF x = Main /\ goal = "none" THEN entries[Main] \cup {<<None, o>>} ELSE entries[x]
  BY <1>1, <1>3, Numbers DEF IInv, TypeInv
<1>6. Live' = Live /\ Dead' = Dead /\ Other' = Other
  <2>1. Live' = Live /\ Other' = Other /\ Other # currentwhite
    BY <1>1, Colors DEF Live, Other, IInv
  <2>2. mark[o] # Other
    BY <1>3 DEF Dead
  <2> QED
    BY <1>5, <2>1, <2>2 DEF Dead, Live
<1>7. Elems(finobj)' = Elems(finobj) /\ Distinct(finobj)' = Distinct(finobj) /\ InFin' = InFin /\ InStr' = InStr
  BY <1>1, <1>6 DEF Elems, Distinct, InFin, Rest, After, InStr
<1>8. ~Over => ~old[o] /\ ~old'[o]
  BY <1>2, <1>3, <1>5 DEF IInv, OldInv
<1>9. /\ allgc' \in Seq(Obj) /\ Distinct(allgc') /\ Elems(allgc') = {o} \cup Elems(allgc)
      /\ ~Over => InAll' = InAll
      /\ ~Over /\ OldRun(allgc, {}) => OldRun(allgc, {})'
  <2>1. \A x \in Obj : x # o => old'[x] = old[x]
    BY <1>5, Numbers
  <2> QED
    BY <1>1, <1>3, <1>8, <2>1, Prepended
<1>10. TypeInv' /\ KindInv'
  <2>1. entries' \in [Node -> SUBSET ((Obj \cup {None}) \X (Obj \cup {None}))]
    BY <1>1, <1>3, Numbers DEF IInv, TypeInv
  <2>2. TypeInv'
    BY <1>1, <1>2, <1>9, <2>1 DEF IInv, TypeInv, Whites
  <2>3. \A x \in Node : mark'[x] = mark[x] \/ (x = o /\ mark'[x] # "black")
    BY <1>5, Colors DEF IInv, TypeInv
  <2>4. \A x \in Node : old'[x] => old[x]
    BY <1>5
  <2>5. \A x \in Node : entries'[x] = entries[x] \/ (x = Main /\ \A e \in entries'[x] : e[1] = None)
    BY <1>5, StackAlive DEF IInv
  <2>6. type[Main] = "thread" /\ open[Main] = None
    BY StackAlive DEF IInv, TypeInv
  <2>7. KindInv'
    BY <1>1, <1>3, <2>3, <2>4, <2>5, <2>6 DEF IInv, KindInv
  <2> QED
    BY <2>2, <2>7
<1>11. ListInv'
  <2>2. \A x \in Obj : (x \in Elems(allgc) \cup Elems(finobj) \cup Elems(tobefnz))'
                         <=> x \in Elems(allgc) \cup Elems(finobj) \cup Elems(tobefnz)
    BY <1>2, <1>7, <1>9
  <2>3. /\ Elems(allgc)' \cap Elems(finobj)' = {} /\ Elems(allgc)' \cap Elems(tobefnz)' = {}
        /\ Elems(finobj)' \cap Elems(tobefnz)' = {}
    BY <1>2, <1>3, <1>7, <1>9 DEF IInv, ListInv
  <2>4. \A x \in Elems(finobj)' \cup Elems(tobefnz)' : type'[x] \in {"udata", "table"} /\ mode'[x] = "strong"
    BY <1>1, <1>2, <1>7 DEF IInv, ListInv
  <2> QED
    BY <1>1, <1>2, <1>7, <1>9, <2>2, <2>3, <2>4 DEF IInv, ListInv
<1>12. FinInv'
  <2>1. owed' = Elems(finobj') \cup Elems(tobefnz')
    BY <1>1, <1>2, <1>3, <1>7 DEF IInv, FinInv
  <2> QED
    BY <1>1, <1>2, <1>7, <2>1 DEF IInv, FinInv, Over
<1>13. PendingInv' /\ GoalInv'
  BY <1>1 DEF IInv, PendingInv, GoalInv, Over, Sweeping
<1>14. PointInv'
  BY <1>1, <1>7, <1>9 DEF IInv, PointInv, Over, Sweeping
<1>15. ASSUME NEW x \in Live PROVE Leads(x)' \subseteq Leads(x) \cup (IF x = Main THEN {o} ELSE {})
  <2>1. x \in Node /\ open'[x] = open[x] /\ cache'[x] = cache[x]
    BY <1>1 DEF Live
  <2>2. CASE open[x] = None
    <3>1. entries'[x] \subseteq entries[x] \cup (IF x = Main THEN {<<None, o>>} ELSE {})
      BY <1>5, <2>1
    <3>2. Refs(x)' \subseteq Refs(x) \cup (IF x = Main THEN {o} ELSE {})
      BY <3>1 DEF Refs, Vals, Keys
    <3> QED
      BY <2>1, <2>2, <3>2 DEF Leads
  <2>3. CASE open[x] # None
    <3>1. open[x] # Main /\ open[x] \in Node
      BY <2>1, <2>3, Numbers DEF IInv, KindInv
    <3>2. Vals(open[x])' = Vals(open[x])
      BY <1>5, <2>1, <3>1 DEF Vals
    <3> QED
      BY <2>1, <2>3, <3>2 DEF Leads
  <2> QED
    BY <2>2, <2>3
<1>16. Sound' /\ Kept'
  BY <1>2, <1>3, <1>6, <1>7, <1>15 DEF IInv, Sound, Kept
<1>17. ~Over => Listed' = Listed /\ Unswept' = Unswept
  BY <1>1, <1>6, <1>7, <1>9 DEF Listed, Unswept
<1>18. SweptInv'
  <2> SUFFICES ASSUME ~Over PROVE SweptInv'
    BY <1>1 DEF SweptInv, Over
  <2>1. ASSUME NEW x \in Dead PROVE ((Sweeping /\ x \in Unswept) \/ Stale(x))'
    <3>1. x \in Node
      BY DEF Dead, Live
    <3>2. open[x] # None => old'[open[x]] = old[open[x]]
      <4>1. open[x] # None => open[x] \in Node /\ open[x] # o
        BY <1>3, <3>1, Numbers DEF IInv, KindInv
      <4> QED
        BY <1>5, <4>1
    <3> QED
      BY <1>1, <1>17, <2>1, <3>1, <3>2 DEF IInv, SweptInv, Stale, Sweeping
  <2>2. ASSUME gckind = "normal", gcstate # "propagate", NEW x \in Live \ Elems(tobefnz')
        PROVE  mark'[x] = currentwhite \/ (Sweeping /\ x \in Unswept')
    <3>1. x \in Node /\ (x # o => x \notin Elems(tobefnz))
      BY <1>2, <2>2 DEF Live
    <3> QED
      BY <1>5, <1>17, <2>2, <3>1 DEF IInv, SweptInv
  <2> QED
    BY <1>1, <1>6, <2>1, <2>2 DEF SweptInv, Sweeping
<1>19. GrayInv'
  <2> SUFFICES ASSUME KeepInvariant PROVE GrayInv'
    BY <1>1 DEF GrayInv, KeepInvariant
  <2>1. mark' = mark /\ White' = White /\ Grays' = Grays /\ goal # "closed"
    BY <1>1, <1>4 DEF White, Live, Grays
  <2>2. \A x \in Live : mark[x] = "black" => Leads(x)' \subseteq Leads(x)
    BY <1>15, StackAlive DEF IInv
  <2> QED
    BY <1>1, <1>4, <1>6, <2>1, <2>2 DEF IInv, GrayInv, KeepInvariant
<1>20. OldInv'
  <2> SUFFICES ASSUME ~Over PROVE OldInv'
    BY <1>1 DEF OldInv, Over
  <2>1. \A x \in Node : old'[x] = old[x]
    <3> SUFFICES ASSUME NEW x \in Node PROVE old'[x] = old[x]
      OBVIOUS
    <3>1. CASE x = o
      <4>1. old[o] \in BOOLEAN /\ ~old[o] /\ ~old'[o]
        BY <1>3, <1>8 DEF IInv, TypeInv
      <4>2. old'[o] = FALSE \/ old'[o] = old[o]
        BY <1>3, <1>5, Zenon
      <4> QED
        BY <3>1, <4>1, <4>2, Zenon
    <3>2. CASE x # o
      BY <1>5, <3>2, Zenon
    <3> QED
      BY <3>1, <3>2
  <2>2. ASSUME NEW x \in Live, old'[x] PROVE old[x] /\ mark'[x] = mark[x]
    <3>1. x \in Node /\ x # o
      BY <1>8, <2>2 DEF Live
    <3> QED
      BY <1>5, <2>1, <2>2, <3>1
  <2>3. OldRun(finobj, {}) => OldRun(finobj, {})'
    <3>1. finobj' = finobj /\ \A x : After(finobj, x) \subseteq Elems(finobj)
      BY <1>1, AfterIn
    <3>2. \A x \in Elems(finobj) : old'[x] = old[x]
      BY <2>1, ListsIn, Numbers DEF IInv
    <3> QED
      BY <3>1, <3>2 DEF OldRun
  <2>4. \A x \in Elems(tobefnz)' : ~old'[x]
    BY <1>2, <2>1, ListsIn, Numbers DEF IInv, OldInv
  <2>5. gckind = "gen" => ~Sweeping
    BY <1>1 DEF IInv, GoalInv, Sweeping, SweepStates
  <2> QED
    BY <1>1, <1>6, <1>9, <1>17, <2>1, <2>2, <2>3, <2>4, <2>5 DEF IInv, OldInv, Over, Sweeping
<1> QED
  BY <1>10, <1>11, <1>12, <1>13, <1>14, <1>16, <1>18, <1>19, <1>20 DEF IInv

-----------------------------------------------------------------------------
(* Actions that change no object.                                          *)

(* When a sweep begins everything is before it but what waits for its      *)
(* finalizer to be called.                                                 *)
LEMMA AllUnswept ==
  ASSUME TypeInv', KindInv', ListInv', gcstate' = "enterfin", sweepfin' = Start
  PROVE  \A o \in Live' \ Elems(tobefnz') : o \in Unswept'
<1>1. /\ InAll' = Elems(allgc') /\ InFin' = Elems(finobj')
      /\ InStr' = {o \in Live' : type'[o] = "string"}
  <2>1. Start # None
    BY Numbers
  <2> QED
    BY <2>1 DEF InAll, InFin, InStr, Rest
<1>2. ASSUME NEW o \in Live' \ Elems(tobefnz'), open'[o] = None PROVE o \in Listed'
  <2>1. o \in Node /\ type'[o] # "free"
    BY DEF Live
  <2>2. CASE o = Main
    BY <2>2 DEF Listed
  <2>3. CASE o # Main /\ type'[o] = "string"
    BY <1>1, <2>3 DEF Listed
  <2>4. CASE o # Main /\ type'[o] # "string"
    <3>1. o \in Obj
      BY <2>1, <2>4, Numbers
    <3>2. o \in Elems(allgc') \cup Elems(finobj') \cup Elems(tobefnz')
      BY <1>2, <2>1, <2>4, <3>1 DEF ListInv
    <3> QED
      BY <1>1, <3>2 DEF Listed
  <2> QED
    BY <2>2, <2>3, <2>4
<1>3. ASSUME NEW o \in Live', open'[o] # None PROVE open'[o] \in Listed'
  <2>1. o \in Node
    BY DEF Live
  <2>2. open'[o] \in Obj /\ type'[open'[o]] = "thread"
    BY <1>3, <2>1 DEF KindInv
  <2>3. open'[o] \in Node /\ open'[open'[o]] = None
    BY <2>2, Numbers DEF KindInv
  <2>4. open'[o] \in Live'
    BY <2>2, <2>3 DEF Live
  <2>5. open'[o] \notin Elems(tobefnz')
    BY <2>2 DEF ListInv
  <2> QED
    BY <1>2, <2>3, <2>4, <2>5
<1> QED
  BY <1>2, <1>3 DEF Unswept

(* Where no object and no list changes, neither does what is read of them. *)
LEMMA SameObjects ==
  ASSUME IInv, goal # "closed", goal' # "closed", UNCHANGED <<object, lists, grays, duty, currentwhite>>
  PROVE  /\ Live' = Live /\ Dead' = Dead /\ White' = White /\ Grays' = Grays
         /\ UNCHANGED <<type, mark, old, mode, entries, cache, open, allgc, finobj, tobefnz>>
         /\ UNCHANGED <<gray, grayagain, weak, allweak, ephemeron, profile, finalized, owed>>
         /\ Elems(allgc)' = Elems(allgc) /\ Elems(finobj)' = Elems(finobj) /\ Elems(tobefnz)' = Elems(tobefnz)
         /\ OldRun(allgc, {})' = OldRun(allgc, {}) /\ OldRun(finobj, {})' = OldRun(finobj, {})
         /\ \A x : Leads(x)' = Leads(x)
         /\ KindInv' /\ ListInv' /\ Sound' /\ Kept'
<1>1. /\ UNCHANGED <<type, mark, old, mode, entries, cache, open, allgc, finobj, tobefnz>>
      /\ UNCHANGED <<gray, grayagain, weak, allweak, ephemeron, profile, finalized, owed>>
  BY DEF object, lists, grays, duty
<1>2. Live' = Live /\ Dead' = Dead /\ White' = White /\ Grays' = Grays
  BY <1>1 DEF Live, Dead, White, Grays, Other
<1>3. /\ Elems(allgc)' = Elems(allgc) /\ Elems(finobj)' = Elems(finobj) /\ Elems(tobefnz)' = Elems(tobefnz)
      /\ Distinct(allgc)' = Distinct(allgc) /\ Distinct(finobj)' = Distinct(finobj) /\ Distinct(tobefnz)' = Distinct(tobefnz)
      /\ OldRun(allgc, {})' = OldRun(allgc, {}) /\ OldRun(finobj, {})' = OldRun(finobj, {})
  BY <1>1 DEF Elems, Distinct, After, OldRun
<1>4. \A x : Leads(x)' = Leads(x)
  BY <1>1 DEF Leads, Refs, Vals, Keys
<1>5. KindInv'
  BY <1>1 DEF IInv, KindInv
<1>6. ListInv' /\ Sound' /\ Kept'
  BY <1>1, <1>2, <1>3, <1>4 DEF IInv, ListInv, Sound, Kept
<1> QED
  BY <1>1, <1>2, <1>3, <1>4, <1>5, <1>6

(* What the marking left is swept without being freed.                     *)
LEMMA SweepAnew ==
  ASSUME IInv, Running, gcstate = "propagate", gckind' = "normal", goal' \in {"finish", "whiten"},
         kind0' \in {"normal", "gen"}, EnterSweep,
         UNCHANGED <<object, lists, grays, duty, currentwhite, sweepgc, sweepstr, pending>>
  PROVE  IInv'
<1>1. /\ goal = "none" /\ pending = None /\ pending' = None /\ gcstate' = "enterfin" /\ sweepfin' = Start
      /\ sweepgc' = sweepgc /\ sweepstr' = sweepstr /\ currentwhite' = currentwhite
  BY DEF Running, EnterSweep
<1>2. sweepgc = None /\ sweepstr = {}
  BY <1>1 DEF IInv, PointInv, Over, Sweeping, SweepStates
<1>3. /\ Live' = Live /\ Dead' = Dead /\ White' = White /\ Grays' = Grays
      /\ UNCHANGED <<type, mark, old, mode, entries, cache, open, allgc, finobj, tobefnz>>
      /\ UNCHANGED <<gray, grayagain, weak, allweak, ephemeron, profile, finalized, owed>>
      /\ Elems(allgc)' = Elems(allgc) /\ Elems(finobj)' = Elems(finobj) /\ Elems(tobefnz)' = Elems(tobefnz)
      /\ KindInv' /\ ListInv' /\ Sound' /\ Kept'
  BY <1>1, SameObjects
<1>4. TypeInv'
  BY <1>1, <1>3 DEF IInv, TypeInv, SweepStates
<1>5. FinInv' /\ PendingInv' /\ GoalInv' /\ PointInv'
  BY <1>1, <1>2, <1>3 DEF IInv, FinInv, PendingInv, GoalInv, PointInv, Over, Sweeping, SweepStates
<1>6. \A o \in Live' \ Elems(tobefnz') : o \in Unswept'
  BY <1>1, <1>3, <1>4, AllUnswept
<1>7. Sweeping'
  BY <1>1 DEF Sweeping, SweepStates
<1>8. SweptInv'
  <2>1. \A o \in Dead' : o \in Live' \ Elems(tobefnz')
    BY <1>3 DEF Dead, Kept
  <2> QED
    BY <1>6, <1>7, <2>1 DEF SweptInv
<1>9. GrayInv'
  BY <1>1 DEF GrayInv, KeepInvariant
<1>10. OldInv'
  BY <1>1, <1>3, <1>6, <1>7 DEF IInv, OldInv, Over
<1> QED
  BY <1>3, <1>4, <1>5, <1>8, <1>9, <1>10 DEF IInv

(* Another goal while nothing is being swept in the generational mode.     *)
LEMMA GoalSet ==
  ASSUME IInv, Running, goal' \in {"none", "finish", "minor", "togen"}, GoalInv',
         kind0' \in {"normal", "gen"}, gckind' \in {"normal", "gen"},
         gckind' # gckind => gckind' = "gen" /\ gcstate = "propagate",
         UNCHANGED <<object, lists, grays, duty, currentwhite, gcstate, sweepgc, sweepfin, sweepstr, pending>>
  PROVE  IInv'
<1>1. /\ goal = "none" /\ pending = None /\ ~Over /\ ~Over' /\ gcstate \notin {"enterfin", "enterall"}
      /\ UNCHANGED <<currentwhite, gcstate, sweepgc, sweepfin, sweepstr, pending>>
      /\ gckind = "gen" => gcstate = "propagate"
      /\ KeepInvariant <=> gcstate = "propagate"
      /\ gckind = "normal" => \A o \in Live : ~old[o]
  BY RunningFacts DEF Running, Over
<1>2. /\ Live' = Live /\ Dead' = Dead /\ White' = White /\ Grays' = Grays
      /\ UNCHANGED <<type, mark, old, mode, entries, cache, open, allgc, finobj, tobefnz>>
      /\ UNCHANGED <<gray, grayagain, weak, allweak, ephemeron, profile, finalized, owed>>
      /\ Elems(allgc)' = Elems(allgc) /\ Elems(finobj)' = Elems(finobj) /\ Elems(tobefnz)' = Elems(tobefnz)
      /\ OldRun(allgc, {})' = OldRun(allgc, {}) /\ OldRun(finobj, {})' = OldRun(finobj, {})
      /\ \A x : Leads(x)' = Leads(x)
      /\ KindInv' /\ ListInv' /\ Sound' /\ Kept'
  BY <1>1, SameObjects
<1>3. TypeInv'
  BY <1>1, <1>2 DEF IInv, TypeInv
<1>4. FinInv' /\ PendingInv' /\ PointInv'
  BY <1>1, <1>2 DEF IInv, FinInv, PendingInv, PointInv, Over, Sweeping
<1>5. (gckind' = "gen" => gcstate = "propagate") /\ Sweeping' = Sweeping /\ (gcstate = "propagate" => ~Sweeping)
  BY <1>1 DEF Sweeping, SweepStates
<1>6. Unswept' = Unswept
  BY <1>1, <1>2 DEF Unswept, Listed, InAll, InFin, InStr, Rest, After
<1>7. SweptInv'
  <2>1. ASSUME NEW o \in Dead PROVE ((Sweeping /\ o \in Unswept) \/ Stale(o))'
    <3>1. (Sweeping /\ o \in Unswept) \/ Stale(o)
      BY <1>1, <2>1 DEF IInv, SweptInv
    <3> QED
      BY <1>2, <1>5, <1>6, <3>1 DEF Stale
  <2>2. gckind' = "normal" => gckind = "normal"
    BY DEF IInv, TypeInv
  <2> QED
    BY <1>1, <1>2, <1>5, <1>6, <2>1, <2>2 DEF IInv, SweptInv
<1>8. GrayInv'
  <2> SUFFICES ASSUME KeepInvariant' PROVE GrayInv'
    BY DEF GrayInv
  <2>1. KeepInvariant
    BY <1>1, <1>5 DEF KeepInvariant
  <2> QED
    BY <1>1, <1>2, <2>1 DEF IInv, GrayInv
<1>9. OldInv'
  <2>1. \A o \in Live : old[o] => gckind = "gen"
    BY <1>1 DEF IInv, TypeInv
  <2>2. gckind = "normal" => OldRun(allgc, {}) /\ OldRun(finobj, {})
    <3> SUFFICES ASSUME gckind = "normal" PROVE OldRun(allgc, {}) /\ OldRun(finobj, {})
      OBVIOUS
    <3>1. \A o \in Elems(allgc) \cup Elems(finobj) : ~old[o]
      BY <1>1, ListsIn, Numbers DEF IInv, ListInv, Live
    <3> QED
      BY <3>1 DEF OldRun
  <2>3. gckind = "gen" => OldRun(allgc, {}) /\ OldRun(finobj, {})
    BY <1>1, <1>5 DEF IInv, OldInv, Sweeping, SweepStates
  <2>4. OldRun(allgc, {})' /\ OldRun(finobj, {})'
    BY <1>2, <2>2, <2>3 DEF IInv, TypeInv
  <2>5. gckind' = "gen" => ~Sweeping'
    BY <1>5
  <2>6. \A o \in Live : old[o] => gckind' = "gen"
    BY <2>1
  <2> QED
    BY <1>1, <1>2, <2>4, <2>5, <2>6 DEF IInv, OldInv
<1> QED
  BY <1>2, <1>3, <1>4, <1>7, <1>8, <1>9 DEF IInv

LEMMA StartFullStep == ASSUME IInv, StartFull PROVE IInv'
<1>1. /\ Running /\ kind0' = gckind /\ gckind' = "normal" /\ goal' = "finish" /\ kind0' \in {"normal", "gen"}
      /\ UNCHANGED <<object, lists, grays, duty, currentwhite, sweepgc, sweepstr, pending>>
  BY DEF StartFull, IInv, TypeInv
<1>2. goal = "none" /\ pending = None /\ (KeepInvariant <=> gcstate = "propagate")
  BY <1>1, RunningFacts DEF Running
<1>3. CASE KeepInvariant
  <2>1. EnterSweep /\ gcstate = "propagate"
    BY <1>2, <1>3 DEF StartFull
  <2> QED
    BY <1>1, <2>1, SweepAnew
<1>4. CASE ~KeepInvariant
  <2>1. UNCHANGED <<gcstate, sweepfin>> /\ gckind = "normal" /\ gcstate # "propagate"
    BY <1>4 DEF StartFull, KeepInvariant, IInv, TypeInv
  <2>2. GoalInv'
    BY <1>1, <1>2, <2>1 DEF IInv, GoalInv, Over, Sweeping
  <2> QED
    BY <1>1, <2>1, <2>2, GoalSet
<1> QED
  BY <1>3, <1>4

LEMMA StartMinorStep == ASSUME IInv, StartMinor PROVE IInv'
<1>1. /\ Running /\ gckind = "gen" /\ goal' = "minor" /\ gckind' = gckind /\ kind0' = kind0
      /\ UNCHANGED <<object, lists, grays, duty, currentwhite, gcstate, sweepgc, sweepfin, sweepstr, pending>>
  BY DEF StartMinor
<1>2. GoalInv'
  BY <1>1 DEF IInv, GoalInv, Over, Sweeping, SweepStates, Running
<1> QED
  BY <1>1, <1>2, GoalSet DEF IInv, TypeInv

LEMMA ToGenerationalStep == ASSUME IInv, ToGenerational PROVE IInv'
<1>1. /\ Running /\ gckind = "normal" /\ kind0' = kind0
      /\ UNCHANGED <<object, lists, grays, duty, currentwhite, gcstate, sweepgc, sweepfin, sweepstr, pending>>
      /\ IF gcstate = "propagate" THEN gckind' = "gen" /\ goal' = goal ELSE goal' = "togen" /\ gckind' = gckind
  BY DEF ToGenerational
<1>2. GoalInv' /\ goal' \in {"none", "togen"}
  BY <1>1 DEF IInv, GoalInv, Over, Sweeping, Running
<1> QED
  BY <1>1, <1>2, GoalSet DEF IInv, TypeInv

LEMMA ToIncrementalStep == ASSUME IInv, ToIncremental PROVE IInv'
<1>1. /\ Running /\ gckind = "gen" /\ gckind' = "normal" /\ goal' = "whiten" /\ EnterSweep /\ kind0' = kind0
      /\ UNCHANGED <<object, lists, grays, duty, currentwhite, sweepgc, sweepstr, pending>>
  BY DEF ToIncremental
<1>2. gcstate = "propagate"
  BY <1>1, RunningFacts
<1> QED
  BY <1>1, <1>2, SweepAnew DEF IInv, TypeInv

LEMMA CloseStep == ASSUME IInv, Close PROVE IInv'
<1>1. /\ Running /\ goal = "none" /\ pending = None /\ goal' = "close"
      /\ tobefnz' = tobefnz \o finobj /\ finobj' = <<>>
      /\ finalized' = finalized \cup Elems(finobj)
      /\ UNCHANGED <<type, mark, old, mode, entries, cache, open, allgc, profile, owed>>
      /\ UNCHANGED <<gray, grayagain, weak, allweak, ephemeron>>
      /\ UNCHANGED <<currentwhite, gcstate, gckind, sweepgc, sweepfin, sweepstr, pending, kind0>>
  BY DEF Close, Running, object, grays
<1>2. /\ tobefnz' \in Seq(Obj) /\ Distinct(tobefnz') /\ Elems(tobefnz') = Elems(tobefnz) \cup Elems(finobj)
  <2>1. /\ tobefnz \in Seq(Obj) /\ finobj \in Seq(Obj) /\ Distinct(tobefnz) /\ Distinct(finobj)
        /\ Elems(tobefnz) \cap Elems(finobj) = {}
    BY DEF IInv, TypeInv, ListInv
  <2>2. /\ tobefnz \o finobj \in Seq(Obj) /\ Distinct(tobefnz \o finobj)
        /\ Elems(tobefnz \o finobj) = Elems(tobefnz) \cup Elems(finobj)
    BY <2>1, ListConcat
  <2> QED
    BY <1>1, <2>2
<1>3. finobj' \in Seq(Obj) /\ Distinct(finobj') /\ Elems(finobj') = {} /\ Len(finobj') = 0
  BY <1>1 DEF Distinct, Elems
<1>4. /\ Live' = Live /\ Dead' = Dead /\ White' = White /\ Grays' = Grays
      /\ Elems(allgc)' = Elems(allgc) /\ Distinct(allgc)' = Distinct(allgc)
  BY <1>1 DEF Live, Dead, White, Grays, Other, Elems, Distinct
<1>5. \A x : Leads(x)' = Leads(x)
  BY <1>1 DEF Leads, Refs, Vals, Keys
<1>6. Elems(finobj) \subseteq Obj
  BY ListsIn DEF IInv
<1>7. TypeInv'
  BY <1>1, <1>2, <1>3, <1>6 DEF IInv, TypeInv
<1>8. KindInv'
  BY <1>1 DEF IInv, KindInv
<1>9. ListInv'
  BY <1>1, <1>2, <1>3, <1>4 DEF IInv, ListInv
<1>10. FinInv'
  BY <1>1, <1>2, <1>3 DEF IInv, FinInv
<1>11. PendingInv' /\ GoalInv' /\ Over'
  <2>1. gcstate \notin {"enterfin", "enterall"} /\ (gckind = "gen" => gcstate = "propagate")
    BY <1>1, RunningFacts
  <2> QED
    BY <1>1, <2>1 DEF IInv, PendingInv, GoalInv, Over
<1>12. PointInv' /\ SweptInv' /\ OldInv'
  BY <1>11 DEF PointInv, SweptInv, OldInv
<1>13. Sound' /\ Kept'
  BY <1>2, <1>3, <1>4, <1>5 DEF IInv, Sound, Kept
<1>14. GrayInv'
  BY <1>1, <1>4, <1>5 DEF IInv, GrayInv, KeepInvariant
<1> QED
  BY <1>7, <1>8, <1>9, <1>10, <1>11, <1>12, <1>13, <1>14 DEF IInv

LEMMA FreeAllStep == ASSUME IInv, FreeAll PROVE IInv'
<1>1. /\ goal = "close" /\ tobefnz = <<>> /\ goal' = "closed"
      /\ type' = [o \in Node |-> IF o \in Obj THEN "free" ELSE type[o]]
      /\ mode' = [o \in Node |-> IF o \in Obj THEN "strong" ELSE mode[o]]
      /\ cache' = [o \in Node |-> IF o \in Obj THEN None ELSE cache[o]]
      /\ finalized' = finalized \ Obj
      /\ allgc' = <<>> /\ entries' = [o \in Node |-> {}] /\ open' = [o \in Node |-> None] /\ gckind' = "normal"
      /\ UNCHANGED <<mark, old, finobj, tobefnz, profile, owed>>
      /\ UNCHANGED <<gray, grayagain, weak, allweak, ephemeron>>
      /\ UNCHANGED <<currentwhite, gcstate, sweepgc, sweepfin, sweepstr, pending, kind0>>
  BY DEF FreeAll, Freed, grays
<1>2. finobj = <<>> /\ pending = None /\ gcstate \notin {"enterfin", "enterall"}
  BY <1>1 DEF IInv, FinInv, GoalInv, Over
<1>3. /\ \A s \in {allgc', finobj', tobefnz'} : s = <<>>
  BY <1>1, <1>2
<1>4. \A s \in {allgc', finobj', tobefnz'} : s \in Seq(Obj) /\ Distinct(s) /\ Elems(s) = {}
  <2>1. <<>> \in Seq(Obj) /\ Len(<<>>) = 0
    OBVIOUS
  <2>2. Distinct(<<>>) /\ Elems(<<>>) = {}
    BY <2>1 DEF Distinct, Elems
  <2> QED
    BY <1>3, <2>1, <2>2
<1>5. /\ \A o \in Obj : type'[o] = "free" /\ mode'[o] = "strong" /\ cache'[o] = None
      /\ type'[Main] = "thread" /\ mode'[Main] = "strong" /\ cache'[Main] = None
      /\ \A o \in Node : entries'[o] = {} /\ open'[o] = None
  BY <1>1, StackAlive, Numbers DEF IInv, TypeInv
<1>6. Live' = {Main} /\ Main \notin Dead'
  <2>1. Live' = {Main}
    BY <1>5, Numbers DEF Live
  <2>2. Other' = Other /\ mark[Main] # Other
    BY <1>1, StackAlive DEF Other, Dead, IInv
  <2> QED
    BY <1>1, <2>1, <2>2 DEF Dead
<1>7. TypeInv'
  BY <1>1, <1>4, <1>5 DEF IInv, TypeInv
<1>8. KindInv'
  <2>1. \A o \in Node : type'[o] = "thread" => mark'[o] # "black"
    <3>1. mark[Main] # "black"
      BY StackAlive DEF IInv
    <3> QED
      BY <1>1, <1>5, <3>1, Numbers
  <2>2. \A o \in Node : mode'[o] = "strong" /\ cache'[o] = None
    BY <1>5, Numbers
  <2> QED
    BY <1>1, <1>5, <2>1, <2>2 DEF KindInv
<1>9. ListInv'
  BY <1>4, <1>5, Numbers DEF ListInv
<1>10. FinInv'
  <2>1. owed = {}
    BY <1>1, <1>4 DEF IInv, FinInv
  <2>2. entries'[Main] = {}
    BY <1>5, Numbers
  <2> QED
    BY <1>1, <1>3, <1>4, <1>6, <2>1, <2>2 DEF FinInv
<1>11. PendingInv' /\ GoalInv' /\ Over'
  BY <1>1, <1>2 DEF IInv, PendingInv, GoalInv, Over
<1>12. PointInv' /\ SweptInv' /\ OldInv'
  BY <1>11 DEF PointInv, SweptInv, OldInv
<1>13. Sound' /\ Kept'
  <2>1. Leads(Main)' = {}
    BY <1>5, Numbers DEF Leads, Refs, Vals, Keys
  <2> QED
    BY <1>4, <1>6, <2>1 DEF Sound, Kept
<1>14. GrayInv'
  BY <1>1 DEF GrayInv
<1> QED
  BY <1>7, <1>8, <1>9, <1>10, <1>11, <1>12, <1>13, <1>14 DEF IInv

(* The last step of a sweep: the main thread is white again, or old.       *)
LEMMA EndCycleStep == ASSUME IInv, EndCycle PROVE IInv'
<1>1. /\ Collecting /\ gcstate = "sweep" /\ sweepgc = None
      /\ IF gckind = "gen" THEN old' = [old EXCEPT ![Main] = TRUE] /\ mark' = mark
         ELSE mark' = [mark EXCEPT ![Main] = currentwhite] /\ old' = [old EXCEPT ![Main] = FALSE]
      /\ UNCHANGED <<type, mode, entries, cache, open, allgc, finobj, tobefnz, profile, finalized, owed>>
      /\ UNCHANGED <<gray, grayagain, weak, allweak, ephemeron>>
      /\ UNCHANGED <<currentwhite, sweepgc, sweepfin, sweepstr, pending, kind0>>
  BY DEF EndCycle, lists, grays, duty
<1>2. /\ ~Over /\ pending = None /\ Sweeping /\ sweepfin = None /\ sweepstr = {} /\ goal # "closed"
      /\ goal \in {"none", "finish", "collect", "minor", "togen", "whiten"}
      /\ goal = "minor" <=> gckind = "gen"
  BY <1>1 DEF Collecting, IInv, GoalInv, PointInv, Over, Sweeping, SweepStates, TypeInv
<1>3. /\ IF gckind = "gen" THEN goal' = "none" /\ gckind' = "gen" /\ gcstate' = "propagate"
         ELSE /\ gckind' = "normal" /\ gcstate' = "pause"
              /\ goal' \in {"none", "finish", "togen", "regen"}
  <2>1. Reaches("pause")
    BY DEF EndCycle
  <2> QED
    BY <1>1, <1>2, <2>1 DEF Reaches, IInv, TypeInv
<1>4. /\ Listed = {Main} /\ Unswept = {Main} /\ InAll = {} /\ InFin = {}
  <2>1. InAll = {} /\ InFin = {} /\ InStr = {}
    BY <1>1, <1>2 DEF InAll, InFin, InStr, Rest
  <2>2. \A o \in Live : open[o] # Main
    BY Numbers DEF IInv, KindInv, Live
  <2>3. Main \in Live
    BY StackAlive DEF IInv
  <2>4. Listed = {Main}
    BY <2>1 DEF Listed
  <2> QED
    BY <2>1, <2>2, <2>4 DEF Unswept
<1>5. /\ \A x \in Obj : mark'[x] = mark[x] /\ old'[x] = old[x]
      /\ IF gckind = "gen" THEN mark'[Main] = mark[Main] /\ old'[Main] ELSE mark'[Main] = currentwhite /\ ~old'[Main]
  BY <1>1, Numbers DEF IInv, TypeInv
<1>6. Live' = Live /\ Dead' = Dead /\ Other' = Other
  <2>1. Live' = Live /\ Other' = Other /\ Other # currentwhite /\ Main \notin Dead
    BY <1>1, Colors, StackAlive DEF Live, Other, IInv
  <2> QED
    BY <1>5, <2>1, Numbers DEF Dead, Live
<1>7. /\ Elems(allgc)' = Elems(allgc) /\ Elems(finobj)' = Elems(finobj) /\ Elems(tobefnz)' = Elems(tobefnz)
      /\ Distinct(allgc)' = Distinct(allgc) /\ Distinct(finobj)' = Distinct(finobj) /\ Distinct(tobefnz)' = Distinct(tobefnz)
  BY <1>1 DEF Elems, Distinct
<1>8. \A x : Leads(x)' = Leads(x)
  BY <1>1 DEF Leads, Refs, Vals, Keys
<1>9. TypeInv'
  <2>1. mark' \in [Node -> Whites \cup {"gray", "black"}] /\ old' \in [Node -> BOOLEAN]
    BY <1>1 DEF IInv, TypeInv
  <2> QED
    BY <1>1, <1>3, <2>1 DEF IInv, TypeInv
<1>10. KindInv'
  <2>1. \A o \in Node : (mark'[o] = "black" => mark[o] = "black") /\ (type[o] = "free" => ~old'[o])
    BY <1>2, <1>5, Numbers, Colors DEF IInv, KindInv, TypeInv
  <2> QED
    BY <1>1, <2>1 DEF IInv, KindInv
<1>11. ListInv'
  BY <1>1, <1>7 DEF IInv, ListInv
<1>12. FinInv' /\ PendingInv' /\ GoalInv' /\ PointInv' /\ ~Over'
  BY <1>1, <1>2, <1>3, <1>7 DEF IInv, FinInv, PendingInv, GoalInv, PointInv, Over, Sweeping, SweepStates
<1>13. Sound' /\ Kept'
  BY <1>6, <1>7, <1>8 DEF IInv, Sound, Kept
<1>14. SweptInv'
  <2>1. ASSUME NEW o \in Dead PROVE Stale(o)'
    <3>1. Stale(o)
      BY <1>2, <1>4, <2>1, StackAlive DEF IInv, SweptInv
    <3>2. open[o] \in Obj
      BY <2>1, <3>1 DEF Stale, IInv, KindInv, Dead, Live
    <3> QED
      BY <1>1, <1>3, <1>5, <3>1, <3>2 DEF Stale
  <2>2. ASSUME gckind = "normal", NEW o \in Live \ Elems(tobefnz) PROVE mark'[o] = currentwhite
    <3>1. o \in Node
      BY DEF Live
    <3>2. mark[o] = currentwhite \/ o = Main
      BY <1>1, <1>2, <1>4, <2>2 DEF IInv, SweptInv
    <3> QED
      BY <1>5, <2>2, <3>1, <3>2, Numbers
  <2>3. gckind' = "normal" => gckind = "normal"
    BY <1>3 DEF IInv, TypeInv
  <2> QED
    BY <1>1, <1>6, <1>7, <2>1, <2>2, <2>3 DEF SweptInv
<1>15. GrayInv'
  <2> SUFFICES ASSUME gckind = "gen" PROVE GrayInv'
    BY <1>3 DEF GrayInv, KeepInvariant
  <2>1. mark' = mark /\ White' = White /\ Grays' = Grays /\ gray = {} /\ KeepInvariant
    BY <1>1, <1>2, <1>6 DEF White, Grays, KeepInvariant, IInv, GrayInv
  <2> QED
    BY <1>1, <1>2, <1>6, <1>8, <2>1 DEF IInv, GrayInv
<1>16. OldInv'
  <2>1. \A o \in Elems(allgc) \cup Elems(finobj) \cup Elems(tobefnz) : old'[o] = old[o]
    BY <1>5, ListsIn DEF IInv
  <2>2. \A o \in Elems(tobefnz)' : ~old'[o]
    BY <1>2, <1>7, <2>1 DEF IInv, OldInv
  <2>3. CASE gckind = "gen"
    <3>1. OldRun(allgc, {}) /\ OldRun(finobj, {})
      BY <1>2, <1>4, <2>3 DEF IInv, OldInv
    <3>2. OldRun(allgc, {})' /\ OldRun(finobj, {})'
      BY <1>1, <2>1, <3>1, AfterIn DEF OldRun
    <3>3. ~Sweeping'
      BY <1>3, <2>3 DEF Sweeping, SweepStates
    <3>4. mark[Main] = "gray" /\ "gray" \notin Whites
      BY <1>2, <2>3, Colors DEF IInv, GrayInv, KeepInvariant
    <3>5. \A o \in Live : old'[o] => mark'[o] \notin Whites
      BY <1>2, <1>5, <2>3, <3>4, Numbers DEF IInv, OldInv, Live
    <3> QED
      BY <1>1, <1>3, <1>6, <2>2, <2>3, <3>2, <3>3, <3>5 DEF OldInv
  <2>4. CASE gckind = "normal"
    <3>1. \A o \in Live : ~old'[o]
      BY <1>2, <1>4, <1>5, <2>4, Numbers DEF IInv, OldInv, Live
    <3> QED
      BY <1>3, <1>6, <2>2, <2>4, <3>1 DEF OldInv
  <2> QED
    BY <2>3, <2>4 DEF IInv, TypeInv
<1> QED
  BY <1>9, <1>10, <1>11, <1>12, <1>13, <1>14, <1>15, <1>16 DEF IInv

-----------------------------------------------------------------------------
(* Sweeping.                                                               *)

(* The open upvalues of a thread; what is freed with c, what goes to the   *)
(* list of all objects because its thread is freed, and what is not dead.  *)
Ups(c)   == IF c \in Live /\ type[c] = "thread" THEN Opened(c) ELSE {}
Gone(c)  == ({c} \cup Ups(c)) \cap Dead
Moved(c) == IF c \in Dead THEN Ups(c) \ Dead ELSE {}
Stays(c) == IF c \in Dead THEN {} ELSE ({c} \cup Ups(c)) \ Dead

(* What happens to each object when c is swept.                            *)
LEMMA SweptOne ==
  ASSUME IInv, ~Over, Sweeping, NEW c \in Obj, c \in Live, open[c] = None, ~Stops(c), SweepOne(c)
  PROVE  /\ \A o \in Gone(c) : /\ type'[o] = "free" /\ mode'[o] = "strong" /\ cache'[o] = None
                               /\ mark'[o] = "w0" /\ old'[o] = FALSE /\ entries'[o] = {} /\ open'[o] = None
         /\ \A o \in Node \ Gone(c) : type'[o] = type[o] /\ mode'[o] = mode[o] /\ cache'[o] = cache[o]
         /\ \A o \in Moved(c) : /\ open'[o] = None /\ entries'[o] = entries[c] /\ old'[o] = FALSE
                                /\ mark'[o] = IF mark[o] # "gray" THEN mark[o]
                                              ELSE IF gckind = "gen" THEN "black" ELSE currentwhite
         /\ \A o \in Node \ (Gone(c) \cup Moved(c)) : open'[o] = open[o] /\ entries'[o] = entries[o]
         /\ \A o \in Stays(c) : old'[o] = (gckind = "gen") /\ mark'[o] = IF gckind = "gen" THEN mark[o] ELSE currentwhite
         /\ \A o \in Node \ (Gone(c) \cup Moved(c) \cup Stays(c)) : mark'[o] = mark[o] /\ old'[o] = old[o]
         /\ finalized' = finalized \ Gone(c)
         /\ allgc' = SetToSeq(Moved(c)) \o Without(allgc, Gone(c))
         /\ finobj' = Without(finobj, Gone(c))
         /\ type' \in [Node -> Types \cup {"free"}] /\ mark' \in [Node -> Whites \cup {"gray", "black"}]
         /\ old' \in [Node -> BOOLEAN] /\ mode' \in [Node -> {"strong", "weakv", "weakk", "weakkv"}]
         /\ entries' \in [Node -> SUBSET ((Obj \cup {None}) \X (Obj \cup {None}))]
         /\ cache' \in [Node -> Obj \cup {None}] /\ open' \in [Node -> Node \cup {None}]
<1> DEFINE G == Gone(c)
           M == Moved(c)
           S == ({c} \cup Ups(c)) \ (G \cup M)
<1>1. G \subseteq Node /\ M \subseteq Node /\ S = Stays(c) /\ S \subseteq Node /\ G \cap M = {} /\ G \cap S = {} /\ M \cap S = {}
  <2>1. Ups(c) \subseteq Node /\ c \in Node /\ c \notin Ups(c)
    BY Numbers DEF Ups, Opened, Live
  <2> QED
    BY <2>1 DEF Gone, Moved, Stays
<1>2. KeepInvariant = (gckind = "gen")
  <2>1. gcstate # "propagate"
    BY DEF Sweeping, SweepStates
  <2> QED
    BY <2>1 DEF KeepInvariant
<1> DEFINE Color(o) == CASE o \in G -> "w0"
                      [] o \in S /\ gckind # "gen" -> currentwhite
                      [] o \in M /\ mark[o] = "gray" ->
                           IF KeepInvariant THEN "black" ELSE currentwhite
                      [] OTHER -> mark[o]
           Age(o) == CASE o \in G \cup M -> FALSE
                       [] o \in S -> gckind = "gen"
                       [] OTHER -> old[o]
           Holds(o) == CASE o \in G -> {}
                         [] o \in M -> entries[c]
                         [] OTHER -> entries[o]
<1>3. /\ type' = [o \in Node |-> IF o \in G THEN "free" ELSE type[o]]
      /\ mode' = [o \in Node |-> IF o \in G THEN "strong" ELSE mode[o]]
      /\ cache' = [o \in Node |-> IF o \in G THEN None ELSE cache[o]]
      /\ finalized' = finalized \ G
      /\ mark' = [o \in Node |-> Color(o)]
      /\ old' = [o \in Node |-> Age(o)]
      /\ entries' = [o \in Node |-> Holds(o)]
      /\ open' = [o \in Node |-> IF o \in G \cup M THEN None ELSE open[o]]
      /\ allgc' = SetToSeq(M) \o Without(allgc, G)
      /\ finobj' = Without(finobj, G)
  BY Zenon DEF SweepOne, Freed, Gone, Moved, Ups
<1> HIDE DEF G, M, S
<1>30. \A o \in Node : Color(o) = IF o \in G THEN "w0"
                               ELSE IF o \in S /\ gckind # "gen" THEN currentwhite
                               ELSE IF o \in M /\ mark[o] = "gray" THEN IF gckind = "gen" THEN "black" ELSE currentwhite
                               ELSE mark[o]
  BY <1>1, <1>2
<1>31. \A o \in Node : Age(o) = IF o \in G \cup M THEN FALSE ELSE IF o \in S THEN gckind = "gen" ELSE old[o]
  BY <1>1
<1>32. \A o \in Node : Holds(o) = IF o \in G THEN {} ELSE IF o \in M THEN entries[c] ELSE entries[o]
  BY <1>1
<1> HIDE DEF Color, Age, Holds
<1>4. /\ \A o \in Node : type'[o] = IF o \in G THEN "free" ELSE type[o]
      /\ \A o \in Node : mode'[o] = IF o \in G THEN "strong" ELSE mode[o]
      /\ \A o \in Node : cache'[o] = IF o \in G THEN None ELSE cache[o]
      /\ \A o \in Node : open'[o] = IF o \in G \cup M THEN None ELSE open[o]
      /\ \A o \in Node : entries'[o] = IF o \in G THEN {} ELSE IF o \in M THEN entries[c] ELSE entries[o]
  BY <1>3, <1>32
<1>5. \A o \in Node : old'[o] = IF o \in G \cup M THEN FALSE ELSE IF o \in S THEN gckind = "gen" ELSE old[o]
  BY <1>3, <1>31
<1>6. \A o \in Node : mark'[o] = IF o \in G THEN "w0"
                               ELSE IF o \in S /\ gckind # "gen" THEN currentwhite
                               ELSE IF o \in M /\ mark[o] = "gray" THEN IF gckind = "gen" THEN "black" ELSE currentwhite
                               ELSE mark[o]
  BY <1>3, <1>30
<1>7. TypeInv
  BY DEF IInv
<1>8. /\ type' \in [Node -> Types \cup {"free"}] /\ mode' \in [Node -> {"strong", "weakv", "weakk", "weakkv"}]
      /\ cache' \in [Node -> Obj \cup {None}] /\ open' \in [Node -> Node \cup {None}]
  BY <1>3, <1>7 DEF TypeInv
<1>9. mark' \in [Node -> Whites \cup {"gray", "black"}]
  <2>1. \A o \in Node : mark'[o] \in Whites \cup {"gray", "black"}
    BY <1>6, <1>7 DEF TypeInv, Whites
  <2> QED
    BY <1>3, <2>1
<1>10. old' \in [Node -> BOOLEAN]
  <2>1. \A o \in Node : old'[o] \in BOOLEAN
    BY <1>5, <1>7 DEF TypeInv
  <2> QED
    BY <1>3, <2>1
<1>11. entries' \in [Node -> SUBSET ((Obj \cup {None}) \X (Obj \cup {None}))]
  <2>1. \A o \in Node : entries'[o] \in SUBSET ((Obj \cup {None}) \X (Obj \cup {None}))
    BY <1>4, <1>7, Numbers DEF TypeInv
  <2> QED
    BY <1>3, <2>1
<1>12. /\ \A o \in G : /\ type'[o] = "free" /\ mode'[o] = "strong" /\ cache'[o] = None
                       /\ mark'[o] = "w0" /\ old'[o] = FALSE /\ entries'[o] = {} /\ open'[o] = None
       /\ \A o \in Node \ G : type'[o] = type[o] /\ mode'[o] = mode[o] /\ cache'[o] = cache[o]
       /\ \A o \in M : /\ open'[o] = None /\ entries'[o] = entries[c] /\ old'[o] = FALSE
                       /\ mark'[o] = IF mark[o] # "gray" THEN mark[o]
                                     ELSE IF gckind = "gen" THEN "black" ELSE currentwhite
       /\ \A o \in Node \ (G \cup M) : open'[o] = open[o] /\ entries'[o] = entries[o]
  BY <1>1, <1>4, <1>5, <1>6
<1>13. /\ \A o \in S : old'[o] = (gckind = "gen") /\ mark'[o] = IF gckind = "gen" THEN mark[o] ELSE currentwhite
       /\ \A o \in Node \ (G \cup M \cup S) : mark'[o] = mark[o] /\ old'[o] = old[o]
  BY <1>1, <1>5, <1>6
<1> QED
  BY <1>1, <1>3, <1>8, <1>9, <1>10, <1>11, <1>12, <1>13 DEF G, M

(* Who is who in the sweep of an object.                                   *)
LEMMA SweptWho ==
  ASSUME IInv, NEW c \in Obj, c \in Live, open[c] = None, c \notin Elems(tobefnz)
  PROVE  /\ Gone(c) \subseteq Dead /\ Gone(c) \subseteq Obj /\ Moved(c) \subseteq Obj /\ Stays(c) \subseteq Obj
         /\ (c \in Gone(c) <=> c \in Dead) /\ (c \in Stays(c) <=> c \notin Dead) /\ c \notin Moved(c)
         /\ Moved(c) \cap Dead = {} /\ Stays(c) \cap Dead = {} /\ Moved(c) \subseteq Live /\ Stays(c) \subseteq Live
         /\ \A o \in (Gone(c) \cup Moved(c) \cup Stays(c)) \ {c} : open[o] = c /\ type[c] = "thread" /\ type[o] = "upval"
         /\ \A o \in Moved(c) : c \in Dead /\ type[c] = "thread" /\ open[o] = c
         /\ \A o \in Live : open[o] = c => o \in Gone(c) \cup Moved(c) \cup Stays(c)
         /\ \A o \in Live : open[o] = c /\ c \in Dead => o \in Gone(c) \cup Moved(c)
         /\ \A o \in Node : open[o] # None => open[o] \in Node /\ open[open[o]] = None /\ type[open[o]] = "thread"
         /\ \A o \in Node : open[o] # None /\ open[o] \in Gone(c) \cup Moved(c) \cup Stays(c) => open[o] = c
         /\ Moved(c) \cap (Elems(allgc) \cup Elems(finobj) \cup Elems(tobefnz)) = {}
         /\ (Elems(finobj) \cup Elems(tobefnz)) \cap Gone(c) = {}
<1>1. /\ \A o \in Ups(c) : o \in Live /\ open[o] = c /\ type[c] = "thread" /\ type[o] = "upval"
      /\ \A o \in Live : open[o] = c => o \in Ups(c)
      /\ c \notin Ups(c)
  BY Numbers DEF Ups, Opened, IInv, KindInv, Live
<1>2. Ups(c) \subseteq Obj
  <2>1. Ups(c) \subseteq Node /\ Main \notin Ups(c)
    BY <1>1, StackAlive, Numbers DEF Live, IInv
  <2> QED
    BY <2>1, Numbers
<1>3. \A o \in Node : open[o] # None => open[o] \in Node /\ open[open[o]] = None /\ type[open[o]] = "thread"
  BY Numbers DEF IInv, KindInv
<1>4. \A o \in Ups(c) : o \notin Elems(allgc) \cup Elems(finobj) \cup Elems(tobefnz)
  <2> SUFFICES ASSUME NEW o \in Ups(c) PROVE o \notin Elems(allgc) \cup Elems(finobj) \cup Elems(tobefnz)
    OBVIOUS
  <2>1. open[o] = c /\ o \in Obj /\ c # None
    BY <1>1, <1>2, Numbers
  <2> QED
    BY <2>1 DEF IInv, ListInv
<1>5. (Elems(finobj) \cup Elems(tobefnz)) \cap Dead = {}
  BY DEF IInv, Kept
<1>6. c # None
  BY Numbers
<1>7. Ups(c) \subseteq Live
  BY <1>1
<1>8. \A o \in Node : open[o] # None => open[o] \notin Ups(c)
  <2>1. \A o \in Ups(c) : open[o] # None
    BY <1>1, <1>6
  <2> QED
    BY <1>3, <2>1
<1>9. \A o \in Gone(c) \cup Moved(c) \cup Stays(c) : o = c \/ o \in Ups(c)
  BY DEF Gone, Moved, Stays
<1>10. /\ Gone(c) \subseteq Dead /\ Gone(c) \subseteq Obj /\ Moved(c) \subseteq Obj /\ Stays(c) \subseteq Obj
       /\ (c \in Gone(c) <=> c \in Dead) /\ (c \in Stays(c) <=> c \notin Dead) /\ c \notin Moved(c)
       /\ Moved(c) \cap Dead = {} /\ Stays(c) \cap Dead = {} /\ Moved(c) \subseteq Live /\ Stays(c) \subseteq Live
       /\ \A o \in Moved(c) : c \in Dead /\ o \in Ups(c)
       /\ \A o \in Ups(c) : o \in Gone(c) \cup Moved(c) \cup Stays(c)
       /\ \A o \in Ups(c) : c \in Dead => o \in Gone(c) \cup Moved(c)
  BY <1>1, <1>2, <1>7 DEF Gone, Moved, Stays
<1> QED
  BY <1>1, <1>3, <1>4, <1>5, <1>8, <1>9, <1>10

(* The lists after the sweep of an object.                                 *)
LEMMA SweptLists ==
  ASSUME IInv, NEW c \in Obj, c \in Live, open[c] = None, c \notin Elems(tobefnz),
         allgc' = SetToSeq(Moved(c)) \o Without(allgc, Gone(c)), finobj' = Without(finobj, Gone(c))
  PROVE  /\ allgc' \in Seq(Obj) /\ Distinct(allgc') /\ Elems(allgc') = Moved(c) \cup (Elems(allgc) \ Gone(c))
         /\ \A p \in Elems(allgc) \ Gone(c) : After(allgc', p) = After(allgc, p) \ Gone(c)
         /\ finobj' \in Seq(Obj) /\ Distinct(finobj') /\ Elems(finobj') = Elems(finobj)
         /\ \A p \in Elems(finobj) : After(finobj', p) = After(finobj, p)
<1> DEFINE r == SetToSeq(Moved(c))
           s == Without(allgc, Gone(c))
           f == Without(finobj, Gone(c))
<1>1. /\ allgc \in Seq(Obj) /\ Distinct(allgc) /\ finobj \in Seq(Obj) /\ Distinct(finobj)
      /\ Moved(c) \subseteq Obj /\ Moved(c) \cap Elems(allgc) = {} /\ Elems(finobj) \cap Gone(c) = {}
  BY SweptWho DEF IInv, TypeInv, ListInv
<1>2. r \in Seq(Obj) /\ Distinct(r) /\ Elems(r) = Moved(c)
  BY <1>1, ListOfSet
<1>3. /\ s \in Seq(Obj) /\ Distinct(s) /\ Elems(s) = Elems(allgc) \ Gone(c)
      /\ \A p \in Elems(allgc) \ Gone(c) : After(s, p) = After(allgc, p) \ Gone(c)
  BY <1>1, ListWithout
<1>4. /\ f \in Seq(Obj) /\ Distinct(f) /\ Elems(f) = Elems(finobj) \ Gone(c)
      /\ \A p \in Elems(finobj) \ Gone(c) : After(f, p) = After(finobj, p) \ Gone(c)
  BY <1>1, ListWithout
<1>5. \A p : After(finobj, p) \subseteq Elems(finobj)
  BY AfterIn
<1>6. allgc' = r \o s /\ finobj' = f
  OBVIOUS
<1> HIDE DEF r, s, f
<1>7. /\ r \o s \in Seq(Obj) /\ Distinct(r \o s) /\ Elems(r \o s) = Elems(r) \cup Elems(s)
      /\ \A p \in Elems(s) : After(r \o s, p) = After(s, p)
  <2>1. Elems(r) \cap Elems(s) = {}
    BY <1>1, <1>2, <1>3
  <2> QED
    BY <1>2, <1>3, <2>1, ListConcat
<1>8. Elems(allgc') = Moved(c) \cup (Elems(allgc) \ Gone(c))
  BY <1>2, <1>3, <1>6, <1>7
<1>9. \A p \in Elems(allgc) \ Gone(c) : After(allgc', p) = After(allgc, p) \ Gone(c)
  BY <1>3, <1>6, <1>7
<1>10. Elems(finobj') = Elems(finobj) /\ \A p \in Elems(finobj) : After(finobj', p) = After(finobj, p)
  BY <1>1, <1>4, <1>5, <1>6
<1> QED
  BY <1>4, <1>6, <1>7, <1>8, <1>9, <1>10

(* The sweep of an object keeps everything, if what is ahead of the sweep  *)
(* afterwards is all that was but this object.                             *)
LEMMA SweepKeeps ==
  ASSUME IInv, ~Over, Sweeping, NEW c \in Obj, c \in Live, open[c] = None, c \notin Elems(tobefnz),
         ~Stops(c), SweepOne(c),
         UNCHANGED <<tobefnz, gray, grayagain, weak, allweak, ephemeron, profile, owed>>,
         UNCHANGED <<currentwhite, gckind, pending, goal, kind0>>,
         gcstate' \in SweepStates, sweepgc' \in Obj \cup {None, Start}, sweepfin' \in Obj \cup {None, Start},
         sweepstr' \subseteq Obj, PointInv', Listed \ {c} \subseteq Listed',
         pending # None => gcstate' \notin {"enterfin", "enterall"},
         gckind = "gen" => OldRun(allgc, InAll)' /\ OldRun(finobj, InFin)'
  PROVE  IInv'
<1> DEFINE G == Gone(c)
           M == Moved(c)
           S == Stays(c)
<1>1. /\ \A o \in G : /\ type'[o] = "free" /\ mode'[o] = "strong" /\ cache'[o] = None
                      /\ mark'[o] = "w0" /\ old'[o] = FALSE /\ entries'[o] = {} /\ open'[o] = None
      /\ \A o \in Node \ G : type'[o] = type[o] /\ mode'[o] = mode[o] /\ cache'[o] = cache[o]
      /\ \A o \in M : /\ open'[o] = None /\ entries'[o] = entries[c] /\ old'[o] = FALSE
                      /\ mark'[o] = IF mark[o] # "gray" THEN mark[o]
                                    ELSE IF gckind = "gen" THEN "black" ELSE currentwhite
      /\ \A o \in Node \ (G \cup M) : open'[o] = open[o] /\ entries'[o] = entries[o]
      /\ \A o \in S : old'[o] = (gckind = "gen") /\ mark'[o] = IF gckind = "gen" THEN mark[o] ELSE currentwhite
      /\ \A o \in Node \ (G \cup M \cup S) : mark'[o] = mark[o] /\ old'[o] = old[o]
      /\ finalized' = finalized \ G
  BY SweptOne
<1>2. /\ type' \in [Node -> Types \cup {"free"}] /\ mark' \in [Node -> Whites \cup {"gray", "black"}]
      /\ old' \in [Node -> BOOLEAN] /\ mode' \in [Node -> {"strong", "weakv", "weakk", "weakkv"}]
      /\ entries' \in [Node -> SUBSET ((Obj \cup {None}) \X (Obj \cup {None}))]
      /\ cache' \in [Node -> Obj \cup {None}] /\ open' \in [Node -> Node \cup {None}]
      /\ allgc' = SetToSeq(Moved(c)) \o Without(allgc, Gone(c)) /\ finobj' = Without(finobj, Gone(c))
  BY SweptOne
<1>3. /\ G \subseteq Dead /\ G \subseteq Obj /\ M \subseteq Obj /\ S \subseteq Obj
      /\ (c \in G <=> c \in Dead) /\ (c \in S <=> c \notin Dead) /\ c \notin M
      /\ M \cap Dead = {} /\ S \cap Dead = {} /\ M \subseteq Live /\ S \subseteq Live
      /\ \A o \in (G \cup M \cup S) \ {c} : open[o] = c /\ type[c] = "thread" /\ type[o] = "upval"
      /\ \A o \in M : c \in Dead /\ type[c] = "thread" /\ open[o] = c
      /\ \A o \in Live : open[o] = c => o \in G \cup M \cup S
      /\ \A o \in Live : open[o] = c /\ c \in Dead => o \in G \cup M
      /\ \A o \in Node : open[o] # None => open[o] \in Node /\ open[open[o]] = None /\ type[open[o]] = "thread"
      /\ \A o \in Node : open[o] # None /\ open[o] \in G \cup M \cup S => open[o] = c
      /\ M \cap (Elems(allgc) \cup Elems(finobj) \cup Elems(tobefnz)) = {}
      /\ (Elems(finobj) \cup Elems(tobefnz)) \cap G = {}
  BY SweptWho
<1>4. /\ allgc' \in Seq(Obj) /\ Distinct(allgc') /\ Elems(allgc') = M \cup (Elems(allgc) \ G)
      /\ finobj' \in Seq(Obj) /\ Distinct(finobj') /\ Elems(finobj') = Elems(finobj)
  BY <1>2, SweptLists
<1> HIDE DEF G, M, S
<1>5. /\ gcstate # "propagate" /\ gcstate' # "propagate" /\ Sweeping' /\ ~Over' /\ goal # "regen" /\ gcstate' # "pause"
      /\ KeepInvariant <=> gckind = "gen"
      /\ gckind = "gen" => goal = "minor" /\ Young
      /\ goal # "none" => pending = None
  BY DEF Sweeping, SweepStates, IInv, GoalInv, Over, KeepInvariant
<1>6. /\ c \in Node /\ Main \notin G \cup M \cup S /\ G \subseteq Node /\ M \subseteq Node /\ S \subseteq Node
      /\ c # None
  BY <1>3, Numbers
<1>7. /\ Other' = Other /\ Other # currentwhite /\ Other \notin {"gray", "black"} /\ currentwhite \notin {"gray", "black"}
      /\ Whites = {Other, currentwhite}
  BY Colors DEF Other, IInv
<1>8. Live' = Live \ G /\ Dead' = Dead \ G /\ Live' \ Dead' = Live \ Dead
  <2>1. Live' = Live \ G
    BY <1>1, <1>6 DEF Live
  <2>2. ASSUME NEW o \in Live \ G PROVE mark'[o] = Other <=> mark[o] = Other
    <3>1. o \in Node
      BY DEF Live
    <3>2. o \in S => mark[o] # Other
      BY <1>3 DEF Dead
    <3> QED
      BY <1>1, <1>7, <3>1, <3>2
  <2>3. Dead' = Dead \ G
    BY <1>7, <2>1, <2>2 DEF Dead
  <2> QED
    BY <1>3, <2>1, <2>3
<1>9. ASSUME NEW o \in Live \ Dead PROVE Leads(o)' = Leads(o)
  <2>1. o \in Node \ G /\ cache'[o] = cache[o]
    BY <1>1, <1>3 DEF Live
  <2>2. CASE o \in M
    <3>1. open[o] = c /\ c \in Node /\ type[c] # "table" /\ open'[o] = None /\ entries'[o] = entries[c] /\ type[o] # "table"
      BY <1>1, <1>3, <1>6, <2>2
    <3>2. \A e \in entries[c] : e[1] = None
      BY <3>1 DEF IInv, KindInv
    <3>3. Vals(o)' = Vals(c) /\ Keys(o)' = {}
      BY <3>1, <3>2 DEF Vals, Keys
    <3>4. Leads(o)' = Vals(c) \cup ({cache[o]} \ {None})
      BY <2>1, <3>1, <3>3 DEF Leads, Refs
    <3>5. Leads(o) = Vals(c) \cup ({cache[o]} \ {None})
      BY <1>6, <3>1 DEF Leads
    <3> QED
      BY <3>4, <3>5
  <2>3. CASE o \notin M
    <3>1. open'[o] = open[o] /\ entries'[o] = entries[o]
      BY <1>1, <2>1, <2>3
    <3>2. open[o] # None => open[o] \in Node \ (G \cup M)
      <4>1. open[o] # c \/ open[o] \notin G \cup M
        <5>1. CASE open[o] = c /\ c \in Dead
          BY <1>3, <2>1, <2>3, <5>1
        <5>2. CASE open[o] = c /\ c \notin Dead
          BY <1>3, <5>2
        <5> QED
          BY <5>1, <5>2
      <4> QED
        BY <1>3, <2>1, <4>1
    <3>3. open[o] # None => entries'[open[o]] = entries[open[o]]
      BY <1>1, <3>2
    <3> QED
      BY <2>1, <3>1, <3>3 DEF Leads, Refs, Vals, Keys
  <2> QED
    BY <2>2, <2>3
<1>10. Sound'
  BY <1>8, <1>9 DEF IInv, Sound
<1>11. Elems(tobefnz)' = Elems(tobefnz) /\ Distinct(tobefnz)'
  BY DEF Elems, IInv, ListInv, Distinct
<1>12. Kept'
  BY <1>4, <1>8, <1>11 DEF IInv, Kept
<1>13. TypeInv'
  <2>1. type'[Main] = "thread"
    BY <1>1, <1>6, Numbers DEF IInv, TypeInv
  <2>2. TypeInv
    BY DEF IInv
  <2> QED
    BY <1>1, <1>2, <1>4, <2>1, <2>2 DEF TypeInv
<1>14. FinInv'
  <2>1. Elems(tobefnz) \cap G = {} /\ Elems(finobj)' = Elems(finobj)
    BY <1>3, <1>4
  <2> QED
    BY <1>1, <1>5, <1>11, <2>1 DEF IInv, FinInv, Over
<1>15. PendingInv'
  <2> SUFFICES ASSUME pending # None PROVE PendingInv'
    BY DEF PendingInv
  <2>1. /\ pending \in Elems(allgc) /\ pending \notin finalized /\ pending \notin Dead /\ goal = "none"
        /\ type[pending] \in {"udata", "table"} /\ mode[pending] = "strong"
    BY DEF IInv, PendingInv
  <2>2. pending \in Node \ G
    BY <1>3, <2>1, ListsIn, Numbers DEF IInv
  <2> QED
    BY <1>1, <1>4, <1>8, <2>1, <2>2 DEF PendingInv
<1>16. ListInv'
  <2>1. /\ Elems(allgc') \cap Elems(finobj') = {} /\ Elems(allgc') \cap Elems(tobefnz) = {}
        /\ Elems(finobj') \cap Elems(tobefnz) = {}
    BY <1>3, <1>4 DEF IInv, ListInv
  <2>2. ASSUME NEW o \in Obj
        PROVE  o \in Elems(allgc') \cup Elems(finobj') \cup Elems(tobefnz) <=> type'[o] \notin {"free", "string"} /\ open'[o] = None
    <3>1. o \in Node
      BY Numbers
    <3>2. CASE o \in G
      <4>1. type'[o] = "free" /\ o \notin M
        BY <1>1, <1>3, <3>2
      <4> QED
        BY <1>3, <1>4, <3>2, <4>1
    <3>3. CASE o \in M
      <4>1. o \notin G /\ type[o] = "upval"
        BY <1>3, <3>3
      <4> QED
        BY <1>1, <1>4, <3>1, <3>3, <4>1
    <3>4. CASE o \notin G /\ o \notin M
      BY <1>1, <1>4, <3>1, <3>4 DEF IInv, ListInv
    <3> QED
      BY <3>2, <3>3, <3>4
  <2>3. \A o \in Elems(finobj') \cup Elems(tobefnz) : type'[o] \in {"udata", "table"} /\ mode'[o] = "strong"
    <3> SUFFICES ASSUME NEW o \in Elems(finobj) \cup Elems(tobefnz) PROVE type'[o] \in {"udata", "table"} /\ mode'[o] = "strong"
      BY <1>4
    <3>1. o \in Node \ G
      BY <1>3, ListsIn, Numbers DEF IInv
    <3> QED
      BY <1>1, <3>1 DEF IInv, ListInv
  <2> QED
    BY <1>4, <1>11, <2>1, <2>2, <2>3 DEF ListInv
<1>17. KindInv'
  <2> SUFFICES ASSUME NEW o \in Node
      PROVE /\ type'[o] = "free" => ~old'[o]
            /\ type'[o] \in {"free", "string"} => entries'[o] = {}
            /\ mode'[o] # "strong" => type'[o] = "table"
            /\ type'[o] # "table" => \A e \in entries'[o] : e[1] = None
            /\ cache'[o] # None => type'[o] = "proto"
            /\ open'[o] # None =>
                 /\ type'[o] = "upval" /\ open'[o] \in Obj /\ type'[open'[o]] = "thread"
                 /\ mark'[o] # "black" /\ entries'[o] = {}
            /\ type'[o] = "thread" => mark'[o] # "black"
    BY DEF KindInv
  <2>1. CASE o \in G
    BY <1>1, <2>1
  <2>2. CASE o \in M
    <3>1. /\ o \notin G /\ type'[o] = "upval" /\ mode'[o] = mode[o] /\ cache'[o] = cache[o] /\ type[o] = "upval"
          /\ open'[o] = None /\ entries'[o] = entries[c] /\ type[c] = "thread"
      BY <1>1, <1>3, <2>2
    <3>2. \A e \in entries[c] : e[1] = None
      BY <1>6, <3>1 DEF IInv, KindInv
    <3> QED
      BY <3>1, <3>2 DEF IInv, KindInv
  <2>3. CASE o \notin G /\ o \notin M
    <3>1. /\ type'[o] = type[o] /\ mode'[o] = mode[o] /\ cache'[o] = cache[o]
          /\ open'[o] = open[o] /\ entries'[o] = entries[o]
      BY <1>1, <2>3
    <3>2. mark'[o] = "black" => mark[o] = "black"
      BY <1>1, <1>7, <2>3
    <3>3. type[o] = "free" => ~old'[o]
      <4>1. type[o] = "free" => o \notin S /\ ~old[o]
        BY <1>3, <1>5 DEF Live, IInv, KindInv, Over
      <4> QED
        BY <1>1, <2>3, <4>1
    <3>4. open[o] # None => type'[open[o]] = "thread"
      <4>1. CASE open[o] # None
        <5>0. type[o] = "upval" /\ o \in Live
          BY <4>1 DEF IInv, KindInv, Live
        <5>1. open[o] \in G => c \in Dead /\ open[o] = c
          BY <1>3, <4>1
        <5>2. open[o] \notin G
          BY <1>3, <2>3, <5>0, <5>1
        <5> QED
          BY <1>1, <1>3, <4>1, <5>2
      <4> QED
        BY <4>1
    <3> QED
      BY <3>1, <3>2, <3>3, <3>4 DEF IInv, KindInv
  <2> QED
    BY <2>1, <2>2, <2>3
<1>18. ASSUME NEW o \in Live \ G, Stale(o) PROVE o \notin M /\ Stale(o)'
  <2>1. o \in Node /\ gckind = "gen" /\ open[o] # None /\ old[open[o]]
    BY <1>18 DEF Stale, Live
  <2>2. open[o] = c => c \notin Dead
    <3>1. \A x \in Dead : mark[x] \in Whites /\ x \in Live
      BY <1>7 DEF Dead
    <3> QED
      BY <2>1, <3>1 DEF IInv, OldInv
  <2>3. o \notin M
    BY <1>3, <2>2
  <2>4. open[o] \notin G /\ open[o] \notin M
    BY <1>3, <2>1, <2>2
  <2>5. old'[open[o]]
    BY <1>1, <1>3, <2>1, <2>4
  <2> QED
    BY <1>1, <1>18, <2>1, <2>3, <2>5 DEF Stale
<1>19. ASSUME NEW o \in Live, o \in Unswept, o \notin G \cup M \cup S PROVE o \in Unswept'
  <2>1. CASE o \in Listed
    BY <1>3, <1>19, <2>1 DEF Unswept
  <2>2. CASE o \notin Listed
    <3>1. open[o] \in Listed /\ o \in Node
      BY <1>19, <2>2 DEF Unswept, Live
    <3>2. open[o] # c
      BY <1>3, <1>19
    <3>3. open'[o] = open[o] /\ o \in Live'
      BY <1>1, <1>8, <1>19, <3>1
    <3> QED
      BY <3>1, <3>2, <3>3 DEF Unswept
  <2> QED
    BY <2>1, <2>2
<1>20. GoalInv'
  <2>1. goal = "minor" => Young'
    <3> SUFFICES ASSUME goal = "minor", NEW o \in Live', mark'[o] = currentwhite PROVE Stale(o)'
      BY DEF Young
    <3>1. o \in Live \ G /\ o \in Node /\ gckind = "gen" /\ Young
      BY <1>5, <1>8 DEF IInv, GoalInv, Live
    <3>2. mark[o] = currentwhite
      BY <1>1, <1>7, <3>1
    <3>3. Stale(o)
      BY <3>1, <3>2 DEF Young
    <3> QED
      BY <1>18, <3>1, <3>3
  <2> QED
    BY <1>5, <2>1 DEF IInv, GoalInv, Over
<1>21. SweptInv'
  <2>1. ASSUME NEW o \in Dead' PROVE (Sweeping' /\ o \in Unswept') \/ Stale(o)'
    <3>1. o \in Live \ G /\ o \in Dead
      BY <1>3, <1>8 DEF Dead
    <3>2. CASE Stale(o)
      BY <1>18, <3>1, <3>2
    <3>3. CASE o \in Unswept
      BY <1>3, <1>5, <1>19, <3>1, <3>3
    <3> QED
      BY <3>1, <3>2, <3>3 DEF IInv, SweptInv
  <2>2. ASSUME gckind = "normal", NEW o \in Live' \ Elems(tobefnz) PROVE mark'[o] = currentwhite \/ (Sweeping' /\ o \in Unswept')
    <3>1. o \in Live \ G /\ o \in Node
      BY <1>8 DEF Live
    <3>2. CASE o \in S
      BY <1>1, <2>2, <3>2
    <3>3. CASE o \in M
      <4>1. mark[o] # "black" /\ mark[o] # Other /\ mark[o] \in Whites \cup {"gray", "black"}
        BY <1>3, <1>6, <3>1, <3>3 DEF IInv, KindInv, Dead, TypeInv
      <4> QED
        BY <1>1, <1>7, <2>2, <3>3, <4>1
    <3>4. CASE o \notin S /\ o \notin M
      <4>1. mark'[o] = mark[o]
        BY <1>1, <3>1, <3>4
      <4>2. mark[o] = currentwhite \/ o \in Unswept
        BY <1>5, <2>2, <3>1 DEF IInv, SweptInv
      <4> QED
        BY <1>5, <1>19, <3>1, <3>4, <4>1, <4>2
    <3> QED
      BY <3>2, <3>3, <3>4
  <2> QED
    BY <1>11, <2>1, <2>2 DEF SweptInv
<1>22. GrayInv'
  <2> SUFFICES ASSUME gckind = "gen" PROVE GrayInv'
    BY <1>5 DEF GrayInv, KeepInvariant, IInv, TypeInv
  <2>1. KeepInvariant /\ goal # "closed"
    BY <1>5 DEF Over
  <2>2. /\ \A o \in Live \ White : Leads(o) \cap White = {}
        /\ \A o \in Live : mark[o] = "gray" /\ open[o] = None => o \in Grays
        /\ \A o \in Grays : mark[o] = "gray" /\ type[o] \in {"table", "closure", "proto", "thread"}
    BY <1>5, <2>1 DEF IInv, GrayInv
  <2>3. \A o \in Live \ G : mark'[o] = mark[o] \/ (o \in M /\ mark[o] = "gray" /\ mark'[o] = "black")
    BY <1>1 DEF Live
  <2>4. White' = White \ G
    BY <1>7, <1>8, <2>3 DEF White
  <2>5. \A o \in Dead : o \in White
    BY <1>7 DEF Dead, White
  <2>6. \A o \in Live' \ White' : Leads(o)' \cap White' = {}
    BY <1>8, <1>9, <2>2, <2>4, <2>5
  <2>7. \A o \in Live' : mark'[o] = "gray" /\ open'[o] = None => o \in Grays
    <3> SUFFICES ASSUME NEW o \in Live', mark'[o] = "gray", open'[o] = None PROVE o \in Grays
      OBVIOUS
    <3>1. o \in Live \ G /\ o \in Node /\ mark[o] = "gray" /\ o \notin M
      BY <1>1, <1>8, <2>3, <1>7 DEF Live
    <3>2. open'[o] = open[o]
      BY <1>1, <3>1
    <3> QED
      BY <2>2, <3>1, <3>2
  <2>8. \A o \in Grays : o \in Node \ G /\ o \notin M /\ mark'[o] = "gray" /\ type'[o] = type[o] /\ mode'[o] = mode[o]
    <3> SUFFICES ASSUME NEW o \in Grays PROVE o \in Node \ G /\ o \notin M /\ mark'[o] = "gray" /\ type'[o] = type[o] /\ mode'[o] = mode[o]
      OBVIOUS
    <3>1. o \in Node /\ mark[o] = "gray" /\ type[o] \in {"table", "closure", "proto", "thread"}
      BY <2>2 DEF Grays, IInv, TypeInv
    <3>2. o \notin G
      BY <1>3, <1>7, <3>1 DEF Dead
    <3>3. o \notin M
      BY <1>3, <3>1
    <3> QED
      BY <1>1, <2>3, <3>1, <3>2, <3>3 DEF Live
  <2>9. /\ Grays' = Grays /\ weak \subseteq Grays /\ ephemeron \subseteq Grays /\ allweak \subseteq Grays
        /\ mark'[Main] = mark[Main]
    BY <1>1, <1>6, Numbers DEF Grays
  <2> QED
    BY <1>5, <2>1, <2>2, <2>6, <2>7, <2>8, <2>9 DEF IInv, GrayInv
<1>23. OldInv'
  <2>1. ASSUME NEW o \in Live', old'[o] PROVE mark'[o] \notin Whites
    <3>1. o \in Live \ G /\ o \in Node /\ o \notin M
      BY <1>1, <1>8, <2>1 DEF Live
    <3>2. CASE o \in S
      <4>1. gckind = "gen" /\ mark'[o] = mark[o] /\ Young /\ mark[o] # Other
        <5>1. old'[o] = (gckind = "gen") /\ mark'[o] = IF gckind = "gen" THEN mark[o] ELSE currentwhite
          BY <1>1, <3>2
        <5>2. gckind = "gen"
          BY <2>1, <5>1, Zenon
        <5>3. o \notin Dead
          BY <1>3, <3>2
        <5> QED
          BY <1>5, <3>1, <5>1, <5>2, <5>3 DEF Dead
      <4>2. ASSUME Stale(o) PROVE FALSE
        <5>1. o # c
          BY <4>2 DEF Stale
        <5>2. open[o] = c /\ c \notin Dead
          BY <1>3, <3>2, <5>1 DEF Stays, S
        <5> QED
          BY <4>1, <4>2, <5>2 DEF Stale, Stops
      <4>3. mark[o] # currentwhite
        BY <3>1, <4>1, <4>2 DEF Young
      <4> QED
        BY <1>7, <4>1, <4>3
    <3>3. CASE o \notin S
      BY <1>1, <2>1, <3>1, <3>3 DEF IInv, OldInv
    <3> QED
      BY <3>2, <3>3
  <2>2. \A o \in Elems(tobefnz) : ~old'[o]
    <3> SUFFICES ASSUME NEW o \in Elems(tobefnz) PROVE ~old'[o]
      OBVIOUS
    <3>1. o \in Node \ G /\ o \notin M /\ type[o] \in {"udata", "table"}
      BY <1>3, ListsIn, Numbers DEF IInv, ListInv
    <3>2. o \notin S
      BY <1>3, <3>1
    <3> QED
      BY <1>1, <3>1, <3>2 DEF IInv, OldInv
  <2>3. ASSUME gckind = "normal", NEW o \in Live', old'[o] PROVE goal \in {"finish", "whiten"} /\ o \in Unswept'
    <3>1. o \in Live \ G /\ o \in Node /\ o \notin M /\ o \notin S
      BY <1>1, <1>8, <2>3 DEF Live
    <3>2. old[o]
      BY <1>1, <2>3, <3>1
    <3> QED
      BY <1>19, <2>3, <3>1, <3>2 DEF IInv, OldInv
  <2> QED
    BY <1>5, <1>11, <2>1, <2>2, <2>3 DEF OldInv
<1> QED
  BY <1>10, <1>12, <1>13, <1>14, <1>15, <1>16, <1>17, <1>20, <1>21, <1>22, <1>23 DEF IInv

(* What a sweep can come to.                                               *)
LEMMA Listable ==
  ASSUME IInv, NEW c \in Elems(allgc) \cup Elems(finobj)
  PROVE  /\ c \in Obj /\ c \in Live /\ open[c] = None /\ c \notin Elems(tobefnz) /\ type[c] # "string"
         /\ c \in Elems(finobj) => c \notin Dead /\ type[c] \in {"udata", "table"}
<1>1. c \in Obj
  BY ListsIn DEF IInv
<1> QED
  BY <1>1, Numbers DEF IInv, ListInv, Kept, Live

(* The sweep of an object of the first list.                               *)
LEMMA SweepAll ==
  ASSUME IInv, ~Over, Sweeping, gcstate # "enterfin", gcstate' # "enterfin", UNCHANGED gckind,
         NEW p \in Elems(allgc) \cup {Start}, sweepgc = p, NEW c, c = At(allgc, p), ~Stops(c), SweepOne(c),
         sweepgc' = Beyond(allgc, p)
  PROVE  /\ c \in Elems(allgc) /\ InAll \ {c} \subseteq InAll'
         /\ sweepgc' = (IF c \in Dead THEN p ELSE c) /\ sweepgc' \in Elems(allgc') \cup {Start}
         /\ gckind = "gen" => OldRun(allgc, InAll)'
         /\ Elems(finobj') = Elems(finobj) /\ \A x \in Elems(finobj) : After(finobj', x) = After(finobj, x)
         /\ gckind = "gen" /\ InFin' = InFin => OldRun(finobj, InFin)'
         /\ \A x \in Node : x \notin Dead => type'[x] = type[x]
         /\ c \notin Dead => Live' = Live \/ type[c] = "thread"
<1>1. allgc \in Seq(Obj) /\ Distinct(allgc) /\ p # None /\ Start # None /\ Start \notin Obj
  BY ListsIn, Numbers DEF IInv, TypeInv, ListInv
<1>2. /\ c \in Elems(allgc) /\ c # p /\ c # None
      /\ Rest(allgc, p) = {c} \cup After(allgc, c) /\ c \notin After(allgc, c) /\ p \notin Rest(allgc, p)
  BY <1>1, ListAt DEF Stops
<1>3. c \in Obj /\ c \in Live /\ open[c] = None /\ c \notin Elems(tobefnz) /\ c \in Node
  BY <1>2, Listable, Numbers
<1> DEFINE G == Gone(c)
           M == Moved(c)
           S == Stays(c)
<1>40. /\ \A o \in Node \ G : type'[o] = type[o] /\ mode'[o] = mode[o] /\ cache'[o] = cache[o]
       /\ \A o \in M : /\ open'[o] = None /\ entries'[o] = entries[c] /\ old'[o] = FALSE
                       /\ mark'[o] = IF mark[o] # "gray" THEN mark[o]
                                     ELSE IF gckind = "gen" THEN "black" ELSE currentwhite
       /\ \A o \in S : old'[o] = (gckind = "gen") /\ mark'[o] = IF gckind = "gen" THEN mark[o] ELSE currentwhite
       /\ \A o \in Node \ (G \cup M \cup S) : mark'[o] = mark[o] /\ old'[o] = old[o]
       /\ allgc' = SetToSeq(M) \o Without(allgc, G) /\ finobj' = Without(finobj, G)
  BY <1>3, SweptOne
<1>4. /\ \A o \in M : old'[o] = FALSE
      /\ \A o \in S : old'[o] = (gckind = "gen")
      /\ \A o \in Node \ (G \cup M \cup S) : old'[o] = old[o]
      /\ allgc' = SetToSeq(M) \o Without(allgc, G) /\ finobj' = Without(finobj, G)
      /\ \A o \in Node \ G : type'[o] = type[o]
  BY <1>40, Zenon
<1>5. /\ (c \in G <=> c \in Dead) /\ (c \in S <=> c \notin Dead) /\ c \notin M /\ M \subseteq Obj /\ G \subseteq Dead
      /\ \A o \in (G \cup M \cup S) \ {c} : open[o] = c /\ type[c] = "thread" /\ type[o] = "upval"
  BY <1>3, SweptWho
<1>6. /\ Elems(allgc') = M \cup (Elems(allgc) \ G)
      /\ \A x \in Elems(allgc) \ G : After(allgc', x) = After(allgc, x) \ G
      /\ Elems(finobj') = Elems(finobj)
      /\ \A x \in Elems(finobj) : After(finobj', x) = After(finobj, x)
  BY <1>3, <1>4, SweptLists
<1>7. \A o \in Elems(allgc) \cup Elems(finobj) : o \in Node /\ (o \in G \cup M \cup S => o = c)
  <2> SUFFICES ASSUME NEW o \in Elems(allgc) \cup Elems(finobj), o \in G \cup M \cup S, o # c PROVE FALSE
    BY ListsIn, Numbers DEF IInv
  <2>1. open[o] = c /\ open[o] = None
    BY <1>5, Listable
  <2> QED
    BY <1>2, <2>1
<1>8. c \in Dead => M \cap Elems(allgc) = {} /\ S = {}
  BY <1>5, <1>7 DEF Stays
<1> HIDE DEF G, M, S
<1>9. sweepgc' = IF c \in Dead THEN p ELSE c
  BY Zenon DEF Beyond
<1>10. p \notin G
  <2>1. CASE p = Start
    BY <1>5, <1>1, <2>1, Numbers DEF Dead, Live
  <2>2. CASE p # Start
    <3>1. p \in G => p = c
      BY <1>7, <2>2
    <3> QED
      BY <1>2, <3>1
  <2> QED
    BY <2>1, <2>2
<1>11. sweepgc' \in Elems(allgc') \cup {Start} /\ sweepgc' # None
  BY <1>1, <1>2, <1>5, <1>6, <1>9, <1>10
<1>12. InAll = {c} \cup After(allgc, c) /\ InAll = Rest(allgc, p) /\ InAll' = Rest(allgc', sweepgc')
  BY <1>2 DEF InAll
<1>13. \A x : After(allgc, x) \subseteq Elems(allgc)
  BY AfterIn
<1>14. ASSUME NEW x \in Elems(allgc) \ G PROVE x \in InAll' <=> x \in InAll /\ (c \notin Dead => x # c)
  <2>1. CASE c \in Dead /\ p = Start
    <3>1. InAll = Elems(allgc) /\ InAll' = Elems(allgc')
      BY <1>1, <1>9, <1>12, <2>1 DEF Rest
    <3> QED
      BY <1>6, <2>1, <3>1
  <2>2. CASE c \in Dead /\ p # Start
    <3>1. InAll = After(allgc, p) /\ InAll' = After(allgc', p)
      BY <1>1, <1>9, <1>12, <2>2 DEF Rest
    <3>2. After(allgc', p) = After(allgc, p) \ G
      BY <1>6, <1>10, <2>2
    <3> QED
      BY <1>14, <2>2, <3>1, <3>2
  <2>3. CASE c \notin Dead
    <3>1. InAll' = After(allgc', c) /\ c \notin G
      BY <1>1, <1>2, <1>3, <1>5, <1>9, <1>12, <2>3, Numbers DEF Rest
    <3>2. InAll' = After(allgc, c) \ G
      BY <1>2, <1>6, <3>1
    <3> QED
      BY <1>2, <1>12, <1>14, <2>3, <3>2
  <2> QED
    BY <2>1, <2>2, <2>3
<1>15. InAll \ {c} \subseteq InAll'
  <2>1. \A x \in InAll \ {c} : x \in Elems(allgc) \ G
    BY <1>7, <1>12, <1>13
  <2> QED
    BY <1>14, <2>1
<1>16. ASSUME gckind = "gen" PROVE OldRun(allgc, InAll)'
  <2>1. OldRun(allgc, InAll)
    BY <1>16 DEF IInv, OldInv
  <2>2. ~old[c] /\ (c \notin Dead => old'[c])
    <3>1. c \in Dead => ~old[c]
      <4>1. c \in Dead => mark[c] \in Whites
        BY Colors DEF Dead, IInv
      <4> QED
        BY <1>3, <4>1 DEF IInv, OldInv
    <3>2. c \notin Dead => ~old[c] /\ c \in S
      BY <1>5, <1>16 DEF Stops
    <3>3. c \in S => old'[c]
      <4> SUFFICES ASSUME c \in S PROVE old'[c]
        OBVIOUS
      <4>1. old'[c] = (gckind = "gen")
        BY <1>4
      <4> QED
        BY <1>16, <4>1, Zenon
    <3> QED
      BY <3>1, <3>2, <3>3
  <2> SUFFICES ASSUME NEW x \in Elems(allgc'), NEW y \in After(allgc', x), old'[x], x \in InAll' \/ y \notin InAll'
               PROVE  old'[y]
    BY DEF OldRun
  <2>3. x \in Elems(allgc) \ G
    BY <1>4, <1>6
  <2>4. y \in After(allgc, x) \ G /\ y \in Elems(allgc) \ G
    BY <1>6, <1>13, <2>3
  <2>5. CASE y = c
    BY <1>5, <2>2, <2>4, <2>5
  <2>6. CASE y # c
    <3>1. (x \in InAll' <=> x \in InAll /\ (c \notin Dead => x # c)) /\ (y \in InAll' <=> y \in InAll)
      BY <1>14, <2>3, <2>4, <2>6
    <3>2. x # c
      <4> SUFFICES ASSUME x = c PROVE FALSE
        OBVIOUS
      <4>1. c \notin Dead /\ y \in InAll /\ y \notin InAll'
        BY <1>5, <1>12, <2>3, <2>4, <3>1
      <4> QED
        BY <3>1, <4>1
    <3>3. old'[x] = old[x] /\ old'[y] = old[y]
      BY <1>4, <1>7, <2>3, <2>4, <2>6, <3>2
    <3> QED
      BY <2>1, <2>3, <2>4, <3>1, <3>3 DEF OldRun
  <2> QED
    BY <2>5, <2>6
<1>17. ASSUME gckind = "gen", InFin' = InFin PROVE OldRun(finobj, InFin)'
  <2>1. OldRun(finobj, InFin)
    BY <1>17 DEF IInv, OldInv
  <2>2. \A x \in Elems(finobj) : x # c /\ old'[x] = old[x]
    <3>1. c \notin Elems(finobj)
      BY <1>2 DEF IInv, ListInv
    <3> QED
      BY <1>4, <1>7, <3>1
  <2>3. \A x : After(finobj, x) \subseteq Elems(finobj)
    BY AfterIn
  <2> QED
    BY <1>6, <1>17, <2>1, <2>2, <2>3 DEF OldRun
<1>18. \A x \in Node : x \notin Dead => type'[x] = type[x]
  BY <1>4, <1>5
<1>19. c \notin Dead => Live' = Live \/ type[c] = "thread"
  <2>1. c \notin Dead /\ type[c] # "thread" => G = {}
    BY <1>5
  <2> QED
    BY <1>4, <2>1 DEF Live
<1> QED
  BY <1>2, <1>6, <1>9, <1>11, <1>15, <1>16, <1>17, <1>18, <1>19

(* The sweep of an object with a finalizer.                                *)
LEMMA SweepFin ==
  ASSUME IInv, ~Over, Sweeping, UNCHANGED gckind,
         NEW p \in Elems(finobj) \cup {Start}, sweepfin = p, NEW c, c = At(finobj, p), ~Stops(c), SweepOne(c),
         sweepfin' = Beyond(finobj, p)
  PROVE  /\ c \in Elems(finobj) /\ InFin \ {c} \subseteq InFin' /\ sweepfin' = c
         /\ Elems(finobj') = Elems(finobj)
         /\ gckind = "gen" => OldRun(finobj, InFin)'
         /\ Elems(allgc') = Elems(allgc) /\ (\A x \in Elems(allgc) : After(allgc', x) = After(allgc, x))
         /\ \A x \in Elems(allgc) : old'[x] = old[x]
         /\ type' = type
<1>1. finobj \in Seq(Obj) /\ Distinct(finobj) /\ p # None /\ Start # None /\ Start \notin Obj
  BY ListsIn, Numbers DEF IInv, TypeInv, ListInv
<1>2. /\ c \in Elems(finobj) /\ c # p /\ c # None
      /\ Rest(finobj, p) = {c} \cup After(finobj, c) /\ c \notin After(finobj, c) /\ p \notin Rest(finobj, p)
  BY <1>1, ListAt DEF Stops
<1>3. /\ c \in Obj /\ c \in Live /\ open[c] = None /\ c \notin Elems(tobefnz) /\ c \in Node
      /\ c \notin Dead /\ type[c] \in {"udata", "table"} /\ c \notin Elems(allgc)
  BY <1>2, Listable, Numbers DEF IInv, ListInv
<1>4. Gone(c) = {} /\ Moved(c) = {} /\ Stays(c) = {c}
  BY <1>3 DEF Gone, Moved, Stays, Ups
<1>50. /\ \A o \in Node \ Gone(c) : type'[o] = type[o] /\ mode'[o] = mode[o] /\ cache'[o] = cache[o]
       /\ \A o \in Stays(c) : old'[o] = (gckind = "gen") /\ mark'[o] = IF gckind = "gen" THEN mark[o] ELSE currentwhite
       /\ \A o \in Node \ (Gone(c) \cup Moved(c) \cup Stays(c)) : mark'[o] = mark[o] /\ old'[o] = old[o]
       /\ allgc' = SetToSeq(Moved(c)) \o Without(allgc, Gone(c)) /\ finobj' = Without(finobj, Gone(c))
       /\ type' \in [Node -> Types \cup {"free"}]
  BY <1>3, SweptOne
<1>5. /\ old'[c] = (gckind = "gen")
      /\ \A o \in Node \ {c} : old'[o] = old[o]
      /\ \A o \in Node : type'[o] = type[o]
  <2>1. c \in Stays(c) /\ \A o \in Node : o \notin Gone(c) /\ (o # c => o \notin Gone(c) \cup Moved(c) \cup Stays(c))
    BY <1>4
  <2>2. old'[c] = (gckind = "gen")
    BY <1>50, <2>1, Zenon
  <2>3. \A o \in Node \ {c} : old'[o] = old[o]
    BY <1>50, <2>1
  <2>4. \A o \in Node : type'[o] = type[o]
    BY <1>50, <2>1
  <2> QED
    BY <2>2, <2>3, <2>4
<1>60. /\ Elems(allgc') = Moved(c) \cup (Elems(allgc) \ Gone(c))
       /\ \A x \in Elems(allgc) \ Gone(c) : After(allgc', x) = After(allgc, x) \ Gone(c)
       /\ Elems(finobj') = Elems(finobj)
       /\ \A x \in Elems(finobj) : After(finobj', x) = After(finobj, x)
  BY <1>3, <1>50, SweptLists
<1>6. /\ Elems(allgc') = Elems(allgc)
      /\ \A x \in Elems(allgc) : After(allgc', x) = After(allgc, x)
      /\ Elems(finobj') = Elems(finobj)
      /\ \A x \in Elems(finobj) : After(finobj', x) = After(finobj, x)
  BY <1>4, <1>60
<1>7. sweepfin' = c
  BY <1>3, Zenon DEF Beyond
<1>8. InFin = {c} \cup After(finobj, c) /\ InFin' = After(finobj, c)
  BY <1>1, <1>2, <1>3, <1>6, <1>7 DEF InFin, Rest
<1>9. \A x : After(finobj, x) \subseteq Elems(finobj)
  BY AfterIn
<1>10. \A x \in Elems(allgc) \cup Elems(finobj) : x \in Node
  BY ListsIn, Numbers DEF IInv
<1>11. ASSUME gckind = "gen" PROVE OldRun(finobj, InFin)'
  <2>1. OldRun(finobj, InFin) /\ ~old[c]
    BY <1>3, <1>11 DEF IInv, OldInv, Stops
  <2>2. old'[c]
    BY <1>5, <1>11, Zenon
  <2> SUFFICES ASSUME NEW x \in Elems(finobj), NEW y \in After(finobj, x), old'[x], x \in InFin' \/ y \notin InFin'
               PROVE  old'[y]
    BY <1>6 DEF OldRun
  <2>3. CASE y = c
    BY <2>2, <2>3
  <2>4. CASE y # c
    <3>1. x # c
      BY <1>2, <1>8, <2>4
    <3>2. old'[x] = old[x] /\ old'[y] = old[y]
      BY <1>5, <1>9, <1>10, <2>4, <3>1
    <3> QED
      BY <1>8, <2>1, <2>4, <3>1, <3>2 DEF OldRun
  <2> QED
    BY <2>3, <2>4
<1>12. type' = type
  BY <1>5, <1>50 DEF IInv, TypeInv
<1> QED
  BY <1>2, <1>3, <1>5, <1>6, <1>7, <1>8, <1>10, <1>11, <1>12

(* What an old object, at which a sweep stops, stands for.                 *)
LEMMA StopAt ==
  ASSUME NEW s \in Seq(Obj), Distinct(s), NEW p \in Elems(s) \cup {Start}, Stops(At(s, p))
  PROVE  /\ gckind # "gen" => Rest(s, p) = {}
         /\ OldRun(s, Rest(s, p)) => (\A x \in Rest(s, p) : old[x]) /\ OldRun(s, {})
         /\ Beyond(s, p) = None
<1>1. Beyond(s, p) = None
  BY DEF Beyond
<1>2. CASE At(s, p) = None /\ Rest(s, p) = {}
  BY <1>1, <1>2 DEF OldRun
<1>3. CASE ~(At(s, p) = None /\ Rest(s, p) = {})
  <2>1. /\ At(s, p) \in Elems(s) /\ Rest(s, p) = {At(s, p)} \cup After(s, At(s, p))
        /\ At(s, p) \notin After(s, At(s, p))
    BY <1>3, ListAt
  <2>2. At(s, p) # None
    BY <2>1, Numbers DEF Elems
  <2>3. gckind = "gen" /\ old[At(s, p)]
    BY <2>2 DEF Stops
  <2>4. OldRun(s, Rest(s, p)) => \A x \in Rest(s, p) : old[x]
    BY <2>1, <2>3 DEF OldRun
  <2>5. OldRun(s, Rest(s, p)) => OldRun(s, {})
    BY <2>4 DEF OldRun
  <2> QED
    BY <1>1, <2>3, <2>4, <2>5
<1> QED
  BY <1>2, <1>3

(* A step that changes no object and after which nothing but old objects   *)
(* is not swept any more.                                                  *)
LEMMA StopKeeps ==
  ASSUME IInv, ~Over, Sweeping, UNCHANGED <<object, allgc, finobj, finalized>>,
         UNCHANGED <<tobefnz, gray, grayagain, weak, allweak, ephemeron, profile, owed>>,
         UNCHANGED <<currentwhite, gckind, pending, goal, kind0>>,
         gcstate' \in SweepStates, sweepgc' \in Obj \cup {None, Start}, sweepfin' \in Obj \cup {None, Start},
         sweepstr' \subseteq Obj, PointInv', \A x \in Listed \ Listed' : gckind = "gen" /\ old[x],
         pending # None => gcstate' \notin {"enterfin", "enterall"},
         gckind = "gen" => OldRun(allgc, InAll') /\ OldRun(finobj, InFin')
  PROVE  IInv'
<1>1. UNCHANGED <<type, mark, old, mode, entries, cache, open>>
  BY DEF object
<1>2. /\ gcstate # "propagate" /\ gcstate' # "propagate" /\ Sweeping' /\ ~Over' /\ goal # "regen" /\ gcstate' # "pause"
      /\ KeepInvariant <=> gckind = "gen"
      /\ KeepInvariant' <=> gckind = "gen"
  BY DEF Sweeping, SweepStates, IInv, GoalInv, Over, KeepInvariant
<1>3. Live' = Live /\ Dead' = Dead /\ White' = White /\ Grays' = Grays
  BY <1>1 DEF Live, Dead, White, Grays, Other
<1>4. /\ Elems(allgc)' = Elems(allgc) /\ Elems(finobj)' = Elems(finobj) /\ Elems(tobefnz)' = Elems(tobefnz)
      /\ Distinct(allgc)' = Distinct(allgc) /\ Distinct(finobj)' = Distinct(finobj) /\ Distinct(tobefnz)' = Distinct(tobefnz)
      /\ \A U : OldRun(allgc, U)' = OldRun(allgc, U) /\ OldRun(finobj, U)' = OldRun(finobj, U)
  BY <1>1 DEF Elems, Distinct, After, OldRun
<1>5. \A x : Leads(x)' = Leads(x) /\ Stale(x)' = Stale(x)
  BY <1>1 DEF Leads, Refs, Vals, Keys, Stale
<1>6. TypeInv' /\ KindInv'
  BY <1>1, <1>2 DEF IInv, TypeInv, KindInv
<1>7. ListInv' /\ Sound' /\ Kept' /\ FinInv'
  BY <1>1, <1>2, <1>3, <1>4, <1>5 DEF IInv, ListInv, Sound, Kept, FinInv
<1>8. PendingInv' /\ GoalInv'
  <2>1. Young' = Young
    BY <1>1, <1>3, <1>5 DEF Young
  <2> QED
    BY <1>1, <1>2, <1>3, <1>4, <2>1 DEF IInv, PendingInv, GoalInv
<1>90. Listed \subseteq Node
  <2>1. InAll \subseteq Elems(allgc) /\ InFin \subseteq Elems(finobj)
    BY AfterIn DEF InAll, InFin, Rest
  <2>2. InStr \subseteq Node
    BY Numbers DEF InStr, Live, IInv, TypeInv
  <2> QED
    BY <2>1, <2>2, ListsIn, Numbers DEF Listed, IInv
<1>9. ASSUME NEW o \in Live, o \in Unswept PROVE o \in Unswept' \/ (gckind = "gen" /\ old[o]) \/ Stale(o)
  <2>1. CASE o \in Listed
    BY <2>1 DEF Unswept
  <2>2. CASE o \notin Listed
    <3>1. open[o] \in Listed /\ open[o] \in Node /\ open[o] # None
      BY <1>9, <1>90, <2>2, Numbers DEF Unswept
    <3>2. CASE open[o] \in Listed'
      BY <1>1, <1>3, <3>2 DEF Unswept
    <3>3. CASE open[o] \notin Listed'
      BY <3>1, <3>3 DEF Stale
    <3> QED
      BY <3>2, <3>3
  <2> QED
    BY <2>1, <2>2
<1>10. SweptInv'
  <2>1. ASSUME NEW o \in Dead PROVE (Sweeping' /\ o \in Unswept') \/ Stale(o)
    <3>1. o \in Live /\ ~old[o]
      <4>1. o \in Live /\ mark[o] \in Whites
        BY Colors DEF Dead, IInv
      <4> QED
        BY <4>1 DEF IInv, OldInv
    <3> QED
      BY <1>2, <1>9, <3>1 DEF IInv, SweptInv
  <2>2. ASSUME gckind = "normal", NEW o \in Live \ Elems(tobefnz) PROVE mark[o] = currentwhite \/ (Sweeping' /\ o \in Unswept')
    <3>1. ~Stale(o)
      BY <2>2 DEF Stale
    <3> QED
      BY <1>2, <1>9, <2>2, <3>1 DEF IInv, SweptInv
  <2> QED
    BY <1>1, <1>3, <1>4, <1>5, <2>1, <2>2 DEF SweptInv
<1>11. GrayInv'
  BY <1>1, <1>2, <1>3, <1>5 DEF IInv, GrayInv
<1>12. OldInv'
  <2>1. ASSUME gckind = "normal", NEW o \in Live, old[o] PROVE goal \in {"finish", "whiten"} /\ o \in Unswept'
    BY <1>9, <2>1 DEF IInv, OldInv, Stale
  <2> QED
    BY <1>1, <1>2, <1>3, <1>4, <2>1 DEF IInv, OldInv
<1> QED
  BY <1>6, <1>7, <1>8, <1>10, <1>11, <1>12 DEF IInv

LEMMA EnterFinStep == ASSUME IInv, EnterFin PROVE IInv'
<1> DEFINE c == At(finobj, sweepfin)
<1>1. /\ pending = None /\ ~Over /\ gcstate = "enterfin" /\ Sweeping /\ sweepfin = Start /\ sweepgc = None
      /\ gcstate \in SweepStates /\ sweepstr = {}
      /\ SweepOne(c) /\ sweepfin' = Beyond(finobj, sweepfin)
      /\ IF sweepfin' = Start THEN gcstate' = gcstate /\ sweepgc' = sweepgc ELSE gcstate' = "enterall" /\ sweepgc' = Start
      /\ UNCHANGED <<tobefnz, gray, grayagain, weak, allweak, ephemeron, profile, owed>>
      /\ UNCHANGED <<currentwhite, gckind, pending, goal, kind0>> /\ sweepstr' = sweepstr
  BY DEF EnterFin, Collecting, Over, Sweeping, SweepStates, grays, IInv, PointInv
<1>2. finobj \in Seq(Obj) /\ Distinct(finobj) /\ Start # None /\ Start \notin Obj
  BY Numbers DEF IInv, TypeInv, ListInv, Node, Obj
<1>3. InFin = Rest(finobj, sweepfin) /\ InAll = Elems(allgc) /\ InStr = {o \in Live : type[o] = "string"}
  BY <1>1 DEF InFin, InAll, InStr
<1> HIDE DEF c
<1>4. CASE Stops(c)
  <2>1. /\ UNCHANGED <<object, allgc, finobj, finalized>> /\ UNCHANGED <<type, mark, old, mode, entries, cache, open>>
    BY <1>1, <1>4 DEF SweepOne, object
  <2>2. /\ Beyond(finobj, sweepfin) = None /\ (gckind # "gen" => InFin = {})
        /\ OldRun(finobj, InFin) => (\A x \in InFin : old[x]) /\ OldRun(finobj, {})
    BY <1>1, <1>2, <1>3, <1>4, StopAt DEF c
  <2>3. sweepfin' = None /\ gcstate' = "enterall" /\ sweepgc' = Start
    BY <1>1, <1>2, <2>2
  <2>4. InFin' = {} /\ InAll' = InAll /\ InStr' = InStr
    BY <1>2, <1>3, <2>1, <2>3 DEF InFin, InAll, InStr, Rest, Live, Elems
  <2>5. gckind = "gen" => (\A x \in InFin : old[x]) /\ OldRun(finobj, {}) /\ OldRun(allgc, InAll)
    BY <1>1, <2>2 DEF IInv, OldInv
  <2>6. \A x \in Listed \ Listed' : gckind = "gen" /\ old[x]
    BY <2>2, <2>4, <2>5 DEF Listed, IInv, TypeInv
  <2>7. PointInv'
    BY <1>1, <1>2, <2>1, <2>3 DEF PointInv, Over, Sweeping, SweepStates
  <2> QED
    BY <1>1, <2>1, <2>3, <2>4, <2>5, <2>6, <2>7, StopKeeps DEF SweepStates
<1>5. CASE ~Stops(c)
  <2>1. /\ c \in Elems(finobj) /\ InFin \ {c} \subseteq InFin' /\ sweepfin' = c
        /\ Elems(finobj') = Elems(finobj)
        /\ gckind = "gen" => OldRun(finobj, InFin)'
        /\ Elems(allgc') = Elems(allgc) /\ (\A x \in Elems(allgc) : After(allgc', x) = After(allgc, x))
        /\ \A x \in Elems(allgc) : old'[x] = old[x]
        /\ type' = type
    BY <1>1, <1>5, SweepFin DEF c
  <2>2. c \in Obj /\ c \in Live /\ open[c] = None /\ c \notin Elems(tobefnz)
    BY <2>1, Listable
  <2>3. gcstate' = "enterall" /\ sweepgc' = Start
    BY <1>1, <1>2, <2>1, <2>2
  <2>4. InAll' = InAll /\ InStr' = InStr
    BY <1>2, <1>3, <2>1, <2>3 DEF InAll, InStr, Rest, Live
  <2>5. Listed \ {c} \subseteq Listed'
    BY <2>1, <2>4 DEF Listed
  <2>6. ASSUME gckind = "gen" PROVE OldRun(allgc, InAll)'
    <3>1. OldRun(allgc, InAll) /\ \A x : After(allgc, x) \subseteq Elems(allgc)
      BY <1>1, <2>6, AfterIn DEF IInv, OldInv
    <3> QED
      BY <2>1, <2>4, <3>1 DEF OldRun
  <2>7. PointInv'
    BY <1>1, <1>2, <2>1, <2>2, <2>3 DEF PointInv, Over, Sweeping, SweepStates
  <2> QED
    BY <1>1, <1>5, <2>1, <2>2, <2>3, <2>5, <2>6, <2>7, SweepKeeps DEF SweepStates
<1> QED
  BY <1>4, <1>5

LEMMA SweepUdataStep == ASSUME IInv, SweepUdata PROVE IInv'
<1> DEFINE c == At(finobj, sweepfin)
<1>1. /\ pending = None /\ ~Over /\ gcstate = "sweepudata" /\ Sweeping /\ sweepfin \in Elems(finobj) \cup {None}
      /\ sweepgc \in Elems(allgc) \cup {None} /\ sweepstr = {}
      /\ gcstate \in SweepStates
      /\ UNCHANGED <<tobefnz, gray, grayagain, weak, allweak, ephemeron, profile, owed>>
      /\ UNCHANGED <<currentwhite, gckind, pending, goal, kind0>> /\ sweepstr' = sweepstr /\ sweepgc' = sweepgc
  BY DEF SweepUdata, Collecting, Over, Sweeping, SweepStates, grays, IInv, PointInv
<1>2. /\ finobj \in Seq(Obj) /\ Distinct(finobj) /\ Start # None /\ Start \notin Obj /\ None \notin Obj
      /\ Elems(allgc) \subseteq Obj /\ Elems(finobj) \subseteq Obj
  BY Numbers, ListsIn DEF IInv, TypeInv, ListInv, Obj, None, Start
<1>3. InFin = Rest(finobj, sweepfin) /\ InAll = Rest(allgc, sweepgc) /\ InStr = {}
  BY <1>1 DEF InFin, InAll, InStr
<1> HIDE DEF c
<1>4. ASSUME UNCHANGED <<object, allgc, finobj, finalized>>, sweepfin' = None, gcstate' \in {"sweep", "sweepudata"},
             gckind # "gen" => InFin = {},
             gckind = "gen" => (\A x \in InFin : old[x]) /\ OldRun(finobj, {})
      PROVE  IInv'
  <2>1. UNCHANGED <<type, mark, old, mode, entries, cache, open>>
    BY <1>4 DEF object
  <2>2. InFin' = {} /\ InAll' = InAll /\ InStr' = InStr
    BY <1>1, <1>3, <1>4 DEF InFin, InAll, InStr, Rest, Elems, After
  <2>3. gckind = "gen" => OldRun(allgc, InAll)
    BY <1>1 DEF IInv, OldInv
  <2>4. \A x \in Listed \ Listed' : gckind = "gen" /\ old[x]
    BY <1>4, <2>2 DEF Listed
  <2>5. PointInv'
    <3>1. Elems(allgc') = Elems(allgc)
      BY <1>4
    <3> QED
      BY <1>1, <1>2, <1>4, <3>1 DEF PointInv, Over, Sweeping, SweepStates
  <2> QED
    BY <1>1, <1>2, <1>4, <2>2, <2>3, <2>4, <2>5, StopKeeps DEF SweepStates
<1>5. CASE sweepfin = None
  <2>1. gcstate' = "sweep" /\ UNCHANGED <<object, allgc, finobj, finalized>> /\ sweepfin' = None
    BY <1>5 DEF SweepUdata
  <2>2. InFin = {}
    BY <1>3, <1>5 DEF Rest
  <2>3. gckind = "gen" => OldRun(finobj, {})
    BY <1>1, <2>2 DEF IInv, OldInv
  <2> QED
    BY <1>4, <2>1, <2>2, <2>3
<1>6. CASE sweepfin # None
  <2>1. SweepOne(c) /\ sweepfin' = Beyond(finobj, sweepfin) /\ gcstate' = gcstate
    BY <1>6 DEF SweepUdata, c
  <2>2. CASE Stops(c)
    <3>1. UNCHANGED <<object, allgc, finobj, finalized>>
      BY <2>1, <2>2 DEF SweepOne
    <3>2. /\ Beyond(finobj, sweepfin) = None /\ (gckind # "gen" => InFin = {})
          /\ OldRun(finobj, InFin) => (\A x \in InFin : old[x]) /\ OldRun(finobj, {})
      BY <1>1, <1>2, <1>3, <1>6, <2>2, StopAt DEF c
    <3>3. gckind = "gen" => OldRun(finobj, InFin)
      BY <1>1 DEF IInv, OldInv
    <3> QED
      BY <1>1, <1>4, <2>1, <3>1, <3>2, <3>3
  <2>3. CASE ~Stops(c)
    <3>1. /\ c \in Elems(finobj) /\ InFin \ {c} \subseteq InFin' /\ sweepfin' = c
          /\ Elems(finobj') = Elems(finobj)
          /\ gckind = "gen" => OldRun(finobj, InFin)'
          /\ Elems(allgc') = Elems(allgc) /\ (\A x \in Elems(allgc) : After(allgc', x) = After(allgc, x))
          /\ \A x \in Elems(allgc) : old'[x] = old[x]
          /\ type' = type
      BY <1>1, <1>6, <2>1, <2>3, SweepFin DEF c
    <3>2. c \in Obj /\ c \in Live /\ open[c] = None /\ c \notin Elems(tobefnz)
      BY <3>1, Listable
    <3>3. InAll' = InAll /\ InStr' = InStr
      BY <1>1, <1>2, <1>3, <2>1, <3>1 DEF InAll, InStr, Rest
    <3>4. Listed \ {c} \subseteq Listed'
      BY <3>1, <3>3 DEF Listed
    <3>5. ASSUME gckind = "gen" PROVE OldRun(allgc, InAll)'
      <4>1. OldRun(allgc, InAll) /\ \A x : After(allgc, x) \subseteq Elems(allgc)
        BY <1>1, <3>5, AfterIn DEF IInv, OldInv
      <4> QED
        BY <3>1, <3>3, <4>1 DEF OldRun
    <3>6. PointInv'
      BY <1>1, <1>2, <2>1, <3>1, <3>2 DEF PointInv, Over, Sweeping, SweepStates
    <3>7. /\ gcstate' \in SweepStates /\ sweepgc' \in Obj \cup {None, Start} /\ sweepfin' \in Obj \cup {None, Start}
          /\ sweepstr' \subseteq Obj /\ pending = None
      BY <1>1, <1>2, <2>1, <3>1, <3>2
    <3> QED
      BY <1>1, <2>1, <2>3, <3>1, <3>2, <3>4, <3>5, <3>6, <3>7, SweepKeeps
  <2> QED
    BY <2>2, <2>3
<1> QED
  BY <1>5, <1>6

(* The sweep of another object frees no string.                            *)
LEMMA StringsKeep ==
  ASSUME IInv, ~Over, Sweeping, NEW c \in Obj, c \in Live, open[c] = None, c \notin Elems(tobefnz), ~Stops(c), SweepOne(c)
  PROVE  \A x \in Node : type[x] = "string" /\ x # c => type'[x] = type[x]
<1> SUFFICES ASSUME NEW x \in Node, type[x] = "string", x # c PROVE type'[x] = type[x]
  OBVIOUS
<1>1. x \notin Gone(c)
  BY SweptWho
<1>2. \A o \in Node \ Gone(c) : type'[o] = type[o] /\ mode'[o] = mode[o] /\ cache'[o] = cache[o]
  BY SweptOne
<1> QED
  BY <1>1, <1>2

LEMMA EnterAllStep == ASSUME IInv, EnterAll PROVE IInv'
<1> DEFINE c == At(allgc, sweepgc)
<1>1. /\ pending = None /\ ~Over /\ gcstate = "enterall" /\ Sweeping /\ sweepgc = Start
      /\ sweepfin \in Elems(finobj) \cup {None}
      /\ gcstate \in SweepStates /\ sweepstr = {}
      /\ SweepOne(c) /\ sweepgc' = Beyond(allgc, sweepgc)
      /\ IF sweepgc' = Start THEN gcstate' = gcstate /\ sweepstr' = sweepstr
         ELSE gcstate' = "sweepstring" /\ sweepstr' = {o \in Live : type[o] = "string"}
      /\ UNCHANGED <<tobefnz, gray, grayagain, weak, allweak, ephemeron, profile, owed>>
      /\ UNCHANGED <<currentwhite, gckind, pending, goal, kind0>> /\ sweepfin' = sweepfin
  BY DEF EnterAll, Collecting, Over, Sweeping, SweepStates, grays, IInv, PointInv
<1>2. /\ allgc \in Seq(Obj) /\ Distinct(allgc) /\ Start # None /\ Start \notin Obj /\ None \notin Obj
      /\ Elems(finobj) \subseteq Obj /\ Elems(allgc) \subseteq Obj
  BY Numbers, ListsIn DEF IInv, TypeInv, ListInv, Node, Obj
<1>3. InFin = Rest(finobj, sweepfin) /\ InAll = Rest(allgc, sweepgc) /\ InStr = {o \in Live : type[o] = "string"}
  BY <1>1 DEF InFin, InAll, InStr
<1>4. {o \in Live : type[o] = "string"} \subseteq Obj
  BY Numbers DEF IInv, TypeInv, Live
<1> HIDE DEF c
<1>5. CASE Stops(c)
  <2>1. /\ UNCHANGED <<object, allgc, finobj, finalized>> /\ UNCHANGED <<type, mark, old, mode, entries, cache, open>>
    BY <1>1, <1>5 DEF SweepOne, object
  <2>2. /\ Beyond(allgc, sweepgc) = None /\ (gckind # "gen" => InAll = {})
        /\ OldRun(allgc, InAll) => (\A x \in InAll : old[x]) /\ OldRun(allgc, {})
    BY <1>1, <1>2, <1>3, <1>5, StopAt DEF c
  <2>3. sweepgc' = None /\ gcstate' = "sweepstring" /\ sweepstr' = {o \in Live : type[o] = "string"}
    BY <1>1, <1>2, <2>2
  <2>4. InAll' = {} /\ InFin' = InFin /\ InStr' = InStr
    BY <1>1, <1>2, <1>3, <2>1, <2>3 DEF InFin, InAll, InStr, Rest, Elems, After
  <2>5. gckind = "gen" => (\A x \in InAll : old[x]) /\ OldRun(allgc, {}) /\ OldRun(finobj, InFin)
    BY <1>1, <2>2 DEF IInv, OldInv
  <2>6. \A x \in Listed \ Listed' : gckind = "gen" /\ old[x]
    BY <2>2, <2>4, <2>5 DEF Listed
  <2>7. PointInv'
    <3>1. Elems(allgc') = Elems(allgc) /\ Elems(finobj') = Elems(finobj)
      BY <2>1
    <3> QED
      BY <1>1, <1>2, <2>1, <2>3, <3>1 DEF PointInv, Over, Sweeping, SweepStates
  <2>8. sweepstr' \subseteq Obj /\ gcstate' \in SweepStates /\ sweepgc' \in Obj \cup {None, Start} /\ sweepfin' \in Obj \cup {None, Start}
    BY <1>1, <1>2, <1>4, <2>3 DEF SweepStates
  <2> QED
    BY <1>1, <2>1, <2>4, <2>5, <2>6, <2>7, <2>8, StopKeeps
<1>6. CASE ~Stops(c)
  <2>1. /\ c \in Elems(allgc) /\ InAll \ {c} \subseteq InAll'
        /\ sweepgc' = (IF c \in Dead THEN sweepgc ELSE c) /\ sweepgc' \in Elems(allgc') \cup {Start}
        /\ gckind = "gen" => OldRun(allgc, InAll)'
        /\ Elems(finobj') = Elems(finobj) /\ \A x \in Elems(finobj) : After(finobj', x) = After(finobj, x)
        /\ gckind = "gen" /\ InFin' = InFin => OldRun(finobj, InFin)'
        /\ \A x \in Node : x \notin Dead => type'[x] = type[x]
        /\ c \notin Dead => Live' = Live \/ type[c] = "thread"
    <3>1. gcstate # "enterfin" /\ gcstate' # "enterfin"
      BY <1>1
    <3> QED
      BY <1>1, <1>6, <3>1, SweepAll DEF c
  <2>2. c \in Obj /\ c \in Live /\ open[c] = None /\ c \notin Elems(tobefnz) /\ type[c] # "string"
    BY <2>1, Listable
  <2>3. \A x \in Node : type[x] = "string" => type'[x] = "string"
    BY <1>1, <1>6, <2>2, StringsKeep
  <2>4. InFin' = InFin
    BY <1>1, <1>2, <1>3, <2>1 DEF InFin, Rest
  <2>5. gcstate' \in {"enterall", "sweepstring"}
    BY <1>1
  <2>6. InStr \subseteq InStr'
    <3>1. CASE sweepgc' = Start
      <4>1. InStr' = {o \in Live' : type'[o] = "string"}
        BY <1>1, <3>1 DEF InStr
      <4> QED
        BY <1>3, <2>3, <4>1 DEF Live
    <3>2. CASE sweepgc' # Start
      BY <1>1, <1>3, <3>2 DEF InStr
    <3> QED
      BY <3>1, <3>2
  <2>7. Listed \ {c} \subseteq Listed'
    BY <2>1, <2>4, <2>6 DEF Listed
  <2>8. \A x \in sweepstr' : type'[x] = "string"
    BY <1>1, <2>3 DEF Live
  <2>9. PointInv'
    <3>1. CASE sweepgc' = Start
      BY <1>1, <1>2, <2>1, <2>8, <3>1 DEF PointInv, Over, Sweeping, SweepStates
    <3>2. CASE sweepgc' # Start
      BY <1>1, <1>2, <2>1, <2>8, <3>2 DEF PointInv, Over, Sweeping, SweepStates
    <3> QED
      BY <3>1, <3>2
  <2>10. /\ sweepstr' \subseteq Obj /\ gcstate' \in SweepStates
         /\ sweepgc' \in Obj \cup {None, Start} /\ sweepfin' \in Obj \cup {None, Start}
    BY <1>1, <1>2, <1>4, <2>1, <2>2, <2>5 DEF SweepStates
  <2>11. gckind = "gen" => OldRun(allgc, InAll)' /\ OldRun(finobj, InFin)'
    BY <2>1, <2>4
  <2> QED
    BY <1>1, <1>6, <2>2, <2>7, <2>9, <2>10, <2>11, SweepKeeps
<1> QED
  BY <1>5, <1>6

LEMMA SweepStep == ASSUME IInv, Sweep PROVE IInv'
<1> DEFINE c == At(allgc, sweepgc)
<1>1. /\ ~Over /\ Sweeping /\ gcstate \in SweepStates \ {"enterfin", "enterall"}
      /\ pending # None => gcstate \notin {"enterfin", "enterall"}
      /\ sweepgc # None /\ SweepOne(c) /\ sweepgc' = Beyond(allgc, sweepgc)
      /\ UNCHANGED <<tobefnz, gray, grayagain, weak, allweak, ephemeron, profile, owed>>
      /\ UNCHANGED <<currentwhite, gcstate, gckind, sweepfin, sweepstr, pending, goal, kind0>>
  <2>1. CASE Collecting /\ gcstate = "sweep"
    BY <2>1 DEF Sweep, Collecting, Over, Sweeping, SweepStates, grays
  <2>2. CASE pending # None /\ pending = sweepgc
    <3>1. goal = "none" /\ gcstate \notin {"enterfin", "enterall"} /\ sweepgc # None
      BY <2>2 DEF IInv, PendingInv
    <3>2. ~Over
      BY <3>1 DEF Over
    <3>3. Sweeping
      BY <3>1, <3>2 DEF IInv, PointInv
    <3> QED
      BY <3>1, <3>2, <3>3 DEF Sweep, Sweeping, SweepStates, grays
  <2> QED
    BY <2>1, <2>2 DEF Sweep
<1>2. /\ allgc \in Seq(Obj) /\ Distinct(allgc) /\ Start # None /\ Start \notin Obj /\ None \notin Obj
      /\ Elems(finobj) \subseteq Obj /\ Elems(allgc) \subseteq Obj /\ sweepstr \subseteq Obj
  BY Numbers, ListsIn DEF IInv, TypeInv, ListInv, Node, Obj
<1>3. sweepgc \in Elems(allgc) /\ sweepfin \in Elems(finobj) \cup {None}
  BY <1>1 DEF IInv, PointInv
<1>4. InFin = Rest(finobj, sweepfin) /\ InAll = Rest(allgc, sweepgc) /\ InStr = sweepstr /\ InStr' = sweepstr
  BY <1>1 DEF InFin, InAll, InStr
<1> HIDE DEF c
<1>5. CASE Stops(c)
  <2>1. /\ UNCHANGED <<object, allgc, finobj, finalized>> /\ UNCHANGED <<type, mark, old, mode, entries, cache, open>>
    BY <1>1, <1>5 DEF SweepOne, object
  <2>2. /\ Beyond(allgc, sweepgc) = None /\ (gckind # "gen" => InAll = {})
        /\ OldRun(allgc, InAll) => (\A x \in InAll : old[x]) /\ OldRun(allgc, {})
    BY <1>2, <1>3, <1>4, <1>5, StopAt DEF c
  <2>3. sweepgc' = None
    BY <1>1, <2>2
  <2>4. InAll' = {} /\ InFin' = InFin
    BY <1>1, <1>2, <1>3, <1>4, <2>1, <2>3 DEF InFin, InAll, Rest, Elems, After
  <2>5. gckind = "gen" => (\A x \in InAll : old[x]) /\ OldRun(allgc, {}) /\ OldRun(finobj, InFin)
    BY <1>1, <2>2 DEF IInv, OldInv
  <2>6. \A x \in Listed \ Listed' : gckind = "gen" /\ old[x]
    BY <1>4, <2>2, <2>4, <2>5 DEF Listed
  <2>7. PointInv'
    <3>1. Elems(allgc') = Elems(allgc) /\ Elems(finobj') = Elems(finobj)
      BY <2>1
    <3>2. \A x \in sweepstr : type[x] = "string"
      BY <1>1 DEF IInv, PointInv
    <3>3. (gcstate # "sweepstring" => sweepstr = {}) /\ (gcstate = "sweep" => sweepfin = None)
      BY <1>1 DEF IInv, PointInv
    <3> QED
      BY <1>1, <1>3, <2>1, <2>3, <3>1, <3>2, <3>3 DEF PointInv, Over, Sweeping
  <2>8. sweepstr' \subseteq Obj /\ gcstate' \in SweepStates /\ sweepgc' \in Obj \cup {None, Start} /\ sweepfin' \in Obj \cup {None, Start}
    BY <1>1, <1>2, <1>3, <2>3
  <2>9. pending # None => gcstate' \notin {"enterfin", "enterall"}
    BY <1>1
  <2>10. UNCHANGED <<currentwhite, gckind, pending, goal, kind0>>
    BY <1>1
  <2> QED
    BY <1>1, <2>1, <2>4, <2>5, <2>6, <2>7, <2>8, <2>9, <2>10, StopKeeps
<1>6. CASE ~Stops(c)
  <2>1. /\ c \in Elems(allgc) /\ InAll \ {c} \subseteq InAll'
        /\ sweepgc' = (IF c \in Dead THEN sweepgc ELSE c) /\ sweepgc' \in Elems(allgc') \cup {Start}
        /\ gckind = "gen" => OldRun(allgc, InAll)'
        /\ Elems(finobj') = Elems(finobj) /\ \A x \in Elems(finobj) : After(finobj', x) = After(finobj, x)
        /\ gckind = "gen" /\ InFin' = InFin => OldRun(finobj, InFin)'
        /\ \A x \in Node : x \notin Dead => type'[x] = type[x]
        /\ c \notin Dead => Live' = Live \/ type[c] = "thread"
    <3>1. gcstate # "enterfin" /\ gcstate' # "enterfin" /\ UNCHANGED gckind
      BY <1>1
    <3> QED
      BY <1>1, <1>3, <1>6, <3>1, SweepAll DEF c
  <2>2. c \in Obj /\ c \in Live /\ open[c] = None /\ c \notin Elems(tobefnz) /\ type[c] # "string"
    BY <2>1, Listable
  <2>3. \A x \in Node : type[x] = "string" => type'[x] = "string"
    BY <1>1, <1>6, <2>2, StringsKeep
  <2>4. InFin' = InFin
    BY <1>1, <1>2, <1>3, <1>4, <2>1 DEF InFin, Rest
  <2>5. Listed \ {c} \subseteq Listed'
    BY <1>4, <2>1, <2>4 DEF Listed
  <2>6. PointInv'
    <3>1. \A x \in sweepstr : x \in Node /\ type[x] = "string"
      BY <1>1, <1>2, Numbers DEF IInv, PointInv
    <3>2. (gcstate # "sweepstring" => sweepstr = {}) /\ (gcstate = "sweep" => sweepfin = None)
      BY <1>1 DEF IInv, PointInv
    <3>3. sweepgc' \in Elems(allgc')
      BY <1>2, <1>3, <2>1
    <3> QED
      BY <1>1, <1>3, <2>1, <2>3, <3>1, <3>2, <3>3 DEF PointInv, Over, Sweeping
  <2>7. /\ sweepstr' \subseteq Obj /\ gcstate' \in SweepStates
        /\ sweepgc' \in Obj \cup {None, Start} /\ sweepfin' \in Obj \cup {None, Start}
    BY <1>1, <1>2, <1>3, <2>1
  <2>8. gckind = "gen" => OldRun(allgc, InAll)' /\ OldRun(finobj, InFin)'
    BY <2>1, <2>4
  <2>9. pending # None => gcstate' \notin {"enterfin", "enterall"}
    BY <1>1
  <2>10. UNCHANGED <<currentwhite, gckind, pending, goal, kind0>>
    BY <1>1
  <2> QED
    BY <1>1, <1>6, <2>2, <2>5, <2>6, <2>7, <2>8, <2>9, <2>10, SweepKeeps
<1> QED
  BY <1>5, <1>6

LEMMA SweepStringStep == ASSUME IInv, SweepString PROVE IInv'
<1>1. /\ pending = None /\ ~Over /\ gcstate = "sweepstring" /\ Sweeping /\ gcstate \in SweepStates
      /\ sweepfin \in Elems(finobj) \cup {None} /\ sweepgc \in Elems(allgc) \cup {None}
      /\ UNCHANGED <<tobefnz, gray, grayagain, weak, allweak, ephemeron, profile, owed>>
      /\ UNCHANGED <<currentwhite, gckind, pending, goal, kind0>> /\ sweepfin' = sweepfin /\ sweepgc' = sweepgc
      /\ \A x \in sweepstr : type[x] = "string"
  BY DEF SweepString, Collecting, Over, Sweeping, SweepStates, grays, IInv, PointInv
<1>2. /\ allgc \in Seq(Obj) /\ finobj \in Seq(Obj) /\ Start # None /\ Start \notin Obj /\ None \notin Obj
      /\ Elems(finobj) \subseteq Obj /\ Elems(allgc) \subseteq Obj /\ sweepstr \subseteq Obj
  BY Numbers, ListsIn DEF IInv, TypeInv, ListInv, Node, Obj
<1>3. InFin = Rest(finobj, sweepfin) /\ InAll = Rest(allgc, sweepgc) /\ InStr = sweepstr
  BY <1>1 DEF InFin, InAll, InStr
<1>4. \A x : After(allgc, x) \subseteq Elems(allgc) /\ After(finobj, x) \subseteq Elems(finobj)
  BY AfterIn
<1>5. gckind = "gen" => OldRun(allgc, InAll) /\ OldRun(finobj, InFin)
  BY <1>1 DEF IInv, OldInv
<1>6. sweepgc' \in Obj \cup {None, Start} /\ sweepfin' \in Obj \cup {None, Start}
  BY <1>1, <1>2
<1>7. ASSUME UNCHANGED <<object, allgc, finobj, finalized>>, gcstate' \in {"sweepstring", "sweepudata"},
             sweepstr' \subseteq sweepstr, gcstate' = "sweepudata" => sweepstr' = {},
             \A x \in sweepstr \ sweepstr' : gckind = "gen" /\ old[x]
      PROVE  IInv'
  <2>1. UNCHANGED <<type, mark, old, mode, entries, cache, open>>
    BY <1>7 DEF object
  <2>2. InFin' = InFin /\ InAll' = InAll /\ InStr' = sweepstr'
    BY <1>1, <1>3, <1>7 DEF InFin, InAll, InStr, Rest, Elems, After
  <2>3. \A x \in Listed \ Listed' : gckind = "gen" /\ old[x]
    BY <1>3, <1>7, <2>2 DEF Listed
  <2>4. PointInv'
    <3>1. Elems(allgc') = Elems(allgc) /\ Elems(finobj') = Elems(finobj)
      BY <1>7
    <3> QED
      BY <1>1, <1>7, <2>1, <3>1 DEF PointInv, Over, Sweeping, SweepStates
  <2> QED
    BY <1>1, <1>2, <1>5, <1>6, <1>7, <2>2, <2>3, <2>4, StopKeeps DEF SweepStates
<1>8. CASE sweepstr = {} /\ gcstate' = "sweepudata" /\ UNCHANGED <<object, allgc, finobj, finalized, sweepstr>>
  BY <1>7, <1>8
<1>9. ASSUME NEW c \in sweepstr, SweepOne(c), sweepstr' = sweepstr \ {c}, UNCHANGED gcstate PROVE IInv'
  <2>1. type[c] = "string" /\ c \in Obj /\ c \in Node /\ c \in Live /\ open[c] = None /\ c # None
    BY <1>1, <1>2, <1>9, Numbers DEF IInv, KindInv, Live
  <2>2. c \notin Elems(tobefnz) /\ c \notin Elems(allgc) /\ c \notin Elems(finobj)
    BY <2>1 DEF IInv, ListInv
  <2>3. CASE Stops(c)
    <3>1. UNCHANGED <<object, allgc, finobj, finalized>>
      BY <1>9, <2>3 DEF SweepOne
    <3>2. gckind = "gen" /\ old[c]
      BY <2>1, <2>3 DEF Stops
    <3> QED
      BY <1>1, <1>7, <1>9, <3>1, <3>2
  <2>4. CASE ~Stops(c)
    <3>1. Gone(c) \subseteq {c} /\ Moved(c) = {} /\ Stays(c) \subseteq {c}
      BY <2>1 DEF Gone, Moved, Stays, Ups
    <3>2. /\ \A o \in Node \ (Gone(c) \cup Moved(c) \cup Stays(c)) : mark'[o] = mark[o] /\ old'[o] = old[o]
          /\ allgc' = SetToSeq(Moved(c)) \o Without(allgc, Gone(c)) /\ finobj' = Without(finobj, Gone(c))
      BY <1>1, <1>9, <2>1, <2>4, SweptOne
    <3>3. /\ Elems(allgc') = Moved(c) \cup (Elems(allgc) \ Gone(c))
          /\ \A p \in Elems(allgc) \ Gone(c) : After(allgc', p) = After(allgc, p) \ Gone(c)
          /\ Elems(finobj') = Elems(finobj)
          /\ \A p \in Elems(finobj) : After(finobj', p) = After(finobj, p)
      BY <2>1, <2>2, <3>2, SweptLists
    <3>4. /\ Elems(allgc') = Elems(allgc)
          /\ \A p \in Elems(allgc) : After(allgc', p) = After(allgc, p)
      BY <1>4, <2>2, <3>1, <3>3
    <3>5. \A x \in Elems(allgc) \cup Elems(finobj) : old'[x] = old[x]
      BY <1>2, <2>2, <3>1, <3>2, Numbers
    <3>6. InAll' = InAll /\ InFin' = InFin /\ InStr' = InStr \ {c}
      BY <1>1, <1>2, <1>3, <1>9, <3>3, <3>4 DEF InAll, InFin, InStr, Rest
    <3>7. gckind = "gen" => OldRun(allgc, InAll)' /\ OldRun(finobj, InFin)'
      BY <1>4, <1>5, <3>3, <3>4, <3>5, <3>6 DEF OldRun
    <3>8. Listed \ {c} \subseteq Listed'
      BY <3>6 DEF Listed
    <3>9. PointInv'
      <4>1. \A x \in sweepstr' : type'[x] = "string"
        BY <1>1, <1>2, <1>9, <2>1, <2>2, <2>4, StringsKeep, Numbers
      <4> QED
        BY <1>1, <1>9, <3>3, <3>4, <4>1 DEF PointInv, Over, Sweeping, SweepStates
    <3>10. sweepstr' \subseteq Obj /\ gcstate' \in SweepStates
      BY <1>1, <1>2, <1>9
    <3> QED
      BY <1>1, <1>6, <1>9, <2>1, <2>2, <2>4, <3>7, <3>8, <3>9, <3>10, SweepKeeps
  <2> QED
    BY <2>3, <2>4
<1> QED
  BY <1>8, <1>9 DEF SweepString

-----------------------------------------------------------------------------
(* Marking.                                                                *)

(* What is black as soon as it is marked leads only to what it passes on.  *)
LEMMA BlackAtOnce ==
  ASSUME TypeInv, KindInv, NEW x \in Live
  PROVE  /\ ColorOf(x) = "black" => type[x] # "thread" /\ open[x] = None /\ Leads(x) \subseteq Passed(x)
         /\ ColorOf(x) = "gray" /\ open[x] = None => type[x] \in {"table", "closure", "proto", "thread"}
         /\ ColorOf(x) \in {"gray", "black"}
<1>1. x \in Node /\ type[x] \in Types
  BY DEF Live, TypeInv
<1>2. ASSUME ColorOf(x) = "black" PROVE type[x] # "thread" /\ open[x] = None /\ Leads(x) \subseteq Passed(x)
  <2>1. type[x] \in {"string", "udata"} \/ (type[x] = "upval" /\ open[x] = None)
    BY <1>2 DEF ColorOf
  <2>2. open[x] = None /\ cache[x] = None /\ \A e \in entries[x] : e[1] = None
    BY <1>1, <2>1 DEF KindInv
  <2>3. Leads(x) = Vals(x)
    BY <2>2 DEF Leads, Refs, Keys, Vals
  <2>4. type[x] = "string" => Vals(x) = {}
    BY <1>1 DEF KindInv, Vals
  <2> QED
    BY <2>1, <2>2, <2>3, <2>4 DEF Passed
<1> QED
  BY <1>1, <1>2 DEF ColorOf, Types

LEMMA RestartStep == ASSUME IInv, Restart PROVE IInv'
<1> DEFINE W == White \cup Elems(tobefnz)
           B == {Main} \cup Elems(tobefnz)
           T == Through(B, W)
<1>1. /\ pending = None /\ ~Over /\ gcstate = "pause" /\ ~Sweeping
      /\ mark' = Marked(T) /\ gray' = Queued(T)
      /\ old' = [o \in Node |-> old[o] /\ o \notin Elems(tobefnz)]
      /\ grayagain' = {} /\ weak' = {} /\ allweak' = {} /\ ephemeron' = {}
      /\ Reaches("propagate")
      /\ UNCHANGED <<type, mode, entries, cache, open, allgc, finobj, tobefnz, profile, finalized, owed>>
      /\ UNCHANGED <<currentwhite, sweepgc, sweepfin, sweepstr, pending, kind0>>
  BY DEF Restart, Collecting, Over, Sweeping, SweepStates, lists, duty
<1>2. /\ gckind = "normal" /\ sweepgc = None /\ sweepfin = None /\ sweepstr = {}
      /\ \A o \in Live \ Elems(tobefnz) : mark[o] = currentwhite
      /\ Dead = {} /\ \A o \in Live : ~old[o]
  <2>1. gckind = "normal"
    BY <1>1 DEF IInv, TypeInv, GoalInv
  <2>2. sweepgc = None /\ sweepfin = None /\ sweepstr = {}
    BY <1>1 DEF IInv, PointInv
  <2>3. \A o \in Live \ Elems(tobefnz) : mark[o] = currentwhite
    BY <1>1, <2>1 DEF IInv, SweptInv
  <2>4. Dead = {}
    BY <1>1, <2>1 DEF IInv, SweptInv, Stale
  <2>5. \A o \in Live : ~old[o]
    BY <1>1, <2>1 DEF IInv, OldInv
  <2> QED
    BY <2>1, <2>2, <2>3, <2>4, <2>5
<1>3. /\ goal' # "minor" /\ goal' \notin {"finish", "togen", "regen", "whiten", "close", "closed"} /\ gcstate' = "propagate"
      /\ gckind' \in {"normal", "gen"} /\ (gckind' = "gen" => goal' = "none") /\ goal' \in {"none", "collect"}
  <2>1. goal \notin {"minor", "whiten", "close", "closed"}
    BY <1>1, <1>2 DEF IInv, GoalInv, Over
  <2>2. goal \in {"none", "finish", "collect", "regen", "togen"}
    BY <2>1 DEF IInv, TypeInv
  <2>3. CASE goal = "finish"
    BY <1>1, <1>2, <2>3 DEF Reaches
  <2>4. CASE goal \in {"regen", "togen"}
    BY <1>1, <1>2, <2>4 DEF Reaches
  <2>5. CASE goal \in {"none", "collect"}
    BY <1>1, <1>2, <2>5 DEF Reaches
  <2> QED
    BY <2>2, <2>3, <2>4, <2>5
<1>4. Main \in Live /\ Elems(tobefnz) \subseteq Live /\ Elems(tobefnz) \subseteq Obj /\ Live \subseteq Node /\ White \subseteq Live
  BY ListsIn, StackAlive, Colors, Numbers DEF IInv, ListInv, Live
<1>5. /\ B \subseteq T /\ T \subseteq Live /\ (\A o \in T : Passed(o) \cap W \subseteq T)
  <2>1. B \in SUBSET Node /\ W \in SUBSET Node /\ B \cup W \subseteq Live
    BY <1>4
  <2> HIDE DEF B, W
  <2>2. B \subseteq T /\ T \subseteq B \cup W /\ \A o \in T : Passed(o) \cap W \subseteq T
    BY <2>1, ThroughIs
  <2> QED
    BY <2>1, <2>2
<1>6. White \subseteq W /\ Main \in T /\ Elems(tobefnz) \subseteq T
  BY <1>5
<1> HIDE DEF T, W, B
<1>7. \A x \in Node : mark'[x] = IF x \in T THEN ColorOf(x) ELSE mark[x]
  BY <1>1 DEF Marked
<1>8. /\ \A x \in T : ColorOf(x) \in {"gray", "black"} /\ mark'[x] = ColorOf(x)
      /\ \A x \in T : ColorOf(x) \notin Whites
  BY <1>4, <1>5, <1>7, BlackAtOnce, Colors DEF IInv
<1>9. Live' = Live /\ Other' = Other
  BY <1>1 DEF Live, Other
<1>10. \A x \in Live \ T : mark[x] = currentwhite /\ mark'[x] = currentwhite
  BY <1>2, <1>4, <1>6, <1>7
<1>11. White' = Live \ T /\ Dead' = {} /\ White' \subseteq White
  <2>1. \A x \in Live : x \in White' <=> x \notin T
    BY <1>8, <1>9, <1>10, Colors DEF White, IInv
  <2>2. \A x \in Live : mark'[x] # Other
    BY <1>8, <1>10, Colors DEF IInv
  <2> QED
    BY <1>9, <1>10, <2>1, <2>2, Colors DEF White, Dead, IInv
<1>12. \A x \in Node : Leads(x)' = Leads(x)
  BY <1>1 DEF Leads, Refs, Vals, Keys
<1>13. old' \in [Node -> BOOLEAN] /\ (\A x \in Node : old'[x] => old[x]) /\ (\A x \in Elems(tobefnz) : ~old'[x])
  <2>1. old' \in [Node -> BOOLEAN]
    BY <1>1
  <2>2. \A x \in Node : old'[x] = (old[x] /\ x \notin Elems(tobefnz))
    BY <1>1, Zenon
  <2> QED
    BY <1>4, <2>1, <2>2
<1>14. \A x \in Live : ~old'[x]
  BY <1>2, <1>4, <1>13
<1>15. TypeInv'
  <2>1. mark' \in [Node -> Whites \cup {"gray", "black"}]
    BY <1>1, <1>7, <1>8 DEF Marked, IInv, TypeInv
  <2>2. gray' \subseteq Node
    BY <1>1, <1>4, <1>5 DEF Queued
  <2> QED
    BY <1>1, <1>2, <1>3, <1>13, <2>1, <2>2 DEF IInv, TypeInv
<1>16. KindInv'
  <2>1. \A o \in Node : open[o] # None => mark'[o] # "black"
    BY <1>4, <1>5, <1>7, BlackAtOnce DEF IInv, KindInv
  <2>2. \A o \in Node : type[o] = "thread" => mark'[o] # "black"
    BY <1>4, <1>5, <1>7, BlackAtOnce DEF IInv, KindInv
  <2>3. \A o \in Node : type[o] = "free" => ~old'[o]
    BY <1>1, <1>13 DEF IInv, KindInv, Over
  <2> QED
    BY <1>1, <2>1, <2>2, <2>3 DEF IInv, KindInv
<1>17. /\ Elems(allgc)' = Elems(allgc) /\ Elems(finobj)' = Elems(finobj) /\ Elems(tobefnz)' = Elems(tobefnz)
       /\ Distinct(allgc)' = Distinct(allgc) /\ Distinct(finobj)' = Distinct(finobj) /\ Distinct(tobefnz)' = Distinct(tobefnz)
  BY <1>1 DEF Elems, Distinct
<1>18. ~Sweeping' /\ ~Over'
  BY <1>3 DEF Sweeping, SweepStates, Over
<1>19. ListInv' /\ FinInv' /\ PendingInv' /\ Kept'
  <2>1. goal # "closed" /\ goal' # "closed"
    BY <1>1, <1>3 DEF Over
  <2> QED
    BY <1>1, <1>3, <1>11, <1>17, <1>18, <2>1 DEF IInv, ListInv, FinInv, PendingInv, Kept
<1>20. GoalInv' /\ PointInv'
  BY <1>1, <1>2, <1>3, <1>18 DEF GoalInv, PointInv
<1>21. Sound'
  BY <1>2, <1>4, <1>9, <1>11, <1>12 DEF IInv, Sound
<1>22. SweptInv'
  BY <1>3, <1>11 DEF SweptInv
<1>23. GrayInv'
  <2>1. Grays' = Queued(T) /\ Queued(T) \subseteq T
    BY <1>1 DEF Grays, Queued
  <2>2. ASSUME NEW x \in T, mark'[x] = "black" PROVE Leads(x) \cap White' = {}
    <3>1. Leads(x) \subseteq Passed(x) /\ Passed(x) \cap W \subseteq T
      BY <1>5, <1>8, <2>2, BlackAtOnce DEF IInv
    <3> QED
      BY <1>6, <1>11, <3>1
  <2>3. ASSUME NEW x \in Live, mark'[x] = "gray", open'[x] = None PROVE x \in Grays'
    <3>1. x \in T
      BY <1>10, <2>3, Colors DEF IInv
    <3> QED
      BY <1>1, <1>8, <2>1, <2>3, <3>1, BlackAtOnce DEF Queued, IInv
  <2>4. ASSUME NEW x \in Grays' PROVE mark'[x] = "gray" /\ type[x] \in {"table", "closure", "proto", "thread"}
    BY <1>8, <2>1, <2>4 DEF ColorOf, Queued
  <2>5. mark'[Main] = "gray"
    BY <1>6, <1>8 DEF ColorOf, IInv, TypeInv
  <2>6. \A x \in Live \ White' : x \in T /\ x \in Node
    BY <1>4, <1>11
  <2> QED
    BY <1>1, <1>3, <1>9, <1>12, <2>2, <2>3, <2>4, <2>5, <2>6 DEF GrayInv
<1>24. OldInv'
  <2>1. \A x \in Elems(allgc) \cup Elems(finobj) : x \in Live
    BY Listable
  <2>2. OldRun(allgc, {})' /\ OldRun(finobj, {})'
    BY <1>1, <1>14, <2>1 DEF OldRun
  <2> QED
    BY <1>1, <1>9, <1>13, <1>14, <1>18, <2>2 DEF OldInv
<1> QED
  BY <1>15, <1>16, <1>19, <1>20, <1>21, <1>22, <1>23, <1>24 DEF IInv

(* What a traversal marks is among what an object leads to.                *)
LEMMA StrongIn ==
  ASSUME TypeInv, KindInv, NEW o \in Node, NEW M
  PROVE  /\ Strong(o, M) \subseteq Leads(o) /\ Strong(o, M) \subseteq Obj
         /\ open[o] = None /\ mode[o] = "strong" => Strong(o, M) = Refs(o)
<1>1. mode[o] \in {"strong", "weakv", "weakk", "weakkv"} /\ (open[o] # None => type[o] = "upval" /\ open[o] \in Node)
  BY DEF TypeInv, KindInv
<1>2. \A x \in Node : Refs(x) \subseteq Obj /\ Vals(x) \subseteq Obj
  <2> SUFFICES ASSUME NEW x \in Node PROVE Refs(x) \subseteq Obj /\ Vals(x) \subseteq Obj
    OBVIOUS
  <2>1. entries[x] \in SUBSET ((Obj \cup {None}) \X (Obj \cup {None}))
    BY DEF TypeInv
  <2> QED
    BY <2>1 DEF Refs, Vals, Keys
<1>3. CASE open[o] # None
  BY <1>1, <1>2, <1>3 DEF Strong, Leads
<1>4. CASE open[o] = None
  <2>1. Strong(o, M) \subseteq Refs(o) /\ (mode[o] = "strong" => Strong(o, M) = Refs(o))
    <3>1. CASE mode[o] = "strong"
      BY <1>4, <3>1 DEF Strong
    <3>2. CASE mode[o] = "weakv"
      BY <1>4, <3>2 DEF Strong, Refs
    <3>3. CASE mode[o] = "weakk"
      BY <1>4, <3>3 DEF Strong, Refs, Vals, Keys
    <3>4. CASE mode[o] = "weakkv"
      BY <1>4, <3>4 DEF Strong
    <3> QED
      BY <1>1, <3>1, <3>2, <3>3, <3>4
  <2> QED
    BY <1>2, <1>4, <2>1 DEF Leads
<1> QED
  BY <1>3, <1>4

LEMMA PropagateStep == ASSUME IInv, NEW o \in Node, Propagate(o) PROVE IInv'
<1> DEFINE M == Live \ White
           R == Strong(o, M)
           T == Touched(R)
           lazy == type[o] = "thread" \/ mode[o] # "strong"
           part == ClearsVal(o, M \cup T)
<1>1. /\ pending = None /\ ~Over /\ gcstate = "propagate" /\ o \in gray
      /\ mark' = [Marked(T) EXCEPT ![o] = IF lazy THEN "gray" ELSE "black"]
      /\ gray' = (gray \ {o}) \cup Queued(T)
      /\ grayagain' = IF type[o] = "thread" \/ (mode[o] = "weakv" /\ ~part)
                      THEN grayagain \cup {o} ELSE grayagain
      /\ weak' = IF mode[o] = "weakv" /\ part THEN weak \cup {o} ELSE weak
      /\ allweak' = IF mode[o] = "weakkv" THEN allweak \cup {o} ELSE allweak
      /\ ephemeron' = IF mode[o] = "weakk" THEN ephemeron \cup {o} ELSE ephemeron
      /\ cache' = IF cache[o] \in White THEN [cache EXCEPT ![o] = None] ELSE cache
      /\ UNCHANGED <<type, old, mode, entries, open, allgc, finobj, tobefnz, profile, finalized, owed>>
      /\ UNCHANGED <<currentwhite, gcstate, gckind, sweepgc, sweepfin, sweepstr, pending, goal, kind0>>
  BY DEF Propagate, Collecting, Over, lists, state, duty
<1> HIDE DEF part
<1>2. KeepInvariant /\ goal # "closed" /\ ~Sweeping
  BY <1>1 DEF KeepInvariant, Over, Sweeping, SweepStates
<1>3. /\ \A x \in Live \ White : mark[x] = "black" => Leads(x) \cap White = {}
      /\ \A x \in Live : mark[x] = "gray" /\ open[x] = None => x \in Grays
      /\ \A x \in Grays : mark[x] = "gray" /\ type[x] \in {"table", "closure", "proto", "thread"}
      /\ \A x \in weak : mode[x] = "weakv"
      /\ \A x \in ephemeron : mode[x] = "weakk"
      /\ \A x \in allweak : mode[x] \in {"weakk", "weakkv"}
      /\ gray \cap (grayagain \cup weak \cup allweak \cup ephemeron) = {}
      /\ grayagain \cap (weak \cup allweak \cup ephemeron) = {}
      /\ weak \cap (allweak \cup ephemeron) = {} /\ allweak \cap ephemeron = {}
      /\ mark[Main] = "gray"
  BY <1>2 DEF IInv, GrayInv
<1>4. /\ Live \subseteq Node /\ White \subseteq Live /\ Main \in Live /\ Other \in Whites
      /\ "gray" \notin Whites /\ "black" \notin Whites
  BY StackAlive, Colors DEF IInv
<1>5. /\ o \in Live /\ o \notin White /\ o \notin Dead /\ mark[o] = "gray" /\ open[o] = None
      /\ type[o] \in {"table", "closure", "proto", "thread"}
      /\ o \notin grayagain \cup weak \cup allweak \cup ephemeron
      /\ mode[o] \in {"strong", "weakv", "weakk", "weakkv"} /\ (mode[o] # "strong" => type[o] = "table")
  BY <1>1, <1>3, <1>4, Colors DEF Grays, Live, White, Dead, IInv, KindInv, TypeInv
<1>6. R \subseteq Leads(o) /\ R \subseteq Obj /\ (mode[o] = "strong" => R = Refs(o))
  BY <1>5, StrongIn DEF IInv
<1> HIDE DEF R, M
<1>7. /\ R \cap White \subseteq T /\ T \subseteq White /\ T \cap Dead = {}
      /\ \A x \in T : Passed(x) \cap White \subseteq T
  <2>1. R \in SUBSET Node
    BY <1>6, Numbers
  <2>2. R \cap Dead = {}
    BY <1>5, <1>6 DEF IInv, Sound
  <2> QED
    BY <2>1, <2>2, TouchedIs DEF IInv
<1> HIDE DEF T
<1>8. o \notin T /\ T \subseteq Live /\ T \subseteq Node /\ Main \notin T
  BY <1>3, <1>4, <1>5, <1>7 DEF White
<1>9. /\ \A x \in Node : x # o => mark'[x] = IF x \in T THEN ColorOf(x) ELSE mark[x]
      /\ mark'[o] = IF lazy THEN "gray" ELSE "black"
      /\ mark' \in [Node -> Whites \cup {"gray", "black"}]
  <2>1. \A x \in T : ColorOf(x) \in {"gray", "black"}
    BY <1>8, BlackAtOnce DEF IInv
  <2>2. Marked(T) \in [Node -> Whites \cup {"gray", "black"}]
    BY <2>1 DEF Marked, IInv, TypeInv
  <2>3. \A x \in Node : Marked(T)[x] = IF x \in T THEN ColorOf(x) ELSE mark[x]
    BY DEF Marked
  <2> HIDE DEF lazy
  <2>4. \A x \in Node : x # o => mark'[x] = Marked(T)[x]
    BY <1>1, <2>2
  <2> QED
    BY <1>1, <2>2, <2>3, <2>4
<1>10. \A x \in T : ColorOf(x) \in {"gray", "black"} /\ mark'[x] = ColorOf(x) /\ mark[x] \in Whites
  BY <1>7, <1>8, <1>9, BlackAtOnce DEF IInv, White
<1>11. \A x \in Node : x \notin T /\ x # o => mark'[x] = mark[x]
  BY <1>9
<1>12. mark'[o] \in {"gray", "black"} /\ (lazy => mark'[o] = "gray") /\ (~lazy => mark'[o] = "black")
  BY <1>9
<1> HIDE DEF lazy
<1>13. Live' = Live /\ Other' = Other
  BY <1>1 DEF Live, Other
<1>14. White' = White \ T /\ Dead' = Dead
  <2>1. \A x \in Live : x \in White' <=> x \in White /\ x \notin T
    BY <1>4, <1>5, <1>10, <1>11, <1>12, <1>13 DEF White
  <2>2. \A x \in Live : x \in Dead' <=> x \in Dead
    BY <1>4, <1>5, <1>7, <1>10, <1>11, <1>12, <1>13 DEF Dead
  <2> QED
    BY <1>13, <2>1, <2>2 DEF White, Dead
<1>15. /\ cache' \in [Node -> Obj \cup {None}] /\ \A x \in Node : cache'[x] \in {cache[x], None}
       /\ cache'[o] \notin White
  <2>1. None \notin White
    BY <1>4, Numbers
  <2>2. cache \in [Node -> Obj \cup {None}]
    BY DEF IInv, TypeInv
  <2> QED
    BY <1>1, <2>1, <2>2
<1>16. \A x \in Node : Leads(x)' \subseteq Leads(x) /\ Refs(x)' = Refs(x)
  BY <1>1, <1>15 DEF Leads, Refs, Vals, Keys
<1>17. TypeInv'
  <2>1. gray' \subseteq Node /\ grayagain' \subseteq Node /\ weak' \subseteq Node /\ allweak' \subseteq Node /\ ephemeron' \subseteq Node
    BY <1>1, <1>8 DEF Queued, IInv, TypeInv
  <2> QED
    BY <1>1, <1>9, <1>15, <2>1 DEF IInv, TypeInv
<1>18. KindInv'
  <2>1. \A x \in Node : open[x] # None => mark'[x] # "black"
    BY <1>5, <1>8, <1>10, <1>11, BlackAtOnce DEF IInv, KindInv
  <2>2. \A x \in Node : type[x] = "thread" => mark'[x] # "black"
    <3>1. type[o] = "thread" => lazy
      BY DEF lazy
    <3> QED
      BY <1>8, <1>10, <1>11, <1>12, <3>1, BlackAtOnce DEF IInv, KindInv
  <2>3. \A x \in Node : cache'[x] # None => cache[x] # None
    BY <1>15
  <2> QED
    BY <1>1, <2>1, <2>2, <2>3 DEF IInv, KindInv
<1>19. /\ Elems(allgc)' = Elems(allgc) /\ Elems(finobj)' = Elems(finobj) /\ Elems(tobefnz)' = Elems(tobefnz)
       /\ Distinct(allgc)' = Distinct(allgc) /\ Distinct(finobj)' = Distinct(finobj) /\ Distinct(tobefnz)' = Distinct(tobefnz)
       /\ \A U : OldRun(allgc, U)' = OldRun(allgc, U) /\ OldRun(finobj, U)' = OldRun(finobj, U)
  BY <1>1 DEF Elems, Distinct, After, OldRun
<1>20. ~Sweeping' /\ ~Over'
  BY <1>1, <1>2 DEF Sweeping, Over
<1>21. ListInv' /\ FinInv' /\ PendingInv' /\ Kept'
  BY <1>1, <1>2, <1>14, <1>19, <1>20 DEF IInv, ListInv, FinInv, PendingInv, Kept
<1>22. GoalInv' /\ PointInv'
  BY <1>1, <1>2, <1>19, <1>20 DEF IInv, GoalInv, PointInv, Over
<1>23. Sound'
  BY <1>4, <1>13, <1>14, <1>16 DEF IInv, Sound
<1>24. SweptInv'
  <2>1. \A x : Stale(x)' = Stale(x)
    BY <1>1 DEF Stale
  <2> QED
    BY <1>1, <1>2, <1>14, <1>20, <2>1 DEF IInv, SweptInv
<1>25. OldInv'
  <2>1. \A x \in Live : old[x] => mark'[x] \notin Whites
    BY <1>1, <1>4, <1>5, <1>10, <1>11, <1>12 DEF IInv, OldInv
  <2> QED
    BY <1>1, <1>2, <1>13, <1>19, <1>20, <2>1 DEF IInv, OldInv
<1>26. GrayInv'
  <2>1. ASSUME NEW x \in Live \ White', mark'[x] = "black" PROVE Leads(x)' \cap White' = {}
    <3>1. CASE x \in T
      <4>1. Leads(x) \subseteq Passed(x) /\ Passed(x) \cap White \subseteq T
        BY <1>7, <1>8, <1>10, <2>1, <3>1, BlackAtOnce DEF IInv
      <4> QED
        BY <1>4, <1>14, <1>16, <4>1
    <3>2. CASE x = o
      <4>1. mode[o] = "strong"
        BY <1>12, <2>1, <3>2 DEF lazy
      <4>2. Leads(o)' \subseteq Refs(o) \cup {cache'[o]}
        BY <1>1, <1>5 DEF Leads, Refs, Vals, Keys
      <4> QED
        BY <1>6, <1>7, <1>14, <1>15, <3>2, <4>1, <4>2
    <3>3. CASE x \notin T /\ x # o
      <4>1. x \in Live \ White /\ mark[x] = "black"
        BY <1>4, <1>11, <1>14, <2>1, <3>3
      <4> QED
        BY <1>3, <1>4, <1>14, <1>16, <4>1
    <3> QED
      BY <3>1, <3>2, <3>3
  <2>2. Grays' = (Grays \ {o}) \cup Queued(T) \cup (IF lazy THEN {o} ELSE {})
    <3>1. CASE lazy
      <4>1. type[o] = "thread" \/ mode[o] \in {"weakv", "weakk", "weakkv"}
        BY <1>5, <3>1 DEF lazy
      <4>2. grayagain' \cup weak' \cup allweak' \cup ephemeron' = grayagain \cup weak \cup allweak \cup ephemeron \cup {o}
        BY <1>1, <4>1
      <4> QED
        BY <1>1, <3>1, <4>2 DEF Grays
    <3>2. CASE ~lazy
      <4>1. UNCHANGED <<grayagain, weak, allweak, ephemeron>>
        BY <1>1, <3>2 DEF lazy
      <4> QED
        BY <1>1, <1>5, <3>2, <4>1 DEF Grays
    <3> QED
      BY <3>1, <3>2
  <2>3. Queued(T) \subseteq T /\ T \cap Grays = {}
    BY <1>3, <1>4, <1>7 DEF Queued, White
  <2>4. ASSUME NEW x \in Live, mark'[x] = "gray", open[x] = None PROVE x \in Grays'
    <3>1. CASE x \in T
      BY <1>10, <2>2, <2>4, <3>1, BlackAtOnce DEF Queued, IInv
    <3>2. CASE x = o
      BY <1>12, <2>2, <2>4, <3>2
    <3>3. CASE x \notin T /\ x # o
      BY <1>3, <1>4, <1>11, <2>2, <2>4, <3>3
    <3> QED
      BY <3>1, <3>2, <3>3
  <2>5. ASSUME NEW x \in Grays' PROVE mark'[x] = "gray" /\ type[x] \in {"table", "closure", "proto", "thread"}
    <3>1. CASE x \in Queued(T)
      BY <1>10, <2>3, <3>1 DEF Queued, ColorOf
    <3>2. CASE x = o /\ lazy
      BY <1>5, <1>12, <3>2
    <3>3. CASE x \in Grays \ {o}
      <4>1. x \notin T /\ x \in Node
        BY <2>3, <3>3 DEF Grays, IInv, TypeInv
      <4> QED
        BY <1>3, <1>11, <3>3, <4>1
    <3> QED
      BY <2>2, <2>5, <3>1, <3>2, <3>3
  <2>6. /\ \A x \in weak' : mode[x] = "weakv"
        /\ \A x \in ephemeron' : mode[x] = "weakk"
        /\ \A x \in allweak' : mode[x] \in {"weakk", "weakkv"}
    BY <1>1, <1>3
  <2>7. gray' \cap (grayagain' \cup weak' \cup allweak' \cup ephemeron') = {}
    <3>1. grayagain' \cup weak' \cup allweak' \cup ephemeron' \subseteq grayagain \cup weak \cup allweak \cup ephemeron \cup {o}
      BY <1>1
    <3>2. o \notin gray' /\ gray' \subseteq gray \cup T
      BY <1>1, <1>8, <2>3
    <3> QED
      BY <1>3, <2>3, <3>1, <3>2 DEF Grays
  <2>8. /\ grayagain' \cap (weak' \cup allweak' \cup ephemeron') = {}
        /\ weak' \cap (allweak' \cup ephemeron') = {} /\ allweak' \cap ephemeron' = {}
    BY <1>1, <1>3, <1>5
  <2>9. mark'[Main] = "gray"
    <3>1. Main = o => lazy
      BY DEF lazy, IInv, TypeInv
    <3> QED
      BY <1>3, <1>4, <1>8, <1>11, <1>12, <3>1
  <2> QED
    BY <1>1, <1>13, <2>1, <2>4, <2>5, <2>6, <2>7, <2>8, <2>9 DEF GrayInv
<1> QED
  BY <1>17, <1>18, <1>21, <1>22, <1>23, <1>24, <1>25, <1>26 DEF IInv

(* With more marked a traversal marks no less.                             *)
LEMMA StrongGrows ==
  ASSUME NEW o, NEW M, NEW X, M \subseteq X
  PROVE  Strong(o, M) \subseteq Strong(o, X)
<1>1. {f \in entries[o] : f[1] \in M \cup {None} \/ IsString(f[1])}
        \subseteq {f \in entries[o] : f[1] \in X \cup {None} \/ IsString(f[1])}
  OBVIOUS
<1>2. {e[2] : e \in {f \in entries[o] : f[1] \in M \cup {None} \/ IsString(f[1])}}
        \subseteq {e[2] : e \in {f \in entries[o] : f[1] \in X \cup {None} \/ IsString(f[1])}}
  BY <1>1
<1>3. CASE type[o] = "upval" /\ open[o] # None
  BY <1>3 DEF Strong
<1>4. CASE ~(type[o] = "upval" /\ open[o] # None)
  <2>1. CASE mode[o] = "strong"
    BY <1>4, <2>1 DEF Strong
  <2>2. CASE mode[o] = "weakv"
    BY <1>4, <2>2 DEF Strong
  <2>3. CASE mode[o] = "weakk"
    BY <1>2, <1>4, <2>3 DEF Strong
  <2>4. CASE mode[o] \notin {"strong", "weakv", "weakk"}
    BY <1>4, <2>4 DEF Strong
  <2> QED
    BY <2>1, <2>2, <2>3, <2>4
<1> QED
  BY <1>3, <1>4

(* Spread is the least set with M that the traversals add nothing to.      *)
LEMMA SpreadIs ==
  ASSUME TypeInv, KindInv, NEW M \in SUBSET Node, NEW Q \in SUBSET Node
  PROVE  /\ M \subseteq Spread(M, Q) /\ Spread(M, Q) \subseteq Node
         /\ \A o \in Q \cup (Spread(M, Q) \ M) : Strong(o, Spread(M, Q)) \subseteq Spread(M, Q)
         /\ \A Y \in SUBSET Node : M \subseteq Y /\ (\A o \in Q \cup (Y \ M) : Strong(o, Y) \subseteq Y)
              => Spread(M, Q) \subseteq Y
<1> DEFINE closed == {X \in {M \cup X : X \in SUBSET (Node \ M)} : \A o \in Q \cup (X \ M) : Strong(o, X) \subseteq X}
           C == {o \in Node : \A X \in closed : o \in X}
<1>1. Spread(M, Q) = C
  BY Zenon DEF Spread
<1>2. \A Y \in SUBSET Node : M \subseteq Y => Y \in {M \cup X : X \in SUBSET (Node \ M)}
  <2> SUFFICES ASSUME NEW Y \in SUBSET Node, M \subseteq Y PROVE \E X \in SUBSET (Node \ M) : Y = M \cup X
    OBVIOUS
  <2>1. Y \ M \in SUBSET (Node \ M) /\ Y = M \cup (Y \ M)
    OBVIOUS
  <2> QED
    BY <2>1
<1>3. \A Y \in SUBSET Node : M \subseteq Y /\ (\A o \in Q \cup (Y \ M) : Strong(o, Y) \subseteq Y) => Y \in closed
  BY <1>2
<1>4. \A X \in closed : M \subseteq X /\ \A o \in Q \cup (X \ M) : Strong(o, X) \subseteq X
  OBVIOUS
<1> HIDE DEF closed
<1>5. M \subseteq C /\ C \subseteq Node /\ \A X \in closed : C \subseteq X
  BY <1>4
<1> HIDE DEF C
<1>6. ASSUME NEW o \in Q \cup (C \ M) PROVE Strong(o, C) \subseteq C
  <2>1. o \in Node /\ Strong(o, C) \subseteq Node
    BY <1>5, <1>6, StrongIn, Numbers
  <2>2. ASSUME NEW X \in closed PROVE Strong(o, C) \subseteq X
    BY <1>4, <1>5, <1>6, <2>2, StrongGrows
  <2> QED
    BY <2>1, <2>2 DEF C
<1> QED
  BY <1>1, <1>3, <1>5, <1>6

(* The sets of objects in the end of the marking.                          *)
Marked0 == Live \ White
OpenGray == {u \in Live : type[u] = "upval" /\ open[u] # None /\ mark[u] = "gray"}
Queue1  == grayagain \cup weak \cup ephemeron
Marked1 == Spread(Marked0, Queue1 \cup OpenGray)
Tread1  == Queue1 \cup (Marked1 \ Marked0)
Due     == Without(finobj, Marked1)
Queue2  == Elems(tobefnz) \cup Elems(Due)
Marked2 == Spread(Marked1 \cup Queue2, Queue2 \cup Tables("weakk", Tread1))
Tread2  == Queue2 \cup (Marked2 \ Marked1)
Tread   == Tread1 \cup Tread2
Weak1   == {o \in Tables("weakv", Tread1) : ClearsVal(o, Marked1)}
Weak2   == Weak1 \cup {o \in Tables("weakv", Tread2) : ClearsVal(o, Marked2)}
Clear1  == allweak \cup Tables("weakkv", Tread1)
           \cup {o \in Tables("weakk", Tread1) : ClearsKey(o, Marked1) /\ ~Undecided(o, Marked1)}
Waits   == {o \in Tables("weakk", Tread) : Undecided(o, Marked2)}
Clear2  == Clear1 \cup Tables("weakkv", Tread2)
           \cup {o \in Tables("weakk", Tread) \ Waits : ClearsKey(o, Marked2)}
Leaves(o, e) == \/ (o \in Weak1 \cup Clear1 /\ Clears(e[2], Marked1))
                \/ (o \in Weak2 \cup Clear2 /\ Clears(e[2], Marked2))
                \/ (o \in Waits \cup Clear2 /\ Clears(e[1], Marked2))
Remains == [o \in Node |-> {e \in entries[o] : ~Leaves(o, e)}]
Spared  == {x \in Live : IsString(x) /\ \E o \in Clear2 : \E e \in Remains[o] : x \in {e[1], e[2]}}

(* The end of the marking, in terms of these sets.                         *)
LEMMA AtomicIs ==
  ASSUME Atomic
  PROVE  /\ Collecting /\ gcstate = "propagate" /\ gray = {}
         /\ finobj' = Without(finobj, Elems(Due)) /\ tobefnz' = tobefnz \o Due
         /\ finalized' = finalized \cup Elems(Due)
         /\ mark' = [o \in Node |->
                       IF o \in Tread THEN IF \/ type[o] = "thread" \/ mode[o] # "strong"
                                              \/ (type[o] = "upval" /\ open[o] # None)
                                           THEN "gray" ELSE "black"
                       ELSE IF o \in Spared THEN "black" ELSE mark[o]]
         /\ old' = [o \in Node |-> old[o] /\ o \notin Queue2]
         /\ entries' = Remains
         /\ cache' = [o \in Node |-> IF o \in Tread /\ cache[o] \in White THEN None ELSE cache[o]]
         /\ weak' = Weak2 /\ allweak' = Clear2 /\ ephemeron' = Waits
         /\ grayagain' = {o \in Tread : type[o] = "thread"} \cup (Tables("weakv", Tread) \ Weak2)
                         \cup (Tables("weakk", Tread) \ (Waits \cup Clear2))
         /\ currentwhite' = Other /\ gcstate' = "enterfin" /\ sweepfin' = Start
         /\ UNCHANGED <<type, mode, open, allgc, gray, profile, owed>>
         /\ UNCHANGED <<gckind, sweepgc, sweepstr, pending, goal, kind0>>
BY Zenon DEF Atomic, Marked0, OpenGray, Queue1, Marked1, Tread1, Due, Queue2, Marked2, Tread2, Tread,
   Weak1, Weak2, Clear1, Waits, Clear2, Leaves, Remains, Spared

(* How these sets lie, when the marking ends.                              *)
LEMMA AtomicSets ==
  ASSUME IInv, gcstate = "propagate", gray = {}, ~Over
  PROVE  /\ Marked0 \subseteq Marked1 /\ Marked1 \subseteq Marked2 /\ Marked2 \subseteq Live \ Dead
         /\ Queue1 \subseteq Marked0 /\ OpenGray \subseteq Marked0 /\ Queue2 \subseteq Marked2
         /\ \A o \in Queue1 \cup OpenGray \cup (Marked1 \ Marked0) : Strong(o, Marked1) \subseteq Marked1
         /\ \A o \in Tread2 \cup Tables("weakk", Tread1) : Strong(o, Marked2) \subseteq Marked2
         /\ Due \in Seq(Obj) /\ Distinct(Due) /\ Elems(Due) = Elems(finobj) \ Marked1
         /\ \A o \in Queue2 : o \in Obj /\ type[o] \in {"udata", "table"} /\ mode[o] = "strong"
         /\ Tread \subseteq Marked2 /\ Marked2 \ Marked0 \subseteq Tread /\ Tread \subseteq Node
         /\ allweak \cap Tread = {} /\ allweak \subseteq Marked0
         /\ \A o \in Marked0 \ (Queue1 \cup OpenGray \cup allweak) : mark[o] = "black"
<1>1. KeepInvariant /\ goal # "closed"
  BY DEF KeepInvariant, Over
<1>2. /\ \A x \in Live : mark[x] = "gray" /\ open[x] = None => x \in Grays
      /\ \A x \in Grays : mark[x] = "gray" /\ type[x] \in {"table", "closure", "proto", "thread"}
      /\ grayagain \cap (weak \cup allweak \cup ephemeron) = {}
      /\ weak \cap (allweak \cup ephemeron) = {} /\ allweak \cap ephemeron = {}
      /\ \A x \in allweak : mode[x] \in {"weakk", "weakkv"}
  BY <1>1 DEF IInv, GrayInv
<1>3. /\ Live \subseteq Node /\ White \subseteq Live /\ Dead \subseteq White
      /\ "gray" \notin Whites
  BY Colors DEF IInv
<1>4. Grays = Queue1 \cup allweak /\ Grays \subseteq Marked0
  <2>1. Grays = Queue1 \cup allweak
    BY DEF Grays, Queue1
  <2>2. \A x \in Grays : x \in Node /\ type[x] # "free"
    BY <1>2 DEF Grays, IInv, TypeInv
  <2> QED
    BY <1>2, <1>3, <2>1, <2>2 DEF Marked0, White, Live
<1>5. OpenGray \subseteq Marked0
  BY <1>3 DEF OpenGray, Marked0, White
<1>6. \A o \in Live \ Dead : Leads(o) \subseteq Live \ Dead
  BY DEF IInv, Sound
<1>7. \A X : \A o \in Live \ Dead : Strong(o, X) \subseteq Live \ Dead
  <2> SUFFICES ASSUME NEW o \in Live \ Dead, NEW X PROVE Strong(o, X) \subseteq Live \ Dead
    OBVIOUS
  <2>1. Strong(o, X) \subseteq Leads(o)
    BY <1>3, StrongIn DEF IInv
  <2> QED
    BY <1>6, <2>1
<1> DEFINE Y == Live \ Dead
<1>8. Y \in SUBSET Node /\ (\A X : \A o \in Y : Strong(o, X) \subseteq Y) /\ Marked0 \subseteq Y
  BY <1>3, <1>7 DEF Marked0
<1> HIDE DEF Y
<1>9. /\ Marked0 \subseteq Marked1 /\ Marked1 \subseteq Y
      /\ \A o \in Queue1 \cup OpenGray \cup (Marked1 \ Marked0) : Strong(o, Marked1) \subseteq Marked1
  <2> DEFINE Q == Queue1 \cup OpenGray
  <2>1. Marked0 \in SUBSET Node /\ Q \in SUBSET Node /\ Q \subseteq Y
    BY <1>4, <1>5, <1>8
  <2> HIDE DEF Q
  <2>2. /\ Marked0 \subseteq Spread(Marked0, Q)
        /\ \A o \in Q \cup (Spread(Marked0, Q) \ Marked0) : Strong(o, Spread(Marked0, Q)) \subseteq Spread(Marked0, Q)
        /\ Spread(Marked0, Q) \subseteq Y
    BY <1>8, <2>1, SpreadIs DEF IInv
  <2>3. Marked1 = Spread(Marked0, Q)
    BY DEF Marked1, Q
  <2>4. \A o \in Q \cup (Marked1 \ Marked0) : Strong(o, Marked1) \subseteq Marked1
    BY <2>2, <2>3
  <2> QED
    BY <2>2, <2>3, <2>4 DEF Q
<1>10. Due \in Seq(Obj) /\ Distinct(Due) /\ Elems(Due) = Elems(finobj) \ Marked1
  <2>1. finobj \in Seq(Obj) /\ Distinct(finobj)
    BY DEF IInv, TypeInv, ListInv
  <2> QED
    BY <2>1, ListWithout DEF Due
<1>11. \A o \in Queue2 : o \in Obj /\ o \in Y /\ type[o] \in {"udata", "table"} /\ mode[o] = "strong"
  <2>1. \A o \in Queue2 : o \in Elems(finobj) \cup Elems(tobefnz)
    BY <1>10 DEF Queue2
  <2>2. \A o \in Elems(finobj) \cup Elems(tobefnz) : o \in Obj /\ type[o] \in {"udata", "table"} /\ mode[o] = "strong"
    BY ListsIn DEF IInv, ListInv
  <2> QED
    BY <2>1, <2>2, Numbers DEF Y, Live, IInv, Kept
<1>12. Tread1 \subseteq Marked1 /\ Marked1 \ Marked0 \subseteq Tread1
  BY <1>4, <1>9 DEF Tread1
<1>13. /\ Marked1 \subseteq Marked2 /\ Queue2 \subseteq Marked2 /\ Marked2 \subseteq Y
       /\ \A o \in Tread2 \cup Tables("weakk", Tread1) : Strong(o, Marked2) \subseteq Marked2
  <2> DEFINE M == Marked1 \cup Queue2
             Q == Queue2 \cup Tables("weakk", Tread1)
  <2>1. M \in SUBSET Node /\ Q \in SUBSET Node /\ Q \subseteq Y /\ M \subseteq Y
    BY <1>8, <1>9, <1>11, <1>12 DEF Tables
  <2> HIDE DEF M, Q
  <2>2. /\ M \subseteq Spread(M, Q)
        /\ \A o \in Q \cup (Spread(M, Q) \ M) : Strong(o, Spread(M, Q)) \subseteq Spread(M, Q)
        /\ Spread(M, Q) \subseteq Y
    BY <1>8, <2>1, SpreadIs DEF IInv
  <2>3. Marked2 = Spread(M, Q)
    BY DEF Marked2, M, Q
  <2>4. \A o \in Q \cup (Marked2 \ M) : Strong(o, Marked2) \subseteq Marked2
    BY <2>2, <2>3
  <2>5. \A o \in Tread2 \cup Tables("weakk", Tread1) : o \in Q \cup (Marked2 \ M)
    BY DEF Tread2, M, Q
  <2> QED
    BY <2>2, <2>3, <2>4, <2>5 DEF M
<1>14. Tread \subseteq Marked2 /\ Marked2 \ Marked0 \subseteq Tread
  BY <1>9, <1>12, <1>13 DEF Tread, Tread2
<1>15. allweak \cap Tread = {}
  <2>1. allweak \cap Queue1 = {}
    BY <1>2 DEF Queue1
  <2>2. allweak \cap Queue2 = {}
    BY <1>2, <1>11
  <2>3. allweak \cap (Marked1 \ Marked0) = {} /\ allweak \cap (Marked2 \ Marked1) = {}
    BY <1>4, <1>9
  <2> QED
    BY <2>1, <2>2, <2>3 DEF Tread, Tread1, Tread2
<1>16. \A o \in Marked0 \ (Queue1 \cup OpenGray \cup allweak) : mark[o] = "black"
  <2> SUFFICES ASSUME NEW o \in Marked0, o \notin Queue1 \cup OpenGray \cup allweak PROVE mark[o] = "black"
    OBVIOUS
  <2>1. o \in Live /\ o \in Node /\ mark[o] \in {"gray", "black"}
    BY <1>3 DEF Marked0, White, IInv, TypeInv
  <2>2. ASSUME mark[o] = "gray" PROVE FALSE
    <3>1. open[o] # None
      BY <1>2, <1>4, <2>1, <2>2
    <3>2. type[o] = "upval"
      BY <2>1, <3>1 DEF IInv, KindInv
    <3> QED
      BY <2>1, <2>2, <3>1, <3>2 DEF OpenGray
  <2> QED
    BY <2>1, <2>2
<1>17. Tread \subseteq Node /\ allweak \subseteq Marked0
  BY <1>4, <1>8, <1>13, <1>14
<1> QED
  BY <1>4, <1>5, <1>9, <1>10, <1>11, <1>13, <1>14, <1>15, <1>16, <1>17 DEF Y

(* Less is cleared when more is marked.                                    *)
LEMMA ClearsLess ==
  ASSUME NEW M, NEW X, M \subseteq X, NEW o
  PROVE  /\ \A x : Clears(x, X) => Clears(x, M)
         /\ ClearsVal(o, X) => ClearsVal(o, M)
         /\ Undecided(o, X) => Undecided(o, M)
BY DEF Clears, ClearsVal, Undecided

(* The entries that are left in a weak table.                              *)
LEMMA RemainsMarked ==
  ASSUME IInv, gcstate = "propagate", gray = {}, ~Over, NEW o \in Marked2, mode[o] # "strong", open[o] = None,
         o \in Tread \cup allweak, NEW e \in Remains[o]
  PROVE  e \in entries[o] /\ {e[1], e[2]} \subseteq Marked2 \cup Spared \cup {None}
<1>1. /\ Marked0 \subseteq Marked1 /\ Marked1 \subseteq Marked2 /\ Marked2 \subseteq Live \ Dead
      /\ \A x \in Queue1 \cup OpenGray \cup (Marked1 \ Marked0) : Strong(x, Marked1) \subseteq Marked1
      /\ \A x \in Tread2 \cup Tables("weakk", Tread1) : Strong(x, Marked2) \subseteq Marked2
  BY AtomicSets
<1>2. o \in Node /\ o \in Live \ Dead /\ type[o] = "table" /\ mode[o] \in {"weakv", "weakk", "weakkv"}
  <2>1. o \in Node /\ o \in Live \ Dead
    BY <1>1, Colors DEF IInv
  <2> QED
    BY <2>1 DEF IInv, KindInv, TypeInv
<1>3. e \in entries[o] /\ ~Leaves(o, e)
  BY <1>2 DEF Remains
<1>4. /\ \A d \in entries[o] : {d[1], d[2]} \subseteq (Live \ Dead) \cup {None}
      /\ \A d \in entries[o] : d[1] # None => d[1] \in Keys(o)
      /\ \A d \in entries[o] : d[2] # None => d[2] \in Vals(o)
  BY <1>2, RefsAlive DEF IInv, Keys, Vals
<1>5. CASE o \in Clear2
  <2>1. ~Clears(e[1], Marked2) /\ ~Clears(e[2], Marked2)
    BY <1>3, <1>5 DEF Leaves
  <2>2. \A x \in {e[1], e[2]} : x = None \/ x \in Marked2 \/ (x \in Live /\ IsString(x))
    BY <1>3, <1>4, <2>1 DEF Clears
  <2>3. \A x \in {e[1], e[2]} : x \in Live /\ IsString(x) => x \in Spared
    BY <1>5 DEF Spared
  <2> QED
    BY <1>3, <2>2, <2>3
<1>6. CASE o \notin Clear2
  <2>1. o \in Tread /\ o \notin allweak /\ mode[o] # "weakkv"
    BY <1>2, <1>6 DEF Clear2, Clear1, Tread, Tables
  <2>2. CASE mode[o] = "weakv"
    <3>1. \A X : Strong(o, X) = Keys(o) \cup {x \in Vals(o) : IsString(x)}
      BY <1>2, <2>2 DEF Strong
    <3>2. Keys(o) \subseteq Marked2 /\ \A x \in Vals(o) : IsString(x) => x \in Marked2
      <4>1. Strong(o, Marked1) \subseteq Marked1 \/ Strong(o, Marked2) \subseteq Marked2
        BY <1>1, <2>1 DEF Tread, Tread1
      <4> QED
        BY <1>1, <3>1, <4>1
    <3>3. ~Clears(e[2], Marked2)
      <4> SUFFICES ASSUME Clears(e[2], Marked2) PROVE FALSE
        OBVIOUS
      <4>1. e[2] \in Vals(o) /\ ClearsVal(o, Marked2)
        BY <1>3, <1>4 DEF ClearsVal, Clears
      <4>2. ClearsVal(o, Marked1)
        BY <1>1, <4>1, ClearsLess
      <4>3. o \in Weak2
        BY <1>2, <2>1, <2>2, <4>1, <4>2 DEF Weak2, Weak1, Tread, Tables
      <4> QED
        BY <1>3, <4>3 DEF Leaves
    <3> QED
      BY <1>3, <1>4, <3>2, <3>3 DEF Clears
  <2>3. CASE mode[o] = "weakk"
    <3>1. Strong(o, Marked2) \subseteq Marked2
      BY <1>1, <1>2, <2>1, <2>3 DEF Tread, Tables
    <3>2. Strong(o, Marked2) = {x \in Keys(o) : IsString(x)} \cup
              ({d[2] : d \in {f \in entries[o] : f[1] \in Marked2 \cup {None} \/ IsString(f[1])}} \ {None})
      BY <1>2, <2>3 DEF Strong
    <3>3. ~Clears(e[1], Marked2)
      <4> SUFFICES ASSUME Clears(e[1], Marked2) PROVE FALSE
        OBVIOUS
      <4>1. e[1] \in Keys(o) /\ ClearsKey(o, Marked2)
        BY <1>3, <1>4 DEF ClearsKey, Clears
      <4>2. o \in Tables("weakk", Tread)
        BY <1>2, <2>1, <2>3 DEF Tables
      <4>3. o \in Waits
        BY <1>6, <4>1, <4>2 DEF Clear2
      <4> QED
        BY <1>3, <4>3 DEF Leaves
    <3>4. e[1] = None \/ e[1] \in Marked2 \/ IsString(e[1])
      BY <3>3 DEF Clears
    <3>5. e[1] \in Marked2 \cup {None}
      BY <1>3, <1>4, <3>1, <3>2, <3>4
    <3>6. e[2] \in Marked2 \cup {None}
      BY <1>3, <3>1, <3>2, <3>4
    <3> QED
      BY <1>3, <3>5, <3>6
  <2> QED
    BY <1>2, <2>1, <2>2, <2>3
<1> QED
  BY <1>5, <1>6

(* What anything marked leads to when the marking has ended is marked, or  *)
(* spared as a string in a weak table.                                     *)
LEMMA AtomicLeads ==
  ASSUME IInv, gcstate = "propagate", gray = {}, ~Over, NEW o \in Marked2,
         entries' = Remains, open' = open,
         cache'[o] = IF o \in Tread /\ cache[o] \in White THEN None ELSE cache[o]
  PROVE  Leads(o)' \subseteq Marked2 \cup Spared
<1>1. /\ Marked0 \subseteq Marked1 /\ Marked1 \subseteq Marked2 /\ Marked2 \subseteq Live \ Dead
      /\ \A x \in Queue1 \cup OpenGray \cup (Marked1 \ Marked0) : Strong(x, Marked1) \subseteq Marked1
      /\ \A x \in Tread2 \cup Tables("weakk", Tread1) : Strong(x, Marked2) \subseteq Marked2
      /\ Marked2 \ Marked0 \subseteq Tread
      /\ \A x \in Marked0 \ (Queue1 \cup OpenGray \cup allweak) : mark[x] = "black"
  BY AtomicSets
<1>2. o \in Node /\ o \in Live \ Dead
  BY <1>1, Colors DEF IInv
<1>3. /\ mode[o] \in {"strong", "weakv", "weakk", "weakkv"}
      /\ open[o] # None => type[o] = "upval" /\ open[o] \in Node
      /\ cache[o] # None => type[o] = "proto"
      /\ mode[o] # "strong" => type[o] = "table"
      /\ cache[o] # None => cache[o] \in Live \ Dead
  BY <1>2 DEF IInv, TypeInv, KindInv, Sound, Leads
<1>4. \A x \in Node : Remains[x] \subseteq entries[x]
  BY DEF Remains
<1>5. \A x \in Node : Vals(x)' \subseteq Vals(x) /\ Refs(x)' \subseteq Refs(x)
  BY <1>4 DEF Vals, Keys, Refs
<1>6. Leads(o)' \subseteq Leads(o)
  <2>1. cache'[o] \in {cache[o], None}
    OBVIOUS
  <2> QED
    BY <1>2, <1>3, <1>5, <2>1 DEF Leads
<1>7. CASE o \in Marked0 \ (Queue1 \cup OpenGray \cup allweak)
  <2>1. mark[o] = "black" /\ o \in Live \ White
    BY <1>1, <1>7 DEF Marked0
  <2>2. Leads(o) \cap White = {}
    BY <2>1 DEF IInv, GrayInv, KeepInvariant, Over
  <2>3. Leads(o) \subseteq Live \ Dead
    BY <1>2 DEF IInv, Sound
  <2> QED
    BY <1>1, <1>6, <2>2, <2>3 DEF Marked0
<1>8. CASE o \notin Marked0 \ (Queue1 \cup OpenGray \cup allweak)
  <2>1. o \in Queue1 \cup OpenGray \cup (Marked1 \ Marked0) \cup Tread2 \cup allweak
    BY <1>1, <1>8 DEF Tread, Tread1
  <2>2. cache'[o] = None \/ cache'[o] \in Marked2
    <3>1. CASE cache[o] = None
      BY <3>1
    <3>2. CASE cache[o] # None
      <4>1. o \in Tread
        <5>1. o \notin OpenGray /\ o \notin allweak
          <6>1. allweak \subseteq Grays /\ (\A x \in allweak : mode[x] # "strong")
            BY DEF Grays, IInv, GrayInv, KeepInvariant, Over
          <6> QED
            BY <1>3, <3>2, <6>1 DEF OpenGray
        <5> QED
          BY <2>1, <5>1 DEF Tread, Tread1
      <4> QED
        BY <1>1, <1>3, <3>2, <4>1 DEF Marked0
    <3> QED
      BY <3>1, <3>2
  <2>3. CASE open[o] # None
    <3>1. o \notin allweak /\ \A X : Strong(o, X) = Vals(open[o])
      <4>1. \A x \in allweak : mode[x] # "strong"
        BY DEF IInv, GrayInv, KeepInvariant, Over
      <4> QED
        BY <1>3, <2>3, <4>1 DEF Strong
    <3>2. Strong(o, Marked1) \subseteq Marked1 \/ Strong(o, Marked2) \subseteq Marked2
      BY <1>1, <2>1, <3>1
    <3>3. Vals(open[o]) \subseteq Marked2
      BY <1>1, <3>1, <3>2
    <3> QED
      BY <1>3, <1>5, <2>2, <2>3, <3>3 DEF Leads
  <2>4. CASE open[o] = None /\ mode[o] = "strong"
    <3>1. o \notin allweak /\ o \notin OpenGray
      <4>1. \A x \in allweak : mode[x] # "strong"
        BY DEF IInv, GrayInv, KeepInvariant, Over
      <4> QED
        BY <2>4, <4>1 DEF OpenGray
    <3>2. Strong(o, Marked1) \subseteq Marked1 \/ Strong(o, Marked2) \subseteq Marked2
      BY <1>1, <2>1, <3>1
    <3>3. \A X : Strong(o, X) = Refs(o)
      BY <1>2, <2>4, StrongIn DEF IInv
    <3>4. Refs(o) \subseteq Marked2
      BY <1>1, <3>2, <3>3
    <3> QED
      BY <1>2, <1>5, <2>2, <2>4, <3>4 DEF Leads
  <2>5. CASE open[o] = None /\ mode[o] # "strong"
    <3>1. o \in Tread \cup allweak
      BY <2>1, <2>5 DEF Tread, Tread1, OpenGray
    <3>2. \A e \in Remains[o] : {e[1], e[2]} \subseteq Marked2 \cup Spared \cup {None}
      BY <2>5, <3>1, RemainsMarked
    <3>3. Refs(o)' \subseteq Marked2 \cup Spared
      BY <3>2 DEF Refs, Vals, Keys
    <3> QED
      BY <2>2, <2>5, <3>3 DEF Leads
  <2> QED
    BY <2>3, <2>4, <2>5
<1> QED
  BY <1>7, <1>8

LEMMA AtomicStep == ASSUME IInv, Atomic PROVE IInv'
<1> DEFINE lazy(o) == type[o] = "thread" \/ mode[o] # "strong" \/ (type[o] = "upval" /\ open[o] # None)
<1>1. /\ pending = None /\ ~Over /\ gcstate = "propagate" /\ gray = {}
      /\ finobj' = Without(finobj, Elems(Due)) /\ tobefnz' = tobefnz \o Due
      /\ finalized' = finalized \cup Elems(Due)
      /\ mark' = [o \in Node |-> IF o \in Tread THEN IF lazy(o) THEN "gray" ELSE "black"
                                 ELSE IF o \in Spared THEN "black" ELSE mark[o]]
      /\ old' = [o \in Node |-> old[o] /\ o \notin Queue2]
      /\ entries' = Remains
      /\ cache' = [o \in Node |-> IF o \in Tread /\ cache[o] \in White THEN None ELSE cache[o]]
      /\ weak' = Weak2 /\ allweak' = Clear2 /\ ephemeron' = Waits
      /\ grayagain' = {o \in Tread : type[o] = "thread"} \cup (Tables("weakv", Tread) \ Weak2)
                      \cup (Tables("weakk", Tread) \ (Waits \cup Clear2))
      /\ currentwhite' = Other /\ gcstate' = "enterfin" /\ sweepfin' = Start
      /\ UNCHANGED <<type, mode, open, allgc, gray, profile, owed>>
      /\ UNCHANGED <<gckind, sweepgc, sweepstr, pending, goal, kind0>>
      /\ Collecting
  BY AtomicIs DEF Collecting, Over
<1>2. /\ Marked0 \subseteq Marked1 /\ Marked1 \subseteq Marked2 /\ Marked2 \subseteq Live \ Dead
      /\ Queue1 \subseteq Marked0 /\ OpenGray \subseteq Marked0 /\ Queue2 \subseteq Marked2
      /\ \A x \in Queue1 \cup OpenGray \cup (Marked1 \ Marked0) : Strong(x, Marked1) \subseteq Marked1
      /\ Due \in Seq(Obj) /\ Distinct(Due) /\ Elems(Due) = Elems(finobj) \ Marked1
      /\ \A o \in Queue2 : o \in Obj /\ type[o] \in {"udata", "table"} /\ mode[o] = "strong"
      /\ Tread \subseteq Marked2 /\ Marked2 \ Marked0 \subseteq Tread /\ Tread \subseteq Node
      /\ allweak \cap Tread = {} /\ allweak \subseteq Marked0
  BY <1>1, AtomicSets
<1>3. KeepInvariant /\ goal # "closed" /\ ~Sweeping /\ Sweeping' /\ ~Over' /\ gcstate' \in SweepStates
  BY <1>1 DEF KeepInvariant, Over, Sweeping, SweepStates
<1>4. /\ \A x \in Live : mark[x] = "gray" /\ open[x] = None => x \in Grays
      /\ \A x \in Grays : mark[x] = "gray" /\ type[x] \in {"table", "closure", "proto", "thread"}
      /\ \A x \in weak \cup ephemeron \cup allweak : mode[x] # "strong"
      /\ \A x \in allweak : mode[x] \in {"weakk", "weakkv"}
      /\ mark[Main] = "gray"
  BY <1>3 DEF IInv, GrayInv
<1>5. Grays = Queue1 \cup allweak
  BY <1>1 DEF Grays, Queue1
<1>6. /\ Live \subseteq Node /\ White \subseteq Live /\ Dead \subseteq White /\ Main \in Live /\ Main \in Node
      /\ Other \in Whites /\ Other # currentwhite /\ Whites = {Other, currentwhite}
      /\ "gray" \notin Whites /\ "black" \notin Whites /\ open[Main] = None /\ mode[Main] = "strong" /\ type[Main] = "thread"
  BY Colors, StackAlive DEF IInv, TypeInv
<1>7. \A o \in Live : mode[o] # "strong" => mode[o] \in {"weakv", "weakk", "weakkv"} /\ type[o] = "table"
  BY <1>6 DEF IInv, TypeInv, KindInv
<1>8. Spared \subseteq Live /\ \A x \in Spared : type[x] = "string"
  BY DEF Spared, IsString
<1>9. \A x \in Node : mark'[x] = IF x \in Tread THEN IF lazy(x) THEN "gray" ELSE "black"
                                 ELSE IF x \in Spared THEN "black" ELSE mark[x]
  BY <1>1
<1>10. /\ \A x \in Tread : x \in Node /\ mark'[x] \in {"gray", "black"} /\ (lazy(x) <=> mark'[x] = "gray")
       /\ \A x \in Spared \ Tread : mark'[x] = "black"
       /\ \A x \in Node \ (Tread \cup Spared) : mark'[x] = mark[x]
  BY <1>2, <1>6, <1>8, <1>9
<1>11. Live' = Live /\ Other' = currentwhite /\ currentwhite' = Other
  <2>1. Live' = Live
    BY <1>1 DEF Live
  <2>2. Other' = currentwhite
    BY <1>1 DEF Other, IInv, TypeInv, Whites
  <2> QED
    BY <1>1, <2>1, <2>2
<1>12. \A x \in Live : mark'[x] \notin Whites <=> x \in Marked2 \cup Spared
  BY <1>2, <1>6, <1>10 DEF Marked0, White
<1>13. White' = Live \ (Marked2 \cup Spared)
  BY <1>11, <1>12 DEF White
<1>14. \A x \in Live : mark'[x] = currentwhite => x \notin Marked2 \cup Spared \cup Dead
  <2>1. \A x \in Live \ (Marked2 \cup Spared) : mark'[x] = mark[x]
    BY <1>2, <1>6, <1>10
  <2> QED
    BY <1>6, <1>12, <2>1 DEF Dead
<1>15. /\ \A x \in Live : x \in Dead' => x \notin Marked2 \cup Spared \cup Dead
       /\ \A x \in Live : x \in Live \ Dead' => x \in Marked2 \cup Spared \cup Dead
       /\ Dead' \subseteq Live
  <2>1. Dead' = {x \in Live : mark'[x] = currentwhite}
    BY <1>11 DEF Dead
  <2>2. \A x \in Live \ (Marked2 \cup Spared) : mark'[x] = mark[x] /\ mark'[x] \in Whites
    BY <1>2, <1>6, <1>10, <1>12
  <2> QED
    BY <1>6, <1>14, <2>1, <2>2 DEF Dead
<1>16. /\ Elems(tobefnz') = Elems(tobefnz) \cup Elems(Due) /\ tobefnz' \in Seq(Obj) /\ Distinct(tobefnz')
  <2>1. /\ tobefnz \in Seq(Obj) /\ Distinct(tobefnz) /\ Elems(tobefnz) \cap Elems(Due) = {}
    BY <1>2 DEF IInv, TypeInv, ListInv
  <2>2. /\ Due \in Seq(Obj) /\ Distinct(Due)
    BY <1>2
  <2>3. /\ tobefnz \o Due \in Seq(Obj) /\ Distinct(tobefnz \o Due)
        /\ Elems(tobefnz \o Due) = Elems(tobefnz) \cup Elems(Due)
    BY <2>1, <2>2, ListConcat
  <2> QED
    BY <1>1, <2>3
<1>17. /\ finobj' \in Seq(Obj) /\ Distinct(finobj') /\ Elems(finobj') = Elems(finobj) \ Elems(Due)
       /\ \A p \in Elems(finobj) \ Elems(Due) : After(finobj', p) = After(finobj, p) \ Elems(Due)
  <2>1. finobj \in Seq(Obj) /\ Distinct(finobj)
    BY DEF IInv, TypeInv, ListInv
  <2> DEFINE S == Elems(Due)
  <2> HIDE DEF S
  <2>2. /\ Without(finobj, S) \in Seq(Obj) /\ Distinct(Without(finobj, S)) /\ Elems(Without(finobj, S)) = Elems(finobj) \ S
        /\ \A p \in Elems(finobj) \ S : After(Without(finobj, S), p) = After(finobj, p) \ S
    BY <2>1, ListWithout
  <2>3. finobj' = Without(finobj, S)
    BY <1>1 DEF S
  <2> QED
    BY <2>2, <2>3 DEF S
<1>18. Elems(tobefnz') = Queue2 /\ Elems(finobj') \subseteq Marked1
  BY <1>2, <1>16, <1>17 DEF Queue2
<1>19. /\ old' \in [Node -> BOOLEAN] /\ (\A x \in Node : old'[x] => old[x] /\ x \notin Queue2)
       /\ \A x \in Node \ Queue2 : old'[x] = old[x]
  <2>1. old' \in [Node -> BOOLEAN]
    BY <1>1
  <2>2. \A x \in Node : old'[x] = (old[x] /\ x \notin Queue2)
    BY <1>1, Zenon
  <2>3. \A x \in Node : old[x] \in BOOLEAN
    BY DEF IInv, TypeInv
  <2> QED
    BY <2>1, <2>2, <2>3
<1>20. /\ cache' \in [Node -> Obj \cup {None}] /\ (\A x \in Node : cache'[x] \in {cache[x], None})
       /\ \A x \in Node : cache'[x] = IF x \in Tread /\ cache[x] \in White THEN None ELSE cache[x]
  BY <1>1 DEF IInv, TypeInv
<1>21. \A x \in Node : entries'[x] \subseteq entries[x]
  BY <1>1 DEF Remains
<1>22. entries' \in [Node -> SUBSET ((Obj \cup {None}) \X (Obj \cup {None}))]
  <2>1. entries \in [Node -> SUBSET ((Obj \cup {None}) \X (Obj \cup {None}))]
    BY DEF IInv, TypeInv
  <2> QED
    BY <1>1, <1>21, <2>1 DEF Remains
<1>23. Weak2 \subseteq Tables("weakv", Tread) /\ Waits \subseteq Tables("weakk", Tread)
       /\ Clear2 \subseteq allweak \cup Tables("weakk", Tread) \cup Tables("weakkv", Tread) /\ allweak \subseteq Clear2
       /\ Tables("weakkv", Tread) \subseteq Clear2
  BY DEF Weak1, Weak2, Waits, Clear1, Clear2, Tread, Tables
<1>24. TypeInv'
  <2>1. mark' \in [Node -> Whites \cup {"gray", "black"}]
    <3>1. mark \in [Node -> Whites \cup {"gray", "black"}]
      BY DEF IInv, TypeInv
    <3> HIDE DEF lazy
    <3> QED
      BY <1>1, <3>1
  <2>2. gray' \subseteq Node /\ grayagain' \subseteq Node /\ weak' \subseteq Node /\ allweak' \subseteq Node /\ ephemeron' \subseteq Node
    BY <1>1, <1>2, <1>23 DEF Tables, IInv, TypeInv
  <2>3. finalized' \subseteq Obj /\ currentwhite' \in Whites
    BY <1>1, <1>2, <1>6, ListsIn DEF IInv, TypeInv
  <2>4. gcstate' \in SweepStates \cup {"pause", "propagate"} /\ sweepfin' \in Obj \cup {None, Start}
    BY <1>1, <1>3
  <2> QED
    BY <1>1, <1>16, <1>17, <1>19, <1>20, <1>22, <2>1, <2>2, <2>3, <2>4 DEF IInv, TypeInv
<1>25. KindInv'
  <2>1. \A x \in Node : open[x] # None => mark'[x] # "black"
    <3> SUFFICES ASSUME NEW x \in Node, open[x] # None PROVE mark'[x] # "black"
      OBVIOUS
    <3>1. type[x] = "upval" /\ mark[x] # "black"
      BY DEF IInv, KindInv
    <3> QED
      BY <1>8, <1>10, <3>1
  <2>2. \A x \in Node : type[x] = "thread" => mark'[x] # "black"
    <3> SUFFICES ASSUME NEW x \in Node, type[x] = "thread" PROVE mark'[x] # "black"
      OBVIOUS
    <3>1. mark[x] # "black"
      BY DEF IInv, KindInv
    <3> QED
      BY <1>8, <1>10, <3>1
  <2>3. \A x \in Node : cache'[x] # None => cache[x] # None
    BY <1>20
  <2>4. \A x \in Node : type[x] = "free" => ~old'[x]
    BY <1>3, <1>19 DEF IInv, KindInv
  <2> QED
    BY <1>1, <1>21, <2>1, <2>2, <2>3, <2>4 DEF IInv, KindInv
<1>26. Elems(allgc)' = Elems(allgc) /\ Distinct(allgc)' = Distinct(allgc)
  BY <1>1 DEF Elems, Distinct
<1>27. ListInv'
  BY <1>1, <1>2, <1>16, <1>17, <1>26 DEF IInv, ListInv
<1>28. FinInv' /\ PendingInv'
  BY <1>1, <1>2, <1>3, <1>16, <1>17 DEF IInv, FinInv, PendingInv
<1>29. \A x \in Dead : Stale(x) /\ open[open[x]] = None /\ open[x] \in Node /\ type[open[x]] = "thread" /\ open[x] # None
  <2> SUFFICES ASSUME NEW x \in Dead
               PROVE  Stale(x) /\ open[open[x]] = None /\ open[x] \in Node /\ type[open[x]] = "thread" /\ open[x] # None
    OBVIOUS
  <2>1. Stale(x)
    BY <1>1, <1>3 DEF IInv, SweptInv
  <2>2. x \in Node /\ open[x] # None
    BY <1>6, <2>1 DEF Stale
  <2>3. open[x] \in Obj /\ open[x] \in Node /\ type[open[x]] = "thread"
    BY <2>2, Numbers DEF IInv, KindInv
  <2>4. open[open[x]] = None
    BY <2>3 DEF IInv, KindInv
  <2> QED
    BY <2>1, <2>2, <2>3, <2>4
<1>30. GoalInv'
  <2>1. ASSUME NEW x \in Live, mark'[x] = Other PROVE Stale(x)'
    <3>1. x \in Dead
      BY <1>6, <1>10, <2>1 DEF Dead
    <3>2. open[x] \notin Queue2 /\ old'[open[x]] = old[open[x]]
      BY <1>2, <1>19, <1>29, <3>1
    <3> QED
      BY <1>1, <1>29, <3>1, <3>2 DEF Stale
  <2>2. Young'
    BY <1>11, <2>1 DEF Young
  <2>3. gckind = "gen" => goal = "minor"
    BY <1>1, <1>3 DEF IInv, GoalInv, Collecting, Over, SweepStates
  <2>4. goal \notin {"finish", "togen", "regen"}
    BY <1>1 DEF IInv, GoalInv
  <2>5. goal = "minor" => gckind = "gen"
    BY DEF IInv, GoalInv
  <2> QED
    BY <1>1, <1>3, <2>2, <2>3, <2>4, <2>5 DEF GoalInv
<1>31. PointInv'
  <2>1. sweepgc = None /\ sweepstr = {}
    BY <1>1, <1>3 DEF IInv, PointInv
  <2> QED
    BY <1>1, <1>3, <2>1 DEF PointInv
<1>32. \A x \in Marked2 : Leads(x)' \subseteq Marked2 \cup Spared
  <2> SUFFICES ASSUME NEW x \in Marked2 PROVE Leads(x)' \subseteq Marked2 \cup Spared
    OBVIOUS
  <2>1. cache'[x] = IF x \in Tread /\ cache[x] \in White THEN None ELSE cache[x]
    BY <1>2, <1>6, <1>20
  <2> QED
    BY <1>1, <2>1, AtomicLeads
<1>33. \A x \in Spared : Leads(x)' = {}
  <2> SUFFICES ASSUME NEW x \in Spared PROVE Leads(x)' = {}
    OBVIOUS
  <2>1. x \in Node /\ type[x] = "string"
    BY <1>6, <1>8
  <2>2. entries[x] = {} /\ cache[x] = None /\ open[x] = None
    BY <2>1 DEF IInv, KindInv
  <2>3. entries'[x] = {} /\ cache'[x] = None /\ open'[x] = None
    BY <1>1, <1>20, <1>21, <2>1, <2>2
  <2> QED
    BY <2>3 DEF Leads, Refs, Vals, Keys
<1>34. \A x \in Dead : Leads(x)' \subseteq Marked2
  <2> SUFFICES ASSUME NEW x \in Dead PROVE Leads(x)' \subseteq Marked2
    OBVIOUS
  <2> DEFINE t == open[x]
  <2>1. t \in Node /\ type[t] = "thread" /\ open[t] = None /\ t # None /\ old[t] /\ gckind = "gen" /\ x \in Node
    BY <1>6, <1>29 DEF Stale
  <2>2. type[x] = "upval" /\ mode[t] = "strong" /\ mark[t] # "black" /\ t \in Live
    BY <2>1 DEF IInv, KindInv, Live
  <2>0. t' = t
    BY <1>1 DEF t
  <2> HIDE DEF t
  <2>3. mark[t] = "gray"
    <3>1. mark[t] \notin Whites
      BY <1>1, <2>1, <2>2 DEF IInv, OldInv
    <3> QED
      BY <2>1, <2>2, <3>1 DEF IInv, TypeInv
  <2>4. t \in Queue1
    BY <1>4, <1>5, <2>1, <2>2, <2>3
  <2>5. Strong(t, Marked1) = Refs(t) /\ Strong(t, Marked1) \subseteq Marked1
    BY <1>2, <2>1, <2>2, <2>4, StrongIn DEF IInv
  <2>6. Vals(t) \subseteq Marked2
    BY <1>2, <2>5 DEF Refs
  <2>7. Vals(t)' \subseteq Vals(t)
    BY <1>21, <2>0, <2>1 DEF Vals
  <2>8. cache[x] = None /\ cache'[x] = None
    BY <1>20, <2>1, <2>2 DEF IInv, KindInv
  <2>9. Leads(x)' = Vals(t)'
    BY <1>1, <2>0, <2>1, <2>8 DEF Leads, t
  <2> QED
    BY <2>6, <2>7, <2>9
<1>35. Sound'
  <2>1. ASSUME NEW x \in Live \ Dead' PROVE Leads(x)' \subseteq Live \ Dead'
    <3>1. Marked2 \cup Spared \subseteq Live \ Dead'
      BY <1>2, <1>8, <1>15
    <3>2. x \in Marked2 \cup Spared \cup Dead
      BY <1>15, <2>1
    <3> QED
      BY <1>32, <1>33, <1>34, <3>1, <3>2
  <2> QED
    BY <1>11, <2>1 DEF Sound
<1>36. Main \in Queue1 /\ Main \in Tread
  <2>1. Main \in Queue1
    BY <1>4, <1>5, <1>6
  <2> QED
    BY <2>1 DEF Tread, Tread1
<1>37. Kept'
  <2>1. Main \in Marked2 /\ Elems(finobj') \subseteq Marked2 /\ Elems(tobefnz') \subseteq Marked2
    BY <1>2, <1>18, <1>36
  <2> QED
    BY <1>15, <2>1 DEF Kept
<1>38. SweptInv'
  <2>1. \A x \in Live' \ Elems(tobefnz') : x \in Unswept'
    BY <1>1, <1>24, <1>25, <1>27, AllUnswept
  <2>2. \A x \in Dead' : x \in Live' \ Elems(tobefnz')
    BY <1>11, <1>15, <1>37 DEF Kept
  <2> QED
    BY <1>3, <2>1, <2>2 DEF SweptInv
<1>39. \A x \in Live : mark'[x] = "gray" /\ open[x] = None => x \in Grays'
  <2> SUFFICES ASSUME NEW x \in Live, mark'[x] = "gray", open[x] = None PROVE x \in Grays'
    OBVIOUS
  <2>1. CASE x \in Tread
    <3>1. type[x] = "thread" \/ mode[x] # "strong"
      BY <1>10, <2>1
    <3>2. CASE type[x] = "thread"
      BY <1>1, <2>1, <3>2 DEF Grays
    <3>3. CASE mode[x] # "strong"
      <4>1. x \in Tables("weakv", Tread) \cup Tables("weakk", Tread) \cup Tables("weakkv", Tread)
        BY <1>7, <2>1, <3>3 DEF Tables
      <4> QED
        BY <1>1, <1>23, <4>1 DEF Grays
    <3> QED
      BY <3>1, <3>2, <3>3
  <2>2. CASE x \notin Tread
    <3>1. x \notin Spared /\ mark[x] = "gray"
      BY <1>6, <1>10, <2>2
    <3>2. x \in Queue1 \cup allweak /\ x \notin Queue1
      BY <1>4, <1>5, <2>2, <3>1 DEF Tread, Tread1
    <3> QED
      BY <1>1, <1>23, <3>2 DEF Grays
  <2> QED
    BY <2>1, <2>2
<1>40. Grays' = grayagain' \cup weak' \cup allweak' \cup ephemeron'
  BY <1>1 DEF Grays
<1>41. ASSUME NEW x \in Grays' PROVE mark'[x] = "gray" /\ type[x] \in {"table", "closure", "proto", "thread"}
  <2>1. CASE x \in Tread /\ type[x] = "thread"
    BY <1>10, <2>1
  <2>2. CASE x \in Tread /\ type[x] # "thread"
    <3>1. type[x] = "table" /\ mode[x] # "strong"
      BY <1>1, <1>2, <1>23, <1>40, <1>41, <2>2 DEF Tables
    <3> QED
      BY <1>10, <2>2, <3>1
  <2>3. CASE x \notin Tread
    <3>1. x \in allweak
      BY <1>1, <1>23, <1>40, <1>41, <2>3 DEF Tables
    <3>2. x \in Grays /\ x \in Node
      BY <1>2, <1>5, <1>6, <3>1 DEF Marked0
    <3>3. type[x] \in {"table", "closure", "proto", "thread"} /\ mark[x] = "gray"
      BY <1>4, <3>2
    <3>4. x \notin Spared
      BY <1>8, <3>3
    <3> QED
      BY <1>10, <2>3, <3>2, <3>3, <3>4
  <2> QED
    BY <2>1, <2>2, <2>3
<1>42. /\ \A x \in weak' : mode[x] = "weakv"
       /\ \A x \in ephemeron' : mode[x] = "weakk"
       /\ \A x \in allweak' : mode[x] \in {"weakk", "weakkv"}
  BY <1>1, <1>4, <1>23 DEF Tables
<1>43. allweak' \cap ephemeron' = {}
  <2> SUFFICES ASSUME NEW x \in Clear2, x \in Waits PROVE FALSE
    BY <1>1
  <2>1. x \in Tables("weakk", Tread) /\ Undecided(x, Marked2) /\ mode[x] = "weakk"
    BY DEF Waits, Tables
  <2>2. Undecided(x, Marked1)
    BY <1>2, <2>1, ClearsLess
  <2>3. x \notin allweak
    BY <1>2, <2>1 DEF Tables
  <2> QED
    BY <2>1, <2>2, <2>3 DEF Clear1, Clear2, Tables
<1>44. /\ gray' = {} /\ grayagain' \cap (weak' \cup allweak' \cup ephemeron') = {}
       /\ weak' \cap (allweak' \cup ephemeron') = {}
  <2>1. gray' = {} /\ weak' \cap (allweak' \cup ephemeron') = {}
    BY <1>1, <1>42
  <2>2. ASSUME NEW x \in grayagain', x \in weak' \cup allweak' \cup ephemeron' PROVE FALSE
    <3>1. mode[x] # "strong" /\ x \in Node
      BY <1>2, <1>6, <1>1, <1>23, <2>2, <1>42 DEF Tables, Marked0
    <3>2. type[x] # "thread"
      BY <3>1 DEF IInv, KindInv
    <3>3. x \in Tables("weakv", Tread) \ Weak2 \/ x \in Tables("weakk", Tread) \ (Waits \cup Clear2)
      BY <1>1, <2>2, <3>2
    <3> QED
      BY <1>1, <1>42, <2>2, <3>3 DEF Tables
  <2> QED
    BY <2>1, <2>2
<1>45. GrayInv'
  <2>1. \A x \in Live \ White' : Leads(x)' \cap White' = {}
    <3>1. \A x \in Live \ White' : Leads(x)' \subseteq Marked2 \cup Spared
      BY <1>13, <1>32, <1>33
    <3> QED
      BY <1>13, <3>1
  <2>2. mark'[Main] = "gray"
    BY <1>6, <1>10, <1>36
  <2> QED
    BY <1>1, <1>11, <1>39, <1>41, <1>42, <1>43, <1>44, <2>1, <2>2 DEF GrayInv
<1>46. OldInv'
  <2>1. \A x \in Live : old'[x] => mark'[x] \notin Whites
    <3> SUFFICES ASSUME NEW x \in Live, old'[x] PROVE mark'[x] \notin Whites
      OBVIOUS
    <3>1. mark[x] \notin Whites
      BY <1>1, <1>6, <1>19 DEF IInv, OldInv
    <3> QED
      BY <1>6, <1>10, <3>1
  <2>2. \A x \in Elems(tobefnz') : ~old'[x]
    BY <1>2, <1>18, <1>19, Numbers
  <2>3. gckind = "normal" => \A x \in Live : ~old'[x]
    BY <1>1, <1>3, <1>6, <1>19 DEF IInv, OldInv
  <2>4. InAll' = Elems(allgc) /\ InFin' = Elems(finobj')
    <3>1. Start # None
      BY Numbers
    <3> QED
      BY <1>1, <1>26, <3>1 DEF InAll, InFin, Rest
  <2>5. ASSUME gckind = "gen" PROVE OldRun(allgc, InAll)'
    <3>1. OldRun(allgc, {}) /\ \A x : After(allgc, x) \subseteq Elems(allgc)
      BY <1>1, <1>3, <2>5, AfterIn DEF IInv, OldInv
    <3>2. \A x \in Elems(allgc) : x \in Node /\ x \notin Queue2
      <4>1. \A x \in Queue2 : x \in Elems(finobj) \cup Elems(tobefnz)
        BY <1>2 DEF Queue2
      <4>2. \A x \in Elems(allgc) : x \in Node
        BY ListsIn, Numbers DEF IInv
      <4> QED
        BY <4>1, <4>2 DEF IInv, ListInv
    <3>3. \A x \in Elems(allgc) : old'[x] = old[x]
      BY <1>19, <3>2
    <3>4. \A x : After(allgc, x)' = After(allgc, x)
      BY <1>1 DEF After
    <3> SUFFICES ASSUME NEW x \in Elems(allgc), NEW y \in After(allgc, x), old'[x] PROVE old'[y]
      BY <1>26, <3>4 DEF OldRun
    <3> QED
      BY <3>1, <3>3 DEF OldRun
  <2>6. ASSUME gckind = "gen" PROVE OldRun(finobj, InFin)'
    <3>1. OldRun(finobj, {}) /\ \A x : After(finobj, x) \subseteq Elems(finobj)
      BY <1>1, <1>3, <2>6, AfterIn DEF IInv, OldInv
    <3>2. \A x \in Elems(finobj') : x \in Node /\ x \notin Queue2 /\ x \in Elems(finobj)
      <4>1. \A x \in Elems(finobj) : x \in Node
        BY ListsIn, Numbers DEF IInv
      <4> QED
        BY <1>17, <4>1 DEF Queue2, IInv, ListInv
    <3>3. \A x \in Elems(finobj') : old'[x] = old[x]
      BY <1>19, <3>2
    <3>4. \A x \in Elems(finobj') : After(finobj', x) = After(finobj, x) \ Elems(Due)
      BY <1>17
    <3>5. \A x \in Elems(finobj') : \A y \in After(finobj', x) : y \in Elems(finobj') /\ y \in After(finobj, x)
      BY <1>17, <3>1, <3>4
    <3> SUFFICES ASSUME NEW x \in Elems(finobj'), NEW y \in After(finobj', x), old'[x] PROVE old'[y]
      BY DEF OldRun
    <3> QED
      BY <3>1, <3>2, <3>3, <3>5 DEF OldRun
  <2> QED
    BY <1>1, <1>3, <1>11, <2>1, <2>2, <2>3, <2>5, <2>6 DEF OldInv
<1> QED
  BY <1>24, <1>25, <1>27, <1>28, <1>30, <1>31, <1>35, <1>37, <1>38, <1>45, <1>46 DEF IInv

-----------------------------------------------------------------------------
(* The invariant holds to begin with and is kept.                          *)

LEMMA InitKeeps == ASSUME Init PROVE IInv
<1> DEFINE s == profile.start
<1>1. /\ profile \in Profiles /\ s \in Seq({"table", "udata", "proto", "thread"} \X {"strong", "weakv", "weakk", "weakkv"})
      /\ Len(s) <= N /\ Len(s) \in Nat /\ N \in Nat
      /\ \A k \in 1..Len(s) : s[k][1] # "table" => s[k][2] = "strong"
  <2>1. profile \in Profiles
    BY DEF Init
  <2> QED
    BY <2>1, LuaGCAssumption
<1>2. /\ Given = 1..Len(s) /\ Given \subseteq Obj /\ Given \subseteq Node /\ Main \notin Given /\ None \notin Given
      /\ \A x \in Given : s[x][1] \in {"table", "udata", "proto", "thread"} /\ s[x][2] \in {"strong", "weakv", "weakk", "weakkv"}
                          /\ (s[x][1] # "table" => s[x][2] = "strong")
  <2>1. Given = 1..Len(s)
    BY DEF Given
  <2>2. Given \subseteq Obj
    BY <1>1, <2>1 DEF Obj
  <2>3. \A x \in Given : s[x] \in {"table", "udata", "proto", "thread"} \X {"strong", "weakv", "weakk", "weakkv"}
    BY <1>1, <2>1
  <2> QED
    BY <1>1, <2>1, <2>2, <2>3, Numbers
<1> HIDE DEF s
<1>3. /\ type = [o \in Node |-> IF o = Main THEN "thread" ELSE IF o \in Given THEN s[o][1] ELSE "free"]
      /\ mode = [o \in Node |-> IF o \in Given THEN s[o][2] ELSE "strong"]
      /\ entries = [o \in Node |-> IF o = Main THEN {<<None, x>> : x \in Given} ELSE {}]
      /\ allgc = [x \in Given |-> x]
  BY DEF Init, s
<1>4. /\ mark = [o \in Node |-> "w0"] /\ old = [o \in Node |-> FALSE]
      /\ cache = [o \in Node |-> None] /\ open = [o \in Node |-> None]
      /\ finobj = <<>> /\ tobefnz = <<>>
      /\ gray = {} /\ grayagain = {} /\ weak = {} /\ allweak = {} /\ ephemeron = {}
      /\ currentwhite = "w0" /\ gcstate = "pause" /\ gckind = "normal" /\ kind0 = "normal"
      /\ sweepgc = None /\ sweepfin = None /\ sweepstr = {} /\ pending = None /\ goal = "none"
      /\ owed = {} /\ finalized = {}
  BY DEF Init
<1>5. /\ \A o \in Node : type[o] = IF o = Main THEN "thread" ELSE IF o \in Given THEN s[o][1] ELSE "free"
      /\ \A o \in Node : mode[o] = IF o \in Given THEN s[o][2] ELSE "strong"
      /\ \A o \in Node : entries[o] = IF o = Main THEN {<<None, x>> : x \in Given} ELSE {}
      /\ \A o \in Node : mark[o] = "w0" /\ old[o] = FALSE /\ cache[o] = None /\ open[o] = None
  BY <1>3, <1>4
<1>50. \A o \in Node : \A e \in entries[o] : o = Main /\ e[1] = None /\ e[2] \in Given
  <2>1. \A e \in {<<None, x>> : x \in Given} : e[1] = None /\ e[2] \in Given
    OBVIOUS
  <2> DEFINE E == {<<None, x>> : x \in Given}
  <2>2. \A o \in Node : entries[o] = IF o = Main THEN E ELSE {}
    BY <1>5
  <2> HIDE DEF E
  <2>3. \A o \in Node : \A e \in entries[o] : o = Main /\ e \in E
    BY <2>2
  <2> QED
    BY <2>1, <2>3 DEF E
<1>6. Live = {Main} \cup Given /\ Dead = {}
  <2>1. \A o \in Node : type[o] # "free" <=> o \in {Main} \cup Given
    BY <1>2, <1>5, Numbers
  <2>2. Other = "w1"
    BY <1>4 DEF Other
  <2>3. Live = {Main} \cup Given
    BY <1>2, <2>1, Numbers DEF Live
  <2>4. ASSUME NEW o \in Live PROVE mark[o] # Other
    BY <1>5, <2>2 DEF Live
  <2> QED
    BY <2>3, <2>4 DEF Dead
<1>7. allgc \in Seq(Obj) /\ Distinct(allgc) /\ Elems(allgc) = Given
  <2>1. allgc \in Seq(Obj) /\ Len(allgc) = Len(s)
    <3>1. allgc \in [1..Len(s) -> Obj]
      BY <1>2, <1>3
    <3> QED
      BY <1>1, <3>1
  <2>2. \A k \in 1..Len(allgc) : allgc[k] = k
    BY <1>2, <1>3, <2>1
  <2> QED
    BY <1>2, <2>1, <2>2 DEF Distinct, Elems
<1>8. /\ finobj \in Seq(Obj) /\ tobefnz \in Seq(Obj) /\ Distinct(finobj) /\ Distinct(tobefnz)
      /\ Elems(finobj) = {} /\ Elems(tobefnz) = {}
  BY <1>4 DEF Distinct, Elems
<1>9. entries \in [Node -> SUBSET ((Obj \cup {None}) \X (Obj \cup {None}))]
  <2>1. {<<None, x>> : x \in Given} \in SUBSET ((Obj \cup {None}) \X (Obj \cup {None}))
    BY <1>2
  <2> QED
    BY <1>3, <2>1
<1>10. TypeInv
  <2>1. type \in [Node -> Types \cup {"free"}] /\ mode \in [Node -> {"strong", "weakv", "weakk", "weakkv"}]
    BY <1>2, <1>3 DEF Types
  <2>2. type[Main] = "thread"
    BY <1>5, Numbers
  <2> QED
    BY <1>1, <1>4, <1>7, <1>8, <1>9, <2>1, <2>2 DEF TypeInv, Whites, SweepStates
<1>11. KindInv
  <2>1. \A o \in Node : \A e \in entries[o] : o = Main /\ e[1] = None
    BY <1>50
  <2>2. \A o \in Node : entries[o] # {} => type[o] = "thread"
    BY <1>5, <2>1
  <2>3. \A o \in Node : mode[o] # "strong" => type[o] = "table"
    BY <1>2, <1>5
  <2> QED
    BY <1>5, <2>1, <2>2, <2>3 DEF KindInv
<1>12. ListInv
  <2>1. \A o \in Obj : o \in Given <=> type[o] \notin {"free", "string"} /\ open[o] = None
    BY <1>2, <1>5, Numbers
  <2> QED
    BY <1>7, <1>8, <2>1 DEF ListInv
<1>13. FinInv /\ PendingInv /\ GoalInv
  BY <1>4, <1>8 DEF FinInv, PendingInv, GoalInv, Over, Sweeping, SweepStates
<1>14. PointInv /\ SweptInv /\ OldInv /\ Kept
  BY <1>4, <1>5, <1>6, <1>8, <1>2, Numbers DEF PointInv, SweptInv, OldInv, Kept, Over, Sweeping, SweepStates
<1>15. Sound
  <2> SUFFICES ASSUME NEW o \in Live PROVE Leads(o) \subseteq Live
    BY <1>6 DEF Sound
  <2>1. o \in Node /\ open[o] = None /\ cache[o] = None
    BY <1>2, <1>5, <1>6, Numbers
  <2>2. Leads(o) = Refs(o)
    BY <2>1 DEF Leads
  <2>3. \A e \in entries[o] : e[1] = None /\ e[2] \in Given
    BY <1>50, <2>1
  <2>4. Refs(o) \subseteq Given
    BY <2>3 DEF Refs, Vals, Keys
  <2> QED
    BY <1>6, <2>2, <2>4
<1>16. GrayInv
  BY <1>4 DEF GrayInv, KeepInvariant
<1> QED
  BY <1>10, <1>11, <1>12, <1>13, <1>14, <1>15, <1>16 DEF IInv

LEMMA StutterKeeps == ASSUME IInv, UNCHANGED vars PROVE IInv'
<1>1. /\ UNCHANGED <<type, mark, old, mode, entries, cache, open, allgc, finobj, tobefnz>>
      /\ UNCHANGED <<gray, grayagain, weak, allweak, ephemeron, currentwhite, gcstate, gckind>>
      /\ UNCHANGED <<sweepgc, sweepfin, sweepstr, pending, goal, kind0, profile, finalized, owed>>
  BY DEF vars, object, lists, grays, state, duty
<1>2. /\ Live' = Live /\ Dead' = Dead /\ White' = White /\ Grays' = Grays /\ Over' = Over /\ Sweeping' = Sweeping
      /\ KeepInvariant' = KeepInvariant
  BY <1>1 DEF Live, Dead, White, Grays, Other, Over, Sweeping, KeepInvariant
<1>3. /\ Elems(allgc)' = Elems(allgc) /\ Elems(finobj)' = Elems(finobj) /\ Elems(tobefnz)' = Elems(tobefnz)
      /\ Distinct(allgc)' = Distinct(allgc) /\ Distinct(finobj)' = Distinct(finobj) /\ Distinct(tobefnz)' = Distinct(tobefnz)
  BY <1>1 DEF Elems, Distinct
<1>4. \A x : Leads(x)' = Leads(x) /\ Stale(x)' = Stale(x)
  BY <1>1 DEF Leads, Refs, Vals, Keys, Stale
<1>5. InAll' = InAll /\ InFin' = InFin /\ InStr' = InStr
  <2>1. \A x : After(allgc, x)' = After(allgc, x) /\ After(finobj, x)' = After(finobj, x)
    BY <1>1 DEF After
  <2> QED
    BY <1>1, <1>2, <1>3, <2>1 DEF InAll, InFin, InStr, Rest
<1>6. Unswept' = Unswept
  BY <1>1, <1>2, <1>5 DEF Unswept, Listed
<1>7. TypeInv' /\ KindInv'
  BY <1>1 DEF IInv, TypeInv, KindInv
<1>8. ListInv' /\ FinInv' /\ PendingInv'
  BY <1>1, <1>2, <1>3 DEF IInv, ListInv, FinInv, PendingInv
<1>9. GoalInv' /\ PointInv' /\ Sound' /\ Kept' /\ SweptInv'
  BY <1>1, <1>2, <1>3, <1>4, <1>6 DEF IInv, GoalInv, Young, PointInv, Sound, Kept, SweptInv
<1>10. GrayInv'
  BY <1>1, <1>2, <1>4 DEF IInv, GrayInv
<1>11. OldInv'
  <2>1. \A U : OldRun(allgc, U)' = OldRun(allgc, U) /\ OldRun(finobj, U)' = OldRun(finobj, U)
    BY <1>1 DEF OldRun, Elems, After
  <2> QED
    BY <1>1, <1>2, <1>3, <1>5, <1>6, <2>1 DEF IInv, OldInv
<1> QED
  BY <1>7, <1>8, <1>9, <1>10, <1>11 DEF IInv

LEMMA StepKeeps == ASSUME IInv, Next PROVE IInv'
<1>1. CASE Mutate
  <2>1. ASSUME NEW o \in Obj, NEW t \in profile.types \ {"closure"}, NEW m \in profile.modes, New(o, t, m) PROVE IInv'
    BY <2>1, NewStep
  <2>2. ASSUME NEW o \in Obj, Intern(o) PROVE IInv'
    BY <2>2, InternStep
  <2>3. ASSUME NEW o \in Stack, Get(o) \/ Pop(o) \/ Clear(o) \/ SetFinalizer(o) PROVE IInv'
    BY <2>3, GetStep, PopStep, ClearStep, SetFinalizerStep
  <2>4. ASSUME NEW o \in Stack, NEW k \in Stack \cup {None}, NEW v \in Stack \cup {None}, SetTable(o, k, v) PROVE IInv'
    BY <2>4, SetTableStep
  <2>5. ASSUME NEW o \in Stack, NEW v \in Stack, SetField(o, v) \/ Move(o, v) \/ GetCached(o, v) PROVE IInv'
    BY <2>5, SetFieldStep, MoveStep, GetCachedStep
  <2>6. ASSUME NEW o \in Stack, NEW v \in Stack, NEW u \in Vals(o), SetUpval(o, u, v) PROVE IInv'
    BY <2>6, SetUpvalStep
  <2>7. ASSUME NEW o \in Stack, NEW u \in Opened(o), CloseUpvals(o, u) PROVE IInv'
    BY <2>7, CloseUpvalsStep
  <2>8. ASSUME NEW o \in Stack, NEW t \in Stack, NEW c \in Obj, NEW u \in Obj, NewClosure(o, t, c, u) PROVE IInv'
    BY <2>8, NewClosureStep
  <2>9. ASSUME NEW o \in Obj, Finalizable(o) PROVE IInv'
    BY <2>9, FinalizableStep
  <2>10. CASE CallFinalizer
    BY <2>10, CallFinalizerStep
  <2> QED
    BY <1>1, <2>1, <2>2, <2>3, <2>4, <2>5, <2>6, <2>7, <2>8, <2>9, <2>10 DEF Mutate
<1>2. CASE Collect
  BY <1>2, RestartStep, AtomicStep, PropagateStep, EnterFinStep, EnterAllStep, SweepStringStep, SweepUdataStep,
     SweepStep, EndCycleStep, StartFullStep, StartMinorStep, ToGenerationalStep, ToIncrementalStep, CloseStep,
     FreeAllStep DEF Collect
<1> QED
  BY <1>1, <1>2 DEF Next

(* The inductive invariant: it is an invariant of every program.           *)
THEOREM Invariant == Spec => []IInv
<1>1. Init => IInv
  BY InitKeeps
<1>2. IInv /\ [Next]_vars => IInv'
  BY StepKeeps, StutterKeeps
<1> QED
  BY <1>1, <1>2, PTL DEF Spec

(* Nothing that is not dead leads to what is dead or freed, however the    *)
(* steps of the program and of the collector follow one another.           *)
THEOREM NoDanglingCorrect == Spec => []NoDangling
<1>1. IInv => NoDangling
  <2> SUFFICES ASSUME IInv PROVE NoDangling
    OBVIOUS
  <2>1. \A s \in {allgc, finobj, tobefnz} : s \in Seq(Obj) /\ Len(s) = Cardinality(Elems(s))
    BY ListCard DEF IInv, TypeInv, ListInv
  <2>2. TypeOK
    BY <2>1 DEF IInv, TypeInv, TypeOK
  <2> QED
    BY <2>2 DEF NoDangling, IInv, Sound
<1> QED
  BY <1>1, Invariant, PTL

(* While marking, and always in the generational mode, no black object     *)
(* refers to a white one, and a gray one is in one list of the traversal.  *)
THEOREM TriColorCorrect == Spec => []TriColor
<1>1. IInv => TriColor
  <2> SUFFICES ASSUME IInv, KeepInvariant, gcstate = "propagate", goal # "closed"
      PROVE  /\ \A o \in Live : mark[o] = "black" => (Leads(o) \ {cache[o]}) \cap White = {}
             /\ \A o \in Live : mark[o] = "gray" /\ open[o] = None => Cardinality({i \in 1..5 : o \in grays[i]}) = 1
             /\ \A i \in 1..5 : \A o \in grays[i] : o \in Live /\ mark[o] = "gray"
    BY DEF TriColor
  <2>1. /\ grays[1] = gray /\ grays[2] = grayagain /\ grays[3] = weak /\ grays[4] = allweak /\ grays[5] = ephemeron
        /\ \A i \in 1..5 : i = 1 \/ i = 2 \/ i = 3 \/ i = 4 \/ i = 5
    BY DEF grays
  <2>2. \A o \in Live : mark[o] = "black" => (Leads(o) \ {cache[o]}) \cap White = {}
    BY Colors DEF IInv, GrayInv, White
  <2>3. /\ gray \cap (grayagain \cup weak \cup allweak \cup ephemeron) = {}
        /\ grayagain \cap (weak \cup allweak \cup ephemeron) = {}
        /\ weak \cap (allweak \cup ephemeron) = {} /\ allweak \cap ephemeron = {}
        /\ \A o \in Live : mark[o] = "gray" /\ open[o] = None => o \in Grays
        /\ \A o \in Grays : mark[o] = "gray" /\ type[o] \in {"table", "closure", "proto", "thread"} /\ o \in Node
    BY DEF IInv, GrayInv, TypeInv, Grays
  <2>4. ASSUME NEW o \in Live, mark[o] = "gray", open[o] = None PROVE Cardinality({i \in 1..5 : o \in grays[i]}) = 1
    <3>1. o \in gray \/ o \in grayagain \/ o \in weak \/ o \in allweak \/ o \in ephemeron
      BY <2>3, <2>4 DEF Grays
    <3>2. \E k \in 1..5 : \A i \in 1..5 : o \in grays[i] <=> i = k
      <4>1. CASE o \in gray
        <5>1. \A i \in 1..5 : o \in grays[i] <=> i = 1
          BY <2>1, <2>3, <4>1
        <5> QED
          BY <5>1
      <4>2. CASE o \in grayagain
        <5>1. \A i \in 1..5 : o \in grays[i] <=> i = 2
          BY <2>1, <2>3, <4>2
        <5> QED
          BY <5>1
      <4>3. CASE o \in weak
        <5>1. \A i \in 1..5 : o \in grays[i] <=> i = 3
          BY <2>1, <2>3, <4>3
        <5> QED
          BY <5>1
      <4>4. CASE o \in allweak
        <5>1. \A i \in 1..5 : o \in grays[i] <=> i = 4
          BY <2>1, <2>3, <4>4
        <5> QED
          BY <5>1
      <4>5. CASE o \in ephemeron
        <5>1. \A i \in 1..5 : o \in grays[i] <=> i = 5
          BY <2>1, <2>3, <4>5
        <5> QED
          BY <5>1
      <4> QED
        BY <3>1, <4>1, <4>2, <4>3, <4>4, <4>5
    <3>3. PICK k \in 1..5 : \A i \in 1..5 : o \in grays[i] <=> i = k
      BY <3>2
    <3>4. {i \in 1..5 : o \in grays[i]} = {k}
      BY <3>3
    <3> QED
      BY <3>4, FS_Singleton
  <2>5. ASSUME NEW i \in 1..5, NEW o \in grays[i] PROVE o \in Live /\ mark[o] = "gray"
    <3>1. o \in Grays
      BY <2>1, <2>5 DEF Grays
    <3> QED
      BY <2>3, <3>1 DEF Live
  <2> QED
    BY <2>2, <2>4, <2>5
<1> QED
  BY <1>1, Invariant, PTL

(* An object with a finalizer is kept until the finalizer was called, and  *)
(* none is left when the program has ended.                                *)
THEOREM FinalizedCorrect == Spec => []Finalized
<1>1. IInv => Finalized
  <2> SUFFICES ASSUME IInv PROVE Finalized
    OBVIOUS
  <2>1. Elems(finobj) \cup Elems(tobefnz) \subseteq Live
    BY ListsIn, Numbers DEF IInv, ListInv, Live
  <2>2. goal = "closed" => Elems(finobj) = {} /\ Elems(tobefnz) = {}
    BY DEF IInv, FinInv, Over, Elems
  <2> QED
    BY <2>1, <2>2 DEF IInv, FinInv, Finalized
<1> QED
  BY <1>1, Invariant, PTL
=============================================================================
