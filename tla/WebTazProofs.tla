---------------------------- MODULE WebTazProofs ----------------------------
(***************************************************************************)
(* Proofs about WebTaz for any number of workers and of names, any limit   *)
(* and any sizes.                                                          *)
(***************************************************************************)
EXTENDS WebTaz, NaturalsInduction, WellFoundedInduction, SequenceTheorems, FiniteSetTheorems, TLAPS

-----------------------------------------------------------------------------
(* Induction on numbers and on finite sets.                                *)

LEMMA Least ==
  ASSUME NEW T, T \subseteq Nat, T # {}
  PROVE  \E x \in T : \A y \in T : x <= y
<1>1. PICK x \in T : \A y \in T : ~(<<y, x>> \in OpToRel(<, Nat))
  BY WFMin, NatLessThanWellFounded, Zenon
<1>2. ASSUME NEW y \in T PROVE ~(y < x)
  <2>1. ~(<<y, x>> \in {ss \in Nat \X Nat : ss[1] < ss[2]})
    BY <1>1, Zenon DEF OpToRel
  <2>2. y \in Nat /\ x \in Nat
    OBVIOUS
  <2> QED
    BY <2>1, <2>2
<1> QED
  BY <1>2

LEMMA Induction ==
  ASSUME NEW S, 0 \in S, \A n \in Nat : n \in S => n + 1 \in S
  PROVE  \A n \in Nat : n \in S
<1> DEFINE T == Nat \ S
<1>1. SUFFICES ASSUME T # {} PROVE FALSE
  OBVIOUS
<1>2. PICK x \in T : \A y \in T : x <= y
  <2>1. T \subseteq Nat
    OBVIOUS
  <2> HIDE DEF T
  <2> QED BY <1>1, <2>1, Least
<1>3. x \in Nat /\ x # 0
  OBVIOUS
<1>4. x - 1 \in Nat /\ x - 1 \notin T
  BY <1>2, <1>3
<1>5. x - 1 \in S /\ x = (x - 1) + 1
  BY <1>3, <1>4
<1> QED
  BY <1>4, <1>5

(* What holds of a finite set if it holds of all that lack one element     *)
(* holds of all finite sets.                                               *)
LEMMA SetInduction ==
  ASSUME NEW S, IsFiniteSet(S), NEW F,
         \A T \in SUBSET S : (\A x \in T : T \ {x} \in F) => T \in F
  PROVE  \A T \in SUBSET S : T \in F
<1> DEFINE N == {n \in Nat : \A T \in SUBSET S : Cardinality(T) = n => T \in F}
<1>1. \A T \in SUBSET S : IsFiniteSet(T) /\ Cardinality(T) \in Nat
  BY FS_Subset, FS_CardinalityType
<1>2. 0 \in N
  <2> SUFFICES ASSUME NEW T \in SUBSET S, Cardinality(T) = 0 PROVE T \in F
    OBVIOUS
  <2>1. T = {}
    BY <1>1, FS_EmptySet
  <2> QED
    BY <2>1
<1>3. ASSUME NEW n \in Nat, n \in N PROVE n + 1 \in N
  <2> SUFFICES ASSUME NEW T \in SUBSET S, Cardinality(T) = n + 1 PROVE T \in F
    OBVIOUS
  <2>1. ASSUME NEW x \in T PROVE T \ {x} \in F
    <3>1. Cardinality(T \ {x}) = Cardinality(T) - 1
      BY <1>1, FS_RemoveElement
    <3>2. Cardinality(T \ {x}) = n /\ T \ {x} \in SUBSET S
      BY <3>1
    <3> QED
      BY <1>3, <3>2
  <2> QED
    BY <2>1
<1>4. \A n \in Nat : n \in N
  <2> HIDE DEF N
  <2> QED
    BY <1>2, <1>3, Induction
<1> QED
  BY <1>1, <1>4

-----------------------------------------------------------------------------
(* Sums.  g adds up f over the subsets of S; there is one such g, so what  *)
(* SumFunctionOnSet chooses is known.                                      *)
Chosen(s) == CHOOSE x \in s : TRUE
Adds(f, S, g) == g = [s \in SUBSET S |-> IF s = {} THEN 0 ELSE f[Chosen(s)] + g[s \ {Chosen(s)}]]

LEMMA ChosenIn == ASSUME NEW s, s # {} PROVE Chosen(s) \in s
BY DEF Chosen

LEMMA AddsExists ==
  ASSUME NEW S, IsFiniteSet(S), NEW f, \A x \in S : f[x] \in Int
  PROVE  \E g \in [SUBSET S -> Int] : Adds(f, S, g)
<1> DEFINE Up(g, s) == g[s] = IF s = {} THEN 0 ELSE f[Chosen(s)] + g[s \ {Chosen(s)}]
           N == {n \in Nat : \E g \in [SUBSET S -> Int] : \A s \in SUBSET S : Cardinality(s) <= n => Up(g, s)}
<1>1. \A s \in SUBSET S : IsFiniteSet(s) /\ Cardinality(s) \in Nat
  BY FS_Subset, FS_CardinalityType
<1>2. 0 \in N
  <2> DEFINE g == [s \in SUBSET S |-> 0]
  <2>1. g \in [SUBSET S -> Int]
    OBVIOUS
  <2>2. ASSUME NEW s \in SUBSET S, Cardinality(s) <= 0 PROVE Up(g, s)
    <3>1. s = {}
      BY <1>1, <2>2, FS_EmptySet
    <3> QED
      BY <3>1
  <2> QED
    BY <2>1, <2>2
<1>3. ASSUME NEW n \in Nat, n \in N PROVE n + 1 \in N
  <2>1. PICK g \in [SUBSET S -> Int] : \A s \in SUBSET S : Cardinality(s) <= n => Up(g, s)
    BY <1>3
  <2> DEFINE h == [s \in SUBSET S |-> IF s = {} THEN 0 ELSE f[Chosen(s)] + g[s \ {Chosen(s)}]]
  <2>2. h \in [SUBSET S -> Int]
    <3> SUFFICES ASSUME NEW s \in SUBSET S, s # {} PROVE f[Chosen(s)] + g[s \ {Chosen(s)}] \in Int
      OBVIOUS
    <3>1. Chosen(s) \in S /\ s \ {Chosen(s)} \in SUBSET S
      BY ChosenIn
    <3> QED
      BY <3>1
  <2>3. ASSUME NEW s \in SUBSET S, Cardinality(s) <= n + 1 PROVE Up(h, s)
    <3>1. CASE s = {}
      BY <3>1
    <3>2. CASE s # {}
      <4> DEFINE t == s \ {Chosen(s)}
      <4>1. Chosen(s) \in s /\ t \in SUBSET S
        BY <3>2, ChosenIn
      <4>2. Cardinality(t) = Cardinality(s) - 1
        BY <1>1, <4>1, FS_RemoveElement
      <4>3. Cardinality(t) <= n
        BY <1>1, <2>3, <4>2
      <4>4. Up(g, t)
        BY <2>1, <4>1, <4>3
      <4>5. h[t] = g[t]
        BY <4>1, <4>4
      <4>6. h[s] = f[Chosen(s)] + g[t]
        BY <3>2
      <4> QED
        BY <3>2, <4>5, <4>6
    <3> QED
      BY <3>1, <3>2
  <2> HIDE DEF h
  <2> QED
    BY <2>2, <2>3
<1>4. Cardinality(S) \in N
  <2> HIDE DEF N
  <2> QED
    BY <1>1, <1>2, <1>3, Induction
<1>5. PICK g \in [SUBSET S -> Int] : \A s \in SUBSET S : Cardinality(s) <= Cardinality(S) => Up(g, s)
  BY <1>4
<1>6. \A s \in SUBSET S : Up(g, s)
  BY <1>5, FS_Subset
<1>7. g = [s \in SUBSET S |-> g[s]]
  OBVIOUS
<1> QED
  BY <1>6, <1>7 DEF Adds

LEMMA AddsAt ==
  ASSUME NEW S, NEW f, NEW g, Adds(f, S, g), NEW s, s \subseteq S
  PROVE  /\ s = {} => g[s] = 0
         /\ s # {} => g[s] = f[Chosen(s)] + g[s \ {Chosen(s)}]
<1>1. s \in SUBSET S
  OBVIOUS
<1>2. g[s] = IF s = {} THEN 0 ELSE f[Chosen(s)] + g[s \ {Chosen(s)}]
  BY <1>1, Zenon DEF Adds
<1> QED
  BY <1>2, Zenon

LEMMA AddsAgree ==
  ASSUME NEW S, IsFiniteSet(S), NEW f, NEW g, NEW R, NEW h, Adds(f, S, g), Adds(f, R, h), S \subseteq R
  PROVE  g[S] = h[S]
<1> DEFINE F == {T \in SUBSET S : g[T] = h[T]}
<1>1. ASSUME NEW T \in SUBSET S, \A x \in T : T \ {x} \in F PROVE T \in F
  <2>0. T \subseteq S /\ T \subseteq R
    OBVIOUS
  <2>1. CASE T = {}
    <3>1. g[T] = 0 /\ h[T] = 0
      BY <2>0, <2>1, AddsAt, Zenon
    <3> QED
      BY <3>1
  <2>2. CASE T # {}
    <3>1. Chosen(T) \in T
      BY <2>2, ChosenIn
    <3>2. g[T] = f[Chosen(T)] + g[T \ {Chosen(T)}]
      BY <2>0, <2>2, AddsAt
    <3>3. h[T] = f[Chosen(T)] + h[T \ {Chosen(T)}]
      BY <2>0, <2>2, AddsAt
    <3>4. g[T \ {Chosen(T)}] = h[T \ {Chosen(T)}]
      BY <1>1, <3>1
    <3> QED
      BY <3>2, <3>3, <3>4
  <2> QED
    BY <2>1, <2>2
<1>2. S \in F
  <2> HIDE DEF F
  <2>1. S \in SUBSET S
    OBVIOUS
  <2> QED
    BY <1>1, <2>1, SetInduction, Zenon
<1> QED
  BY <1>2

SumOf(f, S) == SumFunctionOnSet(f, S)

LEMMA SumIs ==
  ASSUME NEW S, IsFiniteSet(S), NEW f, \A x \in S : f[x] \in Int
  PROVE  \E g \in [SUBSET S -> Int] : Adds(f, S, g) /\ SumOf(f, S) = g[S]
<1> DEFINE h == CHOOSE g : Adds(f, S, g)
<1>1. PICK g \in [SUBSET S -> Int] : Adds(f, S, g)
  BY AddsExists
<1>2. Adds(f, S, h)
  BY <1>1
<1>3. SumFunctionOnSet(f, S) = h[S]
  BY DEF SumFunctionOnSet, FoldFunctionOnSet, MapThenFoldSet, Adds, Chosen
<1>4. g[S] = h[S]
  BY <1>1, <1>2, AddsAgree
<1> QED
  BY <1>1, <1>3, <1>4 DEF SumOf

LEMMA SumTyped ==
  ASSUME NEW S, IsFiniteSet(S), NEW f, \A x \in S : f[x] \in Int
  PROVE  SumOf(f, S) \in Int
<1>1. PICK g \in [SUBSET S -> Int] : Adds(f, S, g) /\ SumOf(f, S) = g[S]
  BY SumIs
<1>2. g[S] \in Int
  OBVIOUS
<1> QED
  BY <1>1, <1>2

LEMMA SumEmpty ==
  ASSUME NEW f
  PROVE  SumOf(f, {}) = 0
<1>1. IsFiniteSet({})
  BY FS_EmptySet
<1>2. PICK g \in [SUBSET {} -> Int] : Adds(f, {}, g) /\ SumOf(f, {}) = g[{}]
  BY <1>1, SumIs
<1> QED
  BY <1>2, AddsAt

LEMMA SumChosen ==
  ASSUME NEW S, IsFiniteSet(S), NEW f, \A x \in S : f[x] \in Int, S # {}
  PROVE  SumOf(f, S) = f[Chosen(S)] + SumOf(f, S \ {Chosen(S)})
<1> DEFINE T == S \ {Chosen(S)}
<1>1. T \subseteq S /\ IsFiniteSet(T) /\ \A x \in T : f[x] \in Int
  BY FS_Subset
<1> HIDE DEF T
<1>2. PICK g \in [SUBSET S -> Int] : Adds(f, S, g) /\ SumOf(f, S) = g[S]
  BY SumIs
<1>3. PICK h \in [SUBSET T -> Int] : Adds(f, T, h) /\ SumOf(f, T) = h[T]
  BY <1>1, SumIs
<1>4. h[T] = g[T]
  BY <1>1, <1>2, <1>3, AddsAgree
<1>5. g[S] = f[Chosen(S)] + g[T]
  BY <1>2, AddsAt DEF T
<1> QED
  BY <1>2, <1>3, <1>4, <1>5 DEF T

(* The order does not matter.                                              *)
LEMMA SumWithout ==
  ASSUME NEW S, IsFiniteSet(S), NEW f, \A x \in S : f[x] \in Int, NEW x \in S
  PROVE  SumOf(f, S) = f[x] + SumOf(f, S \ {x})
<1> DEFINE F == {T \in SUBSET S : \A y \in T : SumOf(f, T) = f[y] + SumOf(f, T \ {y})}
<1>1. ASSUME NEW T \in SUBSET S, \A y \in T : T \ {y} \in F PROVE T \in F
  <2> SUFFICES ASSUME NEW y \in T PROVE SumOf(f, T) = f[y] + SumOf(f, T \ {y})
    OBVIOUS
  <2> DEFINE c == Chosen(T)
  <2>1. c \in T /\ IsFiniteSet(T) /\ \A z \in T : f[z] \in Int
    BY FS_Subset, ChosenIn
  <2>2. SumOf(f, T) = f[c] + SumOf(f, T \ {c})
    BY <2>1, SumChosen
  <2> HIDE DEF c
  <2>3. CASE y = c
    BY <2>2, <2>3
  <2>4. CASE y # c
    <3>1. SumOf(f, T \ {c}) = f[y] + SumOf(f, (T \ {c}) \ {y})
      BY <1>1, <2>1, <2>4
    <3>2. SumOf(f, T \ {y}) = f[c] + SumOf(f, (T \ {y}) \ {c})
      BY <1>1, <2>1, <2>4
    <3>3. (T \ {c}) \ {y} = (T \ {y}) \ {c}
      OBVIOUS
    <3>4. SumOf(f, (T \ {y}) \ {c}) \in Int
      <4>1. IsFiniteSet((T \ {y}) \ {c})
        BY <2>1, FS_Subset
      <4> QED
        BY <2>1, <4>1, SumTyped
    <3>5. f[c] \in Int /\ f[y] \in Int
      BY <2>1
    <3>6. SumOf(f, T) = f[c] + (f[y] + SumOf(f, (T \ {y}) \ {c}))
      BY <2>2, <3>1, <3>3, Zenon
    <3>7. f[y] + SumOf(f, T \ {y}) = f[y] + (f[c] + SumOf(f, (T \ {y}) \ {c}))
      BY <3>2, Zenon
    <3>8. \A p, q, r \in Int : p + (q + r) = q + (p + r)
      OBVIOUS
    <3> QED
      BY <3>4, <3>5, <3>6, <3>7, <3>8, Zenon
  <2> QED
    BY <2>3, <2>4
<1>2. S \in F
  <2> HIDE DEF F
  <2>1. S \in SUBSET S
    OBVIOUS
  <2> QED
    BY <1>1, <2>1, SetInduction, Zenon
<1> QED
  BY <1>2

(* Fewer and smaller numbers add up to less.                               *)
LEMMA SumAtMost ==
  ASSUME NEW S, IsFiniteSet(S), NEW f, NEW g, NEW T, T \subseteq S,
         \A x \in T : f[x] \in Int /\ f[x] <= g[x], \A x \in S : g[x] \in Nat
  PROVE  SumOf(f, T) <= SumOf(g, S)
<1> DEFINE F == {R \in SUBSET S : SumOf(f, R \cap T) <= SumOf(g, R)}
<1>1. ASSUME NEW R \in SUBSET S, \A x \in R : R \ {x} \in F PROVE R \in F
  <2>1. IsFiniteSet(R) /\ \A x \in R : g[x] \in Nat
    BY FS_Subset
  <2>2. IsFiniteSet(R \cap T) /\ \A x \in R \cap T : f[x] \in Int /\ f[x] <= g[x]
    BY <2>1, FS_Subset
  <2>3. CASE R = {}
    <3>1. R \cap T = {}
      BY <2>3
    <3> QED
      BY <2>3, <3>1, SumEmpty
  <2>4. CASE R # {}
    <3>1. PICK x \in R : TRUE
      BY <2>4
    <3>2. SumOf(f, (R \ {x}) \cap T) <= SumOf(g, R \ {x})
      BY <1>1
    <3>3. SumOf(g, R) = g[x] + SumOf(g, R \ {x})
      BY <2>1, SumWithout
    <3>4. SumOf(g, R \ {x}) \in Int /\ g[x] \in Nat
      <4>1. IsFiniteSet(R \ {x})
        BY <2>1, FS_Subset
      <4> QED
        BY <2>1, <4>1, SumTyped
    <3>5. CASE x \in T
      <4>1. SumOf(f, R \cap T) = f[x] + SumOf(f, (R \cap T) \ {x})
        BY <2>2, <3>5, SumWithout
      <4>2. (R \cap T) \ {x} = (R \ {x}) \cap T
        OBVIOUS
      <4>3. SumOf(f, (R \cap T) \ {x}) \in Int
        <5>1. IsFiniteSet((R \cap T) \ {x})
          BY <2>2, FS_Subset
        <5> QED
          BY <2>2, <5>1, SumTyped
      <4>4. f[x] \in Int /\ f[x] <= g[x]
        BY <3>5
      <4>5. SumOf(f, (R \cap T) \ {x}) <= SumOf(g, R \ {x})
        BY <3>2, <4>2
      <4> QED
        BY <3>3, <3>4, <4>1, <4>3, <4>4, <4>5
    <3>6. CASE x \notin T
      <4>1. (R \ {x}) \cap T = R \cap T
        BY <3>6
      <4>2. SumOf(f, R \cap T) \in Int
        BY <2>2, SumTyped
      <4>3. SumOf(f, R \cap T) <= SumOf(g, R \ {x})
        BY <3>2, <4>1
      <4> QED
        BY <3>3, <3>4, <4>2, <4>3
    <3> QED
      BY <3>5, <3>6
  <2> QED
    BY <2>3, <2>4
<1>2. S \in F
  <2> HIDE DEF F
  <2>1. S \in SUBSET S
    OBVIOUS
  <2> QED
    BY <1>1, <2>1, SetInduction, Zenon
<1>3. S \cap T = T
  OBVIOUS
<1> QED
  BY <1>2, <1>3

LEMMA SumSplit ==
  ASSUME NEW S, IsFiniteSet(S), NEW f, \A x \in S : f[x] \in Int, NEW T, T \subseteq S
  PROVE  SumOf(f, S) = SumOf(f, T) + SumOf(f, S \ T)
<1> DEFINE F == {R \in SUBSET S : SumOf(f, R) = SumOf(f, R \cap T) + SumOf(f, R \ T)}
<1>1. ASSUME NEW R \in SUBSET S, \A x \in R : R \ {x} \in F PROVE R \in F
  <2>1. /\ IsFiniteSet(R) /\ IsFiniteSet(R \cap T) /\ IsFiniteSet(R \ T)
        /\ \A x \in R : f[x] \in Int
    BY FS_Subset
  <2>2. CASE R = {}
    <3>1. R \cap T = {} /\ R \ T = {}
      BY <2>2
    <3> QED
      BY <2>2, <3>1, SumEmpty
  <2>3. CASE R # {}
    <3>1. PICK x \in R : TRUE
      BY <2>3
    <3>2. SumOf(f, R \ {x}) = SumOf(f, (R \ {x}) \cap T) + SumOf(f, (R \ {x}) \ T)
      BY <1>1
    <3>3. SumOf(f, R) = f[x] + SumOf(f, R \ {x})
      BY <2>1, SumWithout
    <3>4. f[x] \in Int /\ SumOf(f, (R \ {x}) \cap T) \in Int /\ SumOf(f, (R \ {x}) \ T) \in Int
      <4>1. IsFiniteSet((R \ {x}) \cap T) /\ IsFiniteSet((R \ {x}) \ T)
        BY <2>1, FS_Subset
      <4> QED
        BY <2>1, <4>1, SumTyped
    <3>5. CASE x \in T
      <4>1. SumOf(f, R \cap T) = f[x] + SumOf(f, (R \cap T) \ {x})
        BY <2>1, <3>5, SumWithout
      <4>2. (R \cap T) \ {x} = (R \ {x}) \cap T /\ (R \ {x}) \ T = R \ T
        BY <3>5
      <4>3. SumOf(f, R \cap T) = f[x] + SumOf(f, (R \ {x}) \cap T)
        BY <4>1, <4>2, Zenon
      <4>4. SumOf(f, R \ {x}) = SumOf(f, (R \ {x}) \cap T) + SumOf(f, R \ T)
        BY <3>2, <4>2, Zenon
      <4>5. SumOf(f, R \ T) \in Int
        BY <2>1, SumTyped
      <4> QED
        BY <3>3, <3>4, <4>3, <4>4, <4>5
    <3>6. CASE x \notin T
      <4>1. SumOf(f, R \ T) = f[x] + SumOf(f, (R \ T) \ {x})
        BY <2>1, <3>6, SumWithout
      <4>2. (R \ T) \ {x} = (R \ {x}) \ T /\ (R \ {x}) \cap T = R \cap T
        BY <3>6
      <4>3. SumOf(f, R \ T) = f[x] + SumOf(f, (R \ {x}) \ T)
        BY <4>1, <4>2, Zenon
      <4>4. SumOf(f, R \ {x}) = SumOf(f, R \cap T) + SumOf(f, (R \ {x}) \ T)
        BY <3>2, <4>2, Zenon
      <4>5. SumOf(f, R \cap T) \in Int
        BY <2>1, SumTyped
      <4> QED
        BY <3>3, <3>4, <4>3, <4>4, <4>5
    <3> QED
      BY <3>5, <3>6
  <2> QED
    BY <2>2, <2>3
<1>2. S \in F
  <2> HIDE DEF F
  <2>1. S \in SUBSET S
    OBVIOUS
  <2> QED
    BY <1>1, <2>1, SetInduction, Zenon
<1>3. S \cap T = T
  OBVIOUS
<1> QED
  BY <1>2, <1>3

LEMMA SumBound ==
  ASSUME NEW S, IsFiniteSet(S), NEW f, NEW m \in Nat, \A x \in S : f[x] \in Int /\ f[x] <= m
  PROVE  SumOf(f, S) <= Cardinality(S) * m
<1> DEFINE F == {R \in SUBSET S : SumOf(f, R) <= Cardinality(R) * m}
<1>1. ASSUME NEW R \in SUBSET S, \A x \in R : R \ {x} \in F PROVE R \in F
  <2>1. IsFiniteSet(R) /\ Cardinality(R) \in Nat /\ \A x \in R : f[x] \in Int
    BY FS_Subset, FS_CardinalityType
  <2>2. CASE R = {}
    <3>1. SumOf(f, R) = 0 /\ Cardinality(R) = 0
      BY <2>2, SumEmpty, FS_EmptySet
    <3> QED
      BY <3>1
  <2>3. CASE R # {}
    <3>1. PICK x \in R : TRUE
      BY <2>3
    <3>2. SumOf(f, R \ {x}) <= Cardinality(R \ {x}) * m
      BY <1>1
    <3>3. SumOf(f, R) = f[x] + SumOf(f, R \ {x})
      BY <2>1, SumWithout
    <3>4. Cardinality(R \ {x}) = Cardinality(R) - 1
      BY <2>1, FS_RemoveElement
    <3>5. f[x] \in Int /\ f[x] <= m /\ SumOf(f, R \ {x}) \in Int
      <4>1. IsFiniteSet(R \ {x})
        BY <2>1, FS_Subset
      <4> QED
        BY <2>1, <4>1, SumTyped
    <3>6. (Cardinality(R) - 1) * m = Cardinality(R) * m - m
      BY <2>1
    <3>7. Cardinality(R) * m \in Int
      BY <2>1
    <3> QED
      BY <3>2, <3>3, <3>4, <3>5, <3>6, <3>7
  <2> QED
    BY <2>2, <2>3
<1>2. S \in F
  <2> HIDE DEF F
  <2>1. S \in SUBSET S
    OBVIOUS
  <2> QED
    BY <1>1, <2>1, SetInduction, Zenon
<1> QED
  BY <1>2

-----------------------------------------------------------------------------
(* What a worker keeps and what it gives up.                               *)

(* A set of places that has all places before each of its own.             *)
LEMMA FirstPlaces ==
  ASSUME NEW len \in Nat, NEW K, K \subseteq 1..len, \A k \in K : \A j \in 1..k : j \in K
  PROVE  Cardinality(K) \in 0..len /\ K = 1..Cardinality(K)
<1> DEFINE T == {m \in Nat : m >= 1 /\ m \notin K}
<1>1. len + 1 \in T
  OBVIOUS
<1>2. PICK x \in T : \A y \in T : x <= y
  <2>1. T \subseteq Nat /\ T # {}
    BY <1>1
  <2> HIDE DEF T
  <2> QED
    BY <2>1, Least
<1>3. x \in Nat /\ x >= 1 /\ x \notin K /\ x <= len + 1
  BY <1>1, <1>2
<1>4. ASSUME NEW j \in 1..x - 1 PROVE j \in K
  <2>1. j \in Nat /\ j >= 1 /\ ~(x <= j)
    BY <1>3
  <2> QED
    BY <1>2, <2>1
<1>5. ASSUME NEW k \in K PROVE k \in 1..x - 1
  <2>1. k \in 1..len
    OBVIOUS
  <2>2. CASE k >= x
    <3>1. x \in 1..k
      BY <1>3, <2>1, <2>2
    <3> QED
      BY <1>3, <3>1
  <2> QED
    BY <1>3, <2>1, <2>2
<1>6. K = 1..x - 1
  BY <1>4, <1>5
<1>7. Cardinality(1..x - 1) = x - 1
  BY <1>3, FS_Interval
<1> QED
  BY <1>3, <1>6, <1>7

(* What is stored, with sizes that can be added up.                        *)
Sizes == IsFiniteSet(Name) /\ size \in [Name -> Nat \cup {Gone}] /\ Limit \in Nat

LEMMA StoredSizes ==
  ASSUME Sizes, NEW S, S \subseteq Stored
  PROVE  /\ IsFiniteSet(S) /\ \A n \in S : size[n] \in Nat
         /\ SumOf(size, S) \in Int
<1>1. S \subseteq Name /\ \A n \in S : size[n] \in Nat
  BY DEF Sizes, Stored
<1>2. IsFiniteSet(S)
  BY <1>1, FS_Subset DEF Sizes
<1>3. SumOf(size, S) \in Int
  BY <1>1, <1>2, SumTyped
<1> QED
  BY <1>1, <1>2, <1>3

LEMMA StoredLess ==
  ASSUME Sizes, NEW S, S \subseteq Stored, NEW T, T \subseteq S
  PROVE  SumOf(size, T) <= SumOf(size, S)
<1>1. IsFiniteSet(S) /\ \A n \in S : size[n] \in Nat
  BY StoredSizes
<1>2. \A n \in T : size[n] \in Int /\ size[n] <= size[n]
  BY <1>1
<1> QED
  BY <1>1, <1>2, SumAtMost

First(s, k) == {s[i] : i \in 1..k}

(* The first files of a list that have room together.                      *)
LEMMA FittingIs ==
  ASSUME Sizes, NEW f, NEW s \in Seq(Name), \A i \in 1..Len(s) : f[s[i]] \in Nat
  PROVE  /\ Fitting(f, s) \in 0..Len(s)
         /\ SumOf(f, First(s, Fitting(f, s))) <= Limit
         /\ \A k \in 1..Len(s) : k > Fitting(f, s) => SumOf(f, First(s, k)) > Limit
<1> DEFINE K == {k \in 1..Len(s) : SumOf(f, First(s, k)) <= Limit}
<1>0. Len(s) \in Nat /\ DOMAIN s = 1..Len(s) /\ Limit \in Nat
  BY DEF Sizes
<1>1. ASSUME NEW k \in 0..Len(s)
      PROVE  /\ IsFiniteSet(First(s, k)) /\ \A n \in First(s, k) : f[n] \in Nat
             /\ SumOf(f, First(s, k)) \in Int
  <2>1. First(s, k) \subseteq Name /\ \A n \in First(s, k) : f[n] \in Nat
    BY <1>0 DEF First
  <2>2. IsFiniteSet(First(s, k))
    BY <2>1, FS_Subset DEF Sizes
  <2> QED
    BY <2>1, <2>2, SumTyped
<1>2. ASSUME NEW k \in K, NEW j \in 1..k PROVE j \in K
  <2>1. j \in 1..Len(s) /\ k \in 1..Len(s) /\ j \in 0..Len(s) /\ k \in 0..Len(s)
    BY <1>0
  <2>2. First(s, j) \subseteq First(s, k)
    BY <2>1 DEF First
  <2>3. IsFiniteSet(First(s, k)) /\ \A n \in First(s, k) : f[n] \in Nat
    BY <1>1, <2>1
  <2>4. SumOf(f, First(s, j)) <= SumOf(f, First(s, k))
    <3>1. \A n \in First(s, j) : f[n] \in Int /\ f[n] <= f[n]
      BY <2>2, <2>3
    <3> QED
      BY <2>2, <2>3, <3>1, SumAtMost
  <2>5. SumOf(f, First(s, j)) \in Int /\ SumOf(f, First(s, k)) \in Int
    BY <1>1, <2>1
  <2>6. SumOf(f, First(s, k)) <= Limit
    OBVIOUS
  <2> QED
    BY <1>0, <2>1, <2>4, <2>5, <2>6
<1>3. Fitting(f, s) = Cardinality(K)
  BY <1>0 DEF Fitting, SumOf, First
<1>4. K \subseteq 1..Len(s)
  OBVIOUS
<1>5. Cardinality(K) \in 0..Len(s) /\ K = 1..Cardinality(K)
  <2> HIDE DEF K
  <2> QED
    BY <1>0, <1>2, <1>4, FirstPlaces
<1>6. \A k \in 1..Len(s) : k \in K <=> SumOf(f, First(s, k)) <= Limit
  OBVIOUS
<1> HIDE DEF K
<1>7. SumOf(f, First(s, Cardinality(K))) <= Limit
  <2>1. CASE Cardinality(K) = 0
    <3>1. First(s, 0) = {}
      BY DEF First
    <3>2. SumOf(f, First(s, 0)) = 0
      BY <3>1, SumEmpty
    <3> QED
      BY <1>0, <2>1, <3>2
  <2>2. CASE Cardinality(K) # 0
    <3>1. Cardinality(K) \in 1..Cardinality(K) /\ Cardinality(K) \in 1..Len(s)
      BY <1>0, <1>5, <2>2
    <3>2. Cardinality(K) \in K
      BY <1>5, <3>1
    <3> QED
      BY <1>6, <3>1, <3>2
  <2> QED
    BY <2>1, <2>2
<1>8. ASSUME NEW k \in 1..Len(s), k > Cardinality(K) PROVE SumOf(f, First(s, k)) > Limit
  <2>1. k \notin 1..Cardinality(K)
    BY <1>0, <1>5, <1>8
  <2>2. ~(SumOf(f, First(s, k)) <= Limit)
    BY <1>5, <1>6, <2>1
  <2>3. k \in 0..Len(s)
    BY <1>0
  <2>4. SumOf(f, First(s, k)) \in Int
    BY <1>1, <2>3
  <2> QED
    BY <1>0, <2>2, <2>4
<1> QED
  BY <1>3, <1>5, <1>7, <1>8

(* The places of a list after the first n.                                 *)
LEMMA After ==
  ASSUME NEW T, NEW s \in Seq(T), NEW n \in 0..Len(s)
  PROVE  /\ SubSeq(s, 1, n) \in Seq(T) /\ SubSeq(s, n + 1, Len(s)) \in Seq(T)
         /\ Range(SubSeq(s, 1, n)) = First(s, n)
         /\ Range(SubSeq(s, n + 1, Len(s))) = {s[i] : i \in n + 1..Len(s)}
         /\ Len(SubSeq(s, n + 1, Len(s))) = Len(s) - n
         /\ \A i \in 1..Len(s) - n : SubSeq(s, n + 1, Len(s))[i] = s[n + i]
<1>1. Len(s) \in Nat /\ \A i \in 1..Len(s) : s[i] \in T
  OBVIOUS
<1> DEFINE p == SubSeq(s, 1, n)
           q == SubSeq(s, n + 1, Len(s))
<1>2. /\ p \in Seq(T) /\ Len(p) = IF 1 <= n THEN n - 1 + 1 ELSE 0
      /\ \A i \in 1..n - 1 + 1 : p[i] = s[1 + i - 1]
  BY <1>1, SubSeqProperties
<1>3. /\ q \in Seq(T) /\ Len(q) = IF n + 1 <= Len(s) THEN Len(s) - (n + 1) + 1 ELSE 0
      /\ \A i \in 1..Len(s) - (n + 1) + 1 : q[i] = s[n + 1 + i - 1]
  <2>1. n + 1 \in Int /\ \A i \in n + 1..Len(s) : s[i] \in T
    BY <1>1
  <2> QED
    BY <1>1, <2>1, SubSeqProperties
<1> HIDE DEF p, q
<1>4. Len(p) = n /\ \A i \in 1..n : p[i] = s[i]
  <2>1. n \in Nat /\ n - 1 + 1 = n /\ \A i \in 1..n : 1 + i - 1 = i
    BY <1>1
  <2> QED
    BY <1>2, <2>1
<1>5. Len(q) = Len(s) - n /\ \A i \in 1..Len(s) - n : q[i] = s[n + i]
  BY <1>1, <1>3
<1>6. Range(p) = First(s, n)
  BY <1>2, <1>4 DEF Range, First
<1>7. Range(q) = {s[i] : i \in n + 1..Len(s)}
  <2>1. DOMAIN q = 1..Len(s) - n
    BY <1>3, <1>5
  <2>2. ASSUME NEW i \in 1..Len(s) - n PROVE \E k \in n + 1..Len(s) : q[i] = s[k]
    <3>1. n + i \in n + 1..Len(s) /\ q[i] = s[n + i]
      BY <1>1, <1>5
    <3> QED
      BY <3>1
  <2>3. ASSUME NEW k \in n + 1..Len(s) PROVE \E i \in 1..Len(s) - n : q[i] = s[k]
    <3>1. k - n \in 1..Len(s) - n /\ n + (k - n) = k
      BY <1>1
    <3>2. q[k - n] = s[n + (k - n)]
      BY <1>5, <3>1
    <3> QED
      BY <3>1, <3>2
  <2>4. Range(q) = {q[i] : i \in 1..Len(s) - n}
    BY <2>1 DEF Range
  <2>5. {q[i] : i \in 1..Len(s) - n} \subseteq {s[i] : i \in n + 1..Len(s)}
    BY <2>2, Zenon
  <2>6. {s[i] : i \in n + 1..Len(s)} \subseteq {q[i] : i \in 1..Len(s) - n}
    BY <2>3, Zenon
  <2> QED
    BY <2>4, <2>5, <2>6
<1> QED
  BY <1>2, <1>3, <1>5, <1>6, <1>7 DEF p, q

(* Lists of all elements of a set.                                         *)
LEMMA WholeList ==
  ASSUME NEW S, IsFiniteSet(S), NEW s \in SetToAllKPermutations(S), Len(s) = Cardinality(S)
  PROVE  /\ s \in Seq(S) /\ \A i, j \in 1..Len(s) : i # j => s[i] # s[j]
         /\ {s[i] : i \in 1..Len(s)} = S
<1>1. PICK T \in SUBSET S : s \in SetToSeqs(T)
  BY DEF SetToAllKPermutations
<1>2. Cardinality(T) \in Nat /\ IsFiniteSet(T) /\ Cardinality(S) \in Nat
  BY FS_Subset, FS_CardinalityType
<1>3. s \in [1..Cardinality(T) -> T] /\ \A i, j \in 1..Cardinality(T) : i # j => s[i] # s[j]
  BY <1>1 DEF SetToSeqs
<1>4. s \in Seq(T) /\ Len(s) = Cardinality(T)
  BY <1>2, <1>3
<1>5. T = S
  BY <1>4, FS_Subset
<1>6. s \in Injection(1..Len(s), S)
  BY <1>3, <1>4, <1>5 DEF Injection, IsInjective
<1>7. Cardinality(1..Len(s)) = Len(s) /\ IsFiniteSet(1..Len(s))
  BY <1>2, <1>4, FS_Interval
<1>8. s \in Surjection(1..Len(s), S)
  BY <1>6, <1>7, FS_Injection
<1> QED
  BY <1>3, <1>4, <1>5, <1>8 DEF Surjection

-----------------------------------------------------------------------------
(* Types, and what the place of a worker says of its request.              *)
FormInv ==
  \A w \in Worker :
    /\ pc[w] = "write" => req[w].kind = "form"
    /\ pc[w] = "answer" => evict[w] = <<>>
    /\ pc[w] # "stat" => sizes[w] = Unseen

Typed == TypeOK /\ FormInv

LEMMA RequestIs ==
  ASSUME WebTazAssumption, NEW r \in Request
  PROVE  /\ r.kind \in {"file", "form", "get"} => r.name \in Name
         /\ r.kind = "form" => r.len \in Forms
         /\ r.kind = "file" => r.len \in Files
         /\ r.len \in Nat /\ r.time \in 0..MaxTime
<1>1. r.name \in Name \cup {Nobody} /\ r.time \in 0..MaxTime /\ r.len \in Files \cup Forms \cup {0}
  BY DEF Request
<1>2. r.name = Nobody => r.kind \in {"index", "bare"}
  BY DEF Request
<1>3. r.len \in (CASE r.kind = "file" -> Files [] r.kind = "form" -> Forms [] OTHER -> {0})
  BY DEF Request
<1>4. (r.kind = "form" => r.len \in Forms) /\ (r.kind = "file" => r.len \in Files)
  BY <1>3
<1>5. r.len \in Nat
  <2>1. /\ \A x : x \in Files => x \in Nat
        /\ \A x : x \in Forms => x \in Nat
    BY DEF WebTazAssumption
  <2>2. 0 \in Nat
    OBVIOUS
  <2>3. r.len \in Files \/ r.len \in Forms \/ r.len = 0
    BY <1>1, Zenon
  <2> QED
    BY <2>1, <2>2, <2>3, Zenon
<1> QED
  BY <1>1, <1>2, <1>4, <1>5

LEMMA UnseenTyped ==
  ASSUME WebTazAssumption
  PROVE  /\ Unseen \in [Name -> Nat \cup {Gone}] /\ Undated \in [Name -> 0..MaxTime]
         /\ \A n \in Name : Unseen[n] = Gone
BY DEF WebTazAssumption, Unseen, Undated

LEMMA FirstTyped ==
  ASSUME WebTazAssumption, Init
  PROVE  Typed
<1>1. [kind |-> "index", name |-> Nobody, len |-> 0, time |-> 0] \in Request
  BY DEF WebTazAssumption, Request
<1>2. <<>> \in Seq(Name) /\ 0 \in 0..MaxTime
  BY DEF WebTazAssumption
<1>3. TypeOK
  BY <1>1, <1>2, UnseenTyped DEF Init, TypeOK
<1>4. FormInv
  BY DEF Init, FormInv
<1> QED
  BY <1>3, <1>4 DEF Typed

LEMMA EndTyped ==
  ASSUME WebTazAssumption, Typed, NEW w \in Worker, NEW s \in {Aborted, 0, 200, 404, 413, 500}, End(w, s)
  PROVE  Typed'
<1>1. /\ pc' = [pc EXCEPT ![w] = "idle"] /\ status' = [status EXCEPT ![w] = s]
      /\ seen' = [seen EXCEPT ![w] = {}] /\ list' = [list EXCEPT ![w] = <<>>]
      /\ sizes' = [sizes EXCEPT ![w] = Unseen] /\ times' = [times EXCEPT ![w] = Undated]
      /\ evict' = [evict EXCEPT ![w] = <<>>] /\ UNCHANGED <<size, stamp, now, linked, req>>
  BY DEF End, Goto, disk
<1>2. <<>> \in Seq(Name) /\ Unseen \in [Name -> Nat \cup {Gone}] /\ Undated \in [Name -> 0..MaxTime]
  BY UnseenTyped
<1>3. TypeOK'
  BY <1>1, <1>2 DEF Typed, TypeOK
<1>4. FormInv'
  BY <1>1 DEF Typed, TypeOK, FormInv
<1> QED
  BY <1>3, <1>4 DEF Typed

LEMMA SizesKnown ==
  ASSUME WebTazAssumption, TypeOK
  PROVE  Sizes
BY DEF WebTazAssumption, TypeOK, Sizes

(* What a look at one file finds, when it is not missing.                  *)
LEMMA StatIs ==
  ASSUME Typed, NEW w \in Worker, Stat(w), ~End(w, Aborted)
  PROVE  /\ pc[w] = "stat" /\ UNCHANGED <<size, stamp, now, linked, pc, req, seen, list, evict, status>>
         /\ \E n \in Stored :
              /\ sizes' = [sizes EXCEPT ![w] = [sizes[w] EXCEPT ![n] = size[n]]]
              /\ times' = [times EXCEPT ![w] = [times[w] EXCEPT ![n] = stamp[n]]]
BY DEF Stat, disk

(* The order a worker chooses among the files it found, and what it keeps. *)
LEMMA PlanIs ==
  ASSUME WebTazAssumption, Typed, NEW w \in Worker, Plan(w)
  PROVE  \E s \in Seq(Name) :
           /\ {s[i] : i \in 1..Len(s)} = seen[w]
           /\ \A i, j \in 1..Len(s) : i # j => s[i] # s[j]
           /\ \A i \in 1..Len(s) : sizes[w][s[i]] \in Nat
           /\ NewestFirst(times[w], s)
           /\ list' = [list EXCEPT ![w] = SubSeq(s, 1, Fitting(sizes[w], s))]
           /\ evict' = [evict EXCEPT ![w] = SubSeq(s, Fitting(sizes[w], s) + 1, Len(s))]
           /\ pc' = [pc EXCEPT ![w] = "evict"]
           /\ sizes' = [sizes EXCEPT ![w] = Unseen] /\ times' = [times EXCEPT ![w] = Undated]
           /\ UNCHANGED <<size, stamp, now, linked, req, seen, status>>
<1>1. PICK s \in SetToAllKPermutations(seen[w]) :
        /\ Len(s) = Cardinality(seen[w]) /\ NewestFirst(times[w], s)
        /\ list' = [list EXCEPT ![w] = SubSeq(s, 1, Fitting(sizes[w], s))]
        /\ evict' = [evict EXCEPT ![w] = SubSeq(s, Fitting(sizes[w], s) + 1, Len(s))]
  BY DEF Plan
<1>2. IsFiniteSet(seen[w]) /\ seen[w] \subseteq Name
  BY FS_Subset DEF Typed, TypeOK, WebTazAssumption
<1>3. /\ s \in Seq(seen[w]) /\ \A i, j \in 1..Len(s) : i # j => s[i] # s[j]
      /\ {s[i] : i \in 1..Len(s)} = seen[w]
  BY <1>1, <1>2, WholeList
<1>4. s \in Seq(Name)
  BY <1>2, <1>3
<1>5. \A n \in seen[w] : sizes[w][n] \in Nat
  BY <1>2 DEF Plan, Typed, TypeOK
<1>6. \A i \in 1..Len(s) : sizes[w][s[i]] \in Nat
  BY <1>3, <1>5
<1>7. /\ pc' = [pc EXCEPT ![w] = "evict"]
      /\ sizes' = [sizes EXCEPT ![w] = Unseen] /\ times' = [times EXCEPT ![w] = Undated]
      /\ UNCHANGED <<size, stamp, now, linked, req, seen, status>>
  BY DEF Plan, Goto, disk
<1> QED
  BY <1>1, <1>3, <1>4, <1>6, <1>7

LEMMA TypedNext ==
  ASSUME WebTazAssumption, Typed, [Next]_vars
  PROVE  Typed'
<1> USE DEF Typed
<1>1. CASE Tick
  BY <1>1 DEF Tick, look, TypeOK, FormInv, WebTazAssumption
<1>2. CASE UNCHANGED vars
  BY <1>2 DEF vars, look, TypeOK, FormInv, Request, Stored
<1>3. ASSUME NEW w \in Worker, Begin(w) PROVE Typed'
  <2>1. PICK r \in Request : req' = [req EXCEPT ![w] = r]
    BY <1>3 DEF Begin
  <2>2. /\ pc[w] = "idle" /\ status' = [status EXCEPT ![w] = 200] /\ pc' = [pc EXCEPT ![w] = "list"]
        /\ UNCHANGED <<size, stamp, now, linked, seen, sizes, times, list, evict>>
    BY <1>3 DEF Begin, Goto, disk, look
  <2>3. TypeOK'
    BY <2>1, <2>2 DEF TypeOK
  <2>4. FormInv'
    BY <2>1, <2>2 DEF TypeOK, FormInv, Unseen
  <2> QED
    BY <2>3, <2>4
<1>4. ASSUME NEW w \in Worker, ReadDir(w) PROVE Typed'
  BY <1>4 DEF ReadDir, Goto, disk, TypeOK, FormInv, Stored
<1>5. ASSUME NEW w \in Worker, Stat(w) PROVE Typed'
  <2>1. CASE End(w, Aborted)
    BY <2>1, EndTyped
  <2>2. CASE ~End(w, Aborted)
    <3>1. /\ pc[w] = "stat" /\ UNCHANGED <<size, stamp, now, linked, pc, req, seen, list, evict, status>>
          /\ \E n \in Stored :
               /\ sizes' = [sizes EXCEPT ![w] = [sizes[w] EXCEPT ![n] = size[n]]]
               /\ times' = [times EXCEPT ![w] = [times[w] EXCEPT ![n] = stamp[n]]]
      BY <1>5, <2>2, StatIs
    <3>2. PICK n \in Name : /\ sizes' = [sizes EXCEPT ![w] = [sizes[w] EXCEPT ![n] = size[n]]]
                            /\ times' = [times EXCEPT ![w] = [times[w] EXCEPT ![n] = stamp[n]]]
      BY <3>1 DEF Stored
    <3>3. /\ [sizes[w] EXCEPT ![n] = size[n]] \in [Name -> Nat \cup {Gone}]
          /\ [times[w] EXCEPT ![n] = stamp[n]] \in [Name -> 0..MaxTime]
      BY DEF TypeOK
    <3>4. sizes' \in [Worker -> [Name -> Nat \cup {Gone}]] /\ times' \in [Worker -> [Name -> 0..MaxTime]]
      BY <3>2, <3>3 DEF TypeOK
    <3>5. TypeOK'
      BY <3>1, <3>4 DEF TypeOK
    <3>6. \A v \in Worker : pc'[v] # "stat" => sizes'[v] = sizes[v]
      BY <3>1, <3>2 DEF TypeOK
    <3>7. FormInv'
      BY <3>1, <3>6 DEF FormInv, Unseen
    <3> QED
      BY <3>5, <3>7
  <2> QED
    BY <2>1, <2>2
<1>12. ASSUME NEW w \in Worker, Plan(w) PROVE Typed'
  <2>1. PICK s \in Seq(Name) :
          /\ \A i \in 1..Len(s) : sizes[w][s[i]] \in Nat
          /\ list' = [list EXCEPT ![w] = SubSeq(s, 1, Fitting(sizes[w], s))]
          /\ evict' = [evict EXCEPT ![w] = SubSeq(s, Fitting(sizes[w], s) + 1, Len(s))]
          /\ pc' = [pc EXCEPT ![w] = "evict"]
          /\ sizes' = [sizes EXCEPT ![w] = Unseen] /\ times' = [times EXCEPT ![w] = Undated]
          /\ UNCHANGED <<size, stamp, now, linked, req, seen, status>>
    BY <1>12, PlanIs
  <2> DEFINE k == Fitting(sizes[w], s)
             p == SubSeq(s, 1, k)
             q == SubSeq(s, k + 1, Len(s))
  <2>2. k \in 0..Len(s)
    BY <2>1, SizesKnown, FittingIs
  <2>3. list' = [list EXCEPT ![w] = p] /\ evict' = [evict EXCEPT ![w] = q]
    BY <2>1
  <2>4. p \in Seq(Name) /\ q \in Seq(Name)
    BY <2>2, After
  <2> HIDE DEF k, p, q
  <2>7. list' \in [Worker -> Seq(Name)] /\ evict' \in [Worker -> Seq(Name)]
    BY <2>3, <2>4 DEF TypeOK
  <2>8. sizes' \in [Worker -> [Name -> Nat \cup {Gone}]] /\ times' \in [Worker -> [Name -> 0..MaxTime]]
    BY <2>1, UnseenTyped DEF TypeOK
  <2>5. TypeOK'
    BY <2>1, <2>7, <2>8 DEF TypeOK
  <2>6. FormInv'
    BY <2>1 DEF TypeOK, FormInv, Unseen
  <2> QED
    BY <2>5, <2>6
<1>6. ASSUME NEW w \in Worker, Evict(w) PROVE Typed'
  <2>1. pc[w] = "evict" /\ UNCHANGED <<stamp, now, req, seen, sizes, times, list, status>>
    BY <1>6 DEF Evict, look
  <2>2. CASE /\ evict[w] # <<>>
             /\ size' = [size EXCEPT ![Head(evict[w])] = Gone]
             /\ Unlink(Head(evict[w]))
             /\ evict' = [evict EXCEPT ![w] = Tail(@)]
             /\ UNCHANGED pc
    <3>1. evict[w] \in Seq(Name)
      BY DEF TypeOK
    <3>2. Tail(evict[w]) \in Seq(Name) /\ evict' = [evict EXCEPT ![w] = Tail(evict[w])]
      BY <2>2, <3>1, HeadTailProperties
    <3>3. size' \in [Name -> Nat \cup {Gone}]
      BY <2>2 DEF TypeOK
    <3>4. linked' \subseteq Worker
      BY <2>2 DEF TypeOK, Unlink
    <3>5. TypeOK'
      BY <2>1, <2>2, <3>2, <3>3, <3>4 DEF TypeOK
    <3>6. FormInv'
      BY <2>1, <2>2, <3>2 DEF TypeOK, FormInv
    <3> QED
      BY <3>5, <3>6
  <2>3. CASE evict[w] = <<>> /\ Goto(w, "answer") /\ UNCHANGED <<size, evict, linked>>
    <3>1. TypeOK'
      BY <2>1, <2>3 DEF Goto, TypeOK
    <3>2. FormInv'
      BY <2>1, <2>3 DEF Goto, TypeOK, FormInv
    <3> QED
      BY <3>1, <3>2
  <2> QED
    BY <1>6, <2>2, <2>3 DEF Evict
<1>7. ASSUME NEW w \in Worker, Move(w) PROVE Typed'
  <2>1. req[w] \in Request /\ req[w].len \in Nat /\ req[w].time \in 0..MaxTime
    BY RequestIs DEF TypeOK
  <2>2. /\ pc' = [pc EXCEPT ![w] = "tell"] /\ UNCHANGED <<now, req, seen, sizes, times, list, evict>>
        /\ status' \in [Worker -> {Aborted, 0, 200, 404, 413, 500}]
        /\ size' \in [Name -> Nat \cup {Gone}] /\ stamp' \in [Name -> 0..MaxTime] /\ linked' \subseteq Worker
    <3>1. UNCHANGED <<size, stamp, linked>> => /\ size' \in [Name -> Nat \cup {Gone}]
                                               /\ stamp' \in [Name -> 0..MaxTime] /\ linked' \subseteq Worker
      BY DEF TypeOK
    <3>2. /\ [size EXCEPT ![req[w].name] = req[w].len] \in [Name -> Nat \cup {Gone}]
          /\ [stamp EXCEPT ![req[w].name] = req[w].time] \in [Name -> 0..MaxTime]
          /\ {v \in linked : req[v].name # req[w].name} \subseteq Worker
      BY <2>1 DEF TypeOK
    <3>3. status' = [status EXCEPT ![w] = 413] \/ status' = status
      BY <1>7 DEF Move
    <3>4. status' \in [Worker -> {Aborted, 0, 200, 404, 413, 500}]
      <4>1. status \in [Worker -> {Aborted, 0, 200, 404, 413, 500}]
        BY DEF TypeOK
      <4>2. [status EXCEPT ![w] = 413] \in [Worker -> {Aborted, 0, 200, 404, 413, 500}]
        BY <4>1
      <4> QED
        BY <3>3, <4>1, <4>2
    <3> QED
      BY <1>7, <3>1, <3>2, <3>4 DEF Move, Goto, Unlink, look
  <2>3. TypeOK'
    BY <2>2 DEF TypeOK
  <2>5. pc[w] = "answer"
    BY <1>7 DEF Move
  <2>4. FormInv'
    BY <2>2, <2>5 DEF TypeOK, FormInv, Unseen
  <2> QED
    BY <2>3, <2>4
<1>8. ASSUME NEW w \in Worker, Truncate(w) PROVE Typed'
  <2>1. /\ pc[w] = "answer" /\ req[w].kind = "form" /\ pc' = [pc EXCEPT ![w] = "write"]
        /\ UNCHANGED <<now, req, seen, sizes, times, list, evict, status>>
        /\ size' \in [Name -> Nat \cup {Gone}] /\ stamp' \in [Name -> 0..MaxTime] /\ linked' \subseteq Worker
    <3>1. /\ [size EXCEPT ![req[w].name] = 0] \in [Name -> Nat \cup {Gone}]
          /\ [stamp EXCEPT ![req[w].name] = now] \in [Name -> 0..MaxTime]
          /\ linked \cup {w} \subseteq Worker
      BY DEF TypeOK
    <3> QED
      BY <1>8, <3>1 DEF Truncate, Goto, look
  <2>2. TypeOK'
    BY <2>1 DEF TypeOK
  <2>3. FormInv'
    BY <2>1 DEF TypeOK, FormInv
  <2> QED
    BY <2>2, <2>3
<1>9. ASSUME NEW w \in Worker, Write(w) PROVE Typed'
  <2>1. req[w] \in Request /\ req[w].len \in Nat
    BY RequestIs DEF TypeOK
  <2>2. /\ pc' = [pc EXCEPT ![w] = "tell"] /\ UNCHANGED <<now, req, seen, sizes, times, list, evict, status>>
        /\ size' \in [Name -> Nat \cup {Gone}] /\ stamp' \in [Name -> 0..MaxTime] /\ linked' \subseteq Worker
    <3>1. UNCHANGED <<size, stamp>> => size' \in [Name -> Nat \cup {Gone}] /\ stamp' \in [Name -> 0..MaxTime]
      BY DEF TypeOK
    <3>0. /\ size \in [Name -> Nat \cup {Gone}] /\ stamp \in [Name -> 0..MaxTime] /\ now \in 0..MaxTime
          /\ linked \subseteq Worker /\ req[w].name \in Name
      BY <1>9, <2>1, RequestIs DEF TypeOK, FormInv, Write
    <3>2. /\ [size EXCEPT ![req[w].name] = IF @ > req[w].len THEN @ ELSE req[w].len] \in [Name -> Nat \cup {Gone}]
          /\ [stamp EXCEPT ![req[w].name] = now] \in [Name -> 0..MaxTime]
          /\ linked \ {w} \subseteq Worker
      BY <2>1, <3>0
    <3> QED
      BY <1>9, <3>1, <3>2 DEF Write, Goto, look
  <2>3. TypeOK'
    BY <2>2 DEF TypeOK
  <2>4. FormInv'
    BY <1>9, <2>2 DEF Write, TypeOK, FormInv, Unseen
  <2> QED
    BY <2>3, <2>4
<1>10. ASSUME NEW w \in Worker, Index(w) \/ Bare(w) \/ Tell(w) \/ Serve(w) PROVE Typed'
  <2>1. status[w] \in {Aborted, 0, 200, 404, 413, 500}
    BY DEF TypeOK
  <2>2. \E s \in {Aborted, 0, 200, 404, 413, 500} : End(w, s)
    BY <1>10, <2>1 DEF Index, Bare, Tell, Serve
  <2> QED
    BY <2>2, EndTyped
<1>11. ASSUME NEW w \in Worker, Find(w) PROVE Typed'
  <2>1. CASE End(w, 404)
    BY <2>1, EndTyped
  <2>2. CASE Goto(w, "serve") /\ UNCHANGED disk /\ UNCHANGED look /\ UNCHANGED <<req, list, evict, status>>
    BY <1>11, <2>2 DEF Find, Goto, disk, look, TypeOK, FormInv, Unseen
  <2> QED
    BY <1>11, <2>1, <2>2 DEF Find
<1> QED
  BY <1>1, <1>2, <1>3, <1>4, <1>5, <1>6, <1>7, <1>8, <1>9, <1>10, <1>11, <1>12 DEF Next, WorkerStep

-----------------------------------------------------------------------------
(* What is stored.  Take c for a clock of the uploads, rd[w] for when w    *)
(* read the directory last, at[n] and by[n] for when and by whom n was     *)
(* stored: there is a time, base, such that what was stored until then     *)
(* fits in the limit and each worker stored one file at most since.  A     *)
(* worker that is going to store and read the directory after base makes   *)
(* that the new one, as what it read and did not remove fits.              *)
Old(at, t) == {n \in Stored : at[n] <= t}

Dated(c, rd, at, by, base) ==
  /\ c \in Nat /\ base \in Nat /\ base <= c
  /\ rd \in [Worker -> Nat] /\ \A w \in Worker : rd[w] <= c
  /\ at \in [Name -> Nat] /\ \A n \in Name : at[n] <= c
  /\ by \in [Name -> Worker \cup {Nobody}]

Keeps(w, rd, at) == {n \in Old(at, rd[w]) : n \notin Range(evict[w])}
KeptFits(rd, at) ==
  \A w \in Worker : pc[w] \in {"evict", "answer"} => SumOf(size, Keeps(w, rd, at)) <= Limit

BaseFits(at, base) == SumOf(size, Old(at, base)) <= Limit

OneEach(at, by, base) ==
  \A n \in Stored : at[n] > base =>
    /\ by[n] \in Worker /\ size[n] <= Largest
    /\ \A m \in Stored : at[m] > base /\ by[m] = by[n] => m = n

(* Who stored a file since then has read the directory again before it     *)
(* stores another.                                                         *)
ReadAgain(rd, at, by, base) ==
  \A n \in Stored : \A w \in Worker : at[n] > base /\ by[n] = w =>
    /\ pc[w] \in {"stat", "evict", "answer"} => at[n] <= rd[w]
    /\ pc[w] = "write" => n = req[w].name

SeenAll(rd, at) ==
  \A w \in Worker : pc[w] = "stat" => \A n \in Stored : at[n] <= rd[w] => n \in seen[w]

(* What a worker found of a file is its size, unless it was stored again.  *)
FoundAll(rd, at) ==
  \A w \in Worker : \A n \in Stored :
    pc[w] = "stat" /\ at[n] <= rd[w] /\ sizes[w][n] # Gone => size[n] = sizes[w][n]

Counted(c, rd, at, by, base) ==
  /\ Dated(c, rd, at, by, base) /\ KeptFits(rd, at) /\ BaseFits(at, base)
  /\ OneEach(at, by, base) /\ ReadAgain(rd, at, by, base) /\ SeenAll(rd, at) /\ FoundAll(rd, at)

CountInv == \E c, rd, at, by, base : Counted(c, rd, at, by, base)

LEMMA LargestIs ==
  ASSUME WebTazAssumption
  PROVE  Largest \in Nat /\ Limit <= Largest /\ \A k \in Forms : k <= Largest
<1> DEFINE S == Forms \cup {Limit}
           F == {T \in SUBSET S : T # {} => \E m \in T : \A k \in T : k <= m}
<1>1. S \subseteq Nat /\ Limit \in S
  BY DEF WebTazAssumption
<1>2. IsFiniteSet(S)
  BY FS_AddElement DEF WebTazAssumption
<1>3. ASSUME NEW T \in SUBSET S, \A x \in T : T \ {x} \in F PROVE T \in F
  <2> SUFFICES ASSUME T # {} PROVE \E m \in T : \A k \in T : k <= m
    OBVIOUS
  <2>1. PICK x \in T : TRUE
    OBVIOUS
  <2>2. CASE T \ {x} = {}
    <3>1. \A k \in T : k = x
      BY <2>2
    <3>2. x \in Nat
      BY <1>1, <2>1
    <3> QED
      BY <3>1, <3>2
  <2>3. CASE T \ {x} # {}
    <3>1. PICK m \in T \ {x} : \A k \in T \ {x} : k <= m
      BY <1>3, <2>3
    <3>2. \A k \in T : k \in Nat
      BY <1>1
    <3>3. CASE x <= m
      BY <3>1, <3>2, <3>3
    <3>4. CASE ~(x <= m)
      <4>1. \A k \in T : k <= x
        BY <3>1, <3>2, <3>4
      <4> QED
        BY <4>1
    <3> QED
      BY <3>3, <3>4
  <2> QED
    BY <2>2, <2>3
<1>4. S \in F
  <2> HIDE DEF F, S
  <2>1. S \in SUBSET S
    OBVIOUS
  <2> QED
    BY <1>2, <1>3, <2>1, SetInduction, Zenon
<1>5. PICK m \in S : \A k \in S : k <= m
  BY <1>1, <1>4
<1>6. \A k \in Forms : k <= m /\ Limit <= m
  BY <1>5
<1>7. Largest \in S /\ \A k \in Forms : k <= Largest /\ Limit <= Largest
  BY <1>5, <1>6 DEF Largest
<1>8. Largest \in Nat /\ Limit \in Nat
  BY <1>1, <1>7
<1>9. Limit <= Largest
  BY <1>1, <1>7, <1>8
<1> QED
  BY <1>7, <1>8, <1>9

(* Files stored at different times by different workers.                   *)
LEMMA CountedBound ==
  ASSUME WebTazAssumption, TypeOK, CountInv
  PROVE  Bounded
<1>1. PICK c, rd, at, by, base : Counted(c, rd, at, by, base)
  BY DEF CountInv
<1> DEFINE T == Old(at, base)
           Y == Stored \ T
           f == [n \in Y |-> by[n]]
<1>2. Sizes /\ Largest \in Nat /\ Limit \in Nat
  BY SizesKnown, LargestIs DEF WebTazAssumption
<1>3. T \subseteq Stored /\ Y \subseteq Stored /\ Stored \subseteq Name
  BY DEF Old, Stored
<1>4. \A n \in Y : at[n] > base
  BY <1>1, <1>3 DEF Counted, Dated, Old
<1>5. \A n \in Y : /\ by[n] \in Worker /\ size[n] <= Largest
                   /\ \A m \in Y : by[m] = by[n] => m = n
  BY <1>1, <1>3, <1>4 DEF Counted, OneEach
<1> HIDE DEF T, Y
<1>6. SumOf(size, T) <= Limit
  BY <1>1 DEF Counted, BaseFits, T
<1>7. IsFiniteSet(Stored) /\ \A n \in Stored : size[n] \in Nat
  BY <1>2, StoredSizes
<1>8. SumOf(size, Stored) = SumOf(size, T) + SumOf(size, Y)
  BY <1>3, <1>7, SumSplit DEF Y
<1>9. IsFiniteSet(Y) /\ SumOf(size, Y) \in Int /\ SumOf(size, T) \in Int
  BY <1>2, <1>3, StoredSizes
<1>10. SumOf(size, Y) <= Cardinality(Y) * Largest
  <2>1. \A n \in Y : size[n] \in Int /\ size[n] <= Largest
    BY <1>3, <1>5, <1>7
  <2> QED
    BY <1>2, <1>9, <2>1, SumBound
<1>11. Cardinality(Y) <= Cardinality(Worker) /\ Cardinality(Y) \in Nat /\ Cardinality(Worker) \in Nat
  <2>1. f \in Injection(Y, Worker)
    BY <1>5 DEF Injection, IsInjective
  <2> HIDE DEF f
  <2>2. IsFiniteSet(Worker)
    BY DEF WebTazAssumption
  <2> QED
    BY <1>9, <2>1, <2>2, FS_Injection, FS_CardinalityType
<1>12. Cardinality(Y) * Largest <= Cardinality(Worker) * Largest
  <2>1. \A p, q, r \in Nat : p <= q => p * r <= q * r
    OBVIOUS
  <2> QED
    BY <1>2, <1>11, <2>1
<1>13. Cardinality(Y) * Largest \in Int /\ Cardinality(Worker) * Largest \in Int
  BY <1>2, <1>11
<1>14. Total = SumOf(size, Stored)
  BY DEF Total, SumOf
<1> HIDE DEF f
<1> QED
  BY <1>2, <1>6, <1>8, <1>9, <1>10, <1>12, <1>13, <1>14 DEF Bounded

LEMMA FirstCounted ==
  ASSUME WebTazAssumption, Init
  PROVE  CountInv
<1> DEFINE rd == [w \in Worker |-> 0]
           at == [n \in Name |-> 0]
           by == [n \in Name |-> Nobody]
<1>1. Stored = {}
  BY DEF Init, Stored
<1>2. Old(at, 0) = {}
  BY <1>1 DEF Old
<1>3. SumOf(size, {}) = 0 /\ Limit \in Nat
  BY SumEmpty DEF WebTazAssumption
<1>4. BaseFits(at, 0)
  BY <1>2, <1>3 DEF BaseFits
<1>5. Dated(0, rd, at, by, 0)
  BY DEF Dated
<1>6. KeptFits(rd, at) /\ OneEach(at, by, 0) /\ ReadAgain(rd, at, by, 0) /\ SeenAll(rd, at)
      /\ FoundAll(rd, at)
  BY <1>1 DEF Init, KeptFits, OneEach, ReadAgain, SeenAll, FoundAll
<1> HIDE DEF rd, at, by
<1>7. Counted(0, rd, at, by, 0)
  BY <1>4, <1>5, <1>6 DEF Counted
<1> QED
  BY <1>7 DEF CountInv

(* Steps that store and remove nothing, and bring no worker nearer to it.  *)
LEMMA CalmCounted ==
  ASSUME WebTazAssumption, CountInv, size' = size,
         \A w \in Worker : \/ pc'[w] \in {"idle", "list", "tell", "serve"}
                           \/ /\ pc'[w] = pc[w] /\ evict'[w] = evict[w] /\ seen'[w] = seen[w]
                              /\ req'[w] = req[w] /\ sizes'[w] = sizes[w]
  PROVE  CountInv'
<1>1. PICK c, rd, at, by, base : Counted(c, rd, at, by, base)
  BY DEF CountInv
<1>2. Stored' = Stored /\ Old(at, base)' = Old(at, base)
      /\ \A w \in Worker : Old(at, rd[w])' = Old(at, rd[w])
  BY DEF Stored, Old
<1>3. KeptFits(rd, at)'
  <2> SUFFICES ASSUME NEW w \in Worker, pc'[w] \in {"evict", "answer"}
               PROVE  SumOf(size', Keeps(w, rd, at)') <= Limit
    BY DEF KeptFits
  <2>1. pc'[w] = pc[w] /\ evict'[w] = evict[w]
    OBVIOUS
  <2>2. Keeps(w, rd, at)' = Keeps(w, rd, at)
    BY <1>2, <2>1 DEF Keeps
  <2> QED
    BY <1>1, <2>1, <2>2 DEF Counted, KeptFits
<1>4. BaseFits(at, base)'
  BY <1>1, <1>2 DEF Counted, BaseFits
<1>5. OneEach(at, by, base)'
  BY <1>1, <1>2 DEF Counted, OneEach
<1>6. ReadAgain(rd, at, by, base)' /\ SeenAll(rd, at)' /\ FoundAll(rd, at)'
  BY <1>1, <1>2 DEF Counted, ReadAgain, SeenAll, FoundAll
<1>7. Dated(c, rd, at, by, base)'
  BY <1>1 DEF Counted, Dated
<1>8. Counted(c, rd, at, by, base)'
  BY <1>3, <1>4, <1>5, <1>6, <1>7 DEF Counted
<1> QED
  BY <1>8 DEF CountInv

(* A worker reads the directory: all that is stored is older.              *)
LEMMA ReadDirCounted ==
  ASSUME WebTazAssumption, Typed, CountInv, NEW w \in Worker, ReadDir(w)
  PROVE  CountInv'
<1>1. PICK c, rd, at, by, base : Counted(c, rd, at, by, base)
  BY DEF CountInv
<1>2. /\ size' = size /\ evict' = evict /\ req' = req
      /\ \A v \in Worker : /\ pc'[v] = IF v = w THEN "stat" ELSE pc[v]
                           /\ seen'[v] = IF v = w THEN Stored ELSE seen[v]
  BY DEF ReadDir, Goto, disk, Typed, TypeOK
<1>c. sizes' = sizes /\ \A n \in Name : sizes[w][n] = Gone
  <2>1. sizes[w] = Unseen /\ sizes' = sizes
    BY DEF ReadDir, Typed, FormInv
  <2> QED
    BY <2>1, UnseenTyped
<1> DEFINE rd2 == [rd EXCEPT ![w] = c]
<1>3. /\ c \in Nat /\ rd \in [Worker -> Nat] /\ \A n \in Name : at[n] \in Nat /\ at[n] <= c
      /\ \A v \in Worker : rd[v] <= c
  BY <1>1 DEF Counted, Dated
<1>4. rd2 \in [Worker -> Nat] /\ \A v \in Worker : rd2[v] = IF v = w THEN c ELSE rd[v]
  BY <1>3
<1> HIDE DEF rd2
<1>5. Stored' = Stored /\ Stored \subseteq Name /\ \A t : Old(at, t)' = Old(at, t)
  BY <1>2 DEF Stored, Old
<1>6. Dated(c, rd2, at, by, base)'
  BY <1>1, <1>3, <1>4 DEF Counted, Dated
<1>7. KeptFits(rd2, at)'
  <2> SUFFICES ASSUME NEW v \in Worker, pc'[v] \in {"evict", "answer"}
               PROVE  SumOf(size', Keeps(v, rd2, at)') <= Limit
    BY DEF KeptFits
  <2>1. v # w /\ pc'[v] = pc[v] /\ rd2[v] = rd[v]
    BY <1>2, <1>4
  <2>2. Keeps(v, rd2, at)' = Keeps(v, rd, at)
    BY <1>2, <1>5, <2>1 DEF Keeps
  <2> QED
    BY <1>1, <1>2, <2>1, <2>2 DEF Counted, KeptFits
<1>8. BaseFits(at, base)'
  BY <1>1, <1>2, <1>5 DEF Counted, BaseFits
<1>9. OneEach(at, by, base)'
  BY <1>1, <1>2, <1>5 DEF Counted, OneEach
<1>10. ReadAgain(rd2, at, by, base)'
  BY <1>1, <1>2, <1>3, <1>4, <1>5 DEF Counted, ReadAgain
<1>11. SeenAll(rd2, at)'
  BY <1>1, <1>2, <1>4, <1>5 DEF Counted, SeenAll
<1>12. FoundAll(rd2, at)'
  BY <1>1, <1>2, <1>c, <1>4, <1>5 DEF Counted, FoundAll
<1>13. Counted(c, rd2, at, by, base)'
  BY <1>6, <1>7, <1>8, <1>9, <1>10, <1>11, <1>12 DEF Counted
<1> QED
  BY <1>13 DEF CountInv

(* It looks at one file.                                                   *)
LEMMA StatCounted ==
  ASSUME WebTazAssumption, Typed, CountInv, NEW w \in Worker, Stat(w), ~End(w, Aborted)
  PROVE  CountInv'
<1>1. PICK c, rd, at, by, base : Counted(c, rd, at, by, base)
  BY DEF CountInv
<1>2. PICK n \in Stored : sizes' = [sizes EXCEPT ![w] = [sizes[w] EXCEPT ![n] = size[n]]]
  BY StatIs
<1>3. pc[w] = "stat" /\ UNCHANGED <<size, stamp, now, linked, pc, req, seen, list, evict, status>>
  BY StatIs
<1>4. Stored' = Stored /\ Stored \subseteq Name /\ \A t : Old(at, t)' = Old(at, t)
  BY <1>3 DEF Stored, Old
<1>5. \A v \in Worker : \A m \in Name : sizes'[v][m] = IF v = w /\ m = n THEN size[n] ELSE sizes[v][m]
  <2> DEFINE e == [sizes[w] EXCEPT ![n] = size[n]]
  <2>1. \A m \in Name : e[m] = IF m = n THEN size[n] ELSE sizes[w][m]
    BY DEF Typed, TypeOK
  <2>2. sizes' = [sizes EXCEPT ![w] = e]
    BY <1>2
  <2> HIDE DEF e
  <2>3. \A v \in Worker : sizes'[v] = IF v = w THEN e ELSE sizes[v]
    BY <2>2 DEF Typed, TypeOK
  <2> QED
    BY <2>1, <2>3
<1>6. KeptFits(rd, at)' /\ BaseFits(at, base)'
  BY <1>1, <1>3, <1>4 DEF Counted, KeptFits, Keeps, BaseFits
<1>7. OneEach(at, by, base)' /\ ReadAgain(rd, at, by, base)' /\ SeenAll(rd, at)'
  BY <1>1, <1>3, <1>4 DEF Counted, OneEach, ReadAgain, SeenAll
<1>8. FoundAll(rd, at)'
  BY <1>1, <1>3, <1>4, <1>5 DEF Counted, FoundAll
<1>9. Counted(c, rd, at, by, base)'
  BY <1>1, <1>6, <1>7, <1>8 DEF Counted, Dated
<1> QED
  BY <1>9 DEF CountInv

(* It plans which files to keep and which to remove.                       *)
LEMMA PlanCounted ==
  ASSUME WebTazAssumption, Typed, CountInv, NEW w \in Worker, Plan(w)
  PROVE  CountInv'
<1>1. PICK c, rd, at, by, base : Counted(c, rd, at, by, base)
  BY DEF CountInv
<1> DEFINE f == sizes[w]
<1>2. PICK s \in Seq(Name) :
        /\ {s[i] : i \in 1..Len(s)} = seen[w]
        /\ \A i \in 1..Len(s) : f[s[i]] \in Nat
        /\ evict' = [evict EXCEPT ![w] = SubSeq(s, Fitting(f, s) + 1, Len(s))]
        /\ pc' = [pc EXCEPT ![w] = "evict"]
        /\ sizes' = [sizes EXCEPT ![w] = Unseen]
        /\ UNCHANGED <<size, stamp, now, linked, req, seen, status>>
  BY PlanIs
<1>3. Sizes
  BY SizesKnown DEF Typed
<1> DEFINE k == Fitting(f, s)
           q == SubSeq(s, k + 1, Len(s))
<1>4. k \in 0..Len(s) /\ SumOf(f, First(s, k)) <= Limit
  BY <1>2, <1>3, FittingIs
<1>5. Range(q) = {s[i] : i \in k + 1..Len(s)}
  BY <1>4, After
<1>6. evict' = [evict EXCEPT ![w] = q]
  BY <1>2
<1> HIDE DEF k, q
<1>7. /\ \A v \in Worker : /\ pc'[v] = IF v = w THEN "evict" ELSE pc[v]
                           /\ v # w => evict'[v] = evict[v] /\ sizes'[v] = sizes[v]
      /\ evict'[w] = q
  BY <1>2, <1>6 DEF Typed, TypeOK
<1>8. pc[w] = "stat"
  BY DEF Plan
<1>9. Stored' = Stored /\ \A t : Old(at, t)' = Old(at, t)
  BY <1>2 DEF Stored, Old
<1>10. KeptFits(rd, at)'
  <2> SUFFICES ASSUME NEW v \in Worker, pc'[v] \in {"evict", "answer"}
               PROVE  SumOf(size', Keeps(v, rd, at)') <= Limit
    BY DEF KeptFits
  <2>1. CASE v # w
    <3>1. Keeps(v, rd, at)' = Keeps(v, rd, at)
      BY <1>7, <1>9, <2>1 DEF Keeps
    <3> QED
      BY <1>1, <1>2, <1>7, <2>1, <3>1 DEF Counted, KeptFits
  <2>2. CASE v = w
    <3> DEFINE K == Keeps(w, rd, at)'
    <3>1. ASSUME NEW n \in K PROVE n \in Stored /\ at[n] <= rd[w] /\ n \in First(s, k)
      <4>1. n \in Stored /\ at[n] <= rd[w] /\ n \notin Range(evict'[w])
        BY <1>9 DEF Keeps, Old
      <4>2. n \in seen[w]
        BY <1>1, <1>8, <4>1 DEF Counted, SeenAll
      <4>3. PICK i \in 1..Len(s) : n = s[i]
        BY <1>2, <4>2
      <4>4. i \notin k + 1..Len(s)
        BY <1>5, <1>7, <4>1, <4>3
      <4>5. i \in 1..k
        BY <1>4, <4>4
      <4> QED
        BY <4>1, <4>3, <4>5 DEF First
    <3> HIDE DEF K
    <3>2. First(s, k) \subseteq Name /\ \A n \in First(s, k) : f[n] \in Nat
      BY <1>2, <1>4 DEF First
    <3>3. IsFiniteSet(First(s, k))
      BY <1>3, <3>2, FS_Subset DEF Sizes
    <3>4. K \subseteq First(s, k) /\ K \subseteq Stored
      BY <3>1
    <3>5. ASSUME NEW n \in K PROVE size[n] \in Int /\ size[n] <= f[n]
      <4>1. n \in Stored /\ at[n] <= rd[w] /\ f[n] \in Nat
        BY <3>1, <3>2
      <4>2. size[n] = f[n]
        BY <1>1, <1>8, <4>1 DEF Counted, FoundAll, Gone
      <4> QED
        BY <4>1, <4>2
    <3> HIDE DEF f
    <3>6. SumOf(size, K) <= SumOf(f, First(s, k))
      BY <3>2, <3>3, <3>4, <3>5, SumAtMost
    <3>7. SumOf(size, K) \in Int /\ SumOf(f, First(s, k)) \in Int /\ Limit \in Nat
      BY <1>3, <3>2, <3>3, <3>4, StoredSizes, SumTyped DEF Sizes
    <3>8. SumOf(size, K) <= Limit
      BY <1>4, <3>6, <3>7
    <3> QED
      BY <1>2, <2>2, <3>8 DEF K
  <2> QED
    BY <2>1, <2>2
<1>11. BaseFits(at, base)' /\ OneEach(at, by, base)'
  BY <1>1, <1>2, <1>9 DEF Counted, BaseFits, OneEach
<1>12. ReadAgain(rd, at, by, base)'
  BY <1>1, <1>2, <1>7, <1>8, <1>9 DEF Counted, ReadAgain
<1>13. SeenAll(rd, at)'
  BY <1>1, <1>2, <1>7, <1>9 DEF Counted, SeenAll
<1>14. FoundAll(rd, at)'
  BY <1>1, <1>2, <1>7, <1>9 DEF Counted, FoundAll
<1>15. Counted(c, rd, at, by, base)'
  BY <1>1, <1>10, <1>11, <1>12, <1>13, <1>14 DEF Counted, Dated
<1> QED
  BY <1>15 DEF CountInv

(* It removes the next file, or has none left to remove.                   *)
LEMMA EvictCounted ==
  ASSUME WebTazAssumption, Typed, CountInv, NEW w \in Worker, Evict(w)
  PROVE  CountInv'
<1>1. PICK c, rd, at, by, base : Counted(c, rd, at, by, base)
  BY DEF CountInv
<1>2. pc[w] = "evict" /\ UNCHANGED <<req, seen, sizes>> /\ evict[w] \in Seq(Name)
  BY DEF Evict, look, Typed, TypeOK
<1>3. /\ \A n \in Name : size'[n] = size[n] \/ size'[n] = Gone
      /\ \A v \in Worker : v # w => pc'[v] = pc[v] /\ evict'[v] = evict[v]
      /\ pc'[w] \in {"evict", "answer"}
      /\ \A n \in Range(evict[w]) : n \in Range(evict'[w]) \/ size'[n] = Gone
  <2>1. CASE /\ evict[w] # <<>>
             /\ size' = [size EXCEPT ![Head(evict[w])] = Gone]
             /\ evict' = [evict EXCEPT ![w] = Tail(@)]
             /\ UNCHANGED pc
    <3>1. Head(evict[w]) \in Name /\ Len(evict[w]) >= 1
      BY <1>2, <2>1
    <3>2. /\ Tail(evict[w]) \in Seq(Name) /\ Len(Tail(evict[w])) = Len(evict[w]) - 1
          /\ \A i \in 1..Len(Tail(evict[w])) : Tail(evict[w])[i] = evict[w][i + 1]
      BY <1>2, <2>1, HeadTailProperties
    <3>3. evict'[w] = Tail(evict[w]) /\ \A v \in Worker : v # w => evict'[v] = evict[v]
      BY <2>1 DEF Typed, TypeOK
    <3>4. \A n \in Name : size'[n] = IF n = Head(evict[w]) THEN Gone ELSE size[n]
      BY <2>1 DEF Typed, TypeOK
    <3>5. ASSUME NEW n \in Range(evict[w]), n # Head(evict[w]) PROVE n \in Range(evict'[w])
      <4>1. PICK i \in 1..Len(evict[w]) : n = evict[w][i]
        BY <1>2 DEF Range
      <4>2. i # 1
        BY <1>2, <3>5, <4>1
      <4>3. i - 1 \in 1..Len(Tail(evict[w])) /\ (i - 1) + 1 = i
        BY <1>2, <3>1, <3>2, <4>2
      <4>4. Tail(evict[w])[i - 1] = n
        BY <3>2, <4>1, <4>3
      <4>5. DOMAIN Tail(evict[w]) = 1..Len(Tail(evict[w]))
        BY <3>2
      <4> QED
        BY <3>3, <4>3, <4>4, <4>5 DEF Range
    <3>6. \A n \in Range(evict[w]) : n \in Name
      BY <1>2 DEF Range
    <3> QED
      BY <1>2, <2>1, <3>3, <3>4, <3>5, <3>6
  <2>2. CASE evict[w] = <<>> /\ Goto(w, "answer") /\ UNCHANGED <<size, evict, linked>>
    BY <2>2 DEF Goto, Typed, TypeOK
  <2> QED
    BY <2>1, <2>2 DEF Evict
<1>4. Stored' \subseteq Stored /\ \A n \in Stored' : size'[n] = size[n]
  BY <1>3 DEF Stored
<1>5. Sizes
  BY SizesKnown DEF Typed
<1>6. ASSUME NEW S, S \subseteq Stored, NEW T, T \subseteq S, T \subseteq Stored', SumOf(size, S) <= Limit
      PROVE  SumOf(size', T) <= Limit
  <2>1. IsFiniteSet(S) /\ \A n \in S : size[n] \in Nat
    BY <1>5, <1>6, StoredSizes
  <2>2. \A n \in T : size'[n] \in Int /\ size'[n] <= size[n]
    BY <1>4, <1>6, <2>1
  <2>3. SumOf(size', T) <= SumOf(size, S)
    BY <1>6, <2>1, <2>2, SumAtMost
  <2>4. IsFiniteSet(T)
    BY <1>6, <2>1, FS_Subset
  <2>5. SumOf(size', T) \in Int /\ SumOf(size, S) \in Int /\ Limit \in Nat
    BY <1>5, <2>1, <2>2, <2>4, SumTyped DEF Sizes
  <2> QED
    BY <1>6, <2>3, <2>5
<1>7. \A t : Old(at, t)' \subseteq Old(at, t) /\ Old(at, t) \subseteq Stored /\ Old(at, t)' \subseteq Stored'
  BY <1>4 DEF Old
<1>8. KeptFits(rd, at)'
  <2> SUFFICES ASSUME NEW v \in Worker, pc'[v] \in {"evict", "answer"}
               PROVE  SumOf(size', Keeps(v, rd, at)') <= Limit
    BY DEF KeptFits
  <2>1. pc[v] \in {"evict", "answer"}
    BY <1>2, <1>3
  <2>2. ASSUME NEW n \in Keeps(v, rd, at)' PROVE n \in Keeps(v, rd, at)
    <3>1. n \in Stored' /\ n \in Old(at, rd[v]) /\ n \notin Range(evict'[v])
      BY <1>7 DEF Keeps, Old
    <3>2. size'[n] # Gone
      BY <3>1 DEF Stored
    <3>3. n \notin Range(evict[v])
      BY <1>3, <3>1, <3>2
    <3> QED
      BY <3>1, <3>3 DEF Keeps
  <2>3. SumOf(size, Keeps(v, rd, at)) <= Limit
    BY <1>1, <2>1 DEF Counted, KeptFits
  <2> DEFINE S == Keeps(v, rd, at)
             T == Keeps(v, rd, at)'
  <2>4. S \subseteq Stored /\ T \subseteq S /\ T \subseteq Stored'
    BY <1>7, <2>2 DEF Keeps
  <2> HIDE DEF S, T
  <2>5. SumOf(size', T) <= Limit
    BY <1>6, <2>3, <2>4 DEF S
  <2> QED
    BY <2>5 DEF T
<1>9. BaseFits(at, base)'
  <2> DEFINE S == Old(at, base)
             T == Old(at, base)'
  <2>1. S \subseteq Stored /\ T \subseteq S /\ T \subseteq Stored'
    BY <1>7
  <2>2. SumOf(size, S) <= Limit
    BY <1>1 DEF Counted, BaseFits
  <2> HIDE DEF S, T
  <2>3. SumOf(size', T) <= Limit
    BY <1>6, <2>1, <2>2
  <2> QED
    BY <2>3 DEF T, BaseFits
<1>10. OneEach(at, by, base)'
  BY <1>1, <1>4 DEF Counted, OneEach
<1>11. ReadAgain(rd, at, by, base)'
  BY <1>1, <1>2, <1>3, <1>4 DEF Counted, ReadAgain
<1>12. SeenAll(rd, at)'
  BY <1>1, <1>2, <1>3, <1>4 DEF Counted, SeenAll
<1>13. FoundAll(rd, at)'
  BY <1>1, <1>2, <1>3, <1>4 DEF Counted, FoundAll
<1>14. Counted(c, rd, at, by, base)'
  BY <1>1, <1>8, <1>9, <1>10, <1>11, <1>12, <1>13 DEF Counted, Dated
<1> QED
  BY <1>14 DEF CountInv

(* It stores a file.  If it read the directory after base, that time is    *)
(* the new base.                                                           *)
LEMMA StoreCounted ==
  ASSUME WebTazAssumption, Typed, CountInv, NEW w \in Worker, NEW n \in Name, NEW x \in Nat, x <= Largest,
         \/ pc[w] = "answer"
         \/ pc[w] = "write" /\ n = req[w].name,
         NEW p \in {"tell", "write"}, p = "write" => n = req[w].name,
         pc' = [pc EXCEPT ![w] = p], size' = [size EXCEPT ![n] = x],
         UNCHANGED <<req, seen, sizes, evict>>
  PROVE  CountInv'
<1>1. PICK c, rd, at, by, base : Counted(c, rd, at, by, base)
  BY DEF CountInv
<1> DEFINE c2 == c + 1
           at2 == [at EXCEPT ![n] = c + 1]
           by2 == [by EXCEPT ![n] = w]
<1>2. /\ c \in Nat /\ base \in Nat /\ base <= c
      /\ rd \in [Worker -> Nat] /\ \A v \in Worker : rd[v] <= c
      /\ at \in [Name -> Nat] /\ \A m \in Name : at[m] <= c
      /\ by \in [Name -> Worker \cup {Nobody}]
  BY <1>1 DEF Counted, Dated
<1>a. PICK base2 \in Nat : /\ base2 <= c /\ base <= base2
                            /\ (base2 = base \/ (pc[w] = "answer" /\ base2 = rd[w]))
                            /\ (pc[w] = "answer" => rd[w] <= base2)
  <2>1. CASE pc[w] = "answer" /\ rd[w] > base
    <3>1. rd[w] \in Nat /\ rd[w] <= c /\ base <= rd[w] /\ rd[w] <= rd[w]
      BY <1>2, <2>1
    <3> QED
      BY <2>1, <3>1
  <2>2. CASE ~(pc[w] = "answer" /\ rd[w] > base)
    <3>1. base <= base /\ (pc[w] = "answer" => rd[w] <= base)
      BY <1>2, <2>2
    <3> QED
      BY <1>2, <3>1
  <2> QED
    BY <2>1, <2>2
<1>b. /\ c2 = c + 1
      /\ at2 \in [Name -> Nat] /\ by2 \in [Name -> Worker \cup {Nobody}]
      /\ \A m \in Name : at2[m] = IF m = n THEN c + 1 ELSE at[m]
      /\ \A m \in Name : by2[m] = IF m = n THEN w ELSE by[m]
  BY <1>2
<1> HIDE DEF c2, at2, by2
<1>3. /\ c2 = c + 1 /\ base2 \in Nat /\ base2 <= c /\ base <= base2
      /\ at2 \in [Name -> Nat] /\ by2 \in [Name -> Worker \cup {Nobody}]
      /\ \A m \in Name : at2[m] = IF m = n THEN c + 1 ELSE at[m]
      /\ \A m \in Name : by2[m] = IF m = n THEN w ELSE by[m]
      /\ (base2 = base \/ (pc[w] = "answer" /\ base2 = rd[w]))
      /\ (pc[w] = "answer" => rd[w] <= base2)
  BY <1>a, <1>b
<1>4. /\ \A v \in Worker : pc'[v] = IF v = w THEN p ELSE pc[v]
      /\ \A m \in Name : size'[m] = IF m = n THEN x ELSE size[m]
  BY DEF Typed, TypeOK
<1>5. Sizes /\ Largest \in Nat /\ Stored \subseteq Name /\ Stored' \subseteq Name
      /\ \A m \in Stored' : m = n \/ m \in Stored
  BY <1>4, SizesKnown, LargestIs DEF Typed, Stored
<1>6. \A m \in Stored : at[m] > base2 /\ by[m] = w => m = n
  <2> SUFFICES ASSUME NEW m \in Stored, at[m] > base2, by[m] = w PROVE m = n
    OBVIOUS
  <2>1. m \in Name /\ at[m] > base
    BY <1>2, <1>3, <1>5
  <2>2. /\ pc[w] = "answer" => at[m] <= rd[w]
        /\ pc[w] = "write" => m = req[w].name
    BY <1>1, <2>1 DEF Counted, ReadAgain
  <2>3. CASE pc[w] = "answer"
    BY <1>2, <1>3, <2>1, <2>2, <2>3
  <2> QED
    BY <2>2, <2>3
<1>7. ASSUME NEW S, S \subseteq Stored, NEW T, T \subseteq S, n \notin T, SumOf(size, S) <= Limit
      PROVE  SumOf(size', T) <= Limit
  <2>1. IsFiniteSet(S) /\ \A m \in S : size[m] \in Nat
    BY <1>5, <1>7, StoredSizes
  <2>2. \A m \in T : size'[m] \in Int /\ size'[m] <= size[m]
    <3>1. \A m \in T : size'[m] = size[m] /\ size[m] \in Nat
      BY <1>4, <1>5, <1>7, <2>1
    <3> QED
      BY <3>1
  <2>3. SumOf(size', T) <= SumOf(size, S)
    BY <1>7, <2>1, <2>2, SumAtMost
  <2>4. IsFiniteSet(T)
    BY <1>7, <2>1, FS_Subset
  <2>5. SumOf(size', T) \in Int
    BY <2>2, <2>4, SumTyped
  <2>6. SumOf(size, S) \in Int /\ Limit \in Nat
    BY <1>5, <1>7, StoredSizes DEF Sizes
  <2> QED
    BY <1>7, <2>3, <2>5, <2>6
<1>8. Dated(c2, rd, at2, by2, base2)'
  <2>1. c2 \in Nat /\ base2 <= c2 /\ \A v \in Worker : rd[v] <= c2
    BY <1>2, <1>3
  <2>2. \A m \in Name : at2[m] <= c2
    BY <1>2, <1>3
  <2> QED
    BY <1>2, <1>3, <2>1, <2>2 DEF Dated
<1>9. \A t \in Nat : t <= c => Old(at2, t)' \subseteq Old(at, t) /\ n \notin Old(at2, t)'
  <2> SUFFICES ASSUME NEW t \in Nat, t <= c, NEW m \in Old(at2, t)' PROVE m \in Old(at, t) /\ m # n
    OBVIOUS
  <2>1. m \in Stored' /\ at2[m] <= t /\ m \in Name
    BY <1>5 DEF Old
  <2>2. m # n
    BY <1>2, <1>3, <2>1
  <2> QED
    BY <1>3, <1>5, <2>1, <2>2 DEF Old
<1>10. KeptFits(rd, at2)'
  <2> SUFFICES ASSUME NEW v \in Worker, pc'[v] \in {"evict", "answer"}
               PROVE  SumOf(size', Keeps(v, rd, at2)') <= Limit
    BY DEF KeptFits
  <2>1. v # w /\ pc[v] = pc'[v]
    BY <1>4
  <2> DEFINE S == Keeps(v, rd, at)
             T == Keeps(v, rd, at2)'
  <2>2. rd[v] \in Nat /\ rd[v] <= c
    BY <1>2
  <2>3. S \subseteq Stored /\ T \subseteq S /\ n \notin T
    BY <1>9, <2>2 DEF Keeps, Old
  <2>4. SumOf(size, S) <= Limit
    BY <1>1, <2>1 DEF Counted, KeptFits
  <2> HIDE DEF S, T
  <2>5. SumOf(size', T) <= Limit
    BY <1>7, <2>3, <2>4
  <2> QED
    BY <2>5 DEF T
<1>11. BaseFits(at2, base2)'
  <2> DEFINE S == Old(at, base2)
             T == Old(at2, base2)'
  <2>1. S \subseteq Stored /\ T \subseteq S /\ n \notin T
    BY <1>3, <1>9 DEF Old
  <2>2. SumOf(size, S) <= Limit
    <3>1. CASE base2 = base
      BY <1>1, <3>1 DEF Counted, BaseFits
    <3>2. CASE pc[w] = "answer" /\ base2 = rd[w]
      <4>1. Range(evict[w]) = {}
        BY <3>2 DEF Typed, FormInv, Range
      <4>2. Keeps(w, rd, at) = Old(at, base2)
        BY <3>2, <4>1 DEF Keeps
      <4> QED
        BY <1>1, <3>2, <4>2 DEF Counted, KeptFits
    <3> QED
      BY <1>3, <3>1, <3>2
  <2> HIDE DEF S, T
  <2>3. SumOf(size', T) <= Limit
    BY <1>7, <2>1, <2>2
  <2> QED
    BY <2>3 DEF T, BaseFits
<1>12. OneEach(at2, by2, base2)'
  <2> SUFFICES ASSUME NEW m \in Stored', at2[m] > base2
               PROVE  /\ by2[m] \in Worker /\ size'[m] <= Largest
                      /\ \A k \in Stored' : at2[k] > base2 /\ by2[k] = by2[m] => k = m
    BY DEF OneEach
  <2>1. \A k \in Stored' : k # n /\ at2[k] > base2 =>
          k \in Stored /\ at[k] > base2 /\ at[k] > base /\ by2[k] = by[k] /\ size'[k] = size[k]
    BY <1>2, <1>3, <1>4, <1>5
  <2>2. m \in Name
    BY <1>5
  <2>3. CASE m = n
    <3>1. by2[m] = w /\ size'[m] = x
      BY <1>3, <1>4, <2>3
    <3>2. \A k \in Stored' : at2[k] > base2 /\ by2[k] = w => k = n
      BY <1>6, <2>1
    <3> QED
      BY <2>3, <3>1, <3>2
  <2>4. CASE m # n
    <3>1. by[m] # w
      BY <1>6, <2>1, <2>4
    <3>2. /\ by[m] \in Worker /\ size[m] <= Largest
          /\ \A k \in Stored : at[k] > base /\ by[k] = by[m] => k = m
      BY <1>1, <2>1, <2>4 DEF Counted, OneEach
    <3>3. by2[m] = by[m] /\ size'[m] = size[m]
      BY <2>1, <2>4
    <3>4. ASSUME NEW k \in Stored', at2[k] > base2, by2[k] = by2[m] PROVE k = m
      <4>1. CASE k = n
        <5>1. by2[k] = w
          BY <1>3, <4>1
        <5> QED
          BY <3>1, <3>3, <3>4, <5>1
      <4>2. CASE k # n
        BY <2>1, <3>2, <3>3, <3>4, <4>2
      <4> QED
        BY <4>1, <4>2
    <3> QED
      BY <3>2, <3>3, <3>4
  <2> QED
    BY <2>3, <2>4
<1>13. ReadAgain(rd, at2, by2, base2)'
  <2> SUFFICES ASSUME NEW m \in Stored', NEW v \in Worker, at2[m] > base2, by2[m] = v
               PROVE  /\ pc'[v] \in {"stat", "evict", "answer"} => at2[m] <= rd[v]
                      /\ pc'[v] = "write" => m = req'[v].name
    BY DEF ReadAgain
  <2>1. m \in Name
    BY <1>5
  <2>2. CASE m = n
    <3>1. v = w
      BY <1>3, <2>1, <2>2
    <3>2. pc'[v] = p
      BY <1>4, <3>1
    <3> QED
      BY <2>2, <3>1, <3>2
  <2>3. CASE m # n
    <3>1. m \in Stored /\ at2[m] = at[m] /\ by[m] = v /\ at[m] > base2 /\ at[m] > base
      BY <1>2, <1>3, <1>5, <2>1, <2>3
    <3>2. v # w
      BY <1>6, <2>3, <3>1
    <3>3. pc'[v] = pc[v]
      BY <1>4, <3>2
    <3>4. /\ pc[v] \in {"stat", "evict", "answer"} => at[m] <= rd[v]
          /\ pc[v] = "write" => m = req[v].name
      BY <1>1, <3>1 DEF Counted, ReadAgain
    <3> QED
      BY <3>1, <3>3, <3>4
  <2> QED
    BY <2>2, <2>3
<1>14. SeenAll(rd, at2)'
  <2> SUFFICES ASSUME NEW v \in Worker, pc'[v] = "stat", NEW m \in Stored', at2[m] <= rd[v]
               PROVE  m \in seen'[v]
    BY DEF SeenAll
  <2>1. v # w /\ pc[v] = "stat"
    BY <1>4
  <2>2. m \in Name /\ rd[v] \in Nat /\ rd[v] <= c
    BY <1>2, <1>5
  <2>3. m # n
    BY <1>2, <1>3, <2>2
  <2>4. m \in Stored /\ at[m] <= rd[v]
    BY <1>3, <1>5, <2>2, <2>3
  <2> QED
    BY <1>1, <2>1, <2>4 DEF Counted, SeenAll
<1>15. FoundAll(rd, at2)'
  <2> SUFFICES ASSUME NEW v \in Worker, NEW m \in Stored', pc'[v] = "stat", at2[m] <= rd[v], sizes'[v][m] # Gone
               PROVE  size'[m] = sizes'[v][m]
    BY DEF FoundAll
  <2>1. pc[v] = "stat" /\ m \in Name /\ rd[v] \in Nat /\ rd[v] <= c
    BY <1>2, <1>4, <1>5
  <2>2. m # n
    BY <1>2, <1>3, <2>1
  <2>3. m \in Stored /\ at[m] <= rd[v] /\ size'[m] = size[m]
    BY <1>3, <1>4, <1>5, <2>1, <2>2
  <2> QED
    BY <1>1, <2>1, <2>3 DEF Counted, FoundAll
<1>16. Counted(c2, rd, at2, by2, base2)'
  BY <1>8, <1>10, <1>11, <1>12, <1>13, <1>14, <1>15 DEF Counted
<1> QED
  BY <1>16 DEF CountInv

LEMMA CountNext ==
  ASSUME WebTazAssumption, Typed, CountInv, [Next]_vars
  PROVE  CountInv'
<1>1. ASSUME NEW w \in Worker, NEW s, End(w, s) PROVE CountInv'
  <2>1. /\ pc' = [pc EXCEPT ![w] = "idle"] /\ seen' = [seen EXCEPT ![w] = {}]
        /\ evict' = [evict EXCEPT ![w] = <<>>] /\ size' = size /\ req' = req
        /\ sizes' = [sizes EXCEPT ![w] = Unseen]
    BY <1>1 DEF End, Goto, disk
  <2>2. \A v \in Worker : \/ pc'[v] \in {"idle", "list", "tell", "serve"}
                          \/ /\ pc'[v] = pc[v] /\ evict'[v] = evict[v] /\ seen'[v] = seen[v]
                             /\ req'[v] = req[v] /\ sizes'[v] = sizes[v]
    BY <2>1 DEF Typed, TypeOK
  <2> QED
    BY <2>1, <2>2, CalmCounted
<1>2. ASSUME UNCHANGED <<size, pc, req, seen, sizes, evict>> PROVE CountInv'
  BY <1>2, CalmCounted
<1>3. ASSUME NEW w \in Worker, NEW p \in {"list", "tell", "serve"}, pc' = [pc EXCEPT ![w] = p],
             UNCHANGED <<size, seen, sizes, evict>>, \A v \in Worker : v # w => req'[v] = req[v]
      PROVE  CountInv'
  <2>1. \A v \in Worker : \/ pc'[v] \in {"idle", "list", "tell", "serve"}
                          \/ /\ pc'[v] = pc[v] /\ evict'[v] = evict[v] /\ seen'[v] = seen[v]
                             /\ req'[v] = req[v] /\ sizes'[v] = sizes[v]
    BY <1>3 DEF Typed, TypeOK
  <2> QED
    BY <1>3, <2>1, CalmCounted
<1>4. ASSUME NEW w \in Worker, Begin(w) PROVE CountInv'
  <2>1. \A v \in Worker : v # w => req'[v] = req[v]
    BY <1>4 DEF Begin, Typed, TypeOK
  <2>2. pc' = [pc EXCEPT ![w] = "list"] /\ UNCHANGED <<size, seen, sizes, evict>>
    BY <1>4 DEF Begin, Goto, disk, look
  <2> QED
    BY <1>3, <2>1, <2>2
<1>5. ASSUME NEW w \in Worker, Stat(w) PROVE CountInv'
  <2>1. CASE End(w, Aborted)
    BY <1>1, <2>1
  <2>2. CASE ~End(w, Aborted)
    BY <1>5, <2>2, StatCounted
  <2> QED
    BY <2>1, <2>2
<1>6. Limit \in Nat /\ Limit <= Largest /\ Largest \in Nat /\ \A k \in Forms : k <= Largest
  BY LargestIs DEF WebTazAssumption
<1>7. ASSUME NEW w \in Worker
      PROVE  /\ req[w] \in Request /\ req[w].len \in Nat
             /\ (req[w].kind \in {"form", "file"} => req[w].name \in Name)
             /\ (req[w].kind = "form" => req[w].len \in Forms)
  BY RequestIs DEF Typed, TypeOK
<1>8. ASSUME NEW w \in Worker, Move(w) PROVE CountInv'
  <2>1. pc[w] = "answer" /\ pc' = [pc EXCEPT ![w] = "tell"] /\ UNCHANGED <<req, seen, sizes, evict>>
        /\ req[w].name \in Name
    BY <1>7, <1>8 DEF Move, Goto, look
  <2>2. CASE req[w].len > Limit
    <3>1. size' = size
      BY <1>8, <2>2 DEF Move
    <3> QED
      BY <1>3, <2>1, <3>1
  <2>3. CASE ~(req[w].len > Limit)
    <3>1. size' = [size EXCEPT ![req[w].name] = req[w].len]
      BY <1>8, <2>3 DEF Move
    <3>2. req[w].len \in Nat /\ req[w].len <= Largest
      BY <1>6, <1>7, <2>3
    <3> DEFINE n == req[w].name
               x == req[w].len
    <3>3. n \in Name /\ x \in Nat /\ x <= Largest /\ size' = [size EXCEPT ![n] = x]
      BY <2>1, <3>1, <3>2
    <3> HIDE DEF n, x
    <3> QED
      BY <2>1, <3>3, StoreCounted
  <2> QED
    BY <2>2, <2>3
<1>9. ASSUME NEW w \in Worker, Truncate(w) PROVE CountInv'
  <2>1. /\ pc[w] = "answer" /\ pc' = [pc EXCEPT ![w] = "write"] /\ UNCHANGED <<req, seen, sizes, evict>>
        /\ req[w].name \in Name /\ size' = [size EXCEPT ![req[w].name] = 0]
    BY <1>7, <1>9 DEF Truncate, Goto, look
  <2>2. 0 \in Nat /\ 0 <= Largest
    BY <1>6
  <2> QED
    BY <2>1, <2>2, StoreCounted
<1>10. ASSUME NEW w \in Worker, Write(w) PROVE CountInv'
  <2>1. /\ pc[w] = "write" /\ pc' = [pc EXCEPT ![w] = "tell"] /\ UNCHANGED <<req, seen, sizes, evict>>
    BY <1>10 DEF Write, Goto, look
  <2> DEFINE n == req[w].name
             x == req[w].len
  <2>2. n \in Name /\ x \in Nat /\ x <= Largest
    BY <1>6, <1>7, <2>1 DEF Typed, FormInv
  <2>3. \/ size' = size
        \/ size' = [size EXCEPT ![n] = IF size[n] > x THEN size[n] ELSE x]
    BY <1>10, <2>2 DEF Write, Typed, TypeOK
  <2>4. CASE size' = size
    BY <1>3, <2>1, <2>4
  <2>5. CASE size' = [size EXCEPT ![n] = IF size[n] > x THEN size[n] ELSE x] /\ size[n] > x
    <3>1. size \in [Name -> Nat \cup {Gone}]
      BY DEF Typed, TypeOK
    <3> HIDE DEF n, x
    <3>2. size' = size
      BY <2>2, <2>5, <3>1
    <3> QED
      BY <1>3, <2>1, <3>2
  <2>6. CASE size' = [size EXCEPT ![n] = IF size[n] > x THEN size[n] ELSE x] /\ ~(size[n] > x)
    <3>1. n = req[w].name
      OBVIOUS
    <3> HIDE DEF n, x
    <3>2. size' = [size EXCEPT ![n] = x]
      BY <2>6
    <3> QED
      BY <2>1, <2>2, <3>1, <3>2, StoreCounted
  <2> QED
    BY <2>3, <2>5, <2>4, <2>6
<1>11. ASSUME NEW w \in Worker, Index(w) \/ Bare(w) \/ Tell(w) \/ Serve(w) PROVE CountInv'
  BY <1>1, <1>11 DEF Index, Bare, Tell, Serve
<1>12. ASSUME NEW w \in Worker, Find(w) PROVE CountInv'
  <2>1. CASE End(w, 404)
    BY <1>1, <2>1
  <2>2. CASE Goto(w, "serve") /\ UNCHANGED disk /\ UNCHANGED look /\ UNCHANGED <<req, list, evict, status>>
    BY <1>3, <2>2 DEF Goto, disk, look
  <2> QED
    BY <1>12, <2>1, <2>2 DEF Find
<1>13. CASE Tick
  BY <1>2, <1>13 DEF Tick, look
<1>14. CASE UNCHANGED vars
  BY <1>2, <1>14 DEF vars, look
<1>15. ASSUME NEW w \in Worker, WorkerStep(w) PROVE CountInv'
  <2>1. CASE ReadDir(w)
    BY <2>1, ReadDirCounted
  <2>2. CASE Evict(w)
    BY <2>2, EvictCounted
  <2>3. CASE Plan(w)
    BY <2>3, PlanCounted
  <2> QED
    BY <1>4, <1>5, <1>8, <1>9, <1>10, <1>11, <1>12, <1>15, <2>1, <2>2, <2>3 DEF WorkerStep
<1> QED
  BY <1>13, <1>14, <1>15 DEF Next

(* However requests overlap and however old their lists are, what is       *)
(* stored exceeds the limit by no more than one upload for each worker     *)
(* (webTaz.lua:9-26, 45-54); with the type invariant.                      *)
THEOREM BoundedCorrect ==
  ASSUME WebTazAssumption
  PROVE  Spec => [](Typed /\ Bounded)
<1> DEFINE IInv == Typed /\ CountInv
<1>1. Init => IInv
  BY FirstTyped, FirstCounted
<1>2. IInv /\ [Next]_vars => IInv'
  BY TypedNext, CountNext
<1>3. IInv => Typed /\ Bounded
  BY CountedBound DEF Typed
<1> QED
  BY <1>1, <1>2, <1>3, PTL DEF Spec

-----------------------------------------------------------------------------
(* With one worker requests do not overlap: what it found is what is       *)
(* there.                                                                  *)
Solo == \A v, w \in Worker : v = w

Parted(w) ==
  /\ Stored = Range(list[w]) \cup Range(evict[w])
  /\ Range(list[w]) \cap Range(evict[w]) = {}
  /\ \A i, j \in 1..Len(evict[w]) : i # j => evict[w][i] # evict[w][j]
  /\ SumOf(size, Range(list[w])) <= Limit

Whole(w) == size[req[w].name] = req[w].len

SoloAt(w) ==
  /\ pc[w] = "stat" =>
       /\ seen[w] = Stored
       /\ \A n \in Stored : sizes[w][n] # Gone => sizes[w][n] = size[n] /\ times[w][n] = stamp[n]
  /\ pc[w] = "evict" => Parted(w)
  /\ pc[w] = "answer" => SumOf(size, Stored) <= Limit /\ Range(list[w]) = Stored
  /\ pc[w] = "write" => w \in linked /\ size[req[w].name] = 0
  /\ pc[w] = "serve" => req[w].kind = "get"
  /\ pc[w] \in {"tell", "idle"} /\ status[w] = 200 /\ req[w].kind \in {"file", "form"} => Whole(w)

SoloInv == \A w \in Worker : SoloAt(w)

LEMMA SoloGives ==
  ASSUME SoloInv
  PROVE  Trimmed /\ Acknowledged
BY DEF SoloInv, SoloAt, Whole, Trimmed, Acknowledged, Total, SumOf

LEMMA FirstSolo ==
  ASSUME Init
  PROVE  SoloInv
BY DEF Init, SoloInv, SoloAt

(* What it planned to keep and to remove is what is stored.                *)
LEMMA PlanParts ==
  ASSUME WebTazAssumption, Typed, NEW w \in Worker, SoloAt(w), Plan(w)
  PROVE  Parted(w)'
<1> DEFINE z == sizes[w]
<1>0. seen[w] = Stored /\ \A n \in Stored : z[n] # Gone => z[n] = size[n]
  BY DEF SoloAt, Plan
<1>1. PICK s \in Seq(Name) :
        /\ {s[i] : i \in 1..Len(s)} = seen[w]
        /\ \A i, j \in 1..Len(s) : i # j => s[i] # s[j]
        /\ \A i \in 1..Len(s) : z[s[i]] \in Nat
        /\ list' = [list EXCEPT ![w] = SubSeq(s, 1, Fitting(z, s))]
        /\ evict' = [evict EXCEPT ![w] = SubSeq(s, Fitting(z, s) + 1, Len(s))]
        /\ size' = size
  BY PlanIs
<1>2. Sizes /\ \A i \in 1..Len(s) : s[i] \in Stored /\ z[s[i]] = size[s[i]] /\ size[s[i]] \in Nat
  BY <1>0, <1>1, SizesKnown DEF Typed, Gone
<1> HIDE DEF z
<1>3. /\ Fitting(z, s) \in 0..Len(s) /\ Len(s) \in Nat
      /\ SumOf(size, First(s, Fitting(z, s))) <= Limit
  <2> DEFINE F == First(s, Fitting(z, s))
  <2>1. Fitting(z, s) \in 0..Len(s) /\ SumOf(z, F) <= Limit
    BY <1>1, <1>2, FittingIs
  <2>2. F \subseteq Stored /\ \A n \in F : z[n] = size[n]
    BY <1>2, <2>1 DEF First
  <2> HIDE DEF F
  <2>3. IsFiniteSet(F) /\ (\A n \in F : size[n] \in Nat) /\ SumOf(size, F) \in Int
    BY <1>2, <2>2, StoredSizes
  <2>4. (\A n \in F : size[n] \in Int /\ size[n] <= z[n]) /\ \A n \in F : z[n] \in Nat
    BY <2>2, <2>3
  <2>5. SumOf(size, F) <= SumOf(z, F)
    BY <2>3, <2>4, SumAtMost
  <2>6. SumOf(z, F) \in Int /\ Limit \in Nat
    BY <1>2, <2>3, <2>4, SumTyped DEF Sizes
  <2>7. SumOf(size, F) <= Limit
    BY <2>1, <2>3, <2>5, <2>6
  <2> QED
    BY <2>1, <2>7 DEF F
<1> DEFINE f == Fitting(z, s)
           p == SubSeq(s, 1, f)
           q == SubSeq(s, f + 1, Len(s))
<1>4. /\ Range(p) = First(s, f) /\ Range(q) = {s[i] : i \in f + 1..Len(s)}
      /\ Len(q) = Len(s) - f /\ \A i \in 1..Len(s) - f : q[i] = s[f + i]
  BY <1>3, After
<1>5. f \in 0..Len(s) /\ SumOf(size, First(s, f)) <= Limit
  BY <1>3
<1>6. list' = [list EXCEPT ![w] = p] /\ evict' = [evict EXCEPT ![w] = q]
  BY <1>1
<1> HIDE DEF f, p, q
<1>7. list'[w] = p /\ evict'[w] = q
  BY <1>6 DEF Typed, TypeOK
<1>8. Stored' = {s[i] : i \in 1..Len(s)}
  BY <1>0, <1>1 DEF Stored
<1>9. {s[i] : i \in 1..Len(s)} = Range(p) \cup Range(q)
  <2>1. \A i \in 1..Len(s) : i \in 1..f \/ i \in f + 1..Len(s)
    BY <1>3, <1>5
  <2>2. (\A i \in 1..f : i \in 1..Len(s)) /\ \A i \in f + 1..Len(s) : i \in 1..Len(s)
    BY <1>3, <1>5
  <2> QED
    BY <1>4, <2>1, <2>2 DEF First
<1>10. Range(p) \cap Range(q) = {}
  <2>1. \A i \in 1..f : \A j \in f + 1..Len(s) : i \in 1..Len(s) /\ j \in 1..Len(s) /\ i # j
    BY <1>3, <1>5
  <2> QED
    BY <1>1, <1>4, <2>1 DEF First
<1>11. ASSUME NEW i \in 1..Len(q), NEW j \in 1..Len(q), i # j PROVE q[i] # q[j]
  <2>1. i \in 1..Len(s) - f /\ j \in 1..Len(s) - f
    BY <1>4
  <2>2. f + i \in 1..Len(s) /\ f + j \in 1..Len(s) /\ f + i # f + j
    BY <1>3, <1>5, <1>11, <2>1
  <2> QED
    BY <1>1, <1>4, <2>1, <2>2
<1>12. SumOf(size', Range(p)) <= Limit
  BY <1>1, <1>4, <1>5
<1> QED
  BY <1>7, <1>8, <1>9, <1>10, <1>11, <1>12 DEF Parted

(* Removing the next file leaves the parts.                                *)
LEMMA EvictParts ==
  ASSUME WebTazAssumption, Typed, NEW w \in Worker, Parted(w), evict[w] # <<>>,
         size' = [size EXCEPT ![Head(evict[w])] = Gone], evict'[w] = Tail(evict[w]), list'[w] = list[w]
  PROVE  Parted(w)'
<1> DEFINE q == evict[w]
           t == Tail(q)
           h == Head(q)
<1>1. q \in Seq(Name) /\ list[w] \in Seq(Name) /\ size \in [Name -> Nat \cup {Gone}]
  BY DEF Typed, TypeOK
<1>2. /\ Len(q) \in Nat /\ Len(q) >= 1 /\ h = q[1] /\ h \in Name
      /\ t \in Seq(Name) /\ Len(t) = Len(q) - 1
      /\ \A i \in 1..Len(t) : t[i] = q[i + 1]
  BY <1>1, HeadTailProperties
<1>3. /\ Stored = Range(list[w]) \cup Range(q)
      /\ Range(list[w]) \cap Range(q) = {}
      /\ \A i, j \in 1..Len(q) : i # j => q[i] # q[j]
      /\ SumOf(size, Range(list[w])) <= Limit
  BY DEF Parted
<1>4. size' = [size EXCEPT ![h] = Gone] /\ evict'[w] = t
  OBVIOUS
<1> HIDE DEF q, t, h
<1>5. \A n \in Name : size'[n] = IF n = h THEN Gone ELSE size[n]
  BY <1>1, <1>4
<1>6. Stored' = Stored \ {h}
  BY <1>5 DEF Stored
<1>7. Range(q) = {q[i] : i \in 1..Len(q)} /\ Range(t) = {t[i] : i \in 1..Len(t)}
  <2>1. DOMAIN q = 1..Len(q) /\ DOMAIN t = 1..Len(t)
    BY <1>1, <1>2
  <2> QED
    BY <2>1 DEF Range
<1>8. h \in Range(q)
  <2>1. 1 \in 1..Len(q)
    BY <1>2
  <2> QED
    BY <1>2, <1>7, <2>1
<1>9. \A i \in 1..Len(t) : i + 1 \in 1..Len(q) /\ i + 1 # 1
  BY <1>2
<1>10. h \notin Range(t)
  <2>1. 1 \in 1..Len(q)
    BY <1>2
  <2> QED
    BY <1>2, <1>3, <1>7, <1>9, <2>1
<1>11. Range(t) \subseteq Range(q)
  BY <1>2, <1>7, <1>9
<1>12. ASSUME NEW n \in Range(q), n # h PROVE n \in Range(t)
  <2>1. PICK i \in 1..Len(q) : n = q[i]
    BY <1>7
  <2>2. i # 1
    BY <1>2, <1>12, <2>1
  <2>3. i - 1 \in 1..Len(t) /\ (i - 1) + 1 = i
    BY <1>2, <2>2
  <2>4. t[i - 1] = n
    BY <1>2, <2>1, <2>3
  <2> QED
    BY <1>7, <2>3, <2>4
<1>13. Stored' = Range(list[w]) \cup Range(t) /\ Range(list[w]) \cap Range(t) = {}
  BY <1>3, <1>6, <1>8, <1>10, <1>11, <1>12
<1>14. ASSUME NEW i \in 1..Len(t), NEW j \in 1..Len(t), i # j PROVE t[i] # t[j]
  <2>1. i + 1 \in 1..Len(q) /\ j + 1 \in 1..Len(q) /\ i + 1 # j + 1
    BY <1>2, <1>9, <1>14
  <2> QED
    BY <1>2, <1>3, <2>1
<1>15. SumOf(size', Range(list[w])) <= Limit
  <2> DEFINE K == Range(list[w])
  <2>1. K \subseteq Stored /\ h \notin K /\ K \subseteq Name
    BY <1>3, <1>8 DEF Stored
  <2>2. Sizes /\ SumOf(size, K) <= Limit
    BY <1>3, SizesKnown DEF Typed
  <2> HIDE DEF K
  <2>3. IsFiniteSet(K) /\ \A n \in K : size[n] \in Nat
    BY <2>1, <2>2, StoredSizes
  <2>4. \A n \in K : size'[n] = size[n]
    BY <1>5, <2>1
  <2>5. \A n \in K : size'[n] \in Int /\ size'[n] <= size[n]
    BY <2>3, <2>4
  <2>6. SumOf(size', K) <= SumOf(size, K)
    BY <2>3, <2>5, SumAtMost
  <2>7. SumOf(size', K) \in Int /\ SumOf(size, K) \in Int /\ Limit \in Nat
    BY <2>1, <2>2, <2>3, <2>5, StoredSizes, SumTyped DEF Sizes
  <2> QED
    BY <2>2, <2>6, <2>7 DEF K
<1> QED
  BY <1>4, <1>13, <1>14, <1>15 DEF Parted

(* An answer ends the request.                                             *)
LEMMA EndSolo ==
  ASSUME Typed, NEW w \in Worker, NEW s, End(w, s),
         s = 200 /\ req[w].kind \in {"file", "form"} => Whole(w)
  PROVE  SoloAt(w)'
<1>1. pc'[w] = "idle" /\ status'[w] = s /\ size' = size /\ req' = req
  BY DEF End, Goto, disk, Typed, TypeOK
<1> QED
  BY <1>1 DEF SoloAt, Whole

LEMMA SoloNext ==
  ASSUME WebTazAssumption, Solo, Typed, SoloInv, [Next]_vars
  PROVE  SoloInv'
<1> SUFFICES ASSUME NEW w \in Worker PROVE SoloAt(w)'
  BY DEF SoloInv
<1>1. SoloAt(w) /\ \A v \in Worker : v = w
  BY DEF Solo, SoloInv
<1>2. CASE UNCHANGED <<size, stamp, pc, req, seen, sizes, times, list, evict, linked, status>>
  BY <1>1, <1>2 DEF SoloAt, Whole, Parted, Stored
<1>3. CASE Begin(w)
  <2>1. pc'[w] = "list"
    BY <1>3 DEF Begin, Goto, Typed, TypeOK
  <2> QED
    BY <2>1 DEF SoloAt
<1>4. CASE ReadDir(w)
  <2>1. pc'[w] = "stat" /\ seen'[w] = Stored /\ Stored' = Stored /\ Stored \subseteq Name
    BY <1>4 DEF ReadDir, Goto, disk, Stored, Typed, TypeOK
  <2>2. \A n \in Name : sizes'[w][n] = Gone
    BY <1>4 DEF ReadDir, Typed, FormInv, Unseen
  <2> QED
    BY <2>1, <2>2 DEF SoloAt
<1>5. CASE Stat(w)
  <2>1. CASE End(w, Aborted)
    <3>1. Aborted # 200
      BY DEF Aborted
    <3> QED
      BY <2>1, <3>1, EndSolo
  <2>2. CASE ~End(w, Aborted)
    <3>1. PICK n \in Stored : /\ sizes' = [sizes EXCEPT ![w] = [sizes[w] EXCEPT ![n] = size[n]]]
                              /\ times' = [times EXCEPT ![w] = [times[w] EXCEPT ![n] = stamp[n]]]
      BY <1>5, <2>2, StatIs
    <3>2. pc[w] = "stat" /\ UNCHANGED <<size, stamp, now, linked, pc, req, seen, list, evict, status>>
      BY <1>5, <2>2, StatIs
    <3>3. Stored' = Stored /\ Stored \subseteq Name
      BY <3>2 DEF Stored
    <3> DEFINE e == [sizes[w] EXCEPT ![n] = size[n]]
               f == [times[w] EXCEPT ![n] = stamp[n]]
    <3>4. sizes[w] \in [Name -> Nat \cup {Gone}] /\ times[w] \in [Name -> 0..MaxTime]
      BY DEF Typed, TypeOK
    <3>5. \A m \in Name : /\ e[m] = IF m = n THEN size[n] ELSE sizes[w][m]
                          /\ f[m] = IF m = n THEN stamp[n] ELSE times[w][m]
      BY <3>4
    <3>6. sizes' = [sizes EXCEPT ![w] = e] /\ times' = [times EXCEPT ![w] = f]
      BY <3>1
    <3> HIDE DEF e, f
    <3>7. sizes'[w] = e /\ times'[w] = f
      BY <3>6 DEF Typed, TypeOK
    <3> QED
      BY <1>1, <3>2, <3>3, <3>5, <3>7 DEF SoloAt
  <2> QED
    BY <2>1, <2>2
<1>16. CASE Plan(w)
  <2>1. pc'[w] = "evict"
    BY <1>16 DEF Plan, Goto, Typed, TypeOK
  <2> QED
    BY <1>1, <1>16, <2>1, PlanParts DEF SoloAt
<1>6. CASE Evict(w)
  <2>1. Parted(w) /\ evict[w] \in Seq(Name) /\ UNCHANGED <<req, seen, list, status>>
    BY <1>1, <1>6 DEF Evict, look, SoloAt, Typed, TypeOK
  <2>2. CASE evict[w] # <<>> /\ size' = [size EXCEPT ![Head(evict[w])] = Gone]
             /\ evict' = [evict EXCEPT ![w] = Tail(evict[w])] /\ UNCHANGED pc
    <3>1. evict'[w] = Tail(evict[w]) /\ pc'[w] = "evict"
      BY <1>6, <2>2 DEF Evict, Typed, TypeOK
    <3> QED
      BY <2>1, <2>2, <3>1, EvictParts DEF SoloAt
  <2>3. CASE evict[w] = <<>> /\ Goto(w, "answer") /\ UNCHANGED <<size, evict, linked>>
    <3>1. pc'[w] = "answer" /\ Range(evict[w]) = {} /\ Stored' = Stored
      BY <2>3 DEF Goto, Range, Stored, Typed, TypeOK
    <3>2. Range(list[w]) = Stored /\ SumOf(size, Stored) <= Limit
      BY <2>1, <3>1 DEF Parted
    <3> QED
      BY <2>1, <2>3, <3>1, <3>2 DEF SoloAt
  <2> QED
    BY <1>6, <2>2, <2>3 DEF Evict
<1>7. CASE Move(w)
  <2>1. pc'[w] = "tell" /\ req' = req /\ req[w].kind = "file" /\ req[w] \in Request
    BY <1>7 DEF Move, Goto, Typed, TypeOK
  <2>2. req[w].name \in Name
    BY <2>1, RequestIs
  <2>3. CASE req[w].len > Limit
    <3>1. status'[w] = 413
      BY <1>7, <2>3 DEF Move, Typed, TypeOK
    <3> QED
      BY <2>1, <3>1 DEF SoloAt
  <2>4. CASE ~(req[w].len > Limit)
    <3>1. size'[req[w].name] = req[w].len
      BY <1>7, <2>2, <2>4 DEF Move, Typed, TypeOK
    <3> QED
      BY <2>1, <3>1 DEF SoloAt, Whole
  <2> QED
    BY <2>3, <2>4
<1>8. CASE Truncate(w)
  <2>1. pc'[w] = "write" /\ req' = req /\ req[w].kind = "form" /\ req[w] \in Request
        /\ w \in linked' /\ size' = [size EXCEPT ![req[w].name] = 0]
    BY <1>8 DEF Truncate, Goto, Typed, TypeOK
  <2>2. req[w].name \in Name
    BY <2>1, RequestIs
  <2>3. size'[req[w].name] = 0
    BY <2>1, <2>2 DEF Typed, TypeOK
  <2> QED
    BY <2>1, <2>3 DEF SoloAt
<1>9. CASE Write(w)
  <2>1. pc[w] = "write" /\ pc'[w] = "tell" /\ req' = req /\ req[w].kind = "form" /\ req[w] \in Request
    BY <1>9 DEF Write, Goto, Typed, TypeOK, FormInv
  <2>2. req[w].name \in Name /\ req[w].len \in Nat
    BY <2>1, RequestIs
  <2>3. w \in linked /\ size[req[w].name] = 0
    BY <1>1, <2>1 DEF SoloAt
  <2>4. size'[req[w].name] = IF size[req[w].name] > req[w].len THEN size[req[w].name] ELSE req[w].len
    BY <1>9, <2>2, <2>3 DEF Write, Typed, TypeOK
  <2>5. size'[req[w].name] = req[w].len
    BY <2>2, <2>3, <2>4
  <2> QED
    BY <2>1, <2>5 DEF SoloAt, Whole
<1>10. CASE Index(w) \/ Bare(w) \/ Serve(w)
  <2>1. req[w].kind \notin {"file", "form"}
    BY <1>1, <1>10 DEF Index, Bare, Serve, SoloAt
  <2> QED
    BY <1>10, <2>1, EndSolo DEF Index, Bare, Serve
<1>11. CASE Tell(w)
  <2>1. pc[w] = "tell"
    BY <1>11 DEF Tell
  <2> DEFINE s == IF req[w].name \in Stored THEN status[w] ELSE 500
  <2>2. End(w, s)
    BY <1>11 DEF Tell
  <2>3. s = 200 => status[w] = 200
    OBVIOUS
  <2> HIDE DEF s
  <2> QED
    BY <1>1, <2>1, <2>2, <2>3, EndSolo DEF SoloAt
<1>12. CASE Find(w)
  <2>1. CASE End(w, 404)
    BY <2>1, EndSolo
  <2>2. CASE Goto(w, "serve") /\ UNCHANGED disk /\ UNCHANGED look /\ UNCHANGED <<req, list, evict, status>>
    <3>1. pc'[w] = "serve" /\ req'[w].kind = "get"
      BY <1>12, <2>2 DEF Find, Goto, Typed, TypeOK
    <3> QED
      BY <3>1 DEF SoloAt
  <2> QED
    BY <1>12, <2>1, <2>2 DEF Find
<1>13. CASE \E v \in Worker : WorkerStep(v)
  BY <1>1, <1>3, <1>4, <1>5, <1>6, <1>7, <1>8, <1>9, <1>10, <1>11, <1>12, <1>13, <1>16 DEF WorkerStep
<1>14. CASE Tick
  BY <1>2, <1>14 DEF Tick, look
<1>15. CASE UNCHANGED vars
  BY <1>2, <1>15 DEF vars, look
<1> QED
  BY <1>13, <1>14, <1>15 DEF Next

(* When requests do not overlap, what the list leaves fits in the limit    *)
(* and each name on it is a file, and an upload that is answered with 200  *)
(* is stored with its whole length (webTaz.lua:17-25, 45-60).              *)
THEOREM SoloCorrect ==
  ASSUME WebTazAssumption, Solo
  PROVE  Spec => [](Trimmed /\ Acknowledged)
<1> DEFINE IInv == Typed /\ SoloInv
<1>1. Init => IInv
  BY FirstTyped, FirstSolo
<1>2. IInv /\ [Next]_vars => IInv'
  BY TypedNext, SoloNext
<1>3. IInv => Trimmed /\ Acknowledged
  BY SoloGives
<1> QED
  BY <1>1, <1>2, <1>3, PTL DEF Spec

-----------------------------------------------------------------------------
(* What a worker gives up, when requests do not overlap.                   *)
LEMMA PlanEvicts ==
  ASSUME WebTazAssumption, Typed, NEW w \in Worker, SoloAt(w), Plan(w), NEW n \in Range(evict'[w])
  PROVE  SumOf(size, {m \in Stored : stamp[m] >= stamp[n]}) > Limit
<1> DEFINE z == sizes[w]
           y == times[w]
<1>0. seen[w] = Stored /\ \A m \in Stored : z[m] # Gone => z[m] = size[m] /\ y[m] = stamp[m]
  BY DEF SoloAt, Plan
<1>1. PICK s \in Seq(Name) :
        /\ {s[i] : i \in 1..Len(s)} = seen[w]
        /\ \A i \in 1..Len(s) : z[s[i]] \in Nat
        /\ NewestFirst(y, s)
        /\ evict' = [evict EXCEPT ![w] = SubSeq(s, Fitting(z, s) + 1, Len(s))]
  BY PlanIs
<1>2. /\ Sizes /\ Limit \in Nat
      /\ \A i \in 1..Len(s) : s[i] \in Stored /\ z[s[i]] = size[s[i]] /\ y[s[i]] = stamp[s[i]]
  BY <1>0, <1>1, SizesKnown DEF Typed, Sizes, Gone
<1> HIDE DEF z, y
<1> DEFINE f == Fitting(z, s)
           q == SubSeq(s, f + 1, Len(s))
<1>3. f \in 0..Len(s) /\ \A k \in 1..Len(s) : k > f => SumOf(z, First(s, k)) > Limit
  BY <1>1, <1>2, FittingIs
<1>4. evict' = [evict EXCEPT ![w] = q] /\ Range(q) = {s[i] : i \in f + 1..Len(s)}
  BY <1>1, <1>3, After
<1> HIDE DEF f, q
<1>5. PICK k \in f + 1..Len(s) : n = s[k]
  <2>1. evict'[w] = q
    BY <1>4 DEF Typed, TypeOK
  <2> QED
    BY <1>4, <2>1
<1>6. k \in 1..Len(s) /\ k > f /\ Len(s) \in Nat /\ DOMAIN s = 1..Len(s)
  BY <1>3
<1> DEFINE S == {m \in Stored : stamp[m] >= stamp[n]}
<1>7. First(s, k) \subseteq S /\ \A m \in First(s, k) : z[m] = size[m]
  <2> SUFFICES ASSUME NEW i \in 1..k PROVE s[i] \in Stored /\ stamp[s[i]] >= stamp[n] /\ z[s[i]] = size[s[i]]
    BY DEF First
  <2>1. i \in 1..Len(s) /\ (i < k \/ i = k)
    BY <1>6
  <2>2. s[i] \in Stored /\ s[i] \in Name /\ z[s[i]] = size[s[i]] /\ y[s[i]] = stamp[s[i]] /\ y[s[k]] = stamp[s[k]]
    BY <1>2, <1>6, <2>1 DEF Stored
  <2>3. stamp[s[i]] \in Int
    <3>1. MaxTime \in Nat /\ stamp[s[i]] \in 0..MaxTime
      BY <2>2 DEF Typed, TypeOK, WebTazAssumption
    <3> QED
      BY <3>1
  <2>4. CASE i < k
    <3>1. y[s[i]] >= y[s[k]]
      BY <1>1, <1>6, <2>1, <2>4 DEF NewestFirst
    <3> QED
      BY <1>5, <2>2, <3>1
  <2>5. CASE i = k
    BY <1>5, <2>2, <2>3, <2>5
  <2> QED
    BY <2>1, <2>4, <2>5
<1>8. S \subseteq Stored
  OBVIOUS
<1> HIDE DEF S
<1>9. IsFiniteSet(S) /\ (\A m \in S : size[m] \in Nat) /\ SumOf(size, S) \in Int
  BY <1>2, <1>8, StoredSizes
<1>10. \A m \in First(s, k) : z[m] \in Int /\ z[m] <= size[m]
  BY <1>7, <1>9
<1>11. SumOf(z, First(s, k)) <= SumOf(size, S)
  BY <1>7, <1>9, <1>10, SumAtMost
<1>12. SumOf(z, First(s, k)) \in Int
  BY <1>7, <1>9, <1>10, FS_Subset, SumTyped
<1>13. SumOf(z, First(s, k)) > Limit
  BY <1>3, <1>6
<1>14. SumOf(size, S) > Limit
  BY <1>2, <1>9, <1>11, <1>12, <1>13
<1> QED
  BY <1>14 DEF S

LEMMA EvictsNext ==
  ASSUME WebTazAssumption, Solo, Typed, SoloInv, [Next]_vars
  PROVE  EvictsStep
<1> SUFFICES ASSUME NEW w \in Worker, NEW n \in Range(evict'[w]) \ Range(evict[w])
             PROVE  SumOf(size, {m \in Stored : stamp[m] >= stamp[n]}) > Limit
  BY DEF EvictsStep, SumOf
<1>1. evict'[w] # evict[w]
  OBVIOUS
<1>2. WorkerStep(w) /\ SoloAt(w)
  BY <1>1 DEF Next, vars, Tick, Solo, SoloInv
<1>3. ASSUME NEW s, End(w, s) PROVE FALSE
  <2>1. evict' = [evict EXCEPT ![w] = <<>>]
    BY <1>3 DEF End
  <2>2. evict'[w] = <<>>
    BY <2>1 DEF Typed, TypeOK
  <2> QED
    BY <2>2 DEF Range
<1>4. CASE Plan(w)
  BY <1>2, <1>4, PlanEvicts
<1>5. CASE Evict(w)
  <2>1. evict[w] # <<>> /\ evict' = [evict EXCEPT ![w] = Tail(evict[w])]
    BY <1>1, <1>5 DEF Evict
  <2>2. evict[w] \in Seq(Name) /\ evict'[w] = Tail(evict[w])
    BY <2>1 DEF Typed, TypeOK
  <2>3. /\ Len(evict[w]) \in Nat /\ Len(evict[w]) >= 1
        /\ Tail(evict[w]) \in Seq(Name) /\ Len(Tail(evict[w])) = Len(evict[w]) - 1
        /\ \A i \in 1..Len(Tail(evict[w])) : Tail(evict[w])[i] = evict[w][i + 1]
    BY <2>1, <2>2, HeadTailProperties
  <2>4. PICK i \in 1..Len(Tail(evict[w])) : n = Tail(evict[w])[i]
    BY <2>2, <2>3 DEF Range
  <2>5. i + 1 \in 1..Len(evict[w]) /\ n = evict[w][i + 1]
    BY <2>3, <2>4
  <2>6. n \in Range(evict[w])
    BY <2>2, <2>5 DEF Range
  <2> QED
    BY <2>6
<1>6. CASE Begin(w) \/ ReadDir(w) \/ Stat(w) \/ Move(w) \/ Truncate(w) \/ Write(w)
  BY <1>1, <1>3, <1>6 DEF Begin, ReadDir, Stat, Move, Truncate, Write
<1>7. CASE Index(w) \/ Bare(w) \/ Tell(w) \/ Serve(w)
  BY <1>3, <1>7 DEF Index, Bare, Tell, Serve
<1>8. CASE Find(w)
  BY <1>1, <1>3, <1>8 DEF Find
<1> QED
  BY <1>2, <1>4, <1>5, <1>6, <1>7, <1>8 DEF WorkerStep

(* When requests do not overlap, a file is only given up if it and those   *)
(* that are no older are too large together (webTaz.lua:10-24).            *)
THEOREM EvictsOldestCorrect ==
  ASSUME WebTazAssumption, Solo
  PROVE  Spec => EvictsOldest
<1> DEFINE IInv == Typed /\ SoloInv
<1>1. Init => IInv
  BY FirstTyped, FirstSolo
<1>2. IInv /\ [Next]_vars => IInv' /\ EvictsStep
  BY TypedNext, SoloNext, EvictsNext
<1> QED
  BY <1>1, <1>2, PTL DEF Spec, EvictsOldest
=============================================================================
