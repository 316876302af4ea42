------------------------------ MODULE LuaSort ------------------------------
(***************************************************************************)
(* table.sort (auxsort of ltablib.c): a quicksort in place whose order is  *)
(* asked of the program one comparison at a time.  The answers may follow  *)
(* an order of the elements or be any at all.  A step ends at the next     *)
(* comparison.                                                             *)
(***************************************************************************)
EXTENDS Integers, Sequences

CONSTANTS
  Arrays,       \* what is sorted: sequences of numbers
  MaxAny        \* arrays up to this length also meet answers that follow no order

(* What the constants may be.                                              *)
ASSUME LuaSortAssumption == Arrays \subseteq Seq(Int)

VARIABLES
  a,            \* the elements, records of a number and its first place
  order,        \* "less" or "any"
  l, u, i, j,   \* the part being sorted, and where the partition is
  rest,         \* the parts left to do
  pc            \* the next comparison, "done" or "error"

vars == <<a, order, l, u, i, j, rest, pc>>

Init ==
  /\ \E s \in Arrays :
       /\ a = [n \in 1..Len(s) |-> [key |-> s[n], from |-> n]]
       /\ order \in {"less"} \cup (IF Len(s) <= MaxAny THEN {"any"} ELSE {})
       /\ l = 1 /\ u = Len(s) /\ pc = IF Len(s) > 1 THEN "ends" ELSE "done"
  /\ i = 0 /\ j = 0 /\ rest = <<>>

Swapped(s, m, n) == [s EXCEPT ![m] = s[n], ![n] = s[m]]

(* sort_comp                                                               *)
Less(m, n, answer) == IF order = "less" THEN answer = (a[m].key < a[n].key) ELSE answer \in BOOLEAN
SwapIf(m, n, answer) == a' = IF answer THEN Swapped(a, m, n) ELSE a

(* The part is sorted: the loop goes on with the next one that is longer   *)
(* than one element.                                                       *)
Long(p) == p[1] < p[2]
Continue(parts) ==
  \/ \E n \in DOMAIN parts :
       /\ Long(parts[n]) /\ \A m \in 1..n - 1 : ~Long(parts[m])
       /\ pc' = "ends" /\ l' = parts[n][1] /\ u' = parts[n][2] /\ rest' = SubSeq(parts, n + 1, Len(parts))
  \/ /\ \A n \in DOMAIN parts : ~Long(parts[n])
     /\ pc' = "done" /\ rest' = <<>> /\ UNCHANGED <<l, u>>

Mid == (l + u) \div 2

Ends(answer) ==
  /\ pc = "ends" /\ Less(u, l, answer) /\ SwapIf(l, u, answer)
  /\ IF u - l = 1 THEN Continue(rest) /\ UNCHANGED <<i, j>>
     ELSE pc' = "low" /\ i' = Mid /\ UNCHANGED <<l, u, j, rest>>

(* The pivot goes next to the end.                                         *)
Pivot(s) ==
  IF u - l = 2 THEN a' = s /\ Continue(rest) /\ UNCHANGED <<i, j>>
  ELSE /\ a' = Swapped(s, i, u - 1) /\ pc' = "up" /\ i' = l + 1 /\ j' = u - 1
       /\ UNCHANGED <<l, u, rest>>
Low(answer) ==
  /\ pc = "low" /\ Less(i, l, answer)
  /\ IF answer THEN Pivot(Swapped(a, i, l)) ELSE pc' = "high" /\ UNCHANGED <<a, l, u, i, j, rest>>
High(answer) == pc = "high" /\ Less(u, i, answer) /\ Pivot(IF answer THEN Swapped(a, i, u) ELSE a)

(* Mutant: the search for an element not below the pivot stands still.     *)
UpForever(answer) ==
  /\ pc = "up" /\ Less(i, u - 1, answer)
  /\ pc' = (IF answer THEN "up" ELSE "down") /\ j' = (IF answer THEN j ELSE j - 1)
  /\ UNCHANGED <<a, l, u, i, rest>>
Up(answer) ==
  /\ pc = "up" /\ Less(i, u - 1, answer)
  /\ IF ~answer THEN pc' = "down" /\ j' = j - 1 /\ UNCHANGED i
     ELSE IF i >= u THEN pc' = "error" /\ UNCHANGED <<i, j>>
     ELSE i' = i + 1 /\ UNCHANGED <<j, pc>>
  /\ UNCHANGED <<a, l, u, rest>>

(* The partition ends when the two meet; the smaller half is done first,   *)
(* by a call, and the larger one by the loop.                              *)
(* Mutant: the element next to the pivot is left out of the part below it. *)
LowerShort == <<l, i - 2>>
Lower == <<l, i - 1>>
Partitioned ==
  LET left == Lower
      right == <<i + 1, u>>
  IN /\ a' = Swapped(a, u - 1, i)
     /\ Continue((IF i - l < u - i THEN <<left, right>> ELSE <<right, left>>) \o rest)
     /\ UNCHANGED <<i, j>>
Down(answer) ==
  /\ pc = "down" /\ Less(u - 1, j, answer)
  /\ IF answer
     THEN /\ IF j <= l THEN pc' = "error" /\ UNCHANGED j ELSE j' = j - 1 /\ UNCHANGED pc
          /\ UNCHANGED <<a, l, u, i, rest>>
     ELSE IF j < i THEN Partitioned
     ELSE a' = Swapped(a, i, j) /\ pc' = "up" /\ i' = i + 1 /\ UNCHANGED <<l, u, j, rest>>

Ended == pc \in {"done", "error"} /\ UNCHANGED <<a, l, u, i, j, rest, pc>>
Next ==
  /\ UNCHANGED order
  /\ \E answer \in BOOLEAN : Ends(answer) \/ Low(answer) \/ High(answer) \/ Up(answer) \/ Down(answer) \/ Ended
Spec == Init /\ [][Next]_vars /\ WF_vars(Next)

---------------------------------------------------------------------------
(* Whatever the comparisons answer, no element is lost or doubled, nothing *)
(* outside of the array is touched, and an order that is one is never      *)
(* called invalid and gets its elements sorted.                            *)
Sorts ==
  /\ {a[n].from : n \in DOMAIN a} = DOMAIN a
  /\ pc \in {"up", "down"} => /\ 1 <= l /\ l < i /\ i <= u /\ u <= Len(a)
                              /\ l <= j /\ j < u
  /\ order = "less" => /\ pc # "error"
                       /\ pc = "done" => \A n \in 1..Len(a) - 1 : a[n].key <= a[n + 1].key

(* Every sort comes to its end, with an error or without, even when the    *)
(* answers follow no order.                                                *)
Returns == <>(pc \in {"done", "error"})
=============================================================================
