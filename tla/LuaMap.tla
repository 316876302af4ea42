------------------------------- MODULE LuaMap -------------------------------
(***************************************************************************)
(* What a table is to a Lua program: a map from keys to values, with a     *)
(* length and a traversal.                                                 *)
(***************************************************************************)
EXTENDS Integers

CONSTANTS Keys, Nil
VARIABLES
  contents,   \* the map; Nil where there is nothing
  length,     \* what # answered last
  cursor,     \* the key next answered last; Nil when nothing is being traversed
  left        \* the keys the traversal has still to meet

Present(k) == contents[k] # Nil
IsBorder(n) == /\ n > 0 => n \in Keys /\ Present(n)
               /\ n + 1 \in Keys => ~Present(n + 1)

MapInit == contents = [k \in Keys |-> Nil] /\ length = 0 /\ cursor = Nil /\ left = {}

(* A traversal survives assignments to the keys that are there, not to     *)
(* others; a key taken away is not met any more.                           *)
Assign(k) ==
  LET v == contents'[k] IN
  /\ v \in Keys \cup {Nil} /\ contents' = [contents EXCEPT ![k] = v]
  /\ IF Present(k) THEN UNCHANGED cursor ELSE cursor' = Nil
  /\ left' = IF ~Present(k) THEN {} ELSE IF v = Nil THEN left \ {k} ELSE left
  /\ UNCHANGED length

First ==
  /\ cursor = Nil
  /\ \/ \E k \in Keys : Present(k) /\ cursor' = k /\ left' = {j \in Keys : Present(j)} \ {k}
     \/ (\A k \in Keys : ~Present(k)) /\ UNCHANGED <<cursor, left>>
  /\ UNCHANGED <<contents, length>>

(* Every key is met once, and the traversal ends after the last.           *)
Next1 ==
  /\ cursor # Nil
  /\ \/ \E k \in left : cursor' = k /\ left' = left \ {k}
     \/ left = {} /\ cursor' = Nil /\ UNCHANGED left
  /\ UNCHANGED <<contents, length>>

Measure == IsBorder(length') /\ UNCHANGED <<contents, cursor, left>>

MapNext == First \/ Next1 \/ Measure \/ \E k \in Keys : Assign(k)
MapStep == [MapNext]_<<contents, length, cursor, left>>
MapSpec == MapInit /\ [][MapNext]_<<contents, length, cursor, left>>
=============================================================================
