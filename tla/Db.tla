--------------------------------- MODULE Db ---------------------------------
(***************************************************************************)
(* The store of records (src/lib/db.lua) under several processes: a record *)
(* is a file, named by its number, and there is no lock.  What a record    *)
(* says is the number of the call that wrote it.                           *)
(***************************************************************************)
EXTENDS Integers, FiniteSets

CONSTANTS
  Process,  \* each makes one call after the other
  MaxId,    \* bound of the numbers of records
  MaxCalls  \* bound of the calls

(* What the constants may be.                                              *)
DbAssumption == IsFiniteSet(Process) /\ MaxId \in Nat /\ MaxCalls \in Nat

VARIABLES
  record,  \* what each file says: Absent, Empty, the number of a call, or Mixed
  calls,   \* how many calls there were
  at,      \* where each process is in its call
  call,    \* its call
  linked,  \* processes whose open file still has its name
  quiet,   \* history: processes whose call no conflicting one overlaps
  kept     \* history: what was written undisturbed and not given up since

vars == <<record, calls, at, call, linked, quiet, kept>>

Absent == -2
Empty  == -1
Mixed  == 0   \* parts of two texts

Id == 1..MaxId
Call == [op : {"new", "put", "del"}, id : 0..MaxId, n : 0..MaxCalls]
Kept == [id : Id, n : 1..MaxCalls]

TypeOK ==
  /\ record \in [Id -> {Absent, Empty, Mixed} \cup 1..MaxCalls] /\ calls \in 0..MaxCalls
  /\ at \in [Process -> {"idle", "list", "open", "write", "remove"}]
  /\ call \in [Process -> Call]
  /\ linked \subseteq Process /\ quiet \subseteq Process /\ kept \subseteq Kept

Init ==
  /\ record = [i \in Id |-> Absent] /\ calls = 0
  /\ at = [p \in Process |-> "idle"]
  /\ call = [p \in Process |-> [op |-> "new", id |-> 0, n |-> 0]]
  /\ linked = {} /\ quiet = {} /\ kept = {}

(* Two calls that may disturb each other: all but two on given numbers     *)
(* that differ.                                                            *)
Conflict(c, d) == "new" \in {c.op, d.op} \/ c.id = d.id
Disturbed(p, c) == {q \in Process \ {p} : at[q] # "idle" /\ Conflict(c, call[q])}

(* ejaDbNew, ejaDbPut or ejaDbDel.  A put or a deletion gives up what was  *)
(* under its number.                                                       *)
Begin(p) ==
  /\ at[p] = "idle" /\ calls < MaxCalls
  /\ \E op \in {"new", "put", "del"} : \E id \in IF op = "new" THEN {0} ELSE Id :
       LET c == [op |-> op, id |-> id, n |-> calls + 1]
           others == Disturbed(p, c)
       IN /\ call' = [call EXCEPT ![p] = c]
          /\ at' = [at EXCEPT ![p] = CASE op = "new" -> "list" [] op = "put" -> "open" [] op = "del" -> "remove"]
          /\ quiet' = (IF others = {} THEN quiet \cup {p} ELSE quiet \ {p}) \ others
          /\ kept' = {k \in kept : k.id # id}
  /\ calls' = calls + 1
  /\ UNCHANGED <<record, linked>>

(* The call returns, its program ends in an error, or it is killed.        *)
End(p) == at' = [at EXCEPT ![p] = "idle"] /\ linked' = linked \ {p}

Recorded == {i \in Id : record[i] # Absent}

(* Mutant: the files are counted.                                          *)
LastCounted == Cardinality(Recorded)

(* The largest number.                                                     *)
Last == IF Recorded = {} THEN 0 ELSE CHOOSE i \in Recorded : \A j \in Recorded : i >= j

(* ejaDbLast keeps a number as the string it was read as; the second file  *)
(* of a listing compares a number with that, and the program ends.         *)
List(p) ==
  /\ at[p] = "list"
  /\ IF Cardinality(Recorded) > 1
     THEN End(p) /\ UNCHANGED call
     ELSE /\ Last < MaxId
          /\ call' = [call EXCEPT ![p].id = Last + 1]
          /\ at' = [at EXCEPT ![p] = "open"] /\ UNCHANGED linked
  /\ UNCHANGED <<record, calls, quiet, kept>>

(* The file cannot be opened, or it is empty from now on.                  *)
OpenFails(p) ==
  /\ at[p] = "open" /\ End(p)
  /\ UNCHANGED <<record, calls, call, quiet, kept>>

Open(p) ==
  /\ at[p] = "open"
  /\ record' = [record EXCEPT ![call[p].id] = Empty]
  /\ linked' = linked \cup {p}
  /\ at' = [at EXCEPT ![p] = "write"]
  /\ UNCHANGED <<calls, call, quiet, kept>>

(* Written at close, over what another writer of the same file has left    *)
(* there meanwhile.                                                        *)
Write(p) ==
  LET c == call[p] IN
  /\ at[p] = "write" /\ End(p)
  /\ IF p \in linked
     THEN \E text \in {c.n} \cup (IF record[c.id] = Empty THEN {} ELSE {Mixed}) :
            record' = [record EXCEPT ![c.id] = text]
     ELSE UNCHANGED record
  /\ kept' = IF p \in quiet THEN kept \cup {[id |-> c.id, n |-> c.n]} ELSE kept
  /\ UNCHANGED <<calls, call, quiet>>

Remove(p) ==
  /\ at[p] = "remove"
  /\ record' = [record EXCEPT ![call[p].id] = Absent]
  /\ at' = [at EXCEPT ![p] = "idle"]
  /\ linked' = {q \in linked : call[q].id # call[p].id}
  /\ UNCHANGED <<calls, call, quiet, kept>>

Kill(p) ==
  /\ at[p] # "idle" /\ End(p)
  /\ UNCHANGED <<record, calls, call, quiet, kept>>

Next == \E p \in Process :
  Begin(p) \/ List(p) \/ OpenFails(p) \/ Open(p) \/ Write(p) \/ Remove(p) \/ Kill(p)

Spec == Init /\ [][Next]_vars

-----------------------------------------------------------------------------
(* What a call wrote that no conflicting one overlapped stays until its    *)
(* number is given to a put or a deletion: ejaDbNew takes no number twice, *)
(* whatever was deleted, killed or written at the same time as itself.     *)
RecordsKept == \A k \in kept : record[k.id] = k.n
=============================================================================
