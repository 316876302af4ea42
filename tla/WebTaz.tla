------------------------------- MODULE WebTaz -------------------------------
(***************************************************************************)
(* The upload area of the web server (src/lib/webTaz.lua): every request   *)
(* lists the stored files, the newest first, and removes those that exceed *)
(* the size allowed; then it answers with the list, stores what was        *)
(* uploaded or names the file to send.                                     *)
(*                                                                         *)
(* Requests run in worker processes of their own and share nothing but the *)
(* directory, so a worker's list may be out of date by the time it removes *)
(* or stores.  Seconds pass when they like, so files may be equally old.   *)
(***************************************************************************)
EXTENDS Integers, Sequences, FiniteSets, Functions, SequencesExt

CONSTANTS
  Worker,   \* the processes that serve requests, each one after the other
  Name,     \* names of stored files
  Kinds,    \* requests: a subset of {"index", "bare", "get", "file", "form"}
  Limit,    \* the size allowed: eja.opt.webTaz
  Files,    \* sizes of bodies that arrive as files
  Forms,    \* sizes of queries and forms, which have room in the buffer
  MaxTime   \* bound of the clock

Nobody == "nobody"  \* a request that names no file

(* What the constants may be.                                              *)
WebTazAssumption ==
  /\ IsFiniteSet(Worker) /\ IsFiniteSet(Name) /\ Nobody \notin Name
  /\ Limit \in Nat /\ MaxTime \in Nat
  /\ Files \subseteq Nat \ {0} /\ Forms \subseteq Nat \ {0} /\ IsFiniteSet(Forms)

VARIABLES
  size,   \* the size of each stored file; Gone if there is none
  stamp,  \* when each was written
  now,    \* the time
  pc,     \* where each worker is
  req,    \* its request
  seen,   \* the names it found in the directory
  sizes,  \* what it found of their sizes: a[k].size; Gone if not looked at
  times,  \* and of their times: a[k].time
  list,   \* the names it goes on with: aData.data
  evict,  \* the names it has still to remove
  linked, \* workers whose open file still has its name
  status  \* the status of its last answer, or Aborted

vars == <<size, stamp, now, pc, req, seen, sizes, times, list, evict, linked, status>>
disk == <<size, stamp, now, linked>>
look == <<seen, sizes, times>>

Gone    == -1
Aborted == -1

(* "bare" is a file uploaded to a path without a query.                    *)
Request ==
  {r \in [kind : Kinds \cup {"index"}, name : Name \cup {Nobody},
          len : Files \cup Forms \cup {0}, time : 0..MaxTime] :
     /\ r.name = Nobody <=> r.kind \in {"index", "bare"}
     /\ r.len \in (CASE r.kind = "file" -> Files
                     [] r.kind = "form" -> Forms
                     [] OTHER -> {0})}

Stored == {n \in Name : size[n] # Gone}
Total  == SumFunctionOnSet(size, Stored)

TypeOK ==
  /\ size \in [Name -> Nat \cup {Gone}]
  /\ stamp \in [Name -> 0..MaxTime] /\ now \in 0..MaxTime
  /\ pc \in [Worker -> {"idle", "list", "stat", "evict", "answer", "write",
                        "tell", "serve"}]
  /\ req \in [Worker -> Request]
  /\ seen \in [Worker -> SUBSET Name]
  /\ sizes \in [Worker -> [Name -> Nat \cup {Gone}]]
  /\ times \in [Worker -> [Name -> 0..MaxTime]]
  /\ linked \subseteq Worker
  /\ list \in [Worker -> Seq(Name)] /\ evict \in [Worker -> Seq(Name)]
  /\ status \in [Worker -> {Aborted, 0, 200, 404, 413, 500}]

Unseen == [n \in Name |-> Gone]
Undated == [n \in Name |-> 0]

Init ==
  /\ size = [n \in Name |-> Gone] /\ stamp = [n \in Name |-> 0] /\ now = 0
  /\ pc = [w \in Worker |-> "idle"]
  /\ req = [w \in Worker |->
              [kind |-> "index", name |-> Nobody, len |-> 0, time |-> 0]]
  /\ seen = [w \in Worker |-> {}]
  /\ sizes = [w \in Worker |-> Unseen] /\ times = [w \in Worker |-> Undated]
  /\ list = [w \in Worker |-> <<>>] /\ evict = [w \in Worker |-> <<>>]
  /\ linked = {} /\ status = [w \in Worker |-> 0]

Goto(w, l) == pc' = [pc EXCEPT ![w] = l]

Tick ==
  /\ now < MaxTime
  /\ now' = now + 1
  /\ UNCHANGED <<size, stamp, pc, req, list, evict, linked, status>> /\ UNCHANGED look

-----------------------------------------------------------------------------
(* A request.  Its body was written to a file of its own by the web server *)
(* before, which is when the stored file dates from.                       *)
Begin(w) ==
  /\ pc[w] = "idle"
  /\ \E r \in Request :
       r.kind \in Kinds /\ r.time = now /\ req' = [req EXCEPT ![w] = r]
  /\ status' = [status EXCEPT ![w] = 200]
  /\ Goto(w, "list")
  /\ UNCHANGED disk /\ UNCHANGED look /\ UNCHANGED <<list, evict>>

End(w, s) ==
  /\ Goto(w, "idle")
  /\ status' = [status EXCEPT ![w] = s]
  /\ seen' = [seen EXCEPT ![w] = {}]
  /\ sizes' = [sizes EXCEPT ![w] = Unseen] /\ times' = [times EXCEPT ![w] = Undated]
  /\ list' = [list EXCEPT ![w] = <<>>]
  /\ evict' = [evict EXCEPT ![w] = <<>>]
  /\ UNCHANGED disk /\ UNCHANGED req

ReadDir(w) ==
  /\ pc[w] = "list"
  /\ seen' = [seen EXCEPT ![w] = Stored]
  /\ Goto(w, "stat")
  /\ UNCHANGED disk /\ UNCHANGED <<req, sizes, times, list, evict, status>>

(* The files are looked at one by one, and may be written in between.  One *)
(* that another worker removed has no stat, and the error ends the worker. *)
Stat(w) ==
  /\ pc[w] = "stat"
  /\ \E n \in seen[w] :
       /\ sizes[w][n] = Gone
       /\ IF n \in Stored
          THEN /\ sizes' = [sizes EXCEPT ![w][n] = size[n]]
               /\ times' = [times EXCEPT ![w][n] = stamp[n]]
               /\ UNCHANGED disk /\ UNCHANGED <<pc, req, seen, list, evict, status>>
          ELSE End(w, Aborted)

(* Mutant: the oldest file comes first.                                    *)
NewestFirstReversed(time, s) ==
  \A i, j \in DOMAIN s : i < j => time[s[i]] <= time[s[j]]

(* table.sort puts files that are equally old in any order.                *)
NewestFirst(time, s) == \A i, j \in DOMAIN s : i < j => time[s[i]] >= time[s[j]]

(* How many files of s, from the first on, have room together.             *)
Fitting(sz, s) ==
  Cardinality({k \in DOMAIN s : SumFunctionOnSet(sz, {s[i] : i \in 1..k}) <= Limit})

(* What was found decides which files are kept.                            *)
Plan(w) ==
  /\ pc[w] = "stat"
  /\ \A n \in seen[w] : sizes[w][n] # Gone
  /\ \E s \in SetToAllKPermutations(seen[w]) :
       LET room == Fitting(sizes[w], s) IN
       /\ Len(s) = Cardinality(seen[w]) /\ NewestFirst(times[w], s)
       /\ list' = [list EXCEPT ![w] = SubSeq(s, 1, room)]
       /\ evict' = [evict EXCEPT ![w] = SubSeq(s, room + 1, Len(s))]
  /\ sizes' = [sizes EXCEPT ![w] = Unseen] /\ times' = [times EXCEPT ![w] = Undated]
  /\ Goto(w, "evict")
  /\ UNCHANGED disk /\ UNCHANGED <<req, seen, status>>

(* Mutant: the name goes from the list and the file stays.                 *)
EvictListOnly(w) ==
  /\ pc[w] = "evict"
  /\ evict' = [evict EXCEPT ![w] = <<>>]
  /\ Goto(w, "answer")
  /\ UNCHANGED disk /\ UNCHANGED <<req, list, status>> /\ UNCHANGED look

Unlink(n) == linked' = {v \in linked : req[v].name # n}

(* Files are removed by name, whatever has become of them since.           *)
Evict(w) ==
  /\ pc[w] = "evict"
  /\ \/ /\ evict[w] # <<>>
        /\ size' = [size EXCEPT ![Head(evict[w])] = Gone]
        /\ Unlink(Head(evict[w]))
        /\ evict' = [evict EXCEPT ![w] = Tail(@)]
        /\ UNCHANGED pc
     \/ /\ evict[w] = <<>>
        /\ Goto(w, "answer")
        /\ UNCHANGED <<size, evict, linked>>
  /\ UNCHANGED <<stamp, now, req, list, status>> /\ UNCHANGED look

-----------------------------------------------------------------------------
Index(w) ==
  /\ pc[w] = "answer" /\ req[w].kind = "index"
  /\ End(w, 200)

(* The length of a query that is not there ends the worker.                *)
Bare(w) ==
  /\ pc[w] = "answer" /\ req[w].kind = "bare"
  /\ End(w, Aborted)

(* mv within one directory takes the place of the old file at once.        *)
Move(w) ==
  LET r == req[w] IN
  /\ pc[w] = "answer" /\ r.kind = "file"
  /\ Goto(w, "tell")
  /\ IF r.len > Limit
     THEN /\ status' = [status EXCEPT ![w] = 413]
          /\ UNCHANGED <<size, stamp, linked>>
     ELSE /\ size' = [size EXCEPT ![r.name] = r.len]
          /\ stamp' = [stamp EXCEPT ![r.name] = r.time]
          /\ Unlink(r.name)
          /\ UNCHANGED status
  /\ UNCHANGED <<now, req, list, evict>> /\ UNCHANGED look

(* Opening for writing makes the file empty; closing writes what there is. *)
Truncate(w) ==
  LET r == req[w] IN
  /\ pc[w] = "answer" /\ r.kind = "form"
  /\ Goto(w, "write")
  /\ size' = [size EXCEPT ![r.name] = 0]
  /\ stamp' = [stamp EXCEPT ![r.name] = now]
  /\ linked' = linked \cup {w}
  /\ UNCHANGED <<now, req, list, evict, status>> /\ UNCHANGED look

(* Two writers of one file leave the longer length; a file that was        *)
(* removed or replaced meanwhile is written without a name.                *)
Write(w) ==
  LET r == req[w] IN
  /\ pc[w] = "write"
  /\ Goto(w, "tell")
  /\ IF w \in linked
     THEN /\ size' = [size EXCEPT ![r.name] = IF @ > r.len THEN @ ELSE r.len]
          /\ stamp' = [stamp EXCEPT ![r.name] = now]
     ELSE UNCHANGED <<size, stamp>>
  /\ linked' = linked \ {w}
  /\ UNCHANGED <<now, req, list, evict, status>> /\ UNCHANGED look

(* The stored file is looked at again for the answer: if there is none by  *)
(* now, the status is 500, also for what was too large.                    *)
Tell(w) ==
  /\ pc[w] = "tell"
  /\ End(w, IF req[w].name \in Stored THEN status[w] ELSE 500)

Find(w) ==
  /\ pc[w] = "answer" /\ req[w].kind = "get"
  /\ IF Contains(list[w], req[w].name)
     THEN Goto(w, "serve") /\ UNCHANGED disk /\ UNCHANGED look
                           /\ UNCHANGED <<req, list, evict, status>>
     ELSE End(w, 404)

Serve(w) == pc[w] = "serve" /\ End(w, 200)

-----------------------------------------------------------------------------
WorkerStep(w) ==
  \/ Begin(w) \/ ReadDir(w) \/ Stat(w) \/ Plan(w) \/ Evict(w) \/ Index(w) \/ Bare(w)
  \/ Move(w) \/ Truncate(w) \/ Write(w) \/ Tell(w) \/ Find(w) \/ Serve(w)

Next == Tick \/ \E w \in Worker : WorkerStep(w)

Spec == Init /\ [][Next]_vars

-----------------------------------------------------------------------------
(* Properties.                                                             *)

(* The most one request can add: files up to the limit, forms of any size. *)
Largest == CHOOSE m \in Forms \cup {Limit} : \A k \in Forms : k <= m /\ Limit <= m

(* However requests overlap and however old their lists are, what is       *)
(* stored exceeds the limit by no more than one upload for each worker     *)
(* (webTaz.lua:9-26, 45-54).                                               *)
Bounded == Total <= Limit + Cardinality(Worker) * Largest

(* When requests do not overlap, a file is only given up if it and those   *)
(* that are no older are too large together (webTaz.lua:10-24).            *)
EvictsStep ==
  \A w \in Worker : \A n \in Range(evict'[w]) \ Range(evict[w]) :
    SumFunctionOnSet(size, {m \in Stored : stamp[m] >= stamp[n]}) > Limit
EvictsOldest == [][EvictsStep]_vars

(* When requests do not overlap, what the list leaves fits in the limit,   *)
(* and each name on it is a file (webTaz.lua:17-25).                       *)
Trimmed ==
  \A w \in Worker : pc[w] = "answer" => Total <= Limit /\ Range(list[w]) = Stored

(* When requests do not overlap, an upload that is answered with 200 is    *)
(* stored with its whole length (webTaz.lua:45-60).                        *)
Acknowledged ==
  \A w \in Worker :
    pc[w] = "idle" /\ status[w] = 200 /\ req[w].kind \in {"file", "form"}
      => size[req[w].name] = req[w].len
=============================================================================
