----------------------------- MODULE MCWebFiles -----------------------------
(***************************************************************************)
(* Processes that share files, one of five instances in each behaviour:    *)
(* commands that start and stop the daemon, one after the other (the       *)
(* variables and constants of WebControl itself) or three at a time, the   *)
(* workers of the upload area, one or two, and two processes that use the  *)
(* store of records.  What does not move stays as it is at the start.      *)
(***************************************************************************)
EXTENDS WebControl, TLC

CONSTANTS
  Three,   \* three of the commands, or three names of files
  Pair,    \* two workers, or two processes
  AtOnce,  \* how many of the three commands may run at the same time
  Records, \* bound of the numbers of records
  Calls    \* bound of the calls to the store

VARIABLES
  part,
  kind3, pc3, got3, child3, fd3, name3, content3, proc3, dying3, crashed3, hurt3, mixed3,
  size, stamp, now, pcs, req, seen, sizes, times, list, evict, linked, status,
  record, calls, at, call, writing, quiet, kept

Overlap == INSTANCE WebControl WITH
  Cmd <- Three, MaxActive <- AtOnce,
  kind <- kind3, pc <- pc3, got <- got3, child <- child3, fd <- fd3, name <- name3, content <- content3,
  proc <- proc3, dying <- dying3, crashed <- crashed3, hurt <- hurt3, mixed <- mixed3

(* Sizes below, at and above the limit; and, for two workers, so that what *)
(* they may add to the limit is less than what would have room under the   *)
(* names, with files that are equally old and so listed in any order.      *)
One == INSTANCE WebTaz WITH
  Worker <- {1}, Name <- Three, Kinds <- {"index", "bare", "get", "file", "form"}, Limit <- 3,
  Files <- {1, 2, 3, 4}, Forms <- {2, 4}, MaxTime <- 2, pc <- pcs
Two == INSTANCE WebTaz WITH
  Worker <- Pair, Name <- Three, Kinds <- {"file", "form"}, Limit <- 1,
  Files <- {1}, Forms <- {2}, MaxTime <- 0, pc <- pcs

Store == INSTANCE Db WITH Process <- Pair, MaxId <- Records, MaxCalls <- Calls, linked <- writing

ASSUME WebFilesAssumption ==
  /\ Three \subseteq Cmd /\ AtOnce \in Nat \ {0}
  /\ One!WebTazAssumption /\ Two!WebTazAssumption /\ Store!DbAssumption

ControlVars == <<kind, pc, got, child, fd, name, content, proc, dying, crashed, hurt, mixed>>
OverlapVars == <<kind3, pc3, got3, child3, fd3, name3, content3, proc3, dying3, crashed3, hurt3, mixed3>>
TazVars == <<size, stamp, now, pcs, req, seen, sizes, times, list, evict, linked, status>>
DbVars == <<record, calls, at, call, writing, quiet, kept>>
AllVars == <<part, ControlVars, OverlapVars, TazVars, DbVars>>

AllInit ==
  /\ part \in {"commands", "overlap", "upload", "uploads", "store"}
  /\ Init /\ Overlap!Init /\ Store!Init
  /\ IF part = "uploads" THEN Two!Init ELSE One!Init

Commands == part = "commands" /\ Next /\ UNCHANGED <<OverlapVars, TazVars, DbVars>>
Overlapping == part = "overlap" /\ Overlap!Next /\ UNCHANGED <<ControlVars, TazVars, DbVars>>
Upload == part = "upload" /\ One!Next /\ UNCHANGED <<ControlVars, OverlapVars, DbVars>>
Uploads == part = "uploads" /\ Two!Next /\ UNCHANGED <<ControlVars, OverlapVars, DbVars>>
Storing == part = "store" /\ Store!Next /\ UNCHANGED <<ControlVars, OverlapVars, TazVars>>
AllNext == UNCHANGED part /\ (Commands \/ Overlapping \/ Upload \/ Uploads \/ Storing)
AllSpec == AllInit /\ [][AllNext]_AllVars

Symmetry == Permutations(Three) \cup Permutations(Pair)

---------------------------------------------------------------------------
(* The file that overlapping commands leave behind can be read by the next *)
(* one (WebControl).                                                       *)
ReadableWhenOver == part = "overlap" => Overlap!TypeOK /\ Overlap!ReadableAtRest

(* A command that runs alone after others that overlapped does not fail,   *)
(* and the pid file is then right again (WebControl).                      *)
LoneRecovers == [][Overlap!RecoversStep]_OverlapVars

(* What is stored exceeds the limit by no more than one upload for each    *)
(* worker; with one worker the list it answers with fits and names what is *)
(* there, and an upload it acknowledges is stored whole (WebTaz).          *)
AreaKept ==
  /\ part = "upload" => One!TypeOK /\ One!Bounded /\ One!Trimmed /\ One!Acknowledged
  /\ part = "uploads" => Two!TypeOK /\ Two!Bounded

(* A record written while nobody interferes stays until it is replaced or  *)
(* deleted: no number is taken twice (Db).                                 *)
RecordsKept == part = "store" => Store!TypeOK /\ Store!RecordsKept

(* With one worker, a file is only given up for newer ones, if the limit   *)
(* has no room for them all (WebTaz).                                      *)
EvictsOldest == [][part = "upload" => One!EvictsStep]_TazVars
=============================================================================
