------------------------------ MODULE LuaFiles ------------------------------
(***************************************************************************)
(* The file handles of the io library (liolib.c).  A handle keeps the C    *)
(* stream and the function that closes it; the function is cleared when it *)
(* is closed, the stream is not, and the C library gives the address of a  *)
(* closed stream to the next file.  Handles are reached from the program,  *)
(* the default files and the iterators of lines, and closed by their       *)
(* finalizer when they no longer are.  What a file holds is the number of  *)
(* lines left to read.                                                     *)
(***************************************************************************)
EXTENDS Integers, Sequences, FiniteSets, SequencesExt

CONSTANTS
  Handles,      \* the handles that may exist at once, "in" and "out" among them
  Files,        \* the addresses of streams, "stdin" and "stdout" among them
  Iterators,    \* the iterators of lines that may exist at once
  Lines,        \* lines in a file
  Formats,      \* the formats of a read: sequences of "line", "all" and "eof"
  None

(* What the constants may be.                                              *)
ASSUME LuaFilesAssumption ==
  /\ {"in", "out"} \subseteq Handles /\ {"stdin", "stdout"} \subseteq Files
  /\ None \notin Handles \cup Files

VARIABLES
  streams,      \* the C library's: by ("closed", "fopen", "popen" or "std") and the lines left
  handles,      \* "free" or a record of f and closef
  default,      \* the default input and output
  iters,        \* "free" or a record of the handle, toclose and the formats
  holds,        \* the handles the program can reach
  final,        \* the handles whose finalizer was called
  undefined     \* a closed stream was used or a stream closed in the wrong way

filesVars == <<streams, handles, default, iters, holds, final, undefined>>

Free == [f |-> None, closef |-> "free"]
NoIter == [h |-> None, toclose |-> FALSE, formats |-> <<>>]
Std == {"stdin", "stdout"}

(* luaopen_io and createstdfile                                            *)
FilesInit ==
  /\ streams = [f \in Files |-> [by |-> IF f \in Std THEN "std" ELSE "closed", left |-> 0]]
  /\ handles = [h \in Handles |-> CASE h = "in" -> [f |-> "stdin", closef |-> "noclose"]
                                    [] h = "out" -> [f |-> "stdout", closef |-> "noclose"]
                                    [] OTHER -> Free]
  /\ default = [input |-> "in", output |-> "out"]
  /\ iters = [i \in Iterators |-> NoIter]
  /\ holds = {"in", "out"} /\ final = {} /\ undefined = FALSE

Closed(h) == handles[h].closef = "none"
Reached == holds \cup {default.input, default.output} \cup {iters[i].h : i \in Iterators}

---------------------------------------------------------------------------
(* A call that fails with an error, as one with a closed handle, leaves    *)
(* all as it was and is no step; results are left out.                     *)

(* A call of the C library on a stream, defined when the stream is open.   *)
Touch(f) == undefined' = (undefined \/ f = None \/ streams[f].by = "closed")

(* newprefile: a handle is made closed and gets its stream afterwards, so  *)
(* that one that was not opened is closed or has no stream.                *)
Opened(h, f, closef, by) ==
  /\ handles[h] = Free /\ h = CHOOSE free \in Handles : handles[free] = Free
  /\ handles' = [handles EXCEPT ![h] = [f |-> f, closef |-> closef]]
  /\ IF f = None THEN UNCHANGED streams
     ELSE streams[f].by = "closed" /\ streams' = [streams EXCEPT ![f] = [by |-> by, left |-> Lines]]

(* io.open, io.tmpfile and io.popen: the program gets the handle if there  *)
(* is a stream.                                                            *)
Open(h, f, kind) ==
  /\ Opened(h, f, IF kind = "popen" THEN "pclose" ELSE "fclose", kind)
  /\ holds' = IF f = None THEN holds ELSE holds \cup {h}
  /\ UNCHANGED <<default, iters, undefined>>

(* opencheck fails with an error.                                          *)
OpenCheck(h, f) == Opened(h, f, "fclose", "fopen")

(* io.input and io.output with a name or a handle                          *)
SetDefault(k, h, f) ==
  /\ OpenCheck(h, f)
  /\ default' = IF f = None THEN default ELSE [default EXCEPT ![k] = h]
  /\ UNCHANGED <<iters, holds, undefined>>
UseAsDefault(k, h) ==
  /\ h \in holds /\ ~Closed(h)
  /\ default' = [default EXCEPT ![k] = h]
  /\ UNCHANGED <<streams, handles, iters, holds, undefined>>
GetDefault(k) ==
  /\ holds' = holds \cup {default[k]}
  /\ UNCHANGED <<streams, handles, default, iters, undefined>>

(* aux_close: the handle is marked first; io_noclose marks it open again.  *)
(* Mutant: the handle is still marked open when it was closed.             *)
StillOpen(h) == handles[h]
Marked(h) == [handles[h] EXCEPT !.closef = IF @ = "noclose" THEN "noclose" ELSE "none"]
Closes(by) == CASE by = "fopen" -> "fclose" [] by = "popen" -> "pclose" [] OTHER -> "noclose"
AuxClose(h) ==
  LET f == handles[h].f
      std == handles[h].closef = "noclose"
  IN /\ handles' = [handles EXCEPT ![h] = Marked(h)]
     /\ undefined' = (undefined \/ f = None \/ Closes(streams[f].by) # handles[h].closef)
     /\ streams' = IF std \/ f = None THEN streams ELSE [streams EXCEPT ![f] = [by |-> "closed", left |-> 0]]

(* io.close and the method: without a file it is the default output.       *)
Close(h) ==
  /\ h \in holds \cup {default.output} /\ ~Closed(h)
  /\ AuxClose(h)
  /\ UNCHANGED <<default, iters, holds>>

(* The finalizer, which the program too can find in the metatable.  After  *)
(* the collector called it the handle is freed.                            *)
(* Mutant: only regular files are closed.                                  *)
FinalizeRegular(h) ==
  IF handles[h].closef = "fclose" /\ handles[h].f # None THEN AuxClose(h) ELSE UNCHANGED <<streams, handles, undefined>>
Finalize(h) ==
  IF ~Closed(h) /\ handles[h].f # None THEN AuxClose(h) ELSE UNCHANGED <<streams, handles, undefined>>
CallGc(h) ==
  /\ h \in holds /\ Finalize(h)
  /\ UNCHANGED <<default, iters, holds>>
Unreached(h) == handles[h] # Free /\ h \notin Reached
Gc(h) ==
  /\ Unreached(h) /\ h \notin final
  /\ Finalize(h) /\ final' = final \cup {h}
  /\ UNCHANGED <<default, iters, holds>>
Swept(h) ==
  /\ Unreached(h) /\ h \in final
  /\ handles' = [handles EXCEPT ![h] = Free] /\ final' = final \ {h}
  /\ UNCHANGED <<streams, default, iters, holds, undefined>>

Drop(h) ==
  /\ h \in holds /\ holds' = holds \ {h}
  /\ UNCHANGED <<streams, handles, default, iters, undefined>>

---------------------------------------------------------------------------
(* g_read: the formats are read in turn until one fails.  A line (of any   *)
(* kind), a number, the whole file, which never fails, and the test for    *)
(* the end.                                                                *)
After(left, format) == CASE format = "all" -> 0 [] format = "eof" -> left [] OTHER -> IF left > 0 THEN left - 1 ELSE 0
Succeeds(left, format) == format = "all" \/ left > 0

Left(left, formats, n) == FoldLeft(After, left, SubSeq(formats, 1, n))
Taken(left, formats) ==
  LET bad == {n \in DOMAIN formats : ~Succeeds(Left(left, formats, n - 1), formats[n])}
  IN IF bad = {} THEN Len(formats) ELSE CHOOSE n \in bad : \A m \in bad : n <= m
GRead(f, formats) ==
  /\ Touch(f)
  /\ streams' = [streams EXCEPT ![f].left = Left(streams[f].left, formats, Taken(streams[f].left, formats))]

Read(h, formats) ==
  /\ h \in holds \cup {default.input} /\ ~Closed(h)
  /\ GRead(handles[h].f, formats)
  /\ UNCHANGED <<handles, default, iters, holds>>

(* write, flush and setvbuf, and seek, which is back at the start          *)
Use(h, back) ==
  /\ h \in holds \cup {default.output} /\ ~Closed(h)
  /\ LET f == handles[h].f
     IN /\ Touch(f)
        /\ streams' = IF back /\ streams[f].by = "fopen" THEN [streams EXCEPT ![f].left = Lines] ELSE streams
  /\ UNCHANGED <<handles, default, iters, holds>>

(* lines of a handle or of the default input, and of a file of its own     *)
LinesOf(i, h, formats) ==
  /\ iters[i] = NoIter /\ h \in holds \cup {default.input}
  /\ ~Closed(h)
  /\ iters' = [iters EXCEPT ![i] = [h |-> h, toclose |-> FALSE, formats |-> formats]]
  /\ UNCHANGED <<streams, handles, default, holds, undefined>>
LinesOfName(i, h, f, formats) ==
  /\ iters[i] = NoIter /\ OpenCheck(h, f)
  /\ iters' = IF f = None THEN iters ELSE [iters EXCEPT ![i] = [h |-> h, toclose |-> TRUE, formats |-> formats]]
  /\ UNCHANGED <<default, holds, undefined>>

(* The iterator ends when the first of its results is nil, and closes a    *)
(* file of its own; an error of the device is raised and leaves it open.   *)
ReadLine(i, broken) ==
  LET it == iters[i]
      f == handles[it.h].f
  IN /\ it # NoIter /\ ~Closed(it.h)
     /\ IF ~broken /\ it.toclose /\ ~Succeeds(streams[f].left, it.formats[1])
        THEN AuxClose(it.h) ELSE GRead(f, it.formats) /\ UNCHANGED handles
     /\ UNCHANGED <<default, iters, holds>>
DropIterator(i) ==
  /\ iters[i] # NoIter /\ iters' = [iters EXCEPT ![i] = NoIter]
  /\ UNCHANGED <<streams, handles, default, holds, undefined>>

FilesCall ==
  \/ \E h \in Handles, f \in (Files \ Std) \cup {None} :
       \/ \E kind \in {"fopen", "popen"} : Open(h, f, kind)
       \/ \E k \in {"input", "output"} : SetDefault(k, h, f)
       \/ \E i \in Iterators, formats \in Formats : LinesOfName(i, h, f, formats)
  \/ \E k \in {"input", "output"} : GetDefault(k) \/ \E h \in Handles : UseAsDefault(k, h)
  \/ \E h \in Handles : Close(h) \/ CallGc(h) \/ Drop(h)
  \/ \E h \in Handles, formats \in Formats : Read(h, formats)
  \/ \E h \in Handles, back \in BOOLEAN : Use(h, back)
  \/ \E i \in Iterators :
       \/ \E h \in Handles, formats \in Formats : LinesOf(i, h, formats)
       \/ \E broken \in BOOLEAN : ReadLine(i, broken)
       \/ DropIterator(i)
FilesNext ==
  \/ FilesCall /\ UNCHANGED final
  \/ \E h \in Handles : Gc(h) \/ Swept(h)
FilesSpec == FilesInit /\ [][FilesNext]_filesVars /\ \A h \in Handles : WF_filesVars(Gc(h))

---------------------------------------------------------------------------
(* No stream is used or closed after it was closed, or by the function of  *)
(* the other kind, and every open one belongs to the one handle that is    *)
(* marked open and will close it, although the stream of a closed handle   *)
(* may be the same address.                                                *)
Owned ==
  /\ ~undefined
  /\ \A f \in Files : streams[f].by \in {"fopen", "popen"} =>
       Cardinality({h \in Handles : handles[h].f = f /\ handles[h].closef = Closes(streams[f].by)}) = 1
  /\ \A h \in Handles : handles[h].closef \in {"fclose", "pclose", "noclose"} /\ handles[h].f # None =>
       Closes(streams[handles[h].f].by) = handles[h].closef

(* A file that nothing can reach is closed in the end.                     *)
NoneLeaks ==
  \A h \in Handles :
    Unreached(h) /\ handles[h].f # None /\ handles[h].closef # "noclose" ~> Closed(h)
=============================================================================
