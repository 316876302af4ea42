------------------------------ MODULE Library ------------------------------
(***************************************************************************)
(* Libraries and exported files (src/lib/sys.lua, load.lua, vm.lua).  Each *)
(* command of eja loads every library it finds before it looks at its      *)
(* options; --update and --install overwrite a library in place, --remove  *)
(* removes it, and --export writes a compiled copy of a script unless that *)
(* file exists.  Commands run in any number of processes with no lock.     *)
(*                                                                         *)
(* A file has a content of its own, to which its name may lead: a command  *)
(* that has it open goes on writing when the name is gone.                 *)
(***************************************************************************)
EXTENDS Naturals, FiniteSets

CONSTANTS
  Libs,       \* names of libraries; numbers, in the order of the alphabet
  Outs,       \* names of exported files
  MaxCmd,     \* how many commands are given
  Replies     \* what a server may send, one of two texts of the library among it

ASSUME LibraryAssumption ==
  /\ Libs \subseteq Nat \ {0} /\ IsFiniteSet(Libs)
  /\ Libs \cap Outs = {}
  /\ MaxCmd \in Nat
  /\ Replies \subseteq {"none", "short", "long", "part", "page"}

Cmd == 1..MaxCmd
NoFile == 0

VARIABLES
  name,       \* the file a name leads to, NoFile for none
  content,    \* what is in a file; a file has the number of the command that made it
  op,         \* what a command is to do
  arg,        \* and to which file
  pc,         \* where it is
  todo,       \* libraries it has still to load
  data,       \* what it is to write
  open,       \* the file it has open
  overlapped, \* history: another command ran at the same time
  crossed,    \* history: files that two commands had open, with different things to write
  troubled    \* history: a command was killed, or a server sent what is no library

fs      == <<name, content>>
process == <<op, arg, pc, todo, data, open>>
vars    == <<name, content, op, arg, pc, todo, data, open, overlapped, crossed, troubled>>

Whole   == {"short", "long"}        \* two texts of a library, of different length
Content == Whole \cup {"empty", "part", "page", "mix"}
Names   == Libs \cup Outs
Over    == {"new", "aborted", "killed", "notfound", "failed", "updated", "removed",
            "missing", "kept", "exported"}
Active  == {c \in Cmd : pc[c] \notin Over}

Typed ==
  /\ name \in [Names -> {NoFile} \cup Cmd]
  /\ content \in [Cmd -> Content]
  /\ op \in [Cmd -> {"none", "update", "remove", "export"}]
  /\ arg \in [Cmd -> Names \cup {NoFile}]
  /\ pc \in [Cmd -> Over \cup {"load", "open", "write"}]
  /\ todo \in [Cmd -> SUBSET Libs]
  /\ data \in [Cmd -> Content]
  /\ open \in [Cmd -> {NoFile} \cup Cmd]
  /\ overlapped \in [Cmd -> BOOLEAN]
  /\ crossed \subseteq Cmd
  /\ troubled \in BOOLEAN

(* Every variable has its type, and whoever writes has a file to write to  *)
(* (file.lua:33-36).                                                       *)
TypeOK == Typed /\ \A c \in Cmd : pc[c] = "write" => open[c] # NoFile

Init ==
  /\ name = [n \in Names |-> NoFile]
  /\ content = [c \in Cmd |-> "empty"]
  /\ op = [c \in Cmd |-> "none"]
  /\ arg = [c \in Cmd |-> NoFile]
  /\ pc = [c \in Cmd |-> "new"]
  /\ todo = [c \in Cmd |-> {}]
  /\ data = [c \in Cmd |-> "empty"]
  /\ open = [c \in Cmd |-> NoFile]
  /\ overlapped = [c \in Cmd |-> FALSE]
  /\ crossed = {}
  /\ troubled = FALSE

Goto(c, l) == pc' = [pc EXCEPT ![c] = l]

(* A command starts; it lists the directory of libraries.                  *)
Begin(c) ==
  /\ pc[c] = "new" /\ \A d \in 1..(c - 1) : pc[d] # "new"
  /\ \/ \E o \in {"update", "remove"}, l \in Libs :
          op' = [op EXCEPT ![c] = o] /\ arg' = [arg EXCEPT ![c] = l]
     \/ \E n \in Outs :
          op' = [op EXCEPT ![c] = "export"] /\ arg' = [arg EXCEPT ![c] = n]
  /\ todo' = [todo EXCEPT ![c] = {l \in Libs : name[l] # NoFile}]
  /\ overlapped' = [d \in Cmd |-> overlapped[d] \/ (Active # {} /\ d \in Active \cup {c})]
  /\ Goto(c, "load")
  /\ UNCHANGED <<data, open, crossed, troubled>> /\ UNCHANGED fs

(* A library is read as eja text if it is not marked as Lua or bytecode,   *)
(* which ends the program; so does one that is gone.  One that is broken   *)
(* off, or of two texts, is passed over, or ends the program where it is   *)
(* run.                                                                    *)
Unreadable(l) == name[l] = NoFile \/ content[name[l]] \in {"empty", "page"}
Sound(l)      == name[l] # NoFile /\ content[name[l]] \in Whole

Load(c) ==
  /\ pc[c] = "load" /\ todo[c] # {}
  /\ \E l \in todo[c] :
       /\ \A m \in todo[c] : l <= m
       /\ todo' = [todo EXCEPT ![c] = @ \ {l}]
       /\ \/ ~Sound(l) /\ Goto(c, "aborted")
          \/ ~Unreadable(l) /\ UNCHANGED pc
  /\ UNCHANGED <<op, arg, data, open, overlapped, crossed, troubled>> /\ UNCHANGED fs

Loaded(c, o) == pc[c] = "load" /\ todo[c] = {} /\ op[c] = o

(* Mutant: an empty answer is written like any other.                      *)
FetchUnchecked(c) ==
  /\ Loaded(c, "update")
  /\ \E r \in Replies :
       /\ data' = [data EXCEPT ![c] = IF r = "none" THEN "empty" ELSE r]
       /\ troubled' = (troubled \/ r \in {"part", "page"})
  /\ Goto(c, "open")
  /\ UNCHANGED <<op, arg, todo, open, overlapped, crossed>> /\ UNCHANGED fs

(* The servers are asked; what they send is taken for the library, a page  *)
(* about an error too.                                                     *)
Fetch(c) ==
  /\ Loaded(c, "update")
  /\ \E r \in Replies :
       \/ r = "none" /\ Goto(c, "notfound") /\ UNCHANGED <<data, troubled>>
       \/ /\ r # "none" /\ Goto(c, "open")
          /\ data' = [data EXCEPT ![c] = r]
          /\ troubled' = (troubled \/ r \notin Whole)
  /\ UNCHANGED <<op, arg, todo, open, overlapped, crossed>> /\ UNCHANGED fs

Remove(c) ==
  /\ Loaded(c, "remove")
  /\ Goto(c, IF name[arg[c]] = NoFile THEN "missing" ELSE "removed")
  /\ name' = [name EXCEPT ![arg[c]] = NoFile]
  /\ UNCHANGED <<content, op, arg, todo, data, open, overlapped, crossed, troubled>>

(* An export: the script may be missing, or not be one.  If the name given *)
(* to the output has no suffix the text itself is written, and nothing     *)
(* that eja can load.                                                      *)
CheckOutput(c) ==
  /\ Loaded(c, "export")
  /\ \/ pc' \in {[pc EXCEPT ![c] = "failed"], [pc EXCEPT ![c] = "missing"]} /\ UNCHANGED data
     \/ name[arg[c]] # NoFile /\ Goto(c, "kept") /\ UNCHANGED data
     \/ /\ name[arg[c]] = NoFile /\ Goto(c, "open")
        /\ \E d \in Whole \cup {"page"} : data' = [data EXCEPT ![c] = d]
  /\ UNCHANGED <<op, arg, todo, open, overlapped, crossed, troubled>> /\ UNCHANGED fs

(* The file a command opens.  Another command that has it open may be      *)
(* there to write something else.                                           *)
Opened(c)     == IF name[arg[c]] = NoFile THEN c ELSE name[arg[c]]
Crosses(c, f) == \E d \in Cmd : pc[d] = "write" /\ open[d] = f /\ data[d] # data[c]

(* Mutant: what is in the file is not cut off.                             *)
OpenAtStart(c) ==
  /\ pc[c] = "open"
  /\ name' = [name EXCEPT ![arg[c]] = Opened(c)]
  /\ open' = [open EXCEPT ![c] = Opened(c)]
  /\ crossed' = crossed \cup {f \in {Opened(c)} : Crosses(c, f)}
  /\ Goto(c, "write")
  /\ UNCHANGED <<content, op, arg, todo, data, overlapped, troubled>>

(* To open a file for writing empties it, or makes a new one.              *)
Open(c) ==
  /\ pc[c] = "open"
  /\ \/ \E f \in {Opened(c)} :
           /\ name' = [name EXCEPT ![arg[c]] = f]
           /\ open' = [open EXCEPT ![c] = f]
           /\ content' = [content EXCEPT ![f] = "empty"]
           /\ crossed' = IF Crosses(c, f) THEN crossed \cup {f} ELSE crossed
           /\ Goto(c, "write")
     \/ Goto(c, "failed") /\ UNCHANGED <<open, crossed>> /\ UNCHANGED fs
  /\ UNCHANGED <<op, arg, todo, data, overlapped, troubled>>

(* What a file has when new was written from its start over old: the end   *)
(* of a longer text stays, and of two texts written piece by piece each    *)
(* may leave some.  A page is what it begins as.                           *)
Overwrite(old, new) ==
  IF old = "empty" \/ new = "page" \/ (old = new /\ new \in Whole) THEN {new}
  ELSE IF old = "long" /\ new = "short" THEN {"mix"}
  ELSE {new, "mix"} \cup {x \in {old} : new = "part"}

Write(c) ==
  /\ pc[c] = "write"
  /\ \E x \in Overwrite(content[open[c]], data[c]) :
       content' = [content EXCEPT ![open[c]] = x]
  /\ Goto(c, IF op[c] = "update" THEN "updated" ELSE "exported")
  /\ UNCHANGED <<name, op, arg, todo, data, open, overlapped, crossed, troubled>>

(* A command is killed; what it had to write may be there in part.         *)
Kill(c) ==
  /\ c \in Active
  /\ Goto(c, "killed")
  /\ IF pc[c] = "write"
     THEN /\ troubled' = TRUE
          /\ \/ UNCHANGED content
             \/ \E x \in Overwrite(content[open[c]], IF data[c] = "page" THEN "page" ELSE "part") :
                  content' = [content EXCEPT ![open[c]] = x]
     ELSE UNCHANGED <<troubled, content>>
  /\ UNCHANGED <<name, op, arg, todo, data, open, overlapped, crossed>>

Next ==
  \E c \in Cmd :
    Begin(c) \/ Load(c) \/ Fetch(c) \/ Remove(c) \/ CheckOutput(c) \/ Open(c)
      \/ Write(c) \/ Kill(c)

Spec == Init /\ [][Next]_vars

-----------------------------------------------------------------------------
(* Properties.                                                             *)

(* Whatever updates and removals overlap, the libraries are whole when all *)
(* are over, unless one was killed while it wrote or a server sent what is *)
(* no library (sys.lua:75-81, 88-95).  Where two commands had received     *)
(* different texts and wrote them at the same time, and only there, a      *)
(* library may be left with some of both.                                  *)
AtRest ==
  Active = {} /\ ~troubled =>
    \A l \in Libs : name[l] # NoFile =>
      \/ content[name[l]] \in Whole
      \/ content[name[l]] = "mix" /\ name[l] \in crossed

(* A command that nobody disturbs comes to what it was given to do: what   *)
(* commands before it have left does not end it (load.lua:45-58), unless   *)
(* two of them wrote different texts to one library.                       *)
StartsAlone ==
  \A c \in Cmd : pc[c] = "aborted" =>
    overlapped[c] \/ troubled \/ (\E f \in crossed : arg[f] \in Libs)

(* A library that was said to be updated has what was received, and all of *)
(* it, until another command is given it (sys.lua:75-81).                  *)
Acknowledged ==
  \A c \in Cmd :
    pc[c] = "updated" /\ ~overlapped[c] /\ (\A d \in Cmd : d > c => arg[d] # arg[c]) =>
      name[arg[c]] # NoFile /\ content[name[arg[c]]] = data[c]

(* Of two exports to one file only one succeeds, unless they ran at the    *)
(* same time (vm.lua:215-222).                                             *)
ExportOnce ==
  \A c, d \in Cmd :
    c # d /\ pc[c] = "exported" /\ pc[d] = "exported" /\ arg[c] = arg[d] =>
      overlapped[c] /\ overlapped[d]

(* Commands that nobody disturbs do what they were given to do: none ends  *)
(* because of what others left, what was said to be updated is there, and  *)
(* of two exports to one file one is refused (load.lua:45-58).             *)
Undisturbed == TypeOK /\ StartsAlone /\ Acknowledged /\ ExportOnce
=============================================================================
