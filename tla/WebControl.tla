----------------------------- MODULE WebControl -----------------------------
(***************************************************************************)
(* Starting and stopping the web daemon of one port: the commands          *)
(* --web-start and --web-stop (src/lib/web.lua, ejaWebStart, ejaWebStop),  *)
(* the pid file they share (src/lib/pid.lua, src/lib/file.lua) and the     *)
(* daemons that try to get the port (ejaWeb).                              *)
(*                                                                         *)
(* Commands are processes of their own, so between any two system calls of *)
(* one another command, a daemon or the rest of the machine may act.       *)
(* MaxActive = 1 gives the administrator who waits for each command.       *)
(***************************************************************************)
EXTENDS Integers, FiniteSets

CONSTANTS
  Cmd,        \* the commands given, each once
  Pid,        \* the process identifiers in use on the machine
  MaxActive,  \* how many commands may run at the same time
  ForkMayFail \* whether processes or memory may run out

None == "none"  \* no file

(* Identifiers of one and of two digits are enough to tell widths apart.   *)
ASSUME WebControlAssumption ==
  /\ IsFiniteSet(Cmd)
  /\ None \notin Cmd
  /\ Pid \subseteq 1..99
  /\ MaxActive \in Nat \ {0}
  /\ ForkMayFail \in BOOLEAN

VARIABLES
  kind,     \* "start" or "stop"
  pc,       \* what each command does next
  got,      \* the number the command has read from the pid file
  child,    \* what fork returned to the command
  fd,       \* the file the command has open for writing
  name,     \* the file the path eja.pid.web_<port> leads to, if any
  content,  \* what is in each file
  proc,     \* what process each identifier stands for
  dying,    \* processes that were killed and have not released anything yet
  crashed,  \* history: a daemon ended without being stopped
  hurt,     \* history: a process that is no web daemon was killed
  mixed     \* history: commands that ran at the same time as another one

vars == <<kind, pc, got, child, fd, name, content, proc, dying, crashed, hurt, mixed>>
cmdVars  == <<kind, got, child, fd, mixed>>
procVars == <<proc, dying, crashed, hurt>>

Empty == 0        \* an empty file; no process has this identifier

Daemon == {"boot", "bound", "unbound", "serving", "stray", "spin"}
Active == {c \in Cmd : pc[c] \notin {"idle", "done", "abort"}}

Alive(p)  == proc[p] \in Daemon /\ p \notin dying
PortTaken == \E p \in Pid : proc[p] = "serving"

TypeOK ==
  /\ kind \in [Cmd -> {"start", "stop"}]
  /\ pc \in [Cmd -> {"idle", "read", "kill", "remove", "fork", "open", "write",
                     "done", "abort"}]
  /\ got \in [Cmd -> 0..99]
  /\ child \in [Cmd -> Pid \cup {Empty, -1}]
  /\ fd \in [Cmd -> Cmd \cup {None}]
  /\ name \in Cmd \cup {None}
  /\ content \in [Cmd -> -1..99]
  /\ proc \in [Pid -> Daemon \cup {"free", "stranger"}]
  /\ dying \subseteq Pid
  /\ crashed \in BOOLEAN /\ hurt \in BOOLEAN
  /\ mixed \subseteq Cmd

Init ==
  /\ kind = [c \in Cmd |-> "stop"]
  /\ pc = [c \in Cmd |-> "idle"]
  /\ got = [c \in Cmd |-> Empty]
  /\ child = [c \in Cmd |-> Empty]
  /\ fd = [c \in Cmd |-> None]
  /\ name = None
  /\ content = [c \in Cmd |-> Empty]
  /\ proc = [p \in Pid |-> "free"]
  /\ dying = {}
  /\ crashed = FALSE
  /\ hurt = FALSE
  /\ mixed = {}

-----------------------------------------------------------------------------
(* A command.                                                              *)

Goto(c, l) == pc' = [pc EXCEPT ![c] = l]

Started(c, k, l) ==
  /\ pc[c] = "idle"
  /\ Cardinality(Active) < MaxActive
  /\ kind' = [kind EXCEPT ![c] = k]
  /\ mixed' = IF Active = {} THEN mixed ELSE mixed \cup Active \cup {c}
  /\ Goto(c, l)
  /\ UNCHANGED <<got, child, fd, name, content>>
  /\ UNCHANGED procVars

(* Mutant: --web-start does not stop what runs.                            *)
BeginWithoutStop(c, k) == Started(c, k, IF k = "start" THEN "fork" ELSE "read")

(* Both commands begin with ejaPidKill.                                    *)
Begin(c, k) == Started(c, k, "read")

AfterKill(c) == IF kind[c] = "start" THEN "fork" ELSE "done"

(* No file gives false; an empty one gives nil to tonumber and ends the    *)
(* program in the comparison; -1, what fork returned, is passed over.      *)
Read(c) ==
  /\ pc[c] = "read"
  /\ \/ /\ name # None => content[name] < 0
        /\ Goto(c, AfterKill(c))
        /\ UNCHANGED got
     \/ /\ name # None /\ content[name] = Empty
        /\ Goto(c, "abort")
        /\ UNCHANGED got
     \/ /\ name # None /\ content[name] > 0
        /\ got' = [got EXCEPT ![c] = content[name]]
        /\ Goto(c, "kill")
  /\ UNCHANGED <<kind, child, fd, mixed, name, content>>
  /\ UNCHANGED procVars

Exists(p) == p \in Pid /\ proc[p] # "free"

(* Mutant: the signal only asks whether the process is there.              *)
SendKillZero(c) ==
  /\ pc[c] = "kill"
  /\ Goto(c, IF Exists(got[c]) THEN "remove" ELSE AfterKill(c))
  /\ UNCHANGED cmdVars /\ UNCHANGED procVars /\ UNCHANGED <<name, content>>

(* kill(pid, SIGKILL) returns before the process is gone.  When there is   *)
(* no such process the file is left as it is.                              *)
SendKill(c) ==
  LET p == got[c] IN
  /\ pc[c] = "kill"
  /\ \/ /\ ~Exists(p)
        /\ Goto(c, AfterKill(c))
        /\ UNCHANGED procVars
     \/ /\ Exists(p)
        /\ Goto(c, "remove")
        /\ dying' = dying \cup {p}
        /\ hurt' = (hurt \/ proc[p] = "stranger")
        /\ UNCHANGED <<proc, crashed>>
  /\ UNCHANGED cmdVars /\ UNCHANGED <<name, content>>

(* Mutant: the file of a stopped daemon stays.                             *)
RemoveForgotten(c) ==
  /\ pc[c] = "remove"
  /\ Goto(c, AfterKill(c))
  /\ UNCHANGED cmdVars /\ UNCHANGED procVars /\ UNCHANGED <<name, content>>

(* The path is removed, whatever it leads to by now.                       *)
Remove(c) ==
  /\ pc[c] = "remove"
  /\ name' = None
  /\ Goto(c, AfterKill(c))
  /\ UNCHANGED cmdVars /\ UNCHANGED procVars /\ UNCHANGED content

Fork(c) ==
  /\ pc[c] = "fork"
  /\ \E p \in Pid :
       /\ proc[p] = "free"
       /\ proc' = [proc EXCEPT ![p] = "boot"]
       /\ child' = [child EXCEPT ![c] = p]
  /\ Goto(c, "open")
  /\ UNCHANGED <<kind, got, fd, mixed, name, content, dying, crashed, hurt>>

(* A fork that fails is taken for a process of number -1.                  *)
ForkFail(c) ==
  /\ ForkMayFail
  /\ pc[c] = "fork"
  /\ child' = [child EXCEPT ![c] = -1]
  /\ Goto(c, "open")
  /\ UNCHANGED <<kind, got, fd, mixed, name, content>>
  /\ UNCHANGED procVars

(* Mutant: what is in the file stays until it is written over.             *)
OpenInPlace(c) ==
  /\ pc[c] = "open"
  /\ name' = IF name = None THEN c ELSE name
  /\ fd' = [fd EXCEPT ![c] = name']
  /\ Goto(c, "write")
  /\ UNCHANGED <<kind, got, child, mixed, content>>
  /\ UNCHANGED procVars

(* open(path, "w"): the file there is made empty, or a new one is made.    *)
Open(c) ==
  /\ pc[c] = "open"
  /\ name' = IF name = None THEN c ELSE name
  /\ fd' = [fd EXCEPT ![c] = name']
  /\ content' = [content EXCEPT ![name'] = Empty]
  /\ Goto(c, "write")
  /\ UNCHANGED <<kind, got, child, mixed>>
  /\ UNCHANGED procVars

(* Writing at the start of a file overwrites as many characters as the     *)
(* number has; a longer number that is there keeps its last digit.         *)
Width(n) == IF n = Empty THEN 0 ELSE IF n \in 1..9 THEN 1 ELSE 2

Overwrite(old, new) ==
  IF Width(new) >= Width(old) THEN new
  ELSE IF new = Empty THEN old
  ELSE new * 10 + (IF old = -1 THEN 1 ELSE old % 10)

(* Mutant: nothing is written when there is no process.                    *)
WriteIfForked(c) ==
  /\ pc[c] = "write"
  /\ content' = [content EXCEPT ![fd[c]] = IF child[c] = -1 THEN @ ELSE Overwrite(@, child[c])]
  /\ Goto(c, "done")
  /\ UNCHANGED cmdVars /\ UNCHANGED procVars /\ UNCHANGED name

Write(c) ==
  /\ pc[c] = "write"
  /\ content' = [content EXCEPT ![fd[c]] = Overwrite(@, child[c])]
  /\ Goto(c, "done")
  /\ UNCHANGED cmdVars /\ UNCHANGED procVars /\ UNCHANGED name

-----------------------------------------------------------------------------
(* A daemon sets up its socket; the results of bind and listen are not     *)
(* looked at.                                                              *)

Becomes(p, s) ==
  /\ proc' = [proc EXCEPT ![p] = s]
  /\ UNCHANGED cmdVars /\ UNCHANGED <<pc, name, content, dying, crashed, hurt>>

(* With SO_REUSEADDR only a socket that listens keeps the port from others.*)
Bind(p) ==
  /\ proc[p] = "boot" /\ p \notin dying
  /\ Becomes(p, IF PortTaken THEN "unbound" ELSE "bound")

(* An unbound socket listens on a port the kernel picks; a bound one whose *)
(* port another socket listens on does not listen, and accept fails on it  *)
(* for ever.                                                               *)
Listen(p) ==
  /\ p \notin dying
  /\ \/ proc[p] = "bound" /\ Becomes(p, IF PortTaken THEN "spin" ELSE "serving")
     \/ proc[p] = "unbound" /\ Becomes(p, "stray")

-----------------------------------------------------------------------------
(* The machine.                                                            *)

Die(p) ==
  /\ p \in dying
  /\ proc' = [proc EXCEPT ![p] = "free"]
  /\ dying' = dying \ {p}
  /\ UNCHANGED cmdVars /\ UNCHANGED <<pc, name, content, crashed, hurt>>

(* A daemon ends otherwise: for want of memory, or by an administrator.    *)
Crash(p) ==
  /\ Alive(p)
  /\ dying' = dying \cup {p}
  /\ crashed' = TRUE
  /\ UNCHANGED cmdVars /\ UNCHANGED <<pc, name, content, proc, hurt>>

(* Other programs start and end, and are given identifiers that are free.  *)
Stranger(p) ==
  /\ p \notin dying
  /\ \/ proc[p] = "free" /\ Becomes(p, "stranger")
     \/ proc[p] = "stranger" /\ Becomes(p, "free")

-----------------------------------------------------------------------------
CmdStep(c) ==
  \/ Read(c) \/ SendKill(c) \/ Remove(c) \/ Fork(c) \/ ForkFail(c)
  \/ Open(c) \/ Write(c)

Next ==
  \/ \E c \in Cmd, k \in {"start", "stop"} : Begin(c, k)
  \/ \E c \in Cmd : CmdStep(c)
  \/ \E p \in Pid : Bind(p) \/ Listen(p) \/ Die(p) \/ Crash(p) \/ Stranger(p)

Spec == Init /\ [][Next]_vars

-----------------------------------------------------------------------------
(* Properties.                                                             *)

(* When commands are given one at a time, between two of them every daemon *)
(* that runs is the one the pid file names, whatever crashed and whichever *)
(* forks failed: a daemon is never out of reach of --web-stop              *)
(* (web.lua:70-83).                                                        *)
NamedDaemon ==
  Active = {} =>
    \A p \in Pid : Alive(p) => name # None /\ content[name] = p

(* When a --web-stop that ran alone is over, no daemon is left running     *)
(* (web.lua:81-83, pid.lua:12-20).                                         *)
StopStops ==
  [][\A c \in Cmd :
       pc[c] # "done" /\ pc'[c] = "done" /\ kind[c] = "stop" /\ c \notin mixed
         => ~\E p \in Pid : Alive(p)']_vars

(* With commands given one at a time, a process that is no web daemon is   *)
(* killed only after a daemon ended by itself and left its number behind:  *)
(* the file goes when its daemon goes (pid.lua:15-16).                     *)
KillsOnlyDaemons == hurt => crashed

(* Also when commands overlap, the file they leave when all are over can   *)
(* be read by the next one: every truncation is followed by a write to the *)
(* same file (file.lua:32-42).                                             *)
ReadableAtRest == Active = {} /\ name # None => content[name] # Empty

(* Whatever commands that ran at the same time have left behind, one that  *)
(* runs alone does not end in an error, and a --web-start then leaves the  *)
(* number fork gave it in the pid file, and nothing else (pid.lua:4-20,    *)
(* file.lua:32-42).                                                        *)
RecoversStep ==
  \A c \in Cmd \ mixed :
    pc[c] # pc'[c] /\ pc'[c] \in {"done", "abort"} =>
      /\ pc'[c] = "done"
      /\ kind[c] = "start" => name' # None /\ content'[name'] = child[c]

(* A daemon that has set up its socket listens on the port it was given    *)
(* (web.lua:41-44).                                                        *)
StartServes == \A p \in Pid : proc[p] \notin {"stray", "spin"}
=============================================================================
