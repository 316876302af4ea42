--------------------------- MODULE WebFilesProofs ---------------------------
(***************************************************************************)
(* Proofs about the model of processes that share files, for any number of *)
(* commands at the same time, of processes, of records and of calls: what  *)
(* the pid file is good for when commands are given one at a time and when *)
(* they overlap, the store of records, and what is proved of the upload    *)
(* area carried over to the instances that TLC checks.                     *)
(***************************************************************************)
EXTENDS MCWebFiles, FiniteSetTheorems, TLAPS

OneP == INSTANCE WebTazProofs WITH
  Worker <- {1}, Name <- Three, Kinds <- {"index", "bare", "get", "file", "form"}, Limit <- 3,
  Files <- {1, 2, 3, 4}, Forms <- {2, 4}, MaxTime <- 2, pc <- pcs
TwoP == INSTANCE WebTazProofs WITH
  Worker <- Pair, Name <- Three, Kinds <- {"file", "form"}, Limit <- 1,
  Files <- {1}, Forms <- {2}, MaxTime <- 0, pc <- pcs

-----------------------------------------------------------------------------
(* The pid file, one command at a time.                                    *)
NoneAlive == \A p \in Pid : ~Alive(p)

(* Every daemon is named by the file, the file can be read, and unless a   *)
(* daemon ended by itself the file names one.                              *)
Settled ==
  /\ \A p \in Pid : Alive(p) => name # None /\ content[name] = p
  /\ name # None => content[name] # Empty
  /\ ~crashed /\ name # None /\ content[name] > 0
       => content[name] \in Pid /\ Alive(content[name])

(* Between fork and write only the new daemon runs.                        *)
Launched(c) ==
  /\ child[c] \in Pid \cup {-1}
  /\ \A p \in Pid : Alive(p) => p = child[c]
  /\ ~crashed /\ child[c] \in Pid => Alive(child[c])

CmdInv(c) ==
  /\ pc[c] = "read" => Settled
  /\ pc[c] = "kill" => /\ Settled
                       /\ name # None
                       /\ got[c] = content[name] /\ got[c] > 0
  /\ pc[c] \in {"remove", "fork"} => NoneAlive
  /\ pc[c] = "open" => Launched(c)
  /\ pc[c] = "write" => /\ Launched(c)
                        /\ fd[c] = name /\ name # None
                        /\ content[name] = Empty
  /\ pc[c] \in {"fork", "open", "write"} => kind[c] = "start"
  /\ pc[c] # "abort"

SerialInv ==
  /\ \A c, d \in Active : c = d
  /\ Active = {} => Settled
  /\ \A c \in Cmd : CmdInv(c)
  /\ \A p \in dying : proc[p] # "free"
  /\ KillsOnlyDaemons

-----------------------------------------------------------------------------
(* Types.                                                                  *)

(* What is written over a number of at most two characters is one.         *)
LEMMA OverwriteTyped ==
  ASSUME NEW old \in -1..99, NEW new \in Pid \cup {Empty, -1}
  PROVE  Overwrite(old, new) \in -1..99
BY WebControlAssumption DEF Overwrite, Width, Empty

LEMMA TypeInit == Init => TypeOK
<1> SUFFICES ASSUME Init PROVE TypeOK
  OBVIOUS
<1> USE DEF Init
<1>1. content \in [Cmd -> -1..99] /\ got \in [Cmd -> 0..99]
  BY DEF Empty
<1>2. /\ kind \in [Cmd -> {"start", "stop"}]
      /\ child \in [Cmd -> Pid \cup {Empty, -1}]
      /\ fd \in [Cmd -> Cmd \cup {None}] /\ name \in Cmd \cup {None}
  OBVIOUS
<1>3. /\ proc \in [Pid -> Daemon \cup {"free", "stranger"}]
      /\ dying \subseteq Pid /\ mixed \subseteq Cmd
      /\ crashed \in BOOLEAN /\ hurt \in BOOLEAN
  OBVIOUS
<1> QED
  BY <1>1, <1>2, <1>3 DEF TypeOK

LEMMA TypeNext == TypeOK /\ [Next]_vars => TypeOK'
<1> SUFFICES ASSUME TypeOK, [Next]_vars PROVE TypeOK'
  OBVIOUS
<1> USE WebControlAssumption DEF TypeOK, Goto, cmdVars, procVars, AfterKill, Daemon
<1>1. ASSUME NEW c \in Cmd, NEW k \in {"start", "stop"}, Begin(c, k)
      PROVE  TypeOK'
  <2>1. /\ UNCHANGED <<got, child, fd, name, content, proc, dying, crashed, hurt>>
        /\ kind' = [kind EXCEPT ![c] = k] /\ pc' = [pc EXCEPT ![c] = "read"]
    BY <1>1 DEF Begin, Started
  <2>2. mixed' \subseteq Cmd
    BY <1>1 DEF Begin, Started, Active
  <2> QED
    BY <2>1, <2>2
<1>2. ASSUME NEW c \in Cmd, CmdStep(c) PROVE TypeOK'
  <2>1. CASE Read(c)
    <3>1. content[name] > 0 /\ name # None => content[name] \in 0..99
      BY DEF Empty
    <3> QED
      BY <2>1, <3>1 DEF Read
  <2>2. CASE SendKill(c)
    BY <2>2, ZenonT(40) DEF SendKill, Exists
  <2>3. CASE Remove(c)
    BY <2>3 DEF Remove
  <2>4. CASE Fork(c)
    BY <2>4 DEF Fork
  <2>5. CASE ForkFail(c)
    BY <2>5 DEF ForkFail
  <2>6. CASE Open(c)
    BY <2>6 DEF Open, Empty
  <2>7. CASE Write(c)
    <3>1. ASSUME fd[c] \in Cmd PROVE content'[fd[c]] \in -1..99
      BY <2>7, <3>1, OverwriteTyped, ZenonT(40) DEF Write
    <3> QED
      BY <2>7, <3>1 DEF Write
  <2> QED
    BY <1>2, <2>1, <2>2, <2>3, <2>4, <2>5, <2>6, <2>7 DEF CmdStep
<1>3. ASSUME NEW p \in Pid, Bind(p) \/ Listen(p) \/ Die(p) \/ Crash(p) \/ Stranger(p)
      PROVE  TypeOK'
  <2>1. UNCHANGED <<kind, pc, got, child, fd, name, content, hurt, mixed>>
    BY <1>3 DEF Bind, Listen, Die, Crash, Stranger, Becomes
  <2>2. CASE Bind(p) \/ Listen(p) \/ Stranger(p)
    <3>1. UNCHANGED <<dying, crashed>>
      BY <2>2 DEF Bind, Listen, Stranger, Becomes
    <3>2. proc' \in [Pid -> Daemon \cup {"free", "stranger"}]
      BY <2>2 DEF Bind, Listen, Stranger, Becomes
    <3> QED
      BY <2>1, <3>1, <3>2
  <2>3. CASE Die(p)
    BY <2>1, <2>3 DEF Die
  <2>4. CASE Crash(p)
    BY <2>1, <2>4 DEF Crash
  <2> QED
    BY <1>3, <2>2, <2>3, <2>4
<1>4. CASE UNCHANGED vars
  BY <1>4 DEF vars
<1> QED
  BY <1>1, <1>2, <1>3, <1>4, ZenonT(40) DEF Next

(* Every variable has its type, the pid file holding at most two digits    *)
(* however writes overlap (pid.lua:4-9, file.lua:32-42).                   *)
THEOREM ControlTyped == Spec => []TypeOK
BY TypeInit, TypeNext, PTL DEF Spec

-----------------------------------------------------------------------------
(* Each command in its turn.                                               *)

LEMMA ActiveFinite == IsFiniteSet(Active) /\ Cardinality(Active) \in Nat
<1>1. Active \subseteq Cmd
  BY DEF Active
<1> QED
  BY <1>1, FS_Subset, FS_CardinalityType, WebControlAssumption

(* With MaxActive = 1 a command begins when none is active.                *)
LEMMA BeginsAlone ==
  ASSUME MaxActive = 1, NEW c \in Cmd, NEW k, Begin(c, k)
  PROVE  Active = {}
<1>1. Cardinality(Active) < 1
  BY DEF Begin, Started
<1> QED
  BY <1>1, ActiveFinite, FS_EmptySet

(* An empty file is overwritten by exactly what is written.                *)
LEMMA OverwriteEmpty ==
  ASSUME NEW new \in Pid \cup {-1}
  PROVE  Overwrite(Empty, new) = new
BY WebControlAssumption DEF Overwrite, Width, Empty

LEMMA SerialInit == Init => SerialInv
<1> SUFFICES ASSUME Init PROVE SerialInv
  OBVIOUS
<1>1. Active = {} /\ dying = {} /\ name = None
  BY DEF Init, Active
<1>2. NoneAlive
  BY DEF Init, NoneAlive, Alive, Daemon
<1>3. Settled
  BY <1>1, <1>2 DEF Settled, NoneAlive
<1>4. \A c \in Cmd : CmdInv(c)
  BY DEF Init, CmdInv
<1> QED
  BY <1>1, <1>3, <1>4 DEF SerialInv, Init, KillsOnlyDaemons

(* What a step of the one active command has to establish.                 *)
LEMMA SerialStep ==
  ASSUME TypeOK, SerialInv, NEW c \in Active, TypeOK',
         \A d \in Cmd : d # c => pc'[d] = pc[d],
         CmdInv(c)',
         pc'[c] # "idle",
         pc'[c] = "done" => Settled',
         \A p \in dying' : proc'[p] # "free",
         KillsOnlyDaemons'
  PROVE  SerialInv'
<1>1. \A d \in Cmd : d # c => pc[d] \in {"idle", "done"}
  BY DEF SerialInv, Active, CmdInv
<1>2. \A d \in Cmd : d # c => CmdInv(d)'
  BY <1>1 DEF CmdInv
<1>3. \A d \in Active' : d = c
  BY <1>1 DEF Active
<1>4. c \in Cmd /\ CmdInv(c)'
  BY DEF Active
<1>5. Active' = {} => Settled'
  <2>1. CASE pc'[c] = "done"
    BY <2>1
  <2>2. CASE pc'[c] # "done"
    BY <1>4, <2>2 DEF Active, CmdInv
  <2> QED
    BY <2>1, <2>2
<1> QED
  BY <1>2, <1>3, <1>4, <1>5 DEF SerialInv

(* The daemons and the machine leave the commands and the file alone, and  *)
(* make no daemon alive.                                                   *)
LEMMA SerialOutside ==
  ASSUME TypeOK, SerialInv,
         UNCHANGED cmdVars, UNCHANGED <<pc, name, content, hurt>>,
         \A p \in Pid : Alive(p)' => Alive(p),
         ~crashed' => \A p \in Pid : Alive(p) => Alive(p)',
         crashed => crashed',
         \A p \in dying' : proc'[p] # "free"
  PROVE  SerialInv'
<1> USE DEF cmdVars
<1>1. Settled => Settled'
  BY DEF Settled
<1>2. NoneAlive => NoneAlive'
  BY DEF NoneAlive
<1>3. \A c \in Cmd : Launched(c) => Launched(c)'
  BY DEF Launched
<1>4. Active' = Active
  BY DEF Active
<1>5. \A c \in Cmd : CmdInv(c)'
  BY <1>1, <1>2, <1>3 DEF SerialInv, CmdInv
<1>6. KillsOnlyDaemons'
  BY DEF SerialInv, KillsOnlyDaemons
<1> QED
  BY <1>1, <1>4, <1>5, <1>6 DEF SerialInv

LEMMA SerialNext ==
  MaxActive = 1 /\ TypeOK /\ SerialInv /\ [Next]_vars => SerialInv'
<1> SUFFICES ASSUME MaxActive = 1, TypeOK, SerialInv, [Next]_vars
             PROVE  SerialInv'
  OBVIOUS
<1>a. TypeOK'
  BY TypeNext
<1> USE WebControlAssumption
<1>1. ASSUME NEW c \in Cmd, NEW k \in {"start", "stop"}, Begin(c, k)
      PROVE  SerialInv'
  <2>1. Active = {}
    BY <1>1, BeginsAlone
  <2>2. Settled
    BY <2>1 DEF SerialInv
  <2>3. UNCHANGED procVars /\ UNCHANGED <<name, content>>
    BY <1>1 DEF Begin, Started
  <2>4. Settled'
    BY <2>2, <2>3 DEF Settled, Alive, procVars
  <2>5. pc'[c] = "read" /\ \A d \in Cmd : d # c => pc'[d] \in {"idle", "done"}
    BY <1>1, <2>1 DEF Begin, Started, Goto, TypeOK, SerialInv, Active, CmdInv
  <2>6. \A d \in Cmd : CmdInv(d)'
    BY <2>4, <2>5 DEF CmdInv
  <2>7. \A d \in Active' : d = c
    BY <2>5 DEF Active
  <2>8. \A p \in dying' : proc'[p] # "free"
    BY <2>3 DEF SerialInv, procVars
  <2>9. KillsOnlyDaemons'
    BY <2>3 DEF SerialInv, procVars, KillsOnlyDaemons
  <2> QED
    BY <2>4, <2>6, <2>7, <2>8, <2>9 DEF SerialInv
<1>2. ASSUME NEW c \in Cmd, CmdStep(c) PROVE SerialInv'
  <2>1. c \in Active
    BY <1>2 DEF CmdStep, Read, SendKill, Remove, Fork, ForkFail,
                Open, Write, Active
  <2>2. CmdInv(c) /\ KillsOnlyDaemons /\ \A p \in dying : proc[p] # "free"
    BY DEF SerialInv
  <2>3. \A d \in Cmd : d # c => pc'[d] = pc[d]
    BY <1>2 DEF CmdStep, Read, SendKill, Remove, Fork, ForkFail,
                Open, Write, Goto, TypeOK
  <2>k. kind' = kind
    BY <1>2 DEF CmdStep, Read, SendKill, Remove, Fork, ForkFail,
                Open, Write, cmdVars
  <2> DEFINE Good == /\ CmdInv(c)'
                     /\ pc'[c] # "idle"
                     /\ pc'[c] = "done" => Settled'
                     /\ \A p \in dying' : proc'[p] # "free"
                     /\ KillsOnlyDaemons'
  <2> SUFFICES Good
    BY <1>a, <2>1, <2>3, SerialStep
  <2>4. CASE Read(c)
    <3>1. UNCHANGED procVars /\ UNCHANGED <<name, content>> /\ pc[c] = "read"
      BY <2>4 DEF Read
    <3>2. Settled'
      BY <2>2, <3>1 DEF CmdInv, Settled, Alive, procVars
    <3>3. CASE (name # None => content[name] < 0) /\ Goto(c, AfterKill(c))
      <4>1. NoneAlive
        BY <2>2, <3>1, <3>3 DEF CmdInv, Settled, NoneAlive
      <4>2. NoneAlive'
        BY <3>1, <4>1 DEF NoneAlive, Alive, procVars
      <4>3. /\ pc'[c] \in {"fork", "done"}
            /\ pc'[c] = "fork" => kind[c] = "start"
        BY <3>3 DEF Goto, AfterKill, TypeOK
      <4> QED
        BY <2>k, <2>2, <3>1, <3>2, <4>2, <4>3 DEF CmdInv, procVars, KillsOnlyDaemons
    <3>4. CASE name # None /\ content[name] = Empty
      BY <2>2, <3>1, <3>4 DEF CmdInv, Settled
    <3>5. CASE /\ name # None /\ content[name] > 0
               /\ got' = [got EXCEPT ![c] = content[name]]
               /\ Goto(c, "kill")
      BY <2>k, <2>2, <3>1, <3>2, <3>5
         DEF CmdInv, procVars, KillsOnlyDaemons, Goto, TypeOK
    <3> QED
      BY <2>4, <3>3, <3>4, <3>5 DEF Read
  <2>5. CASE SendKill(c)
    <3> DEFINE p == got[c]
    <3>1. Settled /\ name # None /\ p = content[name] /\ p > 0
          /\ UNCHANGED <<name, content>>
      BY <2>2, <2>5 DEF SendKill, CmdInv
    <3>2. CASE ~Exists(p) /\ Goto(c, AfterKill(c)) /\ UNCHANGED procVars
      <4>1. NoneAlive /\ Settled'
        BY <3>1, <3>2 DEF Settled, NoneAlive, Alive, Exists, Daemon, procVars
      <4>2. NoneAlive'
        BY <3>2, <4>1 DEF NoneAlive, Alive, procVars
      <4>3. /\ pc'[c] \in {"fork", "done"}
            /\ pc'[c] = "fork" => kind[c] = "start"
        BY <3>2 DEF Goto, AfterKill, TypeOK
      <4> QED
        BY <2>k, <2>2, <3>2, <4>1, <4>2, <4>3 DEF CmdInv, procVars, KillsOnlyDaemons
    <3>3. CASE /\ Exists(p) /\ Goto(c, "remove")
               /\ dying' = dying \cup {p}
               /\ hurt' = (hurt \/ proc[p] = "stranger")
               /\ UNCHANGED <<proc, crashed>>
      <4>1. NoneAlive'
        BY <3>1, <3>3 DEF Settled, NoneAlive, Alive
      <4>2. pc'[c] = "remove"
        BY <3>3 DEF Goto, TypeOK
      <4>3. \A q \in dying' : proc'[q] # "free"
        BY <2>2, <3>3 DEF Exists
      <4>4. KillsOnlyDaemons'
        BY <2>2, <3>1, <3>3 DEF KillsOnlyDaemons, Settled, Alive, Daemon
      <4> QED
        BY <2>k, <4>1, <4>2, <4>3, <4>4 DEF CmdInv
    <3> QED
      BY <2>5, <3>2, <3>3 DEF SendKill
  <2>6. CASE Remove(c)
    <3>1. NoneAlive /\ UNCHANGED procVars /\ name' = None
      BY <2>2, <2>6 DEF Remove, CmdInv
    <3>2. NoneAlive'
      BY <3>1 DEF NoneAlive, Alive, procVars
    <3>3. Settled'
      BY <3>1, <3>2 DEF Settled, NoneAlive
    <3>4. /\ pc'[c] \in {"fork", "done"}
          /\ pc'[c] = "fork" => kind[c] = "start"
      BY <2>6 DEF Remove, Goto, AfterKill, TypeOK
    <3> QED
      BY <2>k, <2>2, <3>1, <3>2, <3>3, <3>4 DEF CmdInv, procVars, KillsOnlyDaemons
  <2>7. CASE Fork(c)
    <3>1. NoneAlive /\ pc'[c] = "open" /\ kind[c] = "start"
      BY <2>2, <2>7 DEF Fork, CmdInv, Goto, TypeOK
    <3>2. PICK p \in Pid : /\ proc[p] = "free"
                           /\ proc' = [proc EXCEPT ![p] = "boot"]
                           /\ child' = [child EXCEPT ![c] = p]
      BY <2>7 DEF Fork
    <3>3. UNCHANGED <<dying, crashed, hurt>>
      BY <2>7 DEF Fork
    <3>4. child'[c] = p /\ \A q \in Pid : Alive(q)' <=> q = p
      BY <2>2, <3>1, <3>2, <3>3 DEF NoneAlive, Alive, Daemon, TypeOK
    <3>5. Launched(c)'
      BY <3>4 DEF Launched
    <3>6. \A q \in dying' : proc'[q] # "free"
      BY <2>2, <3>2, <3>3 DEF TypeOK
    <3> QED
      BY <2>k, <2>2, <3>1, <3>3, <3>5, <3>6 DEF CmdInv, KillsOnlyDaemons
  <2>8. CASE ForkFail(c)
    <3>1. /\ NoneAlive /\ pc'[c] = "open" /\ kind[c] = "start"
          /\ child'[c] = -1 /\ UNCHANGED procVars
      BY <2>2, <2>8 DEF ForkFail, CmdInv, Goto, TypeOK
    <3>2. NoneAlive'
      BY <3>1 DEF NoneAlive, Alive, procVars
    <3>3. -1 \notin Pid
      OBVIOUS
    <3>4. Launched(c)'
      BY <3>1, <3>2, <3>3 DEF Launched, NoneAlive
    <3> QED
      BY <2>k, <2>2, <3>1, <3>4 DEF CmdInv, procVars, KillsOnlyDaemons
  <2>9. CASE Open(c)
    <3>1. /\ Launched(c) /\ pc'[c] = "write" /\ kind[c] = "start"
          /\ UNCHANGED procVars /\ UNCHANGED child
      BY <2>2, <2>9 DEF Open, CmdInv, Goto, TypeOK
    <3>2. name' \in Cmd /\ fd'[c] = name' /\ content'[name'] = Empty
      BY <2>9 DEF Open, TypeOK
    <3>3. Launched(c)'
      BY <3>1 DEF Launched, Alive, procVars
    <3> QED
      BY <2>k, <2>2, <3>1, <3>2, <3>3 DEF CmdInv, procVars, KillsOnlyDaemons
  <2>10. CASE Write(c)
    <3>1. /\ Launched(c) /\ pc'[c] = "done" /\ UNCHANGED procVars
          /\ UNCHANGED <<name, child>>
          /\ fd[c] = name /\ name \in Cmd /\ content[name] = Empty
      BY <2>2, <2>10 DEF Write, CmdInv, Goto, TypeOK, cmdVars
    <3>2. content'[name'] = Overwrite(Empty, child[c])
      BY <2>10, <3>1 DEF Write, TypeOK
    <3>3. child[c] \in Pid \cup {-1} /\ child[c] # Empty
      BY <3>1 DEF Launched, Empty
    <3>4. content'[name'] = child[c]
      BY <3>2, <3>3, OverwriteEmpty
    <3>5. Settled'
      <4>1. \A p \in Pid : Alive(p)' <=> Alive(p)
        BY <3>1 DEF Alive, procVars
      <4>2. name' # None /\ crashed' = crashed
        BY <3>1, WebControlAssumption DEF procVars
      <4>3. \A p \in Pid : Alive(p) => p = child[c]
        BY <3>1 DEF Launched
      <4>4. ~crashed /\ child[c] \in Pid => Alive(child[c])
        BY <3>1 DEF Launched
      <4>5. child[c] > 0 => child[c] \in Pid
        BY <3>3
      <4> QED
        BY <3>3, <3>4, <4>1, <4>2, <4>3, <4>4, <4>5 DEF Settled
    <3> QED
      BY <2>k, <2>2, <3>1, <3>5 DEF CmdInv, procVars, KillsOnlyDaemons
  <2> QED
    BY <1>2, <2>4, <2>5, <2>6, <2>7, <2>8, <2>9, <2>10 DEF CmdStep
<1>3. ASSUME NEW p \in Pid, Bind(p) \/ Listen(p) \/ Die(p) \/ Crash(p) \/ Stranger(p)
      PROVE  SerialInv'
  <2>1. UNCHANGED cmdVars /\ UNCHANGED <<pc, name, content, hurt>>
    BY <1>3 DEF Bind, Listen, Die, Crash, Stranger, Becomes
  <2>2. \A q \in Pid : Alive(q)' => Alive(q)
    BY <1>3 DEF Bind, Listen, Die, Crash, Stranger, Becomes, Alive, Daemon, TypeOK
  <2>3. ~crashed' => \A q \in Pid : Alive(q) => Alive(q)'
    BY <1>3 DEF Bind, Listen, Die, Crash, Stranger, Becomes, Alive, Daemon, TypeOK
  <2>4. crashed => crashed'
    BY <1>3 DEF Bind, Listen, Die, Crash, Stranger, Becomes
  <2>5. \A q \in dying' : proc'[q] # "free"
    <3>1. \A q \in dying : q \in Pid /\ proc[q] # "free"
      BY DEF SerialInv, TypeOK
    <3>2. CASE Bind(p) \/ Listen(p) \/ Stranger(p)
      <4>1. p \notin dying /\ dying' = dying
        BY <3>2 DEF Bind, Listen, Stranger, Becomes
      <4>2. \A q \in Pid : q # p => proc'[q] = proc[q]
        BY <3>2 DEF Bind, Listen, Stranger, Becomes, TypeOK
      <4> QED
        BY <3>1, <4>1, <4>2
    <3>3. CASE Die(p)
      BY <3>1, <3>3 DEF Die, TypeOK
    <3>4. CASE Crash(p)
      BY <3>1, <3>4 DEF Crash, Alive, Daemon
    <3> QED
      BY <1>3, <3>2, <3>3, <3>4
  <2> QED
    BY <2>1, <2>2, <2>3, <2>4, <2>5, SerialOutside
<1>4. CASE UNCHANGED vars
  BY <1>4, SerialOutside DEF vars, cmdVars, Alive, SerialInv
<1> QED
  BY <1>1, <1>2, <1>3, <1>4 DEF Next

-----------------------------------------------------------------------------
(* What follows for the administrator who waits for each command.          *)

LEMMA SerialCorrect == ASSUME MaxActive = 1 PROVE Spec => []SerialInv
<1>1. TypeOK /\ SerialInv /\ [Next]_vars => SerialInv'
  BY SerialNext
<1> QED
  BY <1>1, SerialInit, ControlTyped, PTL DEF Spec

(* Every daemon that runs is the one the pid file names, for every number  *)
(* of commands, crashes and failed forks (web.lua:70-83).                  *)
THEOREM NamedDaemonSerial == ASSUME MaxActive = 1 PROVE Spec => []NamedDaemon
<1>1. SerialInv => NamedDaemon
  BY DEF SerialInv, Settled, NamedDaemon
<1> QED
  BY <1>1, SerialCorrect, PTL

(* Without a crash only daemons are killed (pid.lua:15-16).                *)
THEOREM KillsOnlyDaemonsSerial == ASSUME MaxActive = 1 PROVE Spec => []KillsOnlyDaemons
<1>1. SerialInv => KillsOnlyDaemons
  BY DEF SerialInv
<1> QED
  BY <1>1, SerialCorrect, PTL

(* A --web-stop that is over has left no daemon running (web.lua:81-83).   *)
THEOREM StopStopsSerial == ASSUME MaxActive = 1 PROVE Spec => StopStops
<1>1. ASSUME TypeOK, SerialInv, Next, NEW c \in Cmd,
             pc[c] # "done", pc'[c] = "done", kind[c] = "stop"
      PROVE  NoneAlive'
  <2>1. CmdInv(c)
    BY <1>1 DEF SerialInv
  <2>2. Read(c) \/ SendKill(c) \/ Remove(c)
    <3>1. \A d \in Cmd, k \in {"start", "stop"} : ~Begin(d, k)
      BY <1>1 DEF TypeOK, Begin, Started, Goto
    <3>2. \A p \in Pid : ~(Bind(p) \/ Listen(p) \/ Die(p) \/ Crash(p) \/ Stranger(p))
      BY <1>1 DEF Bind, Listen, Die, Crash, Stranger, Becomes
    <3>3. PICK d \in Cmd : CmdStep(d)
      BY <1>1, <3>1, <3>2 DEF Next
    <3>4. d = c
      BY <1>1, <3>3 DEF CmdStep, Read, SendKill, Remove, Fork, ForkFail, Open, Write, Goto, TypeOK
    <3>5. pc[c] \notin {"fork", "open", "write"}
      BY <1>1, <2>1 DEF CmdInv
    <3> QED
      BY <3>3, <3>4, <3>5 DEF CmdStep, Fork, ForkFail, Open, Write
  <2>3. CASE Read(c)
    <3>1. (name # None => content[name] < 0) /\ Settled /\ UNCHANGED procVars
      BY <1>1, <2>1, <2>3 DEF Read, CmdInv, Goto, TypeOK
    <3> QED
      BY <3>1, WebControlAssumption DEF Settled, NoneAlive, Alive, procVars
  <2>4. CASE SendKill(c)
    <3>1. Settled /\ got[c] = content[name] /\ name # None
      BY <2>1, <2>4 DEF SendKill, CmdInv
    <3>2. ~Exists(got[c]) /\ UNCHANGED procVars
      BY <1>1, <2>4 DEF SendKill, Goto, TypeOK
    <3> QED
      BY <3>1, <3>2 DEF Settled, NoneAlive, Alive, Exists, Daemon, procVars
  <2>5. CASE Remove(c)
    BY <2>1, <2>5 DEF Remove, CmdInv, NoneAlive, Alive, procVars
  <2> QED
    BY <2>2, <2>3, <2>4, <2>5
<1> DEFINE Stops ==
      \A c \in Cmd :
        pc[c] # "done" /\ pc'[c] = "done" /\ kind[c] = "stop" /\ c \notin mixed
          => ~\E p \in Pid : Alive(p)'
<1>2. TypeOK /\ SerialInv /\ [Next]_vars => [Stops]_vars
  BY <1>1 DEF NoneAlive
<1> QED
  BY <1>2, ControlTyped, SerialCorrect, PTL DEF Spec, StopStops
-----------------------------------------------------------------------------
(* Commands that overlap.  Three of the commands are like all of them.     *)
LEMMA OverlapAssumed ==
  /\ IsFiniteSet(Three) /\ Overlap!None \notin Three /\ Overlap!None = "none"
  /\ Pid \subseteq 1..99 /\ ForkMayFail \in BOOLEAN /\ AtOnce \in Nat \ {0}
<1>1. IsFiniteSet(Three)
  BY WebFilesAssumption, WebControlAssumption, FS_Subset
<1>2. None \notin Three
  BY WebFilesAssumption, WebControlAssumption
<1> QED BY <1>1, <1>2, WebFilesAssumption, WebControlAssumption DEF Overlap!None, None

LEMMA OverlapStep ==
  ASSUME [AllNext]_AllVars
  PROVE  [Overlap!Next]_OverlapVars
<1>1. AllNext => Overlap!Next \/ UNCHANGED OverlapVars
  BY DEF AllNext, Commands, Overlapping, Upload, Uploads, Storing
<1> QED BY <1>1 DEF AllVars

(* What is written over a number of at most two characters is one.         *)
LEMMA OverlapWrites ==
  ASSUME NEW old \in -1..99, NEW new \in Pid \cup {Overlap!Empty, -1}
  PROVE  Overlap!Overwrite(old, new) \in -1..99
BY OverlapAssumed DEF Overlap!Overwrite, Overlap!Width, Overlap!Empty

LEMMA OverlapTypeInit == Overlap!Init => Overlap!TypeOK
<1> SUFFICES ASSUME Overlap!Init PROVE Overlap!TypeOK
  OBVIOUS
<1> USE DEF Overlap!Init
<1>1. content3 \in [Three -> -1..99] /\ got3 \in [Three -> 0..99]
  BY DEF Overlap!Empty
<1>2. /\ kind3 \in [Three -> {"start", "stop"}]
      /\ child3 \in [Three -> Pid \cup {Overlap!Empty, -1}]
      /\ fd3 \in [Three -> Three \cup {Overlap!None}] /\ name3 \in Three \cup {Overlap!None}
  OBVIOUS
<1>3. /\ proc3 \in [Pid -> Overlap!Daemon \cup {"free", "stranger"}]
      /\ dying3 \subseteq Pid /\ mixed3 \subseteq Three
      /\ crashed3 \in BOOLEAN /\ hurt3 \in BOOLEAN
  OBVIOUS
<1> QED
  BY <1>1, <1>2, <1>3 DEF Overlap!TypeOK

LEMMA OverlapTypeNext == Overlap!TypeOK /\ [Overlap!Next]_OverlapVars => Overlap!TypeOK'
<1> SUFFICES ASSUME Overlap!TypeOK, [Overlap!Next]_OverlapVars PROVE Overlap!TypeOK'
  OBVIOUS
<1> USE OverlapAssumed DEF Overlap!TypeOK, Overlap!Goto, Overlap!cmdVars, Overlap!procVars, Overlap!AfterKill, Overlap!Daemon
<1>1. ASSUME NEW c \in Three, NEW k \in {"start", "stop"}, Overlap!Begin(c, k)
      PROVE  Overlap!TypeOK'
  <2>1. /\ UNCHANGED <<got3, child3, fd3, name3, content3, proc3, dying3, crashed3, hurt3>>
        /\ kind3' = [kind3 EXCEPT ![c] = k] /\ pc3' = [pc3 EXCEPT ![c] = "read"]
    BY <1>1 DEF Overlap!Begin, Overlap!Started
  <2>2. mixed3' \subseteq Three
    BY <1>1 DEF Overlap!Begin, Overlap!Started, Overlap!Active
  <2> QED
    BY <2>1, <2>2
<1>2. ASSUME NEW c \in Three, Overlap!CmdStep(c) PROVE Overlap!TypeOK'
  <2>1. CASE Overlap!Read(c)
    <3>1. content3[name3] > 0 /\ name3 # Overlap!None => content3[name3] \in 0..99
      BY DEF Overlap!Empty
    <3> QED
      BY <2>1, <3>1 DEF Overlap!Read
  <2>2. CASE Overlap!SendKill(c)
    BY <2>2, ZenonT(40) DEF Overlap!SendKill, Overlap!Exists
  <2>3. CASE Overlap!Remove(c)
    BY <2>3 DEF Overlap!Remove
  <2>4. CASE Overlap!Fork(c)
    BY <2>4 DEF Overlap!Fork
  <2>5. CASE Overlap!ForkFail(c)
    BY <2>5 DEF Overlap!ForkFail
  <2>6. CASE Overlap!Open(c)
    BY <2>6 DEF Overlap!Open, Overlap!Empty
  <2>7. CASE Overlap!Write(c)
    <3>1. ASSUME fd3[c] \in Three PROVE content3'[fd3[c]] \in -1..99
      BY <2>7, <3>1, OverlapWrites, ZenonT(40) DEF Overlap!Write
    <3> QED
      BY <2>7, <3>1 DEF Overlap!Write
  <2> QED
    BY <1>2, <2>1, <2>2, <2>3, <2>4, <2>5, <2>6, <2>7 DEF Overlap!CmdStep
<1>3. ASSUME NEW p \in Pid, Overlap!Bind(p) \/ Overlap!Listen(p) \/ Overlap!Die(p) \/ Overlap!Crash(p) \/ Overlap!Stranger(p)
      PROVE  Overlap!TypeOK'
  <2>1. UNCHANGED <<kind3, pc3, got3, child3, fd3, name3, content3, hurt3, mixed3>>
    BY <1>3 DEF Overlap!Bind, Overlap!Listen, Overlap!Die, Overlap!Crash, Overlap!Stranger, Overlap!Becomes
  <2>2. CASE Overlap!Bind(p) \/ Overlap!Listen(p) \/ Overlap!Stranger(p)
    <3>1. UNCHANGED <<dying3, crashed3>>
      BY <2>2 DEF Overlap!Bind, Overlap!Listen, Overlap!Stranger, Overlap!Becomes
    <3>2. proc3' \in [Pid -> Overlap!Daemon \cup {"free", "stranger"}]
      BY <2>2 DEF Overlap!Bind, Overlap!Listen, Overlap!Stranger, Overlap!Becomes
    <3> QED
      BY <2>1, <3>1, <3>2
  <2>3. CASE Overlap!Die(p)
    BY <2>1, <2>3 DEF Overlap!Die
  <2>4. CASE Overlap!Crash(p)
    BY <2>1, <2>4 DEF Overlap!Crash
  <2> QED
    BY <1>3, <2>2, <2>3, <2>4
<1>4. CASE UNCHANGED OverlapVars
  BY <1>4 DEF OverlapVars
<1> QED
  BY <1>1, <1>2, <1>3, <1>4, ZenonT(40) DEF Overlap!Next

(* A file the path leads to is empty only until a command that has it open *)
(* writes, and what a command writes is never nothing.                     *)
WriterInv ==
  /\ \A c \in Three :
       /\ pc3[c] \in {"open", "write"} => child3[c] # Overlap!Empty
       /\ pc3[c] = "write" => fd3[c] \in Three
  /\ \A f \in Three :
       name3 = f /\ content3[f] = Overlap!Empty => \E c \in Three : pc3[c] = "write" /\ fd3[c] = f

(* A number written over another one leaves a number.                      *)
LEMMA OverwriteReadable ==
  ASSUME NEW old \in -1..99, NEW new \in Pid \cup {-1}
  PROVE  Overlap!Overwrite(old, new) # Overlap!Empty
<1>1. new \in 1..99 \/ new = -1
  BY OverlapAssumed
<1>2. old % 10 \in 0..9
  OBVIOUS
<1>3. CASE Overlap!Width(new) >= Overlap!Width(old)
  BY <1>1, <1>3 DEF Overlap!Overwrite, Overlap!Empty
<1>4. CASE ~(Overlap!Width(new) >= Overlap!Width(old))
  <2>1. new \in 1..9
    BY <1>1, <1>4 DEF Overlap!Width, Overlap!Empty
  <2>2. Overlap!Overwrite(old, new) = new * 10 + (IF old = -1 THEN 1 ELSE old % 10)
    BY <1>4, <2>1 DEF Overlap!Overwrite, Overlap!Empty
  <2> QED BY <1>2, <2>1, <2>2 DEF Overlap!Empty
<1> QED BY <1>3, <1>4

LEMMA WriterInit == Overlap!Init => WriterInv
BY OverlapAssumed DEF Overlap!Init, WriterInv

(* Steps that write no file and leave every writer where it is.            *)
LEMMA WriterStays ==
  ASSUME WriterInv, UNCHANGED <<fd3, content3>>, name3' \in {name3, Overlap!None},
         \A c \in Three : pc3[c] = "write" => pc3'[c] = "write",
         \A c \in Three : pc3'[c] = "write" => pc3[c] = "write",
         \A c \in Three : pc3'[c] \in {"open", "write"} => child3'[c] # Overlap!Empty
  PROVE  WriterInv'
<1>1. \A f \in Three : name3' = f => name3 = f
  BY OverlapAssumed
<1> QED BY <1>1 DEF WriterInv

LEMMA WriterNext == Overlap!TypeOK /\ WriterInv /\ [Overlap!Next]_OverlapVars => WriterInv'
<1> SUFFICES ASSUME Overlap!TypeOK, WriterInv, [Overlap!Next]_OverlapVars PROVE WriterInv'
  OBVIOUS
<1> USE OverlapAssumed DEF Overlap!cmdVars, Overlap!procVars, Overlap!Goto
<1>0. pc3 \in [Three -> {"idle", "read", "kill", "remove", "fork", "open", "write", "done", "abort"}]
  BY DEF Overlap!TypeOK
<1>1. ASSUME NEW c \in Three, NEW k \in {"start", "stop"}, Overlap!Begin(c, k) PROVE WriterInv'
  <2>1. pc3' = [pc3 EXCEPT ![c] = "read"] /\ pc3[c] = "idle" /\ UNCHANGED <<child3, fd3, name3, content3>>
    BY <1>1 DEF Overlap!Begin, Overlap!Started
  <2> QED BY <1>0, <2>1, WriterStays DEF WriterInv
<1>2. ASSUME NEW c \in Three, Overlap!Read(c) \/ Overlap!SendKill(c) \/ Overlap!Remove(c) PROVE WriterInv'
  <2>1. /\ UNCHANGED <<child3, fd3, content3>> /\ name3' \in {name3, Overlap!None}
        /\ pc3[c] \in {"read", "kill", "remove"}
    BY <1>2 DEF Overlap!Read, Overlap!SendKill, Overlap!Remove
  <2>2. \E l \in {"fork", "done", "abort", "kill", "remove"} : pc3' = [pc3 EXCEPT ![c] = l]
    BY <1>2 DEF Overlap!Read, Overlap!SendKill, Overlap!Remove, Overlap!AfterKill
  <2> QED BY <1>0, <2>1, <2>2, WriterStays DEF WriterInv
<1>3. ASSUME NEW c \in Three, Overlap!Fork(c) \/ Overlap!ForkFail(c) PROVE WriterInv'
  <2>1. /\ UNCHANGED <<fd3, content3, name3>> /\ pc3[c] = "fork" /\ pc3' = [pc3 EXCEPT ![c] = "open"]
    BY <1>3 DEF Overlap!Fork, Overlap!ForkFail
  <2>2. \E v \in Pid \cup {-1} : child3' = [child3 EXCEPT ![c] = v]
    BY <1>3 DEF Overlap!Fork, Overlap!ForkFail
  <2>3. child3'[c] # Overlap!Empty /\ \A d \in Three : d # c => child3'[d] = child3[d]
    BY <2>2 DEF Overlap!TypeOK, Overlap!Empty
  <2> QED BY <1>0, <2>1, <2>3, WriterStays DEF WriterInv
<1>4. ASSUME NEW c \in Three, Overlap!Open(c) PROVE WriterInv'
  <2>1. /\ pc3[c] = "open" /\ pc3' = [pc3 EXCEPT ![c] = "write"] /\ UNCHANGED child3
        /\ name3' = IF name3 = Overlap!None THEN c ELSE name3
        /\ fd3' = [fd3 EXCEPT ![c] = name3']
        /\ content3' = [content3 EXCEPT ![name3'] = Overlap!Empty]
    BY <1>4 DEF Overlap!Open
  <2>2. name3' \in Three
    BY <2>1 DEF Overlap!TypeOK
  <2>3. pc3'[c] = "write" /\ fd3'[c] = name3'
    BY <1>0, <2>1 DEF Overlap!TypeOK
  <2>4. \A d \in Three : d # c => pc3'[d] = pc3[d] /\ fd3'[d] = fd3[d]
    BY <1>0, <2>1 DEF Overlap!TypeOK
  <2> QED BY <2>1, <2>2, <2>3, <2>4 DEF WriterInv
<1>5. ASSUME NEW c \in Three, Overlap!Write(c) PROVE WriterInv'
  <2>1. /\ pc3[c] = "write" /\ pc3' = [pc3 EXCEPT ![c] = "done"] /\ UNCHANGED <<child3, fd3, name3>>
        /\ content3' = [content3 EXCEPT ![fd3[c]] = Overlap!Overwrite(@, child3[c])]
    BY <1>5 DEF Overlap!Write
  <2>2. fd3[c] \in Three /\ child3[c] \in Pid \cup {-1}
    BY <2>1 DEF WriterInv, Overlap!TypeOK
  <2>3. content3'[fd3[c]] # Overlap!Empty
    <3>1. content3[fd3[c]] \in -1..99
      BY <2>2 DEF Overlap!TypeOK
    <3>2. content3'[fd3[c]] = Overlap!Overwrite(content3[fd3[c]], child3[c])
      BY <2>1, <2>2 DEF Overlap!TypeOK
    <3> QED BY <2>2, <3>1, <3>2, OverwriteReadable
  <2>4. \A d \in Three : d # c => pc3'[d] = pc3[d]
    BY <1>0, <2>1
  <2>5. pc3'[c] = "done"
    BY <1>0, <2>1
  <2>6. \A f \in Three : f # fd3[c] => content3'[f] = content3[f]
    BY <2>1 DEF Overlap!TypeOK
  <2>7. ASSUME NEW f \in Three, name3' = f, content3'[f] = Overlap!Empty
        PROVE  \E d \in Three : pc3'[d] = "write" /\ fd3'[d] = f
    <3>1. f # fd3[c]
      BY <2>3, <2>7
    <3>2. PICK d \in Three : pc3[d] = "write" /\ fd3[d] = f
      BY <2>1, <2>6, <2>7, <3>1 DEF WriterInv
    <3> QED BY <2>1, <2>4, <3>1, <3>2
  <2>8. \A d \in Three : /\ pc3'[d] \in {"open", "write"} => child3'[d] # Overlap!Empty
                         /\ pc3'[d] = "write" => fd3'[d] \in Three
    BY <2>1, <2>4, <2>5 DEF WriterInv
  <2> QED BY <2>7, <2>8 DEF WriterInv
<1>6. ASSUME NEW p \in Pid, Overlap!Bind(p) \/ Overlap!Listen(p) \/ Overlap!Die(p) \/ Overlap!Crash(p) \/ Overlap!Stranger(p)
      PROVE  WriterInv'
  <2>1. UNCHANGED <<pc3, child3, fd3, name3, content3>>
    BY <1>6 DEF Overlap!Bind, Overlap!Listen, Overlap!Die, Overlap!Crash, Overlap!Stranger, Overlap!Becomes
  <2> QED BY <2>1 DEF WriterInv
<1>7. CASE UNCHANGED OverlapVars
  BY <1>7 DEF OverlapVars, WriterInv
<1> QED BY <1>1, <1>2, <1>3, <1>4, <1>5, <1>6, <1>7 DEF Overlap!Next, Overlap!CmdStep

LEMMA WriterReadable == Overlap!TypeOK /\ WriterInv => Overlap!ReadableAtRest
<1> SUFFICES ASSUME Overlap!TypeOK, WriterInv, Overlap!Active = {}, name3 # Overlap!None PROVE content3[name3] # Overlap!Empty
  BY DEF Overlap!ReadableAtRest
<1>1. \A c \in Three : pc3[c] # "write"
  BY DEF Overlap!Active
<1>2. name3 \in Three
  BY DEF Overlap!TypeOK
<1> QED BY <1>1, <1>2 DEF WriterInv

(* The file that overlapping commands leave can be read by the next one,   *)
(* for any number of commands at the same time and whichever forks fail:   *)
(* every truncation is followed by a write to the same file                *)
(* (file.lua:32-42).                                                       *)
THEOREM ReadableCorrect == AllSpec => []ReadableWhenOver
<1> DEFINE Inv == Overlap!TypeOK /\ WriterInv
<1>1. AllInit => Inv
  BY OverlapTypeInit, WriterInit DEF AllInit
<1>2. Inv /\ [AllNext]_AllVars => Inv'
  BY OverlapStep, OverlapTypeNext, WriterNext
<1>3. Inv => ReadableWhenOver
  BY WriterReadable DEF ReadableWhenOver
<1> QED BY <1>1, <1>2, <1>3, PTL DEF AllSpec

(* Who runs alone has no other command beside it, and has emptied the file *)
(* the path leads to when it is going to write.                            *)
LoneInv ==
  /\ \A c \in Overlap!Active \ mixed3 : Overlap!Active = {c}
  /\ \A c \in Three \ mixed3 :
       pc3[c] = "write" => name3 \in Three /\ fd3[c] = name3 /\ content3[name3] = Overlap!Empty

LEMMA LoneInit == Overlap!Init => LoneInv
BY DEF Overlap!Init, LoneInv, Overlap!Active

(* A step of a command leaves alone who was alone.                         *)
LEMMA LoneCommand ==
  ASSUME Overlap!TypeOK, LoneInv, NEW c \in Three, Overlap!CmdStep(c)
  PROVE  LoneInv'
<1> USE OverlapAssumed DEF Overlap!cmdVars, Overlap!procVars, Overlap!Goto
<1>0. pc3 \in [Three -> {"idle", "read", "kill", "remove", "fork", "open", "write", "done", "abort"}]
  BY DEF Overlap!TypeOK
<1>1. /\ pc3[c] \in {"read", "kill", "remove", "fork", "open", "write"} /\ mixed3' = mixed3
      /\ \A d \in Three : d # c => pc3'[d] = pc3[d]
  BY <1>0 DEF Overlap!CmdStep, Overlap!Read, Overlap!SendKill, Overlap!Remove, Overlap!Fork, Overlap!ForkFail,
              Overlap!Open, Overlap!Write
<1>2. c \in Overlap!Active /\ Overlap!Active' \subseteq Overlap!Active /\ Overlap!Active \subseteq Three
  BY <1>1 DEF Overlap!Active
<1>3. ASSUME NEW d \in Overlap!Active' \ mixed3 PROVE Overlap!Active' = {d}
  BY <1>2, <1>3 DEF LoneInv
<1>4. ASSUME NEW d \in Three \ mixed3, pc3'[d] = "write"
      PROVE  name3' \in Three /\ fd3'[d] = name3' /\ content3'[name3'] = Overlap!Empty
  <2>1. d = c
    <3>1. ASSUME d # c PROVE FALSE
      <4>1. d \in Overlap!Active \ mixed3
        BY <1>1, <1>4, <3>1 DEF Overlap!Active
      <4> QED
        BY <1>2, <3>1, <4>1 DEF LoneInv
    <3> QED
      BY <3>1
  <2>2. Overlap!Open(c)
    <3>1. pc3'[c] # "write" \/ pc3[c] = "open"
      <4>1. \/ \E l \in {"fork", "done", "abort", "kill", "remove", "open"} : pc3' = [pc3 EXCEPT ![c] = l]
            \/ pc3[c] = "open"
        BY DEF Overlap!CmdStep, Overlap!Read, Overlap!SendKill, Overlap!Remove, Overlap!Fork, Overlap!ForkFail,
               Overlap!Open, Overlap!Write, Overlap!AfterKill
      <4> QED
        BY <1>0, <4>1
    <3> QED
      BY <1>4, <2>1, <3>1 DEF Overlap!CmdStep, Overlap!Read, Overlap!SendKill, Overlap!Remove, Overlap!Fork,
                              Overlap!ForkFail, Overlap!Write
  <2>3. /\ name3' = IF name3 = Overlap!None THEN c ELSE name3
        /\ fd3' = [fd3 EXCEPT ![c] = name3']
        /\ content3' = [content3 EXCEPT ![name3'] = Overlap!Empty]
    BY <2>2 DEF Overlap!Open
  <2>4. name3' \in Three
    BY <2>3 DEF Overlap!TypeOK
  <2> QED
    BY <2>1, <2>3, <2>4 DEF Overlap!TypeOK
<1> QED
  BY <1>1, <1>3, <1>4 DEF LoneInv

LEMMA LoneNext == Overlap!TypeOK /\ LoneInv /\ [Overlap!Next]_OverlapVars => LoneInv'
<1> SUFFICES ASSUME Overlap!TypeOK, LoneInv, [Overlap!Next]_OverlapVars PROVE LoneInv'
  OBVIOUS
<1>1. ASSUME NEW c \in Three, NEW k \in {"start", "stop"}, Overlap!Begin(c, k) PROVE LoneInv'
  <2>1. /\ pc3[c] = "idle" /\ pc3' = [pc3 EXCEPT ![c] = "read"] /\ UNCHANGED <<fd3, name3, content3>>
        /\ mixed3' = IF Overlap!Active = {} THEN mixed3 ELSE mixed3 \cup Overlap!Active \cup {c}
    BY <1>1 DEF Overlap!Begin, Overlap!Started, Overlap!Goto
  <2>2. \A d \in Three : pc3'[d] = IF d = c THEN "read" ELSE pc3[d]
    BY <2>1 DEF Overlap!TypeOK
  <2>3. Overlap!Active' = Overlap!Active \cup {c}
    BY <2>1, <2>2 DEF Overlap!Active
  <2>4. \A d \in Three : pc3'[d] = "write" => d \in Overlap!Active
    BY <2>1, <2>2 DEF Overlap!Active
  <2>5. CASE Overlap!Active = {}
    BY <2>3, <2>4, <2>5 DEF LoneInv
  <2>6. CASE Overlap!Active # {}
    BY <2>1, <2>3, <2>4, <2>6 DEF LoneInv
  <2> QED
    BY <2>5, <2>6
<1>2. ASSUME NEW p \in Pid, Overlap!Bind(p) \/ Overlap!Listen(p) \/ Overlap!Die(p) \/ Overlap!Crash(p) \/ Overlap!Stranger(p)
      PROVE  LoneInv'
  <2>1. UNCHANGED <<pc3, fd3, name3, content3, mixed3>>
    BY <1>2 DEF Overlap!Bind, Overlap!Listen, Overlap!Die, Overlap!Crash, Overlap!Stranger, Overlap!Becomes,
                Overlap!cmdVars
  <2> QED
    BY <2>1 DEF LoneInv, Overlap!Active
<1>3. CASE UNCHANGED OverlapVars
  BY <1>3 DEF OverlapVars, LoneInv, Overlap!Active
<1> QED
  BY <1>1, <1>2, <1>3, LoneCommand DEF Overlap!Next

LEMMA LoneEnds ==
  ASSUME Overlap!TypeOK, WriterInv, LoneInv, [Overlap!Next]_OverlapVars
  PROVE  Overlap!RecoversStep
<1> SUFFICES ASSUME NEW c \in Three \ mixed3, pc3[c] # pc3'[c], pc3'[c] \in {"done", "abort"}
             PROVE  /\ pc3'[c] = "done"
                    /\ kind3[c] = "start" => name3' # Overlap!None /\ content3'[name3'] = child3[c]
  BY DEF Overlap!RecoversStep
<1> USE OverlapAssumed DEF Overlap!cmdVars, Overlap!procVars, Overlap!Goto
<1>0. pc3 \in [Three -> {"idle", "read", "kill", "remove", "fork", "open", "write", "done", "abort"}]
  BY DEF Overlap!TypeOK
<1>1. Overlap!CmdStep(c)
  <2>1. \A d \in Three, k \in {"start", "stop"} : ~Overlap!Begin(d, k)
    BY <1>0 DEF Overlap!Begin, Overlap!Started
  <2>2. \A p \in Pid : ~(Overlap!Bind(p) \/ Overlap!Listen(p) \/ Overlap!Die(p) \/ Overlap!Crash(p) \/ Overlap!Stranger(p))
    BY DEF Overlap!Bind, Overlap!Listen, Overlap!Die, Overlap!Crash, Overlap!Stranger, Overlap!Becomes
  <2>3. PICK d \in Three : Overlap!CmdStep(d)
    BY <2>1, <2>2 DEF Overlap!Next, OverlapVars
  <2>4. d = c
    BY <1>0, <2>3 DEF Overlap!CmdStep, Overlap!Read, Overlap!SendKill, Overlap!Remove, Overlap!Fork,
                      Overlap!ForkFail, Overlap!Open, Overlap!Write
  <2> QED
    BY <2>3, <2>4
<1>2. CASE Overlap!Read(c)
  <2>1. ~(name3 # Overlap!None /\ content3[name3] = Overlap!Empty)
    <3>1. SUFFICES ASSUME name3 # Overlap!None, content3[name3] = Overlap!Empty PROVE FALSE
      OBVIOUS
    <3>2. PICK d \in Three : pc3[d] = "write"
      BY <3>1 DEF WriterInv, Overlap!TypeOK
    <3>3. pc3[c] = "read" /\ c \in Overlap!Active \ mixed3 /\ d \in Overlap!Active
      BY <1>2, <3>2 DEF Overlap!Read, Overlap!Active
    <3> QED
      BY <3>2, <3>3 DEF LoneInv
  <2>2. pc3' = [pc3 EXCEPT ![c] = Overlap!AfterKill(c)] \/ pc3' = [pc3 EXCEPT ![c] = "kill"]
    BY <1>2, <2>1 DEF Overlap!Read
  <2> QED
    BY <1>0, <2>2 DEF Overlap!AfterKill
<1>3. CASE Overlap!SendKill(c) \/ Overlap!Remove(c)
  <2>1. pc3' = [pc3 EXCEPT ![c] = Overlap!AfterKill(c)] \/ pc3' = [pc3 EXCEPT ![c] = "remove"]
    BY <1>3 DEF Overlap!SendKill, Overlap!Remove
  <2> QED
    BY <1>0, <2>1 DEF Overlap!AfterKill
<1>4. CASE Overlap!Fork(c) \/ Overlap!ForkFail(c) \/ Overlap!Open(c)
  BY <1>0, <1>4 DEF Overlap!Fork, Overlap!ForkFail, Overlap!Open
<1>5. CASE Overlap!Write(c)
  <2>1. /\ pc3[c] = "write" /\ pc3' = [pc3 EXCEPT ![c] = "done"] /\ name3' = name3
        /\ content3' = [content3 EXCEPT ![fd3[c]] = Overlap!Overwrite(@, child3[c])]
    BY <1>5 DEF Overlap!Write
  <2>2. name3 \in Three /\ fd3[c] = name3 /\ content3[name3] = Overlap!Empty
    BY <2>1 DEF LoneInv
  <2>3. child3[c] \in Pid \cup {-1}
    BY <2>1 DEF WriterInv, Overlap!TypeOK
  <2>4. content3'[name3] = Overlap!Overwrite(Overlap!Empty, child3[c])
    BY <2>1, <2>2 DEF Overlap!TypeOK
  <2>5. Overlap!Overwrite(Overlap!Empty, child3[c]) = child3[c]
    BY <2>3 DEF Overlap!Overwrite, Overlap!Width, Overlap!Empty
  <2> QED
    BY <1>0, <2>1, <2>2, <2>4, <2>5
<1> QED
  BY <1>1, <1>2, <1>3, <1>4, <1>5 DEF Overlap!CmdStep

(* Whatever any number of commands that ran at the same time have left, a  *)
(* command that runs alone does not end in an error, and a --web-start     *)
(* leaves the number fork gave it in the pid file (pid.lua:4-20).          *)
THEOREM LoneRecoversCorrect == AllSpec => LoneRecovers
<1> DEFINE Inv == Overlap!TypeOK /\ WriterInv /\ LoneInv
<1>1. AllInit => Inv
  BY OverlapTypeInit, WriterInit, LoneInit DEF AllInit
<1>2. Inv /\ [AllNext]_AllVars => Inv'
  BY OverlapStep, OverlapTypeNext, WriterNext, LoneNext
<1>3. Inv /\ [AllNext]_AllVars => [Overlap!RecoversStep]_OverlapVars
  BY OverlapStep, LoneEnds
<1> QED
  BY <1>1, <1>2, <1>3, PTL DEF AllSpec, LoneRecovers

-----------------------------------------------------------------------------
(* The store of records.                                                   *)
Busy(p) == at[p] # "idle"

(* What the place of a process says of its call.                           *)
CallInv ==
  \A p \in Pair :
    /\ at[p] = "list" => call[p].op = "new" /\ call[p].id = 0
    /\ at[p] \in {"open", "write", "remove"} => call[p].id \in Store!Id
    /\ Busy(p) => call[p].n \in 1..Calls
    /\ p \in writing => at[p] = "write"

(* Who is quiet overlaps no conflicting call, so the file it writes is its *)
(* own and has been emptied by itself.                                     *)
QuietInv ==
  \A p \in quiet :
    /\ Busy(p) => \A q \in Pair \ {p} : Busy(q) => ~Store!Conflict(call[p], call[q])
    /\ at[p] = "write" => p \in writing /\ record[call[p].id] = Store!Empty

(* Nobody works on a record that is kept.                                  *)
StoredInv ==
  \A k \in kept :
    /\ record[k.id] = k.n
    /\ \A p \in Pair : Busy(p) => call[p].id # k.id

StoreInv == Store!TypeOK /\ CallInv /\ QuietInv /\ StoredInv

-----------------------------------------------------------------------------
LEMMA Counts == \A S : Store!Cardinality(S) = Cardinality(S)
BY DEF Store!Cardinality, Cardinality

LEMMA ConflictSym ==
  ASSUME NEW c, NEW d, Store!Conflict(c, d)
  PROVE  Store!Conflict(d, c)
BY DEF Store!Conflict

LEMMA CallTyped ==
  ASSUME StoreInv, NEW p \in Pair
  PROVE  /\ call[p].op \in {"new", "put", "del"} /\ call[p].id \in 0..Records /\ call[p].n \in 0..Calls
         /\ at[p] \in {"idle", "list", "open", "write", "remove"}
         /\ call[p] \in Store!Call
BY DEF StoreInv, Store!TypeOK, Store!Call

LEMMA StoreInit ==
  ASSUME Store!DbAssumption, Store!Init
  PROVE  StoreInv
<1>1. Store!TypeOK
  <2>1. [op |-> "new", id |-> 0, n |-> 0] \in Store!Call
    BY DEF Store!DbAssumption, Store!Call
  <2> QED BY <2>1 DEF Store!DbAssumption, Store!Init, Store!TypeOK, Store!Absent
<1>2. CallInv /\ QuietInv /\ StoredInv
  BY DEF Store!Init, CallInv, QuietInv, StoredInv, Busy
<1> QED BY <1>1, <1>2 DEF StoreInv

(* A call that ends otherwise than by what it was to do.                   *)
LEMMA EndStep ==
  ASSUME Store!DbAssumption, StoreInv, NEW p \in Pair, Store!End(p), UNCHANGED <<record, calls, call, quiet, kept>>
  PROVE  StoreInv'
<1> USE DEF StoreInv
<1>1. Store!TypeOK'
  BY DEF Store!TypeOK, Store!End
<1>2. \A q \in Pair : at'[q] = IF q = p THEN "idle" ELSE at[q]
  BY DEF Store!TypeOK, Store!End
<1>3. CallInv'
  BY <1>2 DEF CallInv, Store!End, Busy
<1>4. QuietInv'
  BY <1>2 DEF QuietInv, Store!End, Busy, Store!TypeOK
<1>5. StoredInv'
  BY <1>2 DEF StoredInv, Busy
<1> QED BY <1>1, <1>3, <1>4, <1>5

LEMMA BeginStep ==
  ASSUME Store!DbAssumption, StoreInv, NEW p \in Pair, Store!Begin(p)
  PROVE  StoreInv'
<1> USE DEF StoreInv
<1>0. PICK op \in {"new", "put", "del"} : \E id \in IF op = "new" THEN {0} ELSE Store!Id :
        LET c == [op |-> op, id |-> id, n |-> calls + 1]
            others == Store!Disturbed(p, c)
        IN /\ call' = [call EXCEPT ![p] = c]
           /\ at' = [at EXCEPT ![p] = CASE op = "new" -> "list" [] op = "put" -> "open" [] op = "del" -> "remove"]
           /\ quiet' = (IF others = {} THEN quiet \cup {p} ELSE quiet \ {p}) \ others
           /\ kept' = {k \in kept : k.id # id}
  BY DEF Store!Begin
<1>1. PICK id \in IF op = "new" THEN {0} ELSE Store!Id :
        LET c == [op |-> op, id |-> id, n |-> calls + 1]
            others == Store!Disturbed(p, c)
        IN /\ call' = [call EXCEPT ![p] = c]
           /\ at' = [at EXCEPT ![p] = CASE op = "new" -> "list" [] op = "put" -> "open" [] op = "del" -> "remove"]
           /\ quiet' = (IF others = {} THEN quiet \cup {p} ELSE quiet \ {p}) \ others
           /\ kept' = {k \in kept : k.id # id}
  BY <1>0
<1> DEFINE c == [op |-> op, id |-> id, n |-> calls + 1]
           others == Store!Disturbed(p, c)
           l == CASE op = "new" -> "list" [] op = "put" -> "open" [] op = "del" -> "remove"
<1>2. at[p] = "idle" /\ calls < Calls /\ calls' = calls + 1 /\ UNCHANGED <<record, writing>>
  BY DEF Store!Begin
<1>3. /\ c \in Store!Call /\ c.op = op /\ c.id = id /\ c.n \in 1..Calls
      /\ op = "new" => id = 0
      /\ op # "new" => id \in Store!Id
  BY <1>1, <1>2 DEF Store!DbAssumption, Store!TypeOK, Store!Call, Store!Id
<1>4. \A q \in Pair : /\ at'[q] = IF q = p THEN l ELSE at[q]
                      /\ call'[q] = IF q = p THEN c ELSE call[q]
  BY <1>1 DEF Store!TypeOK
<1>5. /\ quiet' = (IF others = {} THEN quiet \cup {p} ELSE quiet \ {p}) \ others
      /\ kept' = {k \in kept : k.id # id}
      /\ others \subseteq Pair
      /\ \A q \in Pair : q \in others <=> q # p /\ at[q] # "idle" /\ Store!Conflict(c, call[q])
  BY <1>1 DEF Store!Disturbed
<1>6. /\ l \in {"list", "open", "remove"} /\ (l = "list" => op = "new") /\ (l # "list" => op # "new")
  BY <1>1
<1>7. call' = [call EXCEPT ![p] = c] /\ at' = [at EXCEPT ![p] = l]
  BY <1>1
<1> HIDE DEF c, others, l
<1>8. Store!TypeOK'
  <2>1. calls' \in 0..Calls
    BY <1>2 DEF Store!DbAssumption, Store!TypeOK
  <2> QED BY <1>2, <1>3, <1>5, <1>6, <1>7, <2>1 DEF Store!TypeOK
<1>9. CallInv'
  BY <1>2, <1>3, <1>4, <1>6 DEF CallInv, Busy
<1>10. QuietInv'
  <2> SUFFICES ASSUME NEW q \in quiet'
               PROVE  /\ Busy(q)' => \A r \in Pair \ {q} : Busy(r)' => ~Store!Conflict(call'[q], call'[r])
                      /\ at'[q] = "write" => q \in writing' /\ record'[call'[q].id] = Store!Empty
    BY DEF QuietInv
  <2>1. CASE q = p
    <3>1. others = {}
      BY <1>5, <2>1
    <3> QED BY <1>4, <1>5, <1>6, <2>1, <3>1 DEF Busy
  <2>2. CASE q # p
    <3>1. q \in quiet /\ q \notin others /\ q \in Pair
      BY <1>5, <2>2 DEF Store!TypeOK
    <3>2. at[q] # "idle" => ~Store!Conflict(call[q], c)
      BY <1>5, <2>2, <3>1, ConflictSym
    <3> QED BY <1>2, <1>4, <2>2, <3>1, <3>2 DEF QuietInv, Busy
  <2> QED BY <2>1, <2>2
<1>11. StoredInv'
  BY <1>2, <1>3, <1>4, <1>5 DEF StoredInv, Busy
<1> QED BY <1>8, <1>9, <1>10, <1>11

(* The largest number, where there is at most one.                         *)
LEMMA LastOfOne ==
  ASSUME Store!DbAssumption, Cardinality(Store!Recorded) <= 1, NEW i \in Store!Recorded
  PROVE  Store!Last = i
<1>1. IsFiniteSet(Store!Recorded)
  <2>1. IsFiniteSet(1..Records)
    BY FS_Interval DEF Store!DbAssumption
  <2> QED BY <2>1, FS_Subset DEF Store!Recorded, Store!Id
<1>2. Cardinality(Store!Recorded) \in Nat /\ Cardinality(Store!Recorded) # 0
  BY <1>1, FS_CardinalityType, FS_EmptySet
<1>3. Cardinality(Store!Recorded) = 1
  BY <1>2
<1>4. PICK x : Store!Recorded = {x}
  BY <1>1, <1>3, FS_Singleton
<1>5. Store!Recorded = {i} /\ i \in Int
  BY <1>4 DEF Store!Recorded, Store!Id
<1>6. Store!Last = CHOOSE j \in {i} : \A k \in {i} : j >= k
  BY <1>5 DEF Store!Last
<1> QED BY <1>5, <1>6

LEMMA ListStep ==
  ASSUME Store!DbAssumption, StoreInv, NEW p \in Pair, Store!List(p)
  PROVE  StoreInv'
<1> USE DEF StoreInv
<1>1. at[p] = "list" /\ UNCHANGED <<record, calls, quiet, kept>>
  BY DEF Store!List
<1>2. CASE Cardinality(Store!Recorded) > 1
  BY <1>1, <1>2, EndStep, Counts DEF Store!List
<1>3. CASE ~(Cardinality(Store!Recorded) > 1)
  <2>1. /\ Store!Last < Records /\ call' = [call EXCEPT ![p].id = Store!Last + 1]
        /\ at' = [at EXCEPT ![p] = "open"] /\ UNCHANGED writing
    BY <1>3, Counts DEF Store!List
  <2>2. Cardinality(Store!Recorded) <= 1
    <3>1. IsFiniteSet(Store!Recorded)
      <4>1. IsFiniteSet(1..Records)
        BY FS_Interval DEF Store!DbAssumption
      <4> QED BY <4>1, FS_Subset DEF Store!Recorded, Store!Id
    <3>2. Cardinality(Store!Recorded) \in Nat
      BY <3>1, FS_CardinalityType
    <3> QED BY <1>3, <3>2
  <2>3. Store!Last \in 0..Records
    <3>1. CASE Store!Recorded = {}
      BY <3>1 DEF Store!DbAssumption, Store!Last
    <3>2. CASE Store!Recorded # {}
      <4>1. PICK i \in Store!Recorded : TRUE
        BY <3>2
      <4>2. Store!Last = i /\ i \in Store!Id
        BY <2>2, <4>1, LastOfOne DEF Store!Recorded
      <4> QED BY <4>2 DEF Store!Id
    <3> QED BY <3>1, <3>2
  <2>4. Store!Last + 1 \in Store!Id /\ Store!Last + 1 \in 0..Records
    BY <2>1, <2>3 DEF Store!DbAssumption, Store!Id
  <2>5. \A k \in kept : k.id # Store!Last + 1
    <3> SUFFICES ASSUME NEW k \in kept PROVE k.id # Store!Last + 1
      OBVIOUS
    <3>1. k.id \in Store!Id /\ k.n \in 1..Calls
      BY DEF Store!TypeOK, Store!Kept
    <3>2. record[k.id] = k.n
      BY DEF StoredInv
    <3>3. k.id \in Store!Recorded
      BY <3>1, <3>2 DEF Store!Recorded, Store!Absent
    <3>4. Store!Last = k.id
      BY <2>2, <3>3, LastOfOne
    <3> QED BY <2>3, <3>4
  <2>6. /\ call[p].op = "new" /\ call[p] \in Store!Call
        /\ call' = [call EXCEPT ![p] = [call[p] EXCEPT !.id = Store!Last + 1]]
    BY <1>1, <2>1 DEF CallInv, Store!TypeOK
  <2> DEFINE c == [call[p] EXCEPT !.id = Store!Last + 1]
  <2>7. c \in Store!Call /\ c.op = "new" /\ c.id = Store!Last + 1 /\ c.n = call[p].n
    BY <2>4, <2>6 DEF Store!Call
  <2> HIDE DEF c
  <2>8. \A q \in Pair : /\ at'[q] = IF q = p THEN "open" ELSE at[q]
                        /\ call'[q] = IF q = p THEN c ELSE call[q]
    BY <2>1, <2>6 DEF Store!TypeOK, c
  <2>9. Store!TypeOK'
    BY <1>1, <2>1, <2>6, <2>7 DEF Store!TypeOK, c
  <2>10. CallInv'
    BY <1>1, <2>1, <2>4, <2>7, <2>8 DEF CallInv, Busy
  <2>11. QuietInv'
    <3> SUFFICES ASSUME NEW q \in quiet
                 PROVE  /\ Busy(q)' => \A r \in Pair \ {q} : Busy(r)' => ~Store!Conflict(call'[q], call'[r])
                        /\ at'[q] = "write" => q \in writing' /\ record'[call'[q].id] = Store!Empty
      BY <1>1 DEF QuietInv
    <3>1. q \in Pair /\ \A r \in Pair : Store!Conflict(call[p], call[r]) /\ Store!Conflict(call[r], call[p])
      BY <2>6 DEF Store!Conflict, Store!TypeOK
    <3> QED BY <1>1, <2>1, <2>8, <3>1 DEF QuietInv, Busy
  <2>12. StoredInv'
    BY <1>1, <2>5, <2>7, <2>8 DEF StoredInv, Busy
  <2> QED BY <2>9, <2>10, <2>11, <2>12
<1> QED BY <1>2, <1>3

LEMMA OpenStep ==
  ASSUME Store!DbAssumption, StoreInv, NEW p \in Pair, Store!Open(p)
  PROVE  StoreInv'
<1> USE DEF StoreInv
<1>1. /\ at[p] = "open" /\ UNCHANGED <<calls, call, quiet, kept>> /\ writing' = writing \cup {p}
      /\ record' = [record EXCEPT ![call[p].id] = Store!Empty] /\ at' = [at EXCEPT ![p] = "write"]
  BY DEF Store!Open
<1>2. call[p].id \in Store!Id
  BY <1>1 DEF CallInv
<1>3. /\ \A q \in Pair : at'[q] = IF q = p THEN "write" ELSE at[q]
      /\ \A i \in Store!Id : record'[i] = IF i = call[p].id THEN Store!Empty ELSE record[i]
  BY <1>1, <1>2 DEF Store!TypeOK
<1>4. Store!TypeOK'
  BY <1>1, <1>2 DEF Store!TypeOK
<1>5. CallInv'
  BY <1>1, <1>2, <1>3 DEF CallInv, Busy
<1>6. QuietInv'
  <2> SUFFICES ASSUME NEW q \in quiet
               PROVE  /\ Busy(q)' => \A r \in Pair \ {q} : Busy(r)' => ~Store!Conflict(call[q], call[r])
                      /\ at'[q] = "write" => q \in writing' /\ record'[call[q].id] = Store!Empty
    BY <1>1 DEF QuietInv
  <2>1. q \in Pair
    BY DEF Store!TypeOK
  <2>2. Busy(q)' => \A r \in Pair \ {q} : Busy(r)' => ~Store!Conflict(call[q], call[r])
    BY <1>1, <1>3, <2>1 DEF QuietInv, Busy
  <2>3. at'[q] = "write" => q \in writing' /\ record'[call[q].id] = Store!Empty
    <3>1. CASE q = p
      BY <1>1, <1>2, <1>3, <3>1
    <3>2. CASE q # p /\ at[q] = "write"
      <4>1. call[q].id \in Store!Id /\ q \in writing /\ record[call[q].id] = Store!Empty
        BY <2>1, <3>2 DEF CallInv, QuietInv
      <4> QED BY <1>1, <1>3, <4>1
    <3> QED BY <1>3, <2>1, <3>1, <3>2
  <2> QED BY <2>2, <2>3
<1>7. StoredInv'
  <2> SUFFICES ASSUME NEW k \in kept
               PROVE  record'[k.id] = k.n /\ \A q \in Pair : Busy(q)' => call[q].id # k.id
    BY <1>1 DEF StoredInv
  <2>1. k.id \in Store!Id
    BY DEF Store!TypeOK, Store!Kept
  <2>2. \A q \in Pair : Busy(q) => call[q].id # k.id
    BY DEF StoredInv
  <2>3. Busy(p) /\ \A q \in Pair : Busy(q)' => Busy(q)
    BY <1>1, <1>3 DEF Busy
  <2> QED BY <1>3, <2>1, <2>2, <2>3 DEF StoredInv
<1> QED BY <1>4, <1>5, <1>6, <1>7

LEMMA WriteStep ==
  ASSUME Store!DbAssumption, StoreInv, NEW p \in Pair, Store!Write(p)
  PROVE  StoreInv'
<1> USE DEF StoreInv
<1> DEFINE c == call[p]
<1>1. /\ at[p] = "write" /\ UNCHANGED <<calls, call, quiet>> /\ writing' = writing \ {p} /\ at' = [at EXCEPT ![p] = "idle"]
      /\ kept' = IF p \in quiet THEN kept \cup {[id |-> c.id, n |-> c.n]} ELSE kept
  BY DEF Store!Write, Store!End
<1>2. c.id \in Store!Id /\ c.n \in 1..Calls /\ Busy(p)
  BY <1>1 DEF CallInv, Busy
<1>3. \E text \in {Store!Absent, Store!Empty, Store!Mixed} \cup 1..Calls :
        /\ record' = [record EXCEPT ![c.id] = text]
        /\ p \in quiet => text = c.n
  <2>1. CASE p \in writing
    <3>1. PICK text \in {c.n} \cup (IF record[c.id] = Store!Empty THEN {} ELSE {Store!Mixed}) :
            record' = [record EXCEPT ![c.id] = text]
      BY <2>1 DEF Store!Write
    <3>2. p \in quiet => record[c.id] = Store!Empty
      BY <1>1 DEF QuietInv
    <3> QED BY <1>2, <3>1, <3>2
  <2>2. CASE p \notin writing
    <3>1. p \notin quiet
      BY <1>1, <2>2 DEF QuietInv
    <3>2. record' = record /\ record[c.id] \in {Store!Absent, Store!Empty, Store!Mixed} \cup 1..Calls
      BY <1>2, <2>2 DEF Store!Write, Store!TypeOK
    <3>3. record' = [record EXCEPT ![c.id] = record[c.id]]
      BY <1>2, <3>2 DEF Store!TypeOK
    <3> QED BY <3>1, <3>2, <3>3
  <2> QED BY <2>1, <2>2
<1>4. PICK text \in {Store!Absent, Store!Empty, Store!Mixed} \cup 1..Calls :
        record' = [record EXCEPT ![c.id] = text] /\ (p \in quiet => text = c.n)
  BY <1>3
<1> HIDE DEF c
<1>5. /\ \A q \in Pair : at'[q] = IF q = p THEN "idle" ELSE at[q]
      /\ \A i \in Store!Id : record'[i] = IF i = c.id THEN text ELSE record[i]
  BY <1>1, <1>2, <1>4 DEF Store!TypeOK
<1>6. Store!TypeOK'
  <2>1. kept' \subseteq Store!Kept
    <3>1. [id |-> c.id, n |-> c.n] \in Store!Kept
      BY <1>2 DEF Store!Kept
    <3> QED BY <1>1, <3>1 DEF Store!TypeOK
  <2> QED BY <1>1, <1>2, <1>4, <2>1 DEF Store!TypeOK
<1>7. CallInv'
  BY <1>1, <1>5 DEF CallInv, Busy
<1>8. QuietInv'
  <2> SUFFICES ASSUME NEW q \in quiet
               PROVE  /\ Busy(q)' => \A r \in Pair \ {q} : Busy(r)' => ~Store!Conflict(call[q], call[r])
                      /\ at'[q] = "write" => q \in writing' /\ record'[call[q].id] = Store!Empty
    BY <1>1 DEF QuietInv
  <2>1. q \in Pair
    BY DEF Store!TypeOK
  <2>2. Busy(q)' => \A r \in Pair \ {q} : Busy(r)' => ~Store!Conflict(call[q], call[r])
    BY <1>1, <1>5, <2>1 DEF QuietInv, Busy
  <2>3. at'[q] = "write" => q \in writing' /\ record'[call[q].id] = Store!Empty
    <3>1. CASE q # p /\ at[q] = "write"
      <4>1. call[q].id \in Store!Id /\ q \in writing /\ record[call[q].id] = Store!Empty
        BY <2>1, <3>1 DEF CallInv, QuietInv
      <4>2. call[q].id # c.id
        BY <1>2, <2>1, <3>1 DEF QuietInv, Busy, Store!Conflict, c
      <4> QED BY <1>1, <1>5, <3>1, <4>1, <4>2
    <3> QED BY <1>5, <2>1, <3>1
  <2> QED BY <2>2, <2>3
<1>9. StoredInv'
  <2> SUFFICES ASSUME NEW k \in kept'
               PROVE  record'[k.id] = k.n /\ \A q \in Pair : Busy(q)' => call[q].id # k.id
    BY <1>1 DEF StoredInv
  <2>1. CASE k \in kept
    <3>1. k.id \in Store!Id /\ \A q \in Pair : Busy(q) => call[q].id # k.id
      BY <2>1 DEF Store!TypeOK, Store!Kept, StoredInv
    <3> QED BY <1>2, <1>5, <2>1, <3>1 DEF StoredInv, Busy, c
  <2>2. CASE p \in quiet /\ k = [id |-> c.id, n |-> c.n]
    <3>1. \A q \in Pair \ {p} : Busy(q) => call[q].id # c.id
      BY <1>2, <2>2 DEF QuietInv, Store!Conflict, c
    <3> QED BY <1>2, <1>4, <1>5, <2>2, <3>1 DEF Busy
  <2> QED BY <1>1, <2>1, <2>2
<1> QED BY <1>6, <1>7, <1>8, <1>9

LEMMA RemoveStep ==
  ASSUME Store!DbAssumption, StoreInv, NEW p \in Pair, Store!Remove(p)
  PROVE  StoreInv'
<1> USE DEF StoreInv
<1>1. /\ at[p] = "remove" /\ UNCHANGED <<calls, call, quiet, kept>> /\ at' = [at EXCEPT ![p] = "idle"]
      /\ record' = [record EXCEPT ![call[p].id] = Store!Absent]
      /\ writing' = {q \in writing : call[q].id # call[p].id}
  BY DEF Store!Remove
<1>2. call[p].id \in Store!Id /\ Busy(p)
  BY <1>1 DEF CallInv, Busy
<1>3. /\ \A q \in Pair : at'[q] = IF q = p THEN "idle" ELSE at[q]
      /\ \A i \in Store!Id : record'[i] = IF i = call[p].id THEN Store!Absent ELSE record[i]
  BY <1>1, <1>2 DEF Store!TypeOK
<1>4. Store!TypeOK'
  BY <1>1, <1>2 DEF Store!TypeOK
<1>5. CallInv'
  BY <1>1, <1>2, <1>3 DEF CallInv, Busy
<1>6. QuietInv'
  <2> SUFFICES ASSUME NEW q \in quiet
               PROVE  /\ Busy(q)' => \A r \in Pair \ {q} : Busy(r)' => ~Store!Conflict(call[q], call[r])
                      /\ at'[q] = "write" => q \in writing' /\ record'[call[q].id] = Store!Empty
    BY <1>1 DEF QuietInv
  <2>1. q \in Pair
    BY DEF Store!TypeOK
  <2>2. Busy(q)' => \A r \in Pair \ {q} : Busy(r)' => ~Store!Conflict(call[q], call[r])
    BY <1>1, <1>3, <2>1 DEF QuietInv, Busy
  <2>3. at'[q] = "write" => q \in writing' /\ record'[call[q].id] = Store!Empty
    <3>1. CASE q # p /\ at[q] = "write"
      <4>1. call[q].id \in Store!Id /\ q \in writing /\ record[call[q].id] = Store!Empty
        BY <2>1, <3>1 DEF CallInv, QuietInv
      <4>2. call[q].id # call[p].id
        BY <1>2, <2>1, <3>1 DEF QuietInv, Busy, Store!Conflict
      <4> QED BY <1>1, <1>3, <4>1, <4>2
    <3> QED BY <1>3, <2>1, <3>1
  <2> QED BY <2>2, <2>3
<1>7. StoredInv'
  <2> SUFFICES ASSUME NEW k \in kept
               PROVE  record'[k.id] = k.n /\ \A q \in Pair : Busy(q)' => call[q].id # k.id
    BY <1>1 DEF StoredInv
  <2>1. k.id \in Store!Id
    BY DEF Store!TypeOK, Store!Kept
  <2>2. \A q \in Pair : Busy(q) => call[q].id # k.id
    BY DEF StoredInv
  <2>3. \A q \in Pair : Busy(q)' => Busy(q)
    BY <1>3 DEF Busy
  <2> QED BY <1>2, <1>3, <2>1, <2>2, <2>3 DEF StoredInv
<1> QED BY <1>4, <1>5, <1>6, <1>7

LEMMA StoreNext ==
  ASSUME Store!DbAssumption, StoreInv, [Store!Next]_DbVars
  PROVE  StoreInv'
<1>1. CASE UNCHANGED DbVars
  BY <1>1 DEF DbVars, StoreInv, Store!TypeOK, CallInv, QuietInv, StoredInv, Busy
<1>2. CASE Store!Next
  <2>1. PICK p \in Pair :
          Store!Begin(p) \/ Store!List(p) \/ Store!OpenFails(p) \/ Store!Open(p) \/ Store!Write(p) \/ Store!Remove(p) \/ Store!Kill(p)
    BY <1>2 DEF Store!Next
  <2>2. CASE Store!OpenFails(p) \/ Store!Kill(p)
    BY <2>2, EndStep DEF Store!OpenFails, Store!Kill
  <2> QED BY <2>1, <2>2, BeginStep, ListStep, OpenStep, WriteStep, RemoveStep
<1> QED BY <1>1, <1>2

LEMMA StoreKept == StoreInv => Store!TypeOK /\ Store!RecordsKept
BY DEF StoreInv, StoredInv, Store!RecordsKept

LEMMA StoreStep ==
  ASSUME [AllNext]_AllVars
  PROVE  [Store!Next]_DbVars
BY DEF AllNext, Commands, Overlapping, Upload, Uploads, Storing, AllVars

(* A record written while nobody interferes stays until its number is      *)
(* given to a put or a deletion, for any number of processes, records and  *)
(* calls (db.lua:13-40 has no lock, and ejaDbNew takes the number after    *)
(* the largest one).                                                       *)
THEOREM RecordsKeptCorrect == AllSpec => []RecordsKept
<1>1. AllInit => StoreInv
  BY StoreInit, WebFilesAssumption DEF AllInit
<1>2. StoreInv /\ [AllNext]_AllVars => StoreInv'
  BY StoreStep, StoreNext, WebFilesAssumption
<1>3. StoreInv => RecordsKept
  BY StoreKept DEF RecordsKept
<1> QED BY <1>1, <1>2, <1>3, PTL DEF AllSpec

-----------------------------------------------------------------------------
(* The upload area.  Here, too, the instances are those of the checks.     *)
LEMMA SameUpload ==
  /\ One!WebTazAssumption <=> OneP!WebTazAssumption
  /\ One!Init <=> OneP!Init
  /\ One!Next <=> OneP!Next
  /\ One!TypeOK /\ One!Bounded /\ One!Trimmed /\ One!Acknowledged
       <=> OneP!TypeOK /\ OneP!Bounded /\ OneP!Trimmed /\ OneP!Acknowledged
  /\ One!EvictsStep <=> OneP!EvictsStep
<1> USE DEF One!Nobody, OneP!Nobody, One!Unseen, OneP!Unseen, One!Undated, OneP!Undated,
            One!look, OneP!look, One!Gone, OneP!Gone, One!Aborted, OneP!Aborted,
            One!Request, OneP!Request, One!Stored, OneP!Stored, One!Range, OneP!Range,
            One!SumFunctionOnSet, OneP!SumFunctionOnSet, One!FoldFunctionOnSet, OneP!FoldFunctionOnSet,
            One!MapThenFoldSet, OneP!MapThenFoldSet, One!Cardinality, OneP!Cardinality
<1>1. One!WebTazAssumption <=> OneP!WebTazAssumption
  BY DEF One!WebTazAssumption, OneP!WebTazAssumption, One!IsFiniteSet, OneP!IsFiniteSet
<1>2. One!Init <=> OneP!Init
  BY DEF One!Init, OneP!Init
<1>3. ASSUME NEW w \in {1} PROVE One!Plan(w) <=> OneP!Plan(w)
  BY DEF One!Plan, OneP!Plan, One!Fitting, OneP!Fitting, One!NewestFirst, OneP!NewestFirst,
         One!SetToAllKPermutations, OneP!SetToAllKPermutations, One!SetToSeqs, OneP!SetToSeqs,
         One!Goto, OneP!Goto, One!disk, OneP!disk
<1>4. ASSUME NEW w \in {1} PROVE One!WorkerStep(w) <=> OneP!WorkerStep(w)
  BY <1>3 DEF One!WorkerStep, OneP!WorkerStep, One!Begin, OneP!Begin, One!ReadDir, OneP!ReadDir, One!Stat, OneP!Stat,
         One!Evict, OneP!Evict, One!Unlink, OneP!Unlink, One!Index, OneP!Index,
         One!Bare, OneP!Bare, One!Move, OneP!Move, One!Truncate, OneP!Truncate,
         One!Write, OneP!Write, One!Tell, OneP!Tell, One!Find, OneP!Find, One!Contains, OneP!Contains,
         One!Serve, OneP!Serve, One!Goto, OneP!Goto, One!End, OneP!End, One!disk, OneP!disk
<1>5. One!Next <=> OneP!Next
  BY <1>4 DEF One!Next, OneP!Next, One!Tick, OneP!Tick
<1>6. /\ One!TypeOK <=> OneP!TypeOK
      /\ One!Bounded <=> OneP!Bounded
      /\ One!Trimmed <=> OneP!Trimmed
      /\ One!Acknowledged <=> OneP!Acknowledged
  BY DEF One!TypeOK, OneP!TypeOK, One!Bounded, OneP!Bounded, One!Trimmed, OneP!Trimmed,
         One!Acknowledged, OneP!Acknowledged, One!Total, OneP!Total, One!Largest, OneP!Largest
<1>7. One!EvictsStep <=> OneP!EvictsStep
  BY DEF One!EvictsStep, OneP!EvictsStep
<1> QED
  BY <1>1, <1>2, <1>5, <1>6, <1>7

LEMMA SameUploads ==
  /\ Two!WebTazAssumption <=> TwoP!WebTazAssumption
  /\ Two!Init <=> TwoP!Init
  /\ Two!Next <=> TwoP!Next
  /\ Two!TypeOK /\ Two!Bounded <=> TwoP!TypeOK /\ TwoP!Bounded
<1> USE DEF Two!Nobody, TwoP!Nobody, Two!Unseen, TwoP!Unseen, Two!Undated, TwoP!Undated,
            Two!look, TwoP!look, Two!Gone, TwoP!Gone, Two!Aborted, TwoP!Aborted,
            Two!Request, TwoP!Request, Two!Stored, TwoP!Stored,
            Two!SumFunctionOnSet, TwoP!SumFunctionOnSet, Two!FoldFunctionOnSet, TwoP!FoldFunctionOnSet,
            Two!MapThenFoldSet, TwoP!MapThenFoldSet, Two!Cardinality, TwoP!Cardinality
<1>1. Two!WebTazAssumption <=> TwoP!WebTazAssumption
  BY DEF Two!WebTazAssumption, TwoP!WebTazAssumption, Two!IsFiniteSet, TwoP!IsFiniteSet
<1>2. Two!Init <=> TwoP!Init
  BY DEF Two!Init, TwoP!Init
<1>3. ASSUME NEW w \in Pair PROVE Two!Plan(w) <=> TwoP!Plan(w)
  BY DEF Two!Plan, TwoP!Plan, Two!Fitting, TwoP!Fitting, Two!NewestFirst, TwoP!NewestFirst,
         Two!SetToAllKPermutations, TwoP!SetToAllKPermutations, Two!SetToSeqs, TwoP!SetToSeqs,
         Two!Goto, TwoP!Goto, Two!disk, TwoP!disk
<1>4. ASSUME NEW w \in Pair PROVE Two!WorkerStep(w) <=> TwoP!WorkerStep(w)
  BY <1>3 DEF Two!WorkerStep, TwoP!WorkerStep, Two!Begin, TwoP!Begin, Two!ReadDir, TwoP!ReadDir, Two!Stat, TwoP!Stat,
         Two!Evict, TwoP!Evict, Two!Unlink, TwoP!Unlink, Two!Index, TwoP!Index,
         Two!Bare, TwoP!Bare, Two!Move, TwoP!Move, Two!Truncate, TwoP!Truncate,
         Two!Write, TwoP!Write, Two!Tell, TwoP!Tell, Two!Find, TwoP!Find, Two!Contains, TwoP!Contains,
         Two!Serve, TwoP!Serve, Two!Goto, TwoP!Goto, Two!End, TwoP!End, Two!disk, TwoP!disk
<1>5. Two!Next <=> TwoP!Next
  BY <1>4 DEF Two!Next, TwoP!Next, Two!Tick, TwoP!Tick
<1>6. Two!TypeOK /\ Two!Bounded <=> TwoP!TypeOK /\ TwoP!Bounded
  BY DEF Two!TypeOK, TwoP!TypeOK, Two!Bounded, TwoP!Bounded, Two!Total, TwoP!Total, Two!Largest, TwoP!Largest
<1> QED
  BY <1>1, <1>2, <1>5, <1>6

LEMMA UploadStep ==
  ASSUME [AllNext]_AllVars
  PROVE  /\ part' = part
         /\ part = "upload" => [OneP!Next]_(OneP!vars)
         /\ part = "uploads" => [TwoP!Next]_(TwoP!vars)
<1>1. CASE UNCHANGED AllVars
  BY <1>1 DEF AllVars, TazVars, OneP!vars, TwoP!vars
<1>2. CASE AllNext
  BY <1>2, SameUpload, SameUploads DEF AllNext, Commands, Overlapping, Upload, Uploads, Storing
<1> QED
  BY <1>1, <1>2

AreaInv ==
  /\ part = "upload" => OneP!Typed /\ OneP!CountInv /\ OneP!SoloInv
  /\ part = "uploads" => TwoP!Typed /\ TwoP!CountInv

LEMMA AreaInit == AllInit => AreaInv
<1>1. OneP!WebTazAssumption /\ TwoP!WebTazAssumption
  BY WebFilesAssumption, SameUpload, SameUploads
<1>2. ASSUME AllInit, part = "upload" PROVE OneP!Typed /\ OneP!CountInv /\ OneP!SoloInv
  <2>1. OneP!Init
    BY <1>2, SameUpload DEF AllInit
  <2> QED
    BY <1>1, <2>1, OneP!FirstTyped, OneP!FirstCounted, OneP!FirstSolo
<1>3. ASSUME AllInit, part = "uploads" PROVE TwoP!Typed /\ TwoP!CountInv
  <2>1. TwoP!Init
    BY <1>3, SameUploads DEF AllInit
  <2> QED
    BY <1>1, <2>1, TwoP!FirstTyped, TwoP!FirstCounted
<1> QED
  BY <1>2, <1>3 DEF AreaInv

LEMMA AreaNext == AreaInv /\ [AllNext]_AllVars => AreaInv'
<1> SUFFICES ASSUME AreaInv, [AllNext]_AllVars PROVE AreaInv'
  OBVIOUS
<1>1. OneP!WebTazAssumption /\ TwoP!WebTazAssumption
  BY WebFilesAssumption, SameUpload, SameUploads
<1>2. OneP!Solo
  BY DEF OneP!Solo
<1>3. ASSUME part = "upload" PROVE OneP!Typed' /\ OneP!CountInv' /\ OneP!SoloInv'
  <2>1. OneP!Typed /\ OneP!CountInv /\ OneP!SoloInv /\ [OneP!Next]_(OneP!vars)
    BY <1>3, UploadStep DEF AreaInv
  <2> QED
    BY <1>1, <1>2, <2>1, OneP!TypedNext, OneP!CountNext, OneP!SoloNext
<1>4. ASSUME part = "uploads" PROVE TwoP!Typed' /\ TwoP!CountInv'
  <2>1. TwoP!Typed /\ TwoP!CountInv /\ [TwoP!Next]_(TwoP!vars)
    BY <1>4, UploadStep DEF AreaInv
  <2> QED
    BY <1>1, <2>1, TwoP!TypedNext, TwoP!CountNext
<1>5. part' = part
  BY UploadStep
<1> QED
  BY <1>3, <1>4, <1>5 DEF AreaInv

(* What is stored exceeds the limit by no more than one upload for each    *)
(* worker, however the requests of any number of workers overlap; with one *)
(* worker the list it answers with fits and names what is there, and an    *)
(* upload it acknowledges is stored whole (webTaz.lua:9-26, 45-60).        *)
THEOREM AreaKeptCorrect == AllSpec => []AreaKept
<1>1. AreaInv => AreaKept
  <2> SUFFICES ASSUME AreaInv PROVE AreaKept
    OBVIOUS
  <2>1. OneP!WebTazAssumption /\ TwoP!WebTazAssumption
    BY WebFilesAssumption, SameUpload, SameUploads
  <2>2. ASSUME part = "upload" PROVE One!TypeOK /\ One!Bounded /\ One!Trimmed /\ One!Acknowledged
    <3>1. OneP!TypeOK /\ OneP!CountInv /\ OneP!SoloInv
      BY <2>2 DEF AreaInv, OneP!Typed
    <3>2. OneP!TypeOK /\ OneP!Bounded /\ OneP!Trimmed /\ OneP!Acknowledged
      BY <2>1, <3>1, OneP!CountedBound, OneP!SoloGives
    <3> QED
      BY <3>2, SameUpload
  <2>3. ASSUME part = "uploads" PROVE Two!TypeOK /\ Two!Bounded
    <3>1. TwoP!TypeOK /\ TwoP!CountInv
      BY <2>3 DEF AreaInv, TwoP!Typed
    <3>2. TwoP!TypeOK /\ TwoP!Bounded
      BY <2>1, <3>1, TwoP!CountedBound
    <3> QED
      BY <3>2, SameUploads
  <2> QED
    BY <2>2, <2>3 DEF AreaKept
<1> QED
  BY <1>1, AreaInit, AreaNext, PTL DEF AllSpec

(* With one worker, a file is only given up if it and those that are no    *)
(* older are too large together (webTaz.lua:10-24).                        *)
THEOREM EvictsOldestCorrect == AllSpec => EvictsOldest
<1>1. AreaInv /\ [AllNext]_AllVars => [part = "upload" => One!EvictsStep]_TazVars
  <2> SUFFICES ASSUME AreaInv, [AllNext]_AllVars, part = "upload" PROVE One!EvictsStep
    OBVIOUS
  <2>1. OneP!WebTazAssumption
    BY WebFilesAssumption, SameUpload
  <2>2. OneP!Typed /\ OneP!SoloInv /\ OneP!Solo /\ [OneP!Next]_(OneP!vars)
    BY UploadStep DEF AreaInv, OneP!Solo
  <2> QED
    BY <2>1, <2>2, OneP!EvictsNext, SameUpload
<1> QED
  BY <1>1, AreaInit, AreaNext, PTL DEF AllSpec, EvictsOldest
=============================================================================
