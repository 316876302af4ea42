----------------------------- MODULE WebServer -----------------------------
(***************************************************************************)
(* The accept loop of the web daemon (src/lib/web.lua, ejaWeb) with the    *)
(* processes it forks: which process has which socket open, what waits in  *)
(* the kernel's accept queue, and which exited workers are still unreaped. *)
(*                                                                         *)
(* One turn of the loop is four steps of the master, because a worker, a   *)
(* client or a signal may act between any two of them: accept, fork, close *)
(* the client socket, reap one child without blocking.  A worker closes    *)
(* the listening socket it inherited, serves its connection and closes it. *)
(* What a worker does for a request is the business of WebRequest; here a  *)
(* call of ejaWebThread that returns 1 changes nothing.                    *)
(***************************************************************************)
EXTENDS Naturals, Sequences, FiniteSets

CONSTANTS
  Conn,      \* the connections clients may make
  Worker,    \* the process identifiers the system can give to children
  Backlog,   \* how many completed connections the kernel queues: listen(s, 5)
  Master,    \* the process that runs the loop
  Listener,  \* the listening socket
  NoConn     \* no connection

ASSUME WebServerAssumption ==
  /\ IsFiniteSet(Worker)
  /\ Backlog \in Nat \ {0}
  /\ Master \notin Worker
  /\ Listener \notin Conn
  /\ NoConn \notin Conn

VARIABLES
  queue,   \* the kernel's accept queue
  phase,   \* how far each connection has come
  pc,      \* where the master is in its loop
  client,  \* the connection the master has accepted and not closed yet
  wst,     \* the state of each worker process
  wconn,   \* the connection a worker was forked for
  holds,   \* the sockets each process has open
  peak     \* history: the most workers that were ever alive at once

vars == <<queue, phase, pc, client, wst, wconn, holds, peak>>

Procs  == Worker \cup {Master}
Socket == Conn \cup {Listener}

LiveStates  == {"child", "serve", "drop", "exit"}
OwnerStates == {"child", "serve", "drop"}

Live   == {w \in Worker : wst[w] \in LiveStates}
Zombie == {w \in Worker : wst[w] = "zombie"}

TypeOK ==
  /\ queue \in Seq(Conn)
  /\ Len(queue) <= Backlog
  /\ phase \in [Conn -> {"idle", "queued", "taken", "reset"}]
  /\ pc \in {"accept", "fork", "close", "reap", "dead"}
  /\ client \in Conn \cup {NoConn}
  /\ wst \in [Worker -> LiveStates \cup {"none", "zombie"}]
  /\ wconn \in [Worker -> Conn \cup {NoConn}]
  /\ holds \in [Procs -> SUBSET Socket]
  /\ peak \in Nat

Init ==
  /\ queue = <<>>
  /\ phase = [c \in Conn |-> "idle"]
  /\ pc = "accept"
  /\ client = NoConn
  /\ wst = [w \in Worker |-> "none"]
  /\ wconn = [w \in Worker |-> NoConn]
  /\ holds = [p \in Procs |-> IF p = Master THEN {Listener} ELSE {}]
  /\ peak = 0

-----------------------------------------------------------------------------
(* The kernel.  A socket lives as long as one process has it open; when    *)
(* the last one closes the listening socket, what is queued is reset.      *)

Listening(h) == \E p \in Procs : Listener \in h[p]

SocketsAfter(h) ==
  /\ holds' = h
  /\ queue' = IF Listening(h) THEN queue ELSE <<>>
  /\ phase' = [c \in Conn |->
                 IF phase[c] = "queued" /\ ~Listening(h) THEN "reset" ELSE phase[c]]

(* A client connects: the kernel completes the handshake whether or not    *)
(* the process that would accept is still alive.                           *)
Connect(c) ==
  /\ phase[c] = "idle"
  /\ Listening(holds)
  /\ Len(queue) < Backlog
  /\ queue' = Append(queue, c)
  /\ phase' = [phase EXCEPT ![c] = "queued"]
  /\ UNCHANGED <<pc, client, wst, wconn, holds, peak>>

-----------------------------------------------------------------------------
(* The master.                                                             *)

Accept ==
  /\ pc = "accept"
  /\ queue # <<>>
  /\ pc' = "fork"
  /\ client' = Head(queue)
  /\ queue' = Tail(queue)
  /\ phase' = [phase EXCEPT ![Head(queue)] = "taken"]
  /\ holds' = [holds EXCEPT ![Master] = @ \cup {Head(queue)}]
  /\ UNCHANGED <<wst, wconn, peak>>

(* The child gets a copy of every descriptor of the master.                *)
Fork(w) ==
  /\ pc = "fork"
  /\ wst[w] = "none"
  /\ pc' = "close"
  /\ wst' = [wst EXCEPT ![w] = "child"]
  /\ wconn' = [wconn EXCEPT ![w] = client]
  /\ holds' = [holds EXCEPT ![w] = holds[Master]]
  /\ peak' = LET n == Cardinality(Live) + 1 IN IF n > peak THEN n ELSE peak
  /\ UNCHANGED <<queue, phase, client>>

(* Mutants: the loop forgets the socket when fork fails; the connection is *)
(* put back to be tried again.                                             *)
ForkFailContinues ==
  /\ pc = "fork"
  /\ pc' = "accept"
  /\ client' = NoConn
  /\ UNCHANGED <<queue, phase, wst, wconn, holds, peak>>

ForkFailRetries ==
  /\ pc = "fork"
  /\ pc' = "accept"
  /\ client' = NoConn
  /\ queue' = Append(queue, client)
  /\ phase' = [phase EXCEPT ![client] = "queued"]
  /\ holds' = [holds EXCEPT ![Master] = @ \ {client}]
  /\ UNCHANGED <<wst, wconn, peak>>

(* fork returns -1, which is not 0: the parent's branch runs, and closes a *)
(* connection that nobody will answer.                                     *)
ForkFail ==
  /\ pc = "fork"
  /\ pc' = "close"
  /\ UNCHANGED <<queue, phase, client, wst, wconn, holds, peak>>

(* Mutant: the parent's branch has no ejaSocketClose(client).              *)
CloseClientForgotten ==
  /\ pc = "close"
  /\ pc' = "reap"
  /\ client' = NoConn
  /\ UNCHANGED <<queue, phase, wst, wconn, holds, peak>>

CloseClient ==
  /\ pc = "close"
  /\ pc' = "reap"
  /\ client' = NoConn
  /\ holds' = [holds EXCEPT ![Master] = @ \ {client}]
  /\ UNCHANGED <<queue, phase, wst, wconn, peak>>

(* Mutants: no ejaForkClean; a waitpid that blocks (0 for WNOHANG).        *)
ReapNothing ==
  /\ pc = "reap"
  /\ pc' = "accept"
  /\ UNCHANGED <<queue, phase, client, wst, wconn, holds, peak>>

ReapBlocking ==
  /\ pc = "reap"
  /\ Zombie # {} \/ Live = {}
  /\ pc' = "accept"
  /\ IF Zombie = {} THEN wst' = wst
     ELSE \E w \in Zombie : wst' = [wst EXCEPT ![w] = "none"]
  /\ UNCHANGED <<queue, phase, client, wconn, holds, peak>>

(* waitpid(-1, NULL, WNOHANG): one exited child if there is one.           *)
Reap ==
  /\ pc = "reap"
  /\ pc' = "accept"
  /\ IF Zombie = {} THEN wst' = wst
     ELSE \E w \in Zombie : wst' = [wst EXCEPT ![w] = "none"]
  /\ UNCHANGED <<queue, phase, client, wconn, holds, peak>>

(* --web-stop sends SIGKILL to the master, wherever it is.  Its children   *)
(* go on, and from now on init reaps them.                                 *)
Kill ==
  /\ pc # "dead"
  /\ pc' = "dead"
  /\ client' = NoConn
  /\ wst' = [w \in Worker |-> IF wst[w] = "zombie" THEN "none" ELSE wst[w]]
  /\ SocketsAfter([holds EXCEPT ![Master] = {}])
  /\ UNCHANGED <<wconn, peak>>

-----------------------------------------------------------------------------
(* A worker.                                                               *)

(* Mutant: the child keeps the listening socket.                           *)
CloseListenForgotten(w) ==
  /\ wst[w] = "child"
  /\ wst' = [wst EXCEPT ![w] = "serve"]
  /\ UNCHANGED <<queue, phase, pc, client, wconn, holds, peak>>

CloseListen(w) ==
  /\ wst[w] = "child"
  /\ wst' = [wst EXCEPT ![w] = "serve"]
  /\ SocketsAfter([holds EXCEPT ![w] = @ \ {Listener}])
  /\ UNCHANGED <<pc, client, wconn, peak>>

(* ejaWebThread returned 0.                                                *)
Finish(w) ==
  /\ wst[w] = "serve"
  /\ wst' = [wst EXCEPT ![w] = "drop"]
  /\ UNCHANGED <<queue, phase, pc, client, wconn, holds, peak>>

CloseConn(w) ==
  /\ wst[w] = "drop"
  /\ wst' = [wst EXCEPT ![w] = "exit"]
  /\ holds' = [holds EXCEPT ![w] = @ \ {wconn[w]}]
  /\ UNCHANGED <<queue, phase, pc, client, wconn, peak>>

(* An exited child stays in the process table until its parent waits.      *)
Ended == IF pc = "dead" THEN "none" ELSE "zombie"

End(w) ==
  /\ wst' = [wst EXCEPT ![w] = Ended]
  /\ wconn' = [wconn EXCEPT ![w] = NoConn]
  /\ holds' = [holds EXCEPT ![w] = {}]
  /\ UNCHANGED <<queue, phase, pc, client, peak>>

(* The worker leaves ejaWeb and its process ends.                          *)
Exit(w) == wst[w] = "exit" /\ End(w)

(* A Lua error is not caught, and a write to a closed connection raises    *)
(* SIGPIPE: both end the worker inside ejaWebThread.                       *)
Abort(w) == wst[w] = "serve" /\ End(w)

-----------------------------------------------------------------------------
MasterStep ==
  \/ Accept
  \/ \E w \in Worker : Fork(w)
  \/ ForkFail
  \/ CloseClient
  \/ Reap

WorkerStep(w) ==
  \/ CloseListen(w)
  \/ Finish(w)
  \/ CloseConn(w)
  \/ Exit(w)
  \/ Abort(w)

Next ==
  \/ \E c \in Conn : Connect(c)
  \/ MasterStep
  \/ Kill
  \/ \E w \in Worker : WorkerStep(w)

Spec == Init /\ [][Next]_vars

(* The scheduler runs every process that can run.  Nothing makes a client  *)
(* connect or a request end, so Connect, Finish and Abort have no          *)
(* fairness, and Kill has none.                                            *)
FairSpec ==
  /\ Spec
  /\ WF_vars(MasterStep)
  /\ \A w \in Worker :
       WF_vars(CloseListen(w)) /\ WF_vars(CloseConn(w)) /\ WF_vars(Exit(w))

-----------------------------------------------------------------------------
(* Properties.                                                             *)

(* The loop reaps at most one child per accepted connection (web.lua:62),  *)
(* so unreaped children could pile up.  They do not: the live workers and  *)
(* the unreaped ones together never exceed the most workers that were      *)
(* alive at once, by more than the one forked in the current turn.         *)
Slack == IF pc \in {"close", "reap"} THEN 1 ELSE 0

ZombieBound == Cardinality(Live) + Cardinality(Zombie) <= peak + Slack

(* No two workers ever have the same connection open, and none has the one *)
(* the master is about to fork for: an answer is never interleaved with    *)
(* another worker's, although every fork copies all of the master's        *)
(* descriptors (web.lua:49, 58, 61).                                       *)
SoleServer ==
  /\ \A v, w \in Worker : v # w => holds[v] \cap holds[w] \cap Conn = {}
  /\ pc = "fork" => \A w \in Worker : client \notin holds[w]

(* Once no worker is handling an accepted connection and the master has    *)
(* gone on, no process has it open: the client sees the end of the answer  *)
(* when its worker ends, also when the fork failed (web.lua:58-61).        *)
HandledMeansClosed ==
  \A c \in Conn :
    (/\ phase[c] = "taken"
     /\ client # c
     /\ \A w \in Worker : wst[w] \in OwnerStates => wconn[w] # c)
    => \A p \in Procs : c \notin holds[p]

(* A queued connection is taken by the master, or reset when the daemon is *)
(* stopped, even while workers run for ever: the loop never waits for a    *)
(* child (web.lua:46-62, the WNOHANG of eja.c:42).                         *)
QueueAnswered ==
  \A c \in Conn : phase[c] = "queued" ~> phase[c] # "queued"

(* After the master was killed the port becomes free, although children    *)
(* it forked just before have the listening socket open too and are not    *)
(* signalled (web.lua:51).                                                 *)
PortReleased == (pc = "dead") ~> ~Listening(holds)

(* The abstract service: what it knows of a connection is where it is in   *)
(* the line, and that it is being served while some process has it open.   *)
Held(c) == \E p \in Procs : c \in holds[p]

Status(c) ==
  CASE phase[c] = "idle"   -> "idle"
    [] phase[c] = "queued" -> "waiting"
    [] phase[c] = "reset"  -> "refused"
    [] phase[c] = "taken"  -> IF Held(c) THEN "serving" ELSE "ended"

Service == INSTANCE ConnService
             WITH line   <- queue,
                  status <- [c \in Conn |-> Status(c)],
                  open   <- Listening(holds)

(* The loop with its processes implements the connection service: first    *)
(* come first served, one handling each, ended means ended, and nobody     *)
(* left waiting on a daemon that is gone (web.lua:40-67).                  *)
ServesInOrder == Service!Spec
=============================================================================
