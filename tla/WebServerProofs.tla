-------------------------- MODULE WebServerProofs --------------------------
(***************************************************************************)
(* Proofs about WebServer for every set of connections, every finite set   *)
(* of process identifiers and every backlog.                               *)
(***************************************************************************)
EXTENDS WebServer, FiniteSetTheorems, TLAPS

(* The master has the listening socket open as long as it lives, and one   *)
(* more socket exactly between accept and close.                           *)
MasterInv ==
  /\ client # NoConn <=> pc \in {"fork", "close"}
  /\ client # NoConn => phase[client] = "taken"
  /\ holds[Master] = (IF pc = "dead" THEN {} ELSE {Listener})
                       \cup (IF client = NoConn THEN {} ELSE {client})

(* What a worker has open is determined by where it is.                    *)
WorkerInv ==
  \A w \in Worker :
    /\ wst[w] \in OwnerStates => wconn[w] \in Conn /\ phase[wconn[w]] = "taken"
    /\ holds[w] = (IF wst[w] = "child" THEN {Listener} ELSE {})
                    \cup (IF wst[w] \in OwnerStates THEN {wconn[w]} ELSE {})

(* A connection belongs to one worker, or to the master about to fork.     *)
OwnerInv ==
  /\ \A v, w \in Worker :
       wst[v] \in OwnerStates /\ wst[w] \in OwnerStates /\ v # w
         => wconn[v] # wconn[w]
  /\ pc = "fork" =>
       \A w \in Worker : wst[w] \in OwnerStates => wconn[w] # client

(* What is queued is in the queue once and was not taken.                  *)
QueueInv ==
  /\ \A i \in 1..Len(queue) : phase[queue[i]] = "queued"
  /\ \A i, j \in 1..Len(queue) : queue[i] = queue[j] => i = j

CountInv ==
  /\ Cardinality(Live) <= peak
  /\ ZombieBound

OwnershipInv == MasterInv /\ WorkerInv /\ OwnerInv /\ QueueInv

IInv == TypeOK /\ OwnershipInv /\ CountInv

-----------------------------------------------------------------------------
(* The type invariant.                                                     *)

(* Taking and adding keep a queue of connections a queue of connections.   *)
LEMMA QueueTyped ==
  ASSUME NEW q \in Seq(Conn), NEW c \in Conn
  PROVE  /\ Append(q, c) \in Seq(Conn)
         /\ Len(Append(q, c)) = Len(q) + 1
         /\ q # <<>> => /\ Head(q) \in Conn
                        /\ Tail(q) \in Seq(Conn)
                        /\ Len(Tail(q)) = Len(q) - 1
OBVIOUS

(* What the kernel does with the queue when sockets are closed is typed.   *)
LEMMA SocketsTyped ==
  ASSUME TypeOK, NEW h \in [Procs -> SUBSET Socket], SocketsAfter(h)
  PROVE  /\ queue' \in Seq(Conn) /\ Len(queue') <= Backlog
         /\ phase' \in [Conn -> {"idle", "queued", "taken", "reset"}]
         /\ holds' \in [Procs -> SUBSET Socket]
BY WebServerAssumption DEF TypeOK, SocketsAfter

(* The live workers are a finite set, so their number is a number.         *)
LEMMA Counted ==
  /\ IsFiniteSet(Live) /\ Cardinality(Live) \in Nat
  /\ IsFiniteSet(Zombie) /\ Cardinality(Zombie) \in Nat
<1>1. Live \subseteq Worker /\ Zombie \subseteq Worker
  BY DEF Live, Zombie
<1>2. IsFiniteSet(Live) /\ IsFiniteSet(Zombie)
  BY <1>1, FS_Subset, WebServerAssumption
<1> QED
  BY <1>2, FS_CardinalityType

LEMMA TypeInit == Init => TypeOK
BY WebServerAssumption DEF Init, TypeOK, Procs, Socket, LiveStates

LEMMA TypeNext == TypeOK /\ [Next]_vars => TypeOK'
<1> SUFFICES ASSUME TypeOK, [Next]_vars PROVE TypeOK'
  OBVIOUS
<1> USE WebServerAssumption DEF TypeOK, Procs, Socket, LiveStates
<1>1. ASSUME NEW c \in Conn, Connect(c) PROVE TypeOK'
  BY <1>1, QueueTyped DEF Connect
<1>2. CASE Accept
  <2>1. Head(queue) \in Conn /\ Tail(queue) \in Seq(Conn)
        /\ Len(Tail(queue)) = Len(queue) - 1
    BY <1>2, QueueTyped DEF Accept
  <2>2. Len(queue) \in Nat
    BY DEF TypeOK
  <2> QED
    BY <1>2, <2>1, <2>2 DEF Accept
<1>3. ASSUME NEW w \in Worker, Fork(w) PROVE TypeOK'
  <2>1. peak' \in Nat
    BY <1>3, Counted DEF Fork
  <2> QED
    BY <1>3, <2>1 DEF Fork
<1>4. CASE ForkFail
  BY <1>4 DEF ForkFail
<1>5. CASE CloseClient
  BY <1>5 DEF CloseClient
<1>6. CASE Reap
  BY <1>6 DEF Reap, Zombie
<1>7. CASE Kill
  <2>1. [holds EXCEPT ![Master] = {}] \in [Procs -> SUBSET Socket]
    OBVIOUS
  <2> QED
    BY <1>7, <2>1, SocketsTyped DEF Kill
<1>8. ASSUME NEW w \in Worker, WorkerStep(w) PROVE TypeOK'
  <2>1. CASE CloseListen(w)
    <3>1. [holds EXCEPT ![w] = @ \ {Listener}] \in [Procs -> SUBSET Socket]
      OBVIOUS
    <3> QED
      BY <2>1, <3>1, SocketsTyped DEF CloseListen
  <2>2. CASE Finish(w)
    BY <2>2 DEF Finish
  <2>3. CASE CloseConn(w)
    BY <2>3 DEF CloseConn
  <2>4. CASE End(w)
    BY <2>4 DEF End, Ended
  <2> QED
    BY <1>8, <2>1, <2>2, <2>3, <2>4 DEF WorkerStep, Exit, Abort
<1>9. CASE UNCHANGED vars
  BY <1>9 DEF vars
<1> QED
  BY <1>1, <1>2, <1>3, <1>4, <1>5, <1>6, <1>7, <1>8, <1>9 DEF Next, MasterStep

(* In every reachable state each variable has its type, the accept queue   *)
(* never exceeding the backlog (web.lua:40-67).                            *)
THEOREM TypeCorrect == Spec => []TypeOK
BY TypeInit, TypeNext, PTL DEF Spec

-----------------------------------------------------------------------------
(* Who has which socket open.                                              *)

LEMMA OwnershipInit == Init => OwnershipInv
BY WebServerAssumption
   DEF Init, OwnershipInv, MasterInv, WorkerInv, OwnerInv, QueueInv, Procs,
       OwnerStates

(* Closing sockets can only empty the queue and turn queued into reset.    *)
LEMMA SocketsQueue ==
  ASSUME TypeOK, QueueInv, NEW h, SocketsAfter(h)
  PROVE  /\ QueueInv'
         /\ holds' = h
         /\ \A c \in Conn : phase[c] = "taken" => phase'[c] = "taken"
BY DEF TypeOK, QueueInv, SocketsAfter

LEMMA OwnershipNext == TypeOK /\ OwnershipInv /\ [Next]_vars => OwnershipInv'
<1> SUFFICES ASSUME TypeOK, OwnershipInv, [Next]_vars PROVE OwnershipInv'
  OBVIOUS
<1> USE WebServerAssumption DEF OwnershipInv, Procs, OwnerStates
<1>1. ASSUME NEW c \in Conn, Connect(c) PROVE OwnershipInv'
  <2>1. QueueInv'
    BY <1>1 DEF Connect, QueueInv, TypeOK
  <2>2. MasterInv' /\ WorkerInv' /\ OwnerInv'
    BY <1>1 DEF Connect, TypeOK, MasterInv, WorkerInv, OwnerInv
  <2> QED
    BY <2>1, <2>2
<1>2. CASE Accept
  <2> DEFINE c == Head(queue)
  <2>1. c \in Conn /\ c = queue[1] /\ 1 \in 1..Len(queue)
        /\ Len(Tail(queue)) = Len(queue) - 1
        /\ \A i \in 1..Len(Tail(queue)) : Tail(queue)[i] = queue[i + 1]
    BY <1>2 DEF Accept, TypeOK
  <2>2. phase[c] = "queued"
    BY <2>1 DEF QueueInv
  <2>3. QueueInv'
    BY <1>2, <2>1 DEF Accept, QueueInv, TypeOK
  <2>4. \A w \in Worker : wst[w] \in OwnerStates => wconn[w] # c
    BY <2>2 DEF WorkerInv
  <2>5. MasterInv'
    BY <1>2, <2>1 DEF Accept, MasterInv, TypeOK
  <2>6. WorkerInv' /\ OwnerInv'
    BY <1>2, <2>1, <2>2, <2>4 DEF Accept, WorkerInv, OwnerInv, TypeOK
  <2> QED
    BY <2>3, <2>5, <2>6
<1>3. ASSUME NEW w \in Worker, Fork(w) PROVE OwnershipInv'
  <2>1. client \in Conn /\ phase[client] = "taken"
        /\ holds[Master] = {Listener, client}
    BY <1>3 DEF Fork, MasterInv, TypeOK
  <2>2. QueueInv' /\ MasterInv'
    BY <1>3 DEF Fork, QueueInv, MasterInv, TypeOK
  <2>3. WorkerInv'
    BY <1>3, <2>1 DEF Fork, WorkerInv, TypeOK
  <2>4. OwnerInv'
    BY <1>3 DEF Fork, OwnerInv, TypeOK
  <2> QED
    BY <2>2, <2>3, <2>4
<1>4. CASE ForkFail
  BY <1>4 DEF ForkFail, MasterInv, WorkerInv, OwnerInv, QueueInv
<1>5. CASE CloseClient
  <2>1. QueueInv' /\ OwnerInv'
    BY <1>5 DEF CloseClient, QueueInv, OwnerInv
  <2>2. MasterInv'
    BY <1>5 DEF CloseClient, MasterInv, TypeOK
  <2>3. WorkerInv'
    BY <1>5 DEF CloseClient, WorkerInv, TypeOK
  <2> QED
    BY <2>1, <2>2, <2>3
<1>6. CASE Reap
  BY <1>6 DEF Reap, Zombie, MasterInv, WorkerInv, OwnerInv, QueueInv, TypeOK
<1>7. CASE Kill
  <2>1. QueueInv' /\ holds' = [holds EXCEPT ![Master] = {}]
        /\ \A c \in Conn : phase[c] = "taken" => phase'[c] = "taken"
    BY <1>7, SocketsQueue DEF Kill
  <2>2. MasterInv'
    BY <1>7, <2>1 DEF Kill, MasterInv, TypeOK
  <2>3. \A w \in Worker : wst'[w] \in OwnerStates <=> wst[w] \in OwnerStates
    BY <1>7 DEF Kill, TypeOK
  <2>4. \A w \in Worker : wst'[w] = "child" <=> wst[w] = "child"
    BY <1>7 DEF Kill, TypeOK
  <2>5. wconn' = wconn /\ pc' = "dead"
    BY <1>7 DEF Kill
  <2>6. \A w \in Worker : holds'[w] = holds[w]
    BY <2>1 DEF TypeOK
  <2>7. WorkerInv'
    BY <2>1, <2>3, <2>4, <2>5, <2>6 DEF WorkerInv
  <2>8. OwnerInv'
    BY <2>3, <2>5 DEF OwnerInv
  <2> QED
    BY <2>1, <2>2, <2>7, <2>8
<1>8. ASSUME NEW w \in Worker, WorkerStep(w) PROVE OwnershipInv'
  <2>1. CASE CloseListen(w)
    <3>1. QueueInv' /\ holds' = [holds EXCEPT ![w] = @ \ {Listener}]
          /\ \A c \in Conn : phase[c] = "taken" => phase'[c] = "taken"
      BY <2>1, SocketsQueue DEF CloseListen
    <3>2. MasterInv'
      BY <2>1, <3>1 DEF CloseListen, MasterInv, TypeOK
    <3>3. WorkerInv'
      BY <2>1, <3>1 DEF CloseListen, WorkerInv, TypeOK
    <3>4. OwnerInv'
      BY <2>1 DEF CloseListen, OwnerInv, TypeOK
    <3> QED
      BY <3>1, <3>2, <3>3, <3>4
  <2>2. CASE Finish(w)
    BY <2>2 DEF Finish, MasterInv, WorkerInv, OwnerInv, QueueInv, TypeOK
  <2>3. CASE CloseConn(w)
    <3>1. QueueInv' /\ MasterInv' /\ OwnerInv'
      BY <2>3 DEF CloseConn, MasterInv, OwnerInv, QueueInv, TypeOK
    <3>2. WorkerInv'
      BY <2>3 DEF CloseConn, WorkerInv, TypeOK
    <3> QED
      BY <3>1, <3>2
  <2>4. CASE End(w)
    <3>1. QueueInv' /\ MasterInv' /\ OwnerInv'
      BY <2>4 DEF End, Ended, MasterInv, OwnerInv, QueueInv, TypeOK
    <3>2. WorkerInv'
      BY <2>4 DEF End, Ended, WorkerInv, TypeOK
    <3> QED
      BY <3>1, <3>2
  <2> QED
    BY <1>8, <2>1, <2>2, <2>3, <2>4 DEF WorkerStep, Exit, Abort
<1>9. CASE UNCHANGED vars
  BY <1>9 DEF vars, MasterInv, WorkerInv, OwnerInv, QueueInv
<1> QED
  BY <1>1, <1>2, <1>3, <1>4, <1>5, <1>6, <1>7, <1>8, <1>9 DEF Next, MasterStep

LEMMA OwnershipCorrect == Spec => []OwnershipInv
BY OwnershipInit, OwnershipNext, TypeCorrect, PTL DEF Spec

LEMMA OwnershipSole == TypeOK /\ OwnershipInv => SoleServer
<1> SUFFICES ASSUME TypeOK, OwnershipInv PROVE SoleServer
  OBVIOUS
<1> USE WebServerAssumption DEF OwnershipInv
<1>1. ASSUME NEW v \in Worker, NEW w \in Worker, v # w,
             NEW c \in Conn, c \in holds[v], c \in holds[w]
      PROVE  FALSE
  <2>1. wst[v] \in OwnerStates /\ c = wconn[v]
    BY <1>1 DEF WorkerInv
  <2>2. wst[w] \in OwnerStates /\ c = wconn[w]
    BY <1>1 DEF WorkerInv
  <2> QED
    BY <1>1, <2>1, <2>2 DEF OwnerInv
<1>2. ASSUME pc = "fork", NEW w \in Worker, client \in holds[w]
      PROVE  FALSE
  <2>1. client \in Conn
    BY <1>2 DEF MasterInv, TypeOK
  <2> QED
    BY <1>2, <2>1 DEF WorkerInv, OwnerInv
<1> QED
  BY <1>1, <1>2 DEF SoleServer

LEMMA OwnershipClosed == TypeOK /\ OwnershipInv => HandledMeansClosed
<1> SUFFICES ASSUME TypeOK, OwnershipInv, NEW c \in Conn,
                    phase[c] = "taken", client # c,
                    \A w \in Worker : wst[w] \in OwnerStates => wconn[w] # c,
                    NEW p \in Procs
             PROVE  c \notin holds[p]
  BY DEF HandledMeansClosed
<1> USE WebServerAssumption DEF OwnershipInv
<1>1. CASE p = Master
  BY <1>1 DEF MasterInv
<1>2. CASE p \in Worker
  BY <1>2 DEF WorkerInv
<1> QED
  BY <1>1, <1>2 DEF Procs

(* Each connection is answered by one process (web.lua:45-65).             *)
THEOREM SoleServerCorrect == Spec => []SoleServer
BY TypeCorrect, OwnershipCorrect, OwnershipSole, PTL

(* Each connection is closed when its handling is over (web.lua:58-61).    *)
THEOREM HandledMeansClosedCorrect == Spec => []HandledMeansClosed
BY TypeCorrect, OwnershipCorrect, OwnershipClosed, PTL

-----------------------------------------------------------------------------
(* How many children there are.                                            *)

LEMMA CountInit == Init => CountInv
<1> SUFFICES ASSUME Init PROVE CountInv
  OBVIOUS
<1>1. Live = {} /\ Zombie = {}
  BY DEF Init, Live, Zombie, LiveStates
<1>2. Cardinality({}) = 0
  BY FS_EmptySet
<1> QED
  BY <1>1, <1>2 DEF Init, CountInv, ZombieBound, Slack

(* A step that moves workers only among the live states counts the same.   *)
LEMMA CountSame ==
  ASSUME TypeOK, CountInv, Live' = Live, Zombie' = Zombie,
         peak' = peak, Slack' >= Slack
  PROVE  CountInv'
<1>1. Cardinality(Live') = Cardinality(Live)
      /\ Cardinality(Zombie') = Cardinality(Zombie)
  OBVIOUS
<1> QED
  BY <1>1, Counted DEF CountInv, ZombieBound, TypeOK, Slack

LEMMA CountNext == TypeOK /\ CountInv /\ [Next]_vars => CountInv'
<1> SUFFICES ASSUME TypeOK, CountInv, [Next]_vars PROVE CountInv'
  OBVIOUS
<1> USE WebServerAssumption DEF LiveStates
<1> DEFINE L == Cardinality(Live)
           Z == Cardinality(Zombie)
<1>a. L \in Nat /\ Z \in Nat /\ IsFiniteSet(Live) /\ IsFiniteSet(Zombie)
      /\ peak \in Nat
  BY Counted DEF TypeOK
<1>1. ASSUME NEW c \in Conn, Connect(c) PROVE CountInv'
  BY <1>1, CountSame DEF Connect, Live, Zombie, Slack
<1>2. CASE Accept
  BY <1>2, CountSame DEF Accept, Live, Zombie, Slack
<1>3. ASSUME NEW w \in Worker, Fork(w) PROVE CountInv'
  <2>1. Live' = Live \cup {w} /\ w \notin Live /\ Zombie' = Zombie
    BY <1>3 DEF Fork, Live, Zombie, TypeOK
  <2>2. Cardinality(Live') = L + 1 /\ Cardinality(Zombie') = Z
    BY <1>a, <2>1, FS_AddElement
  <2>3. L + Z <= peak
    BY <1>3, <1>a DEF Fork, CountInv, ZombieBound, Slack
  <2>4. peak' >= L + 1 /\ peak' >= peak /\ peak' \in Nat /\ pc' = "close"
    BY <1>3, <1>a DEF Fork
  <2> QED
    BY <1>a, <2>2, <2>3, <2>4 DEF CountInv, ZombieBound, Slack
<1>4. CASE ForkFail
  BY <1>4, CountSame DEF ForkFail, Live, Zombie, Slack
<1>5. CASE CloseClient
  BY <1>5, CountSame DEF CloseClient, Live, Zombie, Slack
<1>6. CASE Reap
  <2>1. peak' = peak /\ pc' = "accept" /\ L <= peak /\ L + Z <= peak + 1
    BY <1>6, <1>a DEF Reap, CountInv, ZombieBound, Slack
  <2>2. CASE Zombie = {}
    <3>1. Live' = Live /\ Zombie' = {} /\ Cardinality({}) = 0
      BY <1>6, <2>2, FS_EmptySet DEF Reap, Live, Zombie
    <3> QED
      BY <1>a, <2>1, <3>1 DEF CountInv, ZombieBound, Slack
  <2>3. CASE Zombie # {}
    <3>1. PICK w \in Zombie : wst' = [wst EXCEPT ![w] = "none"]
      BY <1>6, <2>3 DEF Reap
    <3>2. Live' = Live /\ Zombie' = Zombie \ {w}
      BY <3>1 DEF Live, Zombie, TypeOK
    <3>3. Cardinality(Zombie') = Z - 1
      BY <1>a, <3>2, FS_RemoveElement
    <3> QED
      BY <1>a, <2>1, <3>2, <3>3 DEF CountInv, ZombieBound, Slack
  <2> QED
    BY <2>2, <2>3
<1>7. CASE Kill
  <2>1. Live' = Live /\ Zombie' = {} /\ Cardinality({}) = 0
    BY <1>7, FS_EmptySet DEF Kill, Live, Zombie, TypeOK
  <2> QED
    BY <1>7, <1>a, <2>1 DEF Kill, CountInv, ZombieBound, Slack
<1>8. ASSUME NEW w \in Worker, WorkerStep(w) PROVE CountInv'
  <2>1. CASE CloseListen(w) \/ Finish(w) \/ CloseConn(w)
    <3>1. Live' = Live /\ Zombie' = Zombie
      BY <2>1 DEF CloseListen, Finish, CloseConn, Live, Zombie, TypeOK
    <3> QED
      BY <2>1, <3>1, CountSame DEF CloseListen, Finish, CloseConn, Slack
  <2>2. CASE w \in Live /\ End(w)
    <3>1. Live' = Live \ {w} /\ peak' = peak /\ pc' = pc
          /\ Zombie' = IF pc = "dead" THEN Zombie ELSE Zombie \cup {w}
      BY <2>2 DEF End, Ended, Live, Zombie, TypeOK
    <3>2. w \notin Zombie
      BY <2>2 DEF Live, Zombie
    <3>3. Cardinality(Live') = L - 1
      BY <1>a, <2>2, <3>1, FS_RemoveElement
    <3>4. Cardinality(Zombie \cup {w}) = Z + 1
      BY <1>a, <3>2, FS_AddElement
    <3>5. Cardinality(Zombie') <= Z + 1 /\ Cardinality(Zombie') \in Nat
      BY <1>a, <3>1, <3>4
    <3>6. Slack' = Slack /\ Slack \in Nat
      BY <3>1 DEF Slack
    <3> QED
      BY <1>a, <3>1, <3>3, <3>5, <3>6 DEF CountInv, ZombieBound
  <2> QED
    BY <1>8, <2>1, <2>2 DEF WorkerStep, Exit, Abort, Live
<1>9. CASE UNCHANGED vars
  BY <1>9, CountSame DEF vars, Live, Zombie, Slack
<1> QED
  BY <1>1, <1>2, <1>3, <1>4, <1>5, <1>6, <1>7, <1>8, <1>9 DEF Next, MasterStep

(* Reaping one child per connection is enough: the process table never     *)
(* holds more than the peak of live workers, plus the one just forked      *)
(* (web.lua:46-63, eja.c:41-44).                                           *)
THEOREM ZombieBoundCorrect == Spec => []ZombieBound
<1>1. CountInv => ZombieBound
  BY DEF CountInv
<1> QED
  BY <1>1, CountInit, CountNext, TypeCorrect, PTL DEF Spec

-----------------------------------------------------------------------------
(* The loop implements the connection service.                             *)

Statuses == [c \in Conn |-> Status(c)]

LEMMA ServiceInit == Init => Service!Init
<1> SUFFICES ASSUME Init PROVE Service!Init
  OBVIOUS
<1>1. Listening(holds)
  BY DEF Init, Listening, Procs
<1>2. \A c \in Conn : Status(c) = "idle"
  BY DEF Init, Status
<1> QED
  BY <1>1, <1>2 DEF Init, Service!Init

(* Nothing of the connections changes.                                     *)
LEMMA ServiceSame ==
  ASSUME UNCHANGED <<queue, phase>>,
         \A c \in Conn : Held(c)' = Held(c),
         Listening(holds)' = Listening(holds)
  PROVE  UNCHANGED Service!cvars
<1>1. \A c \in Conn : Status(c)' = Status(c)
  BY DEF Status
<1> QED
  BY <1>1 DEF Service!cvars

(* At most one connection loses a process that had it open.                *)
LEMMA ServiceLeaves ==
  ASSUME TypeOK, UNCHANGED <<queue, phase>>,
         NEW c \in Conn, phase[c] = "taken", Held(c),
         \A d \in Conn : d # c => Held(d)' = Held(d),
         Listening(holds)' = Listening(holds)
  PROVE  [Service!Next]_(Service!cvars)
<1>1. CASE Held(c)'
  <2>1. \A d \in Conn : Held(d)' = Held(d)
    BY <1>1 DEF Held
  <2> QED
    BY <2>1, ServiceSame
<1>2. CASE ~Held(c)'
  <2>1. Status(c) = "serving" /\ Status(c)' = "ended"
    BY <1>2 DEF Status
  <2>2. \A d \in Conn : d # c => Status(d)' = Status(d)
    BY DEF Status
  <2>3. Statuses' = [Statuses EXCEPT ![c] = "ended"]
    BY <2>1, <2>2 DEF Statuses
  <2>4. Service!Leave(c)
    BY <2>1, <2>3 DEF Service!Leave, Statuses
  <2> QED
    BY <2>4 DEF Service!Next
<1> QED
  BY <1>1, <1>2

(* The last process that had the listening socket open closes it, and with *)
(* it at most one connection.                                              *)
LEMMA ServiceShuts ==
  ASSUME TypeOK, NEW h, SocketsAfter(h), Listening(holds), ~Listening(h),
         NEW D, D = {} \/ \E c \in Conn : D = {c},
         \A d \in D : phase[d] = "taken" /\ Held(d) /\ ~Held(d)',
         \A d \in Conn \ D : Held(d)' = Held(d)
  PROVE  Service!Next
<1>1. queue' = <<>> /\ ~Listening(holds)'
      /\ \A c \in Conn : phase'[c] = IF phase[c] = "queued" THEN "reset" ELSE phase[c]
  BY DEF SocketsAfter, Listening
<1>2. D \subseteq Conn /\ \A d \in D : Statuses[d] = "serving"
  BY DEF Statuses, Status
<1>3. \A c \in Conn : phase[c] \in {"idle", "queued", "taken", "reset"}
  BY DEF TypeOK
<1>4. \A c \in Conn :
        Status(c)' = IF Status(c) = "waiting" THEN "refused"
                     ELSE IF c \in D THEN "ended" ELSE Status(c)
  BY <1>1, <1>3 DEF Status
<1>5. Statuses' = [c \in Conn |->
                     IF Statuses[c] = "waiting" THEN "refused"
                     ELSE IF c \in D THEN "ended" ELSE Statuses[c]]
  BY <1>4 DEF Statuses
<1>6. Service!Shutdown(D)
  BY <1>1, <1>2, <1>5 DEF Service!Shutdown, Statuses
<1> QED
  BY <1>6 DEF Service!Next

(* Which process has a socket open, by the invariant.                      *)
HasOwner(c) ==
  client = c \/ \E w \in Worker : wst[w] \in OwnerStates /\ wconn[w] = c

ListenOwner == pc # "dead" \/ \E w \in Worker : wst[w] = "child"

HeldInv ==
  /\ \A c \in Conn : Held(c) = HasOwner(c)
  /\ Listening(holds) = ListenOwner
  /\ \A c \in Conn : HasOwner(c) => phase[c] = "taken"

LEMMA HeldBy == TypeOK /\ OwnershipInv => HeldInv
<1> SUFFICES ASSUME TypeOK, OwnershipInv PROVE HeldInv
  OBVIOUS
<1> USE WebServerAssumption DEF OwnershipInv
<1>1. \A c \in Conn : c \in holds[Master] <=> client = c
  BY DEF MasterInv
<1>2. \A c \in Conn, w \in Worker :
        c \in holds[w] <=> wst[w] \in OwnerStates /\ wconn[w] = c
  BY DEF WorkerInv
<1>3. Listener \in holds[Master] <=> pc # "dead"
  BY DEF MasterInv, TypeOK
<1>4. \A w \in Worker : Listener \in holds[w] <=> wst[w] = "child"
  BY DEF WorkerInv, OwnerStates, TypeOK
<1>5. \A c \in Conn : Held(c) = HasOwner(c)
  BY <1>1, <1>2 DEF Held, HasOwner, Procs
<1>6. Listening(holds) = ListenOwner
  BY <1>3, <1>4 DEF Listening, ListenOwner, Procs
<1>7. \A c \in Conn : HasOwner(c) => phase[c] = "taken"
  BY DEF HasOwner, MasterInv, WorkerInv
<1> QED
  BY <1>5, <1>6, <1>7 DEF HeldInv

LEMMA ServiceNext ==
  TypeOK /\ OwnershipInv /\ [Next]_vars => [Service!Next]_(Service!cvars)
<1> SUFFICES ASSUME TypeOK, OwnershipInv, [Next]_vars
             PROVE  [Service!Next]_(Service!cvars)
  OBVIOUS
<1>a. TypeOK' /\ OwnershipInv'
  BY TypeNext, OwnershipNext
<1>b. /\ \A c \in Conn : Held(c) = HasOwner(c)
      /\ Listening(holds) = ListenOwner
      /\ \A c \in Conn : HasOwner(c) => phase[c] = "taken"
  BY HeldBy DEF HeldInv
<1>c. /\ \A c \in Conn : Held(c)' = HasOwner(c)'
      /\ Listening(holds)' = ListenOwner'
  <2>1. HeldInv'
    BY <1>a, HeldBy, PTL
  <2> QED
    BY <2>1 DEF HeldInv
<1> USE WebServerAssumption
<1>1. ASSUME NEW c \in Conn, Connect(c)
      PROVE  [Service!Next]_(Service!cvars)
  <2>1. Status(c) = "idle" /\ Status(c)' = "waiting"
    BY <1>1 DEF Connect, Status, TypeOK
  <2>2. \A d \in Conn : d # c => Status(d)' = Status(d)
    BY <1>1 DEF Connect, Status, Held, TypeOK
  <2>3. Statuses' = [Statuses EXCEPT ![c] = "waiting"]
    BY <2>1, <2>2 DEF Statuses
  <2>4. Service!Arrive(c)
    BY <1>1, <2>1, <2>3 DEF Connect, Service!Arrive, Statuses
  <2> QED
    BY <2>4 DEF Service!Next
<1>2. CASE Accept
  <2>0. PICK c \in Conn : c = Head(queue)
    BY <1>2, QueueTyped DEF Accept, TypeOK
  <2>1. c = queue[1] /\ 1 \in 1..Len(queue)
    BY <1>2, <2>0 DEF Accept, TypeOK
  <2>2. phase[c] = "queued"
    BY <2>1 DEF OwnershipInv, QueueInv
  <2>3. client = NoConn /\ Listening(holds) /\ Listening(holds)'
    BY <1>2, <1>b, <1>c DEF Accept, OwnershipInv, MasterInv, ListenOwner
  <2>4. \A d \in Conn : HasOwner(d)' <=> d = c \/ HasOwner(d)
    BY <1>2, <2>0, <2>3 DEF Accept, HasOwner
  <2>5. Status(c)' = "serving"
    <3>1. phase'[c] = "taken"
      BY <1>2, <2>0 DEF Accept, TypeOK
    <3>2. Held(c)'
      BY <1>c, <2>4
    <3> QED
      BY <3>1, <3>2 DEF Status
  <2>6. \A d \in Conn : d # c => Status(d)' = Status(d)
    BY <1>2, <1>b, <1>c, <2>0, <2>4 DEF Accept, Status, TypeOK
  <2>7. Statuses' = [Statuses EXCEPT ![c] = "serving"]
    BY <2>5, <2>6 DEF Statuses
  <2>8. Service!Take
    BY <1>2, <2>0, <2>3, <2>7 DEF Accept, Service!Take, Statuses
  <2> QED
    BY <2>8 DEF Service!Next
<1>3. ASSUME UNCHANGED <<queue, phase>>,
             \A c \in Conn : HasOwner(c)' = HasOwner(c),
             ListenOwner' = ListenOwner
      PROVE  [Service!Next]_(Service!cvars)
  BY <1>3, <1>b, <1>c, ServiceSame
<1>4. ASSUME NEW c \in Conn, UNCHANGED <<queue, phase>>, HasOwner(c),
             \A d \in Conn : d # c => HasOwner(d)' = HasOwner(d),
             ListenOwner' = ListenOwner
      PROVE  [Service!Next]_(Service!cvars)
  BY <1>4, <1>b, <1>c, ServiceLeaves
<1>5. ASSUME NEW w \in Worker, Fork(w)
      PROVE  [Service!Next]_(Service!cvars)
  BY <1>3, <1>5 DEF Fork, HasOwner, ListenOwner, OwnerStates, TypeOK
<1>6. CASE ForkFail
  BY <1>3, <1>6 DEF ForkFail, HasOwner, ListenOwner
<1>7. CASE CloseClient
  <2>1. client \in Conn
    BY <1>7 DEF CloseClient, OwnershipInv, MasterInv, TypeOK
  <2> QED
    BY <1>4, <1>7, <2>1 DEF CloseClient, HasOwner, ListenOwner
<1>8. CASE Reap
  BY <1>3, <1>8 DEF Reap, Zombie, HasOwner, ListenOwner, OwnerStates, TypeOK
<1>9. CASE Kill
  <2> DEFINE h == [holds EXCEPT ![Master] = {}]
  <2>1. SocketsAfter(h) /\ holds' = h /\ Listening(holds) /\ client' = NoConn
    BY <1>9, <1>b DEF Kill, SocketsAfter, ListenOwner
  <2>2. \A w \in Worker :
          wst'[w] \in OwnerStates /\ wconn'[w] = wconn[w] <=> wst[w] \in OwnerStates
    BY <1>9 DEF Kill, OwnerStates, TypeOK
  <2>3. wconn' = wconn
    BY <1>9 DEF Kill
  <2>4. \A d \in Conn : d # client => HasOwner(d)' = HasOwner(d)
    BY <2>1, <2>2, <2>3 DEF HasOwner
  <2>5. CASE Listening(h)
    <3>1. UNCHANGED <<queue, phase>> /\ ListenOwner' = ListenOwner
      BY <1>b, <1>c, <2>1, <2>5 DEF SocketsAfter, Listening, TypeOK
    <3>2. CASE client \in Conn
      BY <1>4, <2>4, <3>1, <3>2 DEF HasOwner
    <3>3. CASE client \notin Conn
      BY <1>3, <2>4, <3>1, <3>3
    <3> QED
      BY <3>2, <3>3
  <2>6. CASE ~Listening(h)
    <3>0. PICK D : D = {d \in Conn : d = client /\ ~HasOwner(d)'}
      OBVIOUS
    <3>1. \A d \in D : phase[d] = "taken" /\ Held(d) /\ ~Held(d)'
      BY <1>b, <1>c, <3>0 DEF HasOwner
    <3>2. \A d \in Conn \ D : HasOwner(d)' = HasOwner(d)
      <4>1. ASSUME NEW d \in Conn \ D, d = client
            PROVE  HasOwner(d)' = HasOwner(d)
        <5>1. HasOwner(d)'
          BY <3>0, <4>1
        <5>2. HasOwner(d)
          BY <4>1 DEF HasOwner
        <5> QED
          BY <5>1, <5>2 DEF HasOwner
      <4> QED
        BY <2>4, <4>1
    <3>3. \A d \in Conn \ D : Held(d)' = Held(d)
      BY <1>b, <1>c, <3>2
    <3> HIDE DEF h
    <3>4. D = {} \/ \E c \in Conn : D = {c}
      BY <3>0
    <3> QED
      BY <2>1, <2>6, <3>1, <3>3, <3>4, ServiceShuts
  <2> QED
    BY <2>5, <2>6
<1>10. ASSUME NEW w \in Worker, WorkerStep(w)
       PROVE  [Service!Next]_(Service!cvars)
  <2>1. CASE CloseListen(w)
    <3> DEFINE h == [holds EXCEPT ![w] = @ \ {Listener}]
    <3>1. SocketsAfter(h) /\ holds' = h /\ Listening(holds)
      BY <2>1, <1>b DEF CloseListen, SocketsAfter, ListenOwner
    <3>2. \A d \in Conn : HasOwner(d)' = HasOwner(d)
      BY <2>1 DEF CloseListen, HasOwner, OwnerStates, TypeOK
    <3>3. CASE Listening(h)
      <4>1. UNCHANGED <<queue, phase>> /\ ListenOwner' = ListenOwner
        BY <1>b, <1>c, <3>1, <3>3 DEF SocketsAfter, Listening, TypeOK
      <4> QED
        BY <1>3, <3>2, <4>1
    <3>4. CASE ~Listening(h)
      <4>1. \A d \in Conn : Held(d)' = Held(d)
        BY <1>b, <1>c, <3>2
      <4> DEFINE D == {}
      <4>2. /\ D = {} /\ \A d \in Conn \ D : Held(d)' = Held(d)
            /\ \A d \in D : phase[d] = "taken" /\ Held(d) /\ ~Held(d)'
        BY <4>1
      <4> HIDE DEF h, D
      <4> QED
        BY <3>1, <3>4, <4>2, ServiceShuts
    <3> QED
      BY <3>3, <3>4
  <2>2. CASE Finish(w)
    BY <1>3, <2>2 DEF Finish, HasOwner, ListenOwner, OwnerStates, TypeOK
  <2>3. ASSUME wst[w] \in OwnerStates \ {"child"},
               UNCHANGED <<queue, phase, pc, client>>,
               \A v \in Worker : v # w => wst'[v] = wst[v] /\ wconn'[v] = wconn[v],
               wst'[w] \notin OwnerStates
        PROVE  [Service!Next]_(Service!cvars)
    <3>1. wconn[w] \in Conn /\ HasOwner(wconn[w])
      BY <2>3 DEF OwnershipInv, WorkerInv, HasOwner
    <3>2. \A d \in Conn : d # wconn[w] => HasOwner(d)' = HasOwner(d)
      BY <2>3 DEF HasOwner
    <3>3. ListenOwner' = ListenOwner
      BY <2>3 DEF ListenOwner, OwnerStates
    <3> QED
      BY <1>4, <2>3, <3>1, <3>2, <3>3
  <2>4. CASE CloseConn(w)
    BY <2>3, <2>4 DEF CloseConn, OwnerStates, TypeOK
  <2>5. CASE Exit(w)
    BY <1>3, <2>5 DEF Exit, End, Ended, HasOwner, ListenOwner, OwnerStates, TypeOK
  <2>6. CASE Abort(w)
    BY <2>3, <2>6 DEF Abort, End, Ended, OwnerStates, TypeOK
  <2> QED
    BY <1>10, <2>1, <2>2, <2>4, <2>5, <2>6 DEF WorkerStep
<1>11. CASE UNCHANGED vars
  BY <1>3, <1>11 DEF vars, HasOwner, ListenOwner
<1> QED
  BY <1>1, <1>2, <1>5, <1>6, <1>7, <1>8, <1>9, <1>10, <1>11 DEF Next, MasterStep

(* First come first served, each connection handled once, ended connections *)
(* stay ended, and whoever waits when the daemon goes is refused           *)
(* (web.lua:40-67).                                                        *)
THEOREM ServesInOrderCorrect == Spec => ServesInOrder
BY ServiceInit, ServiceNext, TypeCorrect, OwnershipCorrect, PTL
   DEF Spec, ServesInOrder, Service!Spec
=============================================================================
