------------------------------- MODULE Proxy -------------------------------
(***************************************************************************)
(* ejaWebSocketProxy (src/lib/web.lua): one connection to a remote server, *)
(* opened once, is shared by all clients.  A client is accepted, its query *)
(* is written to the remote, one recv from the remote gives the answer,    *)
(* whatever arrived, and the client is closed.                             *)
(*                                                                         *)
(* Nothing ties an answer to a query but the order of the stream.  The     *)
(* units of the stream carry the client whose query they answer.           *)
(***************************************************************************)
EXTENDS Naturals, Sequences, FiniteSets, SequencesExt

CONSTANTS
  Client,     \* the clients that connect, once each
  Kinds,      \* what they send: a subset of {"query", "bad", "other", "silent"}
  AnswerLen,  \* units of one answer of the remote
  BufferSize, \* units one recv returns at most: bSize
  NoClient

(* What the constants may be.                                              *)
ProxyAssumption ==
  /\ NoClient \notin Client
  /\ Kinds \subseteq {"query", "bad", "other", "silent"}
  /\ AnswerLen \in Nat \ {0} /\ BufferSize \in Nat \ {0}

VARIABLES
  pc,       \* where the proxy is in its loop
  line,     \* who waits to be accepted
  said,     \* what each client sends
  cst,      \* how far each client has come
  gone,     \* clients that hung up
  cur,      \* the client in hand: lSocket
  out,      \* what was read for it from the remote: dataOut
  got,      \* what was written to each client
  served,   \* history: who was answered, in order
  asked,    \* history: whose queries were written to the remote, in order
  todo,     \* what the remote has still to send
  wire,     \* what arrived from the remote and was not read
  closed,   \* the remote closed its side
  strained  \* history: an answer came late, in parts, or together with another

remoteVars == <<asked, todo, wire, closed>>
clientVars == <<line, said, cst, gone>>
vars == <<pc, clientVars, cur, out, got, served, remoteVars, strained>>

Units == Seq(Client)

TypeOK ==
  /\ pc \in {"accept", "read", "ask", "answer", "reply", "close", "dead"}
  /\ line \in Seq(Client) /\ served \in Seq(Client) /\ asked \in Seq(Client)
  /\ said \in [Client -> Kinds \cup {"nothing"}]
  /\ cst \in [Client -> {"away", "waiting", "taken", "closed"}]
  /\ gone \subseteq Client
  /\ cur \in Client \cup {NoClient}
  /\ out \in Units /\ todo \in Units /\ wire \in Units
  /\ got \in [Client -> Units]
  /\ closed \in BOOLEAN /\ strained \in BOOLEAN

Init ==
  /\ pc = "accept" /\ cur = NoClient /\ out = <<>>
  /\ line = <<>> /\ said = [c \in Client |-> "nothing"]
  /\ cst = [c \in Client |-> "away"] /\ gone = {}
  /\ got = [c \in Client |-> <<>>] /\ served = <<>>
  /\ asked = <<>> /\ todo = <<>> /\ wire = <<>> /\ closed = FALSE
  /\ strained = FALSE

Answer(c) == [i \in 1..AnswerLen |-> c]

-----------------------------------------------------------------------------
(* Clients and the remote.                                                 *)

Connect(c) ==
  /\ cst[c] = "away"
  /\ cst' = [cst EXCEPT ![c] = "waiting"]
  /\ line' = Append(line, c)
  /\ \E k \in Kinds : said' = [said EXCEPT ![c] = k]
  /\ UNCHANGED <<pc, gone, cur, out, got, served, strained>>
  /\ UNCHANGED remoteVars

HangUp(c) ==
  /\ cst[c] \in {"waiting", "taken"} /\ c \notin gone
  /\ gone' = gone \cup {c}
  /\ UNCHANGED <<pc, line, said, cst, cur, out, got, served, strained>>
  /\ UNCHANGED remoteVars

RemoteSend ==
  /\ \E k \in 1..Len(todo) :
       /\ wire' = wire \o SubSeq(todo, 1, k)
       /\ todo' = SubSeq(todo, k + 1, Len(todo))
       /\ strained' = (strained \/ k # AnswerLen)
  /\ UNCHANGED <<pc, cur, out, got, served, asked, closed>>
  /\ UNCHANGED clientVars

RemoteClose ==
  /\ ~closed
  /\ closed' = TRUE
  /\ todo' = <<>>
  /\ UNCHANGED <<pc, cur, out, got, served, asked, wire, strained>>
  /\ UNCHANGED clientVars

-----------------------------------------------------------------------------
(* The proxy.                                                              *)

Accept ==
  /\ pc = "accept" /\ line # <<>>
  /\ pc' = "read"
  /\ cur' = Head(line)
  /\ line' = Tail(line)
  /\ cst' = [cst EXCEPT ![Head(line)] = "taken"]
  /\ UNCHANGED <<said, gone, out, got, served, strained>>
  /\ UNCHANGED remoteVars

(* accept gives nil, which ejaSocketClose does not take: the error ends    *)
(* the proxy.                                                              *)
AcceptFail ==
  /\ pc = "accept" /\ line # <<>>
  /\ pc' = "dead"
  /\ UNCHANGED <<cur, out, got, served, strained>>
  /\ UNCHANGED clientVars /\ UNCHANGED remoteVars

ReadGives(l) ==
  /\ pc = "read"
  /\ pc' = l
  /\ UNCHANGED <<cur, out, got, served, strained>>
  /\ UNCHANGED clientVars /\ UNCHANGED remoteVars

(* A query that is not hexadecimal, where that is expected, ends the proxy. *)
ReadClient ==
  pc = "read" /\ (\/ said[cur] = "query" /\ ReadGives("ask")
                  \/ said[cur] = "other" /\ ReadGives("answer")
                  \/ said[cur] = "bad" /\ ReadGives("dead"))

(* Mutant: the socket of the client has no timeout.                        *)
ClientTimeoutNever == pc = "read" /\ cur \in gone /\ ReadGives("answer")

(* Nothing came in lTimeout seconds, or the client is gone.                *)
ClientTimeout == ReadGives("answer")

(* Writing to a remote that has closed may raise SIGPIPE.                  *)
Ask ==
  /\ pc = "ask"
  /\ \/ /\ pc' = "answer"
        /\ asked' = Append(asked, cur)
        /\ todo' = IF closed THEN todo ELSE todo \o Answer(cur)
     \/ /\ closed
        /\ pc' = "dead"
        /\ UNCHANGED <<asked, todo>>
  /\ UNCHANGED <<cur, out, got, served, wire, closed, strained>>
  /\ UNCHANGED clientVars

Took == IF Len(wire) < BufferSize THEN Len(wire) ELSE BufferSize

(* Mutant: what is behind the end of the buffer is thrown away.            *)
ReadRemoteDrops ==
  /\ pc = "answer" /\ wire # <<>>
  /\ pc' = "reply"
  /\ out' = SubSeq(wire, 1, Took)
  /\ wire' = <<>>
  /\ strained' = (strained \/ Took # AnswerLen)
  /\ UNCHANGED <<cur, got, served, asked, todo, closed>>
  /\ UNCHANGED clientVars

(* One recv, of whatever has arrived, for whoever is in hand.              *)
ReadRemote ==
  /\ pc = "answer" /\ wire # <<>>
  /\ pc' = "reply"
  /\ out' = SubSeq(wire, 1, Took)
  /\ wire' = SubSeq(wire, Took + 1, Len(wire))
  /\ strained' = (strained \/ Took # AnswerLen)
  /\ UNCHANGED <<cur, got, served, asked, todo, closed>>
  /\ UNCHANGED clientVars

(* Nothing came in lTimeout seconds, or the remote has closed: the client  *)
(* gets an empty answer.                                                   *)
RemoteTimeout ==
  /\ pc = "answer" /\ wire = <<>>
  /\ pc' = "reply"
  /\ out' = <<>>
  /\ strained' = (strained \/ todo # <<>>)
  /\ UNCHANGED <<cur, got, served>>
  /\ UNCHANGED clientVars /\ UNCHANGED remoteVars

(* Writing to a client that is gone may raise SIGPIPE.                     *)
Reply ==
  /\ pc = "reply"
  /\ \/ /\ pc' = "close"
        /\ got' = [got EXCEPT ![cur] = out]
        /\ served' = Append(served, cur)
     \/ /\ cur \in gone
        /\ pc' = "dead"
        /\ UNCHANGED <<got, served>>
  /\ UNCHANGED <<cur, out, strained>>
  /\ UNCHANGED clientVars /\ UNCHANGED remoteVars

Close ==
  /\ pc = "close"
  /\ pc' = "accept"
  /\ cst' = [cst EXCEPT ![cur] = "closed"]
  /\ cur' = NoClient
  /\ out' = <<>>
  /\ UNCHANGED <<line, said, gone, got, served, strained>>
  /\ UNCHANGED remoteVars

-----------------------------------------------------------------------------
Loop ==
  \/ Accept \/ AcceptFail \/ ReadClient \/ ClientTimeout \/ Ask
  \/ ReadRemote \/ RemoteTimeout \/ Reply \/ Close

Next ==
  \/ \E c \in Client : Connect(c) \/ HangUp(c)
  \/ RemoteSend \/ RemoteClose
  \/ Loop

Spec == Init /\ [][Next]_vars

(* The process runs, and its reads time out.                               *)
FairSpec == Spec /\ WF_vars(Loop)

-----------------------------------------------------------------------------
(* Properties.                                                             *)

Flat(s) == FlattenSeq(s)

(* What the remote sends reaches the clients in the order in which it was  *)
(* asked for: nothing is lost, repeated or overtaken, however late it is   *)
(* and however it is cut (web.lua:461-478).                                *)
StreamInOrder ==
  ~closed =>
    Flat([i \in 1..Len(served) |-> got[served[i]]])
      \o (IF pc \in {"reply", "dead"} THEN out ELSE <<>>) \o wire \o todo
      = Flat([i \in 1..Len(asked) |-> Answer(asked[i])])

(* As long as every answer came whole and before its timeout, each client  *)
(* has the whole answer to its own query, and one that made no query has   *)
(* nothing (web.lua:461-478).                                              *)
OwnAnswer ==
  ~strained /\ ~closed =>
    \A i \in 1..Len(served) :
      got[served[i]] = IF Contains(asked, served[i]) THEN Answer(served[i]) ELSE <<>>

(* Who waits is answered and closed, although the clients before may be    *)
(* silent and the remote slow: each wait has its timeout, unless the       *)
(* proxy has ended (web.lua:447-448, 457-458).                             *)
EveryoneServed ==
  \A c \in Client : cst[c] = "waiting" ~> (cst[c] = "closed" \/ pc = "dead")
=============================================================================
