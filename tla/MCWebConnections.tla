-------------------------- MODULE MCWebConnections --------------------------
(***************************************************************************)
(* What a worker of the daemon and the socket proxy do with connections,   *)
(* one of three instances in each behaviour: requests with bodies and      *)
(* answers of every kind (both with the variables and constants of         *)
(* WebRequest itself), and clients of the proxy.  What does not move stays *)
(* as it is at the start.                                                  *)
(***************************************************************************)
EXTENDS WebRequest, FiniteSets

CONSTANTS
  Client,     \* the clients of the proxy
  AnswerLen   \* units of one answer of its remote

VARIABLES
  part, at, line, said, cst, gone, cur, out, got, served, asked, todo, answers, closed, late

(* As checked, an answer is two units and a recv takes three, so late      *)
(* answers are cut and joined.  At most one client makes no query.         *)
MaxOdd == 1
Remote == INSTANCE Proxy WITH
  Kinds <- {"query", "bad", "other", "silent"}, NoClient <- "none",
  pc <- at, wire <- answers, strained <- late

ASSUME WebConnectionsAssumption == WebRequestAssumption /\ Remote!ProxyAssumption

ProxyVars == <<at, line, said, cst, gone, cur, out, got, served, asked, todo, answers, closed, late>>
AllVars == <<part, vars, ProxyVars>>

(* The ranges: none, one without a number, and inside and beyond a file.   *)
SomeRanges == {NoNumber, -1, 0, 1, 3}

(* Two requests with bodies shorter than, as long as and longer than what  *)
(* is left of a buffer of three units, in every segmentation; or one       *)
(* request for any kind of target.  Only for that one does the length of   *)
(* what is sent vary.  A length that was cut is one of Lens; of the reads   *)
(* only those of forms may be for a connection that is to be closed.       *)
Fits(r) ==
  \/ /\ part = "read" /\ r.method # "head" /\ r.target = "file" /\ r.range = -1
     /\ r.keep \/ r.type = "form"
  \/ part = "answer" /\ r.type = "other" /\ r.method # "post" /\ r.len = 0
Bounds ==
  /\ \A i \in 1..Len(made) : Fits(made[i])
  /\ web.len \in Lens
  /\ part # "answer" => file = 2 /\ (reply.from = "data" => reply.data = 2)

AllInit ==
  /\ part \in {"read", "answer", "proxy"}
  /\ Init /\ Bounds
  /\ Remote!Init

Turns ==
  /\ part \in {"read", "answer"}
  /\ IF part = "answer" /\ made # <<>> THEN UNCHANGED made ELSE TRUE
  /\ Next /\ Bounds' /\ UNCHANGED ProxyVars
Proxying ==
  /\ part = "proxy" /\ Remote!Next /\ UNCHANGED vars
  /\ Cardinality({c \in Client : said'[c] \in {"bad", "other", "silent"}}) <= MaxOdd
AllNext == UNCHANGED part /\ (Turns \/ Proxying)

(* The worker and the proxy run, and their reads time out.                 *)
AllSpec ==
  /\ AllInit /\ [][AllNext]_AllVars
  /\ WF_vars(part = "read" /\ Worker /\ UNCHANGED <<part, ProxyVars>>)
  /\ WF_ProxyVars(part = "proxy" /\ Remote!Loop /\ UNCHANGED <<part, vars>>)

---------------------------------------------------------------------------
(* Each turn of a connection begins with a header, a handler gets the      *)
(* whole body of its own request, and the worker does not wait for what    *)
(* was sent already (WebRequest).                                          *)
TurnsInStep == TypeOK /\ InStep /\ BodyWhole /\ NoMutualWait

(* Reading a body ends (WebRequest).                                       *)
BodyReadEnds == part = "read" => BodyEnds

(* What the remote sends reaches the clients in the order in which it was  *)
(* asked for; while no answer is late each client gets its own (Proxy).    *)
StreamInOrder == part = "proxy" => Remote!TypeOK /\ Remote!StreamInOrder /\ Remote!OwnAnswer

(* Who waits is answered and closed (Proxy); the clients are alike, so one *)
(* of them stands for all.                                                 *)
Someone == CHOOSE c \in Client : TRUE
EveryoneServed ==
  part = "proxy" => (cst[Someone] = "waiting" ~> (cst[Someone] = "closed" \/ at = "dead"))
=============================================================================
