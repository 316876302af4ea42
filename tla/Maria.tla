------------------------------- MODULE Maria -------------------------------
(***************************************************************************)
(* The client of MariaDB (src/lib/maria.lua): a program opens a connection,*)
(* sends queries one after the other and reads their results, and closes.  *)
(*                                                                         *)
(* There is one descriptor for all connections (eja.maria.fd), set by every*)
(* attempt to open one, and one connection that queries use (eja.maria.db),*)
(* set when an attempt succeeds.  A query is sent in one state only; it is *)
(* left with the query and reached again at the end of the result.         *)
(*                                                                         *)
(* The stream carries packets of three units: the header of four bytes,    *)
(* the beginning of the content and its rest.  What a packet says beyond   *)
(* its type is left out, and so are the numbers of packets.                *)
(***************************************************************************)
EXTENDS Naturals, Sequences

CONSTANTS
  MaxOpen,   \* how often the program tries to open a connection
  MaxQuery,  \* how many queries it sends
  Kinds,     \* a subset of {"ok", "err", "rows", "more", "moreRows", "killed", "cut"}
  Fields     \* how many fields a result has

NoFd == 0    \* no descriptor, no connection

ASSUME MariaAssumption ==
  /\ MaxOpen \in Nat /\ MaxQuery \in Nat
  /\ Fields \in Nat \ {0}
  /\ Kinds \subseteq {"ok", "err", "rows", "more", "moreRows", "killed", "cut"}

VARIABLES
  opens,     \* how many attempts were made; the descriptor of the last is its number
  fd,        \* eja.maria.fd
  shut,      \* fd was closed
  db,        \* the attempt that eja.maria.db comes from
  state,     \* eja.maria.db.state
  peer,      \* what the server makes of the connection of fd
  todo,      \* units the server has still to send on it
  wire,      \* units that have arrived and were not read
  pc,        \* what the program waits for
  left,      \* fields still to come
  asked,     \* history: the queries that were sent
  got,       \* the packets of the result so far
  answer,    \* what the last call returned
  failed,    \* history: an attempt to open failed while there was a connection
  astray,    \* history: a query was sent on another connection than db's
  strained   \* history: a read gave less of a packet than its length

dbVars  == <<db, state>>
netVars == <<fd, peer, todo, wire>>
history == <<asked, failed, astray, strained>>
vars == <<opens, fd, shut, db, state, peer, todo, wire, pc, left, asked, got,
          answer, failed, astray, strained>>

Packet == [typ : {"OK", "ERR", "EOF", "DATA"}, query : 0..MaxQuery, more : BOOLEAN]
Unit   == [packet : Packet, part : {"head", "body", "rest"}]

Reading == pc \in {"greet", "auth", "result", "fields", "eof", "rows"}

TypeOK ==
  /\ opens \in 0..MaxOpen /\ fd \in 0..opens /\ db \in 0..opens
  /\ shut \in BOOLEAN
  /\ state \in {"nil", "connected", "sent"}
  /\ peer \in {"none", "greet", "ready", "gone"}
  /\ todo \in Seq(Unit) /\ wire \in Seq(Unit)
  /\ pc \in {"idle", "greet", "auth", "result", "fields", "eof", "rows", "abort"}
  /\ left \in Nat
  /\ asked \in Seq(Kinds) /\ Len(asked) <= MaxQuery
  /\ got \in Seq(Packet)
  /\ answer \in {"none", "open", "failed", "refused", "error", "result", "again", "closed"}
  /\ failed \in BOOLEAN /\ astray \in BOOLEAN /\ strained \in BOOLEAN

Init ==
  /\ opens = 0 /\ fd = NoFd /\ shut = FALSE /\ db = NoFd /\ state = "nil"
  /\ peer = "none" /\ todo = <<>> /\ wire = <<>>
  /\ pc = "idle" /\ left = 0 /\ asked = <<>> /\ got = <<>> /\ answer = "none"
  /\ failed = FALSE /\ astray = FALSE /\ strained = FALSE

-----------------------------------------------------------------------------
(* The server.                                                             *)

P(t, n) == [typ |-> t, query |-> n, more |-> FALSE]
More(p) == [p EXCEPT !.more = TRUE]

Head3(n) == <<P("DATA", n)>> \o [i \in 1..Fields |-> P("DATA", n)] \o <<P("EOF", n)>>

(* What is sent for query n; "killed" ends in an error among the rows,     *)
(* "cut" in one among the fields.                                          *)
Plan(k, n) ==
  CASE k = "ok"       -> <<P("OK", n)>>
    [] k = "err"      -> <<P("ERR", n)>>
    [] k = "rows"     -> Head3(n) \o <<P("DATA", n), P("EOF", n)>>
    [] k = "more"     -> <<More(P("OK", n)), P("OK", n)>>
    [] k = "moreRows" -> Head3(n) \o <<P("DATA", n), More(P("EOF", n)), P("OK", n)>>
    [] k = "killed"   -> Head3(n) \o <<P("DATA", n), P("ERR", n)>>
    [] k = "cut"      -> <<P("DATA", n), P("ERR", n)>>

Units(ps) ==
  [i \in 1..(3 * Len(ps)) |->
     [packet |-> ps[((i - 1) \div 3) + 1],
      part   |-> <<"head", "body", "rest">>[((i - 1) % 3) + 1]]]

Arrive ==
  /\ \E k \in 1..Len(todo) :
       /\ wire' = wire \o SubSeq(todo, 1, k)
       /\ todo' = SubSeq(todo, k + 1, Len(todo))
  /\ UNCHANGED <<opens, fd, shut, db, state, peer, pc, left, got, answer>>
  /\ UNCHANGED history

(* The server ends, or is restarted, or gives up an idle connection.       *)
Hangs ==
  /\ peer \in {"greet", "ready"}
  /\ peer' = "gone"
  /\ todo' = <<>>
  /\ UNCHANGED <<opens, fd, shut, db, state, wire, pc, left, got, answer>>
  /\ UNCHANGED history

-----------------------------------------------------------------------------
(* Calls.                                                                  *)

Return(a) == pc' = "idle" /\ answer' = a

InUse == state # "nil"

(* Mutant: the connection that is there is kept.                           *)
SucceedsOnce ==
  /\ db' = (IF db = NoFd THEN fd ELSE db)
  /\ state' = (IF db = NoFd THEN "connected" ELSE state)
  /\ Return("open")

(* The connection becomes the one in use, whatever was in use before.      *)
Succeeds == db' = fd /\ state' = "connected" /\ Return("open")

(* An attempt to open: the descriptor of the last one is given up, whatever*)
(* becomes of this one.                                                    *)
Attempt(f, s) ==
  /\ pc = "idle" /\ opens < MaxOpen
  /\ opens' = opens + 1
  /\ fd' = f /\ peer' = s
  /\ wire' = <<>> /\ shut' = FALSE
  /\ UNCHANGED <<db, state, left, got, asked, astray, strained>>

OpenFails(f) ==
  /\ Attempt(f, "none")
  /\ todo' = <<>>
  /\ failed' = (failed \/ InUse)
  /\ Return("failed")

(* The server accepts; it greets, or says that it has too many clients.    *)
OpenReaches ==
  /\ Attempt(opens + 1, "greet")
  /\ \E t \in {"DATA", "ERR"} : todo' = Units(<<P(t, 0)>>)
  /\ pc' = "greet"
  /\ UNCHANGED <<answer, failed>>

(* A character set that is not known is refused before anything is done.   *)
OpenUnsupported ==
  /\ pc = "idle" /\ opens < MaxOpen
  /\ Return("failed")
  /\ UNCHANGED <<opens, shut, left, got>>
  /\ UNCHANGED dbVars /\ UNCHANGED netVars /\ UNCHANGED history

(* No address gives no descriptor, a refused connection an unconnected one.*)
Open ==
  OpenUnsupported \/ OpenFails(NoFd) \/ OpenFails(opens + 1) \/ OpenReaches

(* A query that is not sent in the right state is refused.                 *)
QueryRefused ==
  /\ pc = "idle" /\ Len(asked) < MaxQuery
  /\ state # "connected"
  /\ Return("refused")
  /\ UNCHANGED <<opens, shut, left, got>>
  /\ UNCHANGED dbVars /\ UNCHANGED netVars /\ UNCHANGED history

(* A server that waits for authentication takes the query for it; writing  *)
(* to a connection that is gone may raise SIGPIPE, and to none is an error.*)
Query(k) ==
  /\ pc = "idle" /\ Len(asked) < MaxQuery
  /\ state = "connected"
  /\ asked' = Append(asked, k)
  /\ astray' = (astray \/ fd # db)
  /\ got' = <<>>
  /\ \/ /\ peer = "ready"
        /\ todo' = todo \o Units(Plan(k, Len(asked')))
        /\ pc' = "result" /\ state' = "sent"
        /\ UNCHANGED peer
     \/ /\ peer = "greet"
        /\ todo' = todo \o Units(<<P("ERR", 0)>>)
        /\ pc' = "result" /\ state' = "sent" /\ peer' = "gone"
     \/ /\ peer = "gone"
        /\ pc' = "result" /\ state' = "sent"
        /\ UNCHANGED <<peer, todo>>
     \/ /\ peer \in {"gone", "none"}
        /\ pc' = "abort"
        /\ UNCHANGED <<peer, todo, state>>
  /\ UNCHANGED <<opens, fd, shut, db, wire, left, answer, failed, strained>>

(* The descriptor is not forgotten: the next close writes to it again.     *)
Close ==
  /\ pc = "idle"
  /\ \/ /\ db # NoFd /\ fd # NoFd /\ peer # "none"
        /\ state' = "nil"
        /\ IF shut THEN Return("failed") /\ UNCHANGED <<peer, todo>>
                   ELSE Return("closed") /\ peer' = "gone" /\ todo' = <<>>
        /\ shut' = TRUE
     \/ /\ db = NoFd \/ fd = NoFd \/ (~shut /\ peer \in {"none", "gone"})
        /\ pc' = "abort"
        /\ UNCHANGED <<state, peer, todo, shut, answer>>
  /\ UNCHANGED <<opens, fd, db, wire, left, got>>
  /\ UNCHANGED history

-----------------------------------------------------------------------------
(* Reading a packet: four bytes, then as many as they say.                 *)

Packed == Len(wire) >= 2
Intact == Len(wire) >= 3 /\ wire[1].part = "head" /\ wire[3].part = "rest"
Next1  == wire[1].packet

Takes ==
  /\ Reading /\ Intact
  /\ wire' = SubSeq(wire, 4, Len(wire))
  /\ UNCHANGED <<opens, fd, shut>>

(* Mutant: a call that gave up waiting makes the connection usable again.  *)
SilenceForgives ==
  /\ Reading /\ Len(wire) < 2
  /\ wire' = <<>>
  /\ state' = IF state = "sent" THEN "connected" ELSE state
  /\ failed' = (failed \/ (pc \in {"greet", "auth"} /\ InUse))
  /\ Return("failed")
  /\ UNCHANGED <<opens, fd, shut, db, peer, todo, left, asked, got, astray, strained>>

(* The call gives up: without the content of the header it has taken.      *)
GivesUp ==
  /\ failed' = (failed \/ (pc \in {"greet", "auth"} /\ InUse))
  /\ Return("failed")
  /\ UNCHANGED <<opens, fd, shut, db, state, peer, todo, left, asked, got, astray, strained>>

(* Nothing came in time.                                                   *)
Silence == Reading /\ Len(wire) < 2 /\ wire' = <<>> /\ GivesUp

(* The packet is longer than allowed, and its content is not read.         *)
TooLong ==
  /\ Reading /\ Len(wire) >= 1 /\ wire[1].part = "head"
  /\ wire' = Tail(wire)
  /\ GivesUp

(* The end of the stream is an empty string, of which no byte can be taken.*)
Ends ==
  /\ Reading /\ Len(wire) < 2 /\ peer = "gone" /\ todo = <<>>
  /\ pc' = "abort"
  /\ UNCHANGED <<opens, shut, left, got, answer>>
  /\ UNCHANGED dbVars /\ UNCHANGED netVars /\ UNCHANGED history

(* One recv may give less than the length of the packet.  Its rest is then *)
(* taken for the next header, and the call may end in any way.             *)
LosesStep ==
  /\ Reading /\ Packed /\ ~Intact
  /\ \E k \in 2..Len(wire) : wire' = SubSeq(wire, k + 1, Len(wire))
  /\ strained' = TRUE
  /\ got' = <<>>
  /\ \/ pc' = "abort" /\ UNCHANGED <<db, state, answer, failed>>
     \/ Return("failed") /\ failed' = (failed \/ (pc \in {"greet", "auth"} /\ InUse))
                         /\ UNCHANGED <<db, state>>
     \/ /\ pc \in {"greet", "auth"}
        /\ Succeeds /\ UNCHANGED failed
     \/ /\ pc \notin {"greet", "auth"}
        /\ \/ \E a \in {"result", "error", "failed"} : Return(a) /\ state' = "connected"
           \/ Return("again") /\ UNCHANGED state
        /\ UNCHANGED <<db, failed>>
  /\ UNCHANGED <<opens, fd, shut, peer, todo, left, asked, astray>>

-----------------------------------------------------------------------------
(* Opening: the greeting is answered with who the program is.              *)

Rejected ==
  /\ failed' = (failed \/ InUse)
  /\ Return("failed")
  /\ UNCHANGED dbVars

ReadGreeting ==
  /\ pc = "greet" /\ Takes
  /\ \/ /\ Next1.typ = "ERR"
        /\ Rejected /\ UNCHANGED <<peer, todo>>
     \/ /\ Next1.typ # "ERR" /\ peer = "greet"
        /\ \E t \in {"OK", "ERR", "EOF"} :
             /\ todo' = todo \o Units(<<P(t, 0)>>)
             /\ peer' = IF t = "OK" THEN "ready" ELSE "gone"
        /\ pc' = "auth"
        /\ UNCHANGED dbVars /\ UNCHANGED <<answer, failed>>
     \/ /\ Next1.typ # "ERR" /\ peer = "gone"
        /\ pc' \in {"auth", "abort"}
        /\ UNCHANGED dbVars /\ UNCHANGED <<peer, todo, answer, failed>>
  /\ UNCHANGED <<left, asked, got, astray, strained>>

ReadAuth ==
  /\ pc = "auth" /\ Takes
  /\ \/ Next1.typ = "OK" /\ Succeeds /\ UNCHANGED failed
     \/ Next1.typ # "OK" /\ Rejected
  /\ UNCHANGED <<peer, todo, left, asked, got, astray, strained>>

-----------------------------------------------------------------------------
(* Reading a result.                                                       *)

Collects ==
  /\ Takes
  /\ got' = Append(got, Next1)
  /\ UNCHANGED <<db, peer, todo>> /\ UNCHANGED history

Done(a) == state' = "connected" /\ Return(a)

(* The end of a result; if others follow, the state is not changed.        *)
Answered(a) ==
  \/ ~Next1.more /\ Done(a)
  \/ Next1.more /\ Return("again") /\ UNCHANGED state

StatementFails == Done("error")

ReadResult ==
  /\ pc = "result" /\ Collects
  /\ \/ Next1.typ = "OK" /\ Answered("result") /\ UNCHANGED left
     \/ Next1.typ = "ERR" /\ StatementFails /\ UNCHANGED left
     \/ Next1.typ = "EOF" /\ Done("failed") /\ UNCHANGED left
     \/ /\ Next1.typ = "DATA"
        /\ pc' = "fields" /\ left' = Fields
        /\ UNCHANGED <<state, answer>>

(* Any failure among the fields leaves the state as it is.                 *)
ReadField ==
  /\ pc = "fields" /\ Collects
  /\ UNCHANGED state
  /\ \/ /\ Next1.typ = "DATA"
        /\ left' = left - 1
        /\ pc' = IF left = 1 THEN "eof" ELSE "fields"
        /\ UNCHANGED answer
     \/ Next1.typ # "DATA" /\ Return("failed") /\ UNCHANGED left

ReadEof ==
  /\ pc = "eof" /\ Collects
  /\ UNCHANGED <<state, left>>
  /\ \/ Next1.typ = "EOF" /\ pc' = "rows" /\ UNCHANGED answer
     \/ Next1.typ # "EOF" /\ Return("failed")

(* What is no end of rows is a row, an error too.                          *)
ReadRow ==
  /\ pc = "rows" /\ Collects
  /\ UNCHANGED left
  /\ \/ Next1.typ = "EOF" /\ Answered("result")
     \/ Next1.typ # "EOF" /\ UNCHANGED <<pc, state, answer>>

-----------------------------------------------------------------------------
Reads ==
  \/ Silence \/ TooLong \/ Ends \/ LosesStep \/ ReadGreeting \/ ReadAuth
  \/ ReadResult \/ ReadField \/ ReadEof \/ ReadRow

Next ==
  \/ Open \/ QueryRefused \/ (\E k \in Kinds : Query(k)) \/ Close
  \/ Arrive \/ Hangs
  \/ Reads

Spec == Init /\ [][Next]_vars

-----------------------------------------------------------------------------
(* Properties.                                                             *)

(* A query is sent on the descriptor of its own connection, unless an      *)
(* attempt to open another one failed since (maria.lua:72-89, 20-28): the  *)
(* two globals are set at different times and agree when it matters.       *)
RightSocket == pc = "idle" /\ state # "nil" /\ ~failed => fd = db

(* When the next query may be sent, nothing of the last one is left in the *)
(* stream, whichever way the last call ended, late answers and errors among*)
(* the rows included, as long as packets arrive whole (maria.lua:929-1040).*)
InTurn ==
  pc = "idle" /\ state = "connected" /\ ~strained /\ ~astray /\ fd = db
    => wire \o todo = <<>>

(* A result is that of the query just sent: all of it and nothing else, up *)
(* to its first part if there are several (maria.lua:929-1050).            *)
OwnResult ==
  pc = "idle" /\ answer \in {"result", "error", "again"} /\ ~strained /\ ~astray
    => LET plan == Plan(asked[Len(asked)], Len(asked)) IN
       /\ got = SubSeq(plan, 1, Len(got))
       /\ answer = "again" <=> Len(got) < Len(plan)

(* An error of a statement does not end the use of the connection, and a   *)
(* result neither (maria.lua:944-949, 957-958, 1036).                      *)
StaysUsable ==
  pc = "idle" /\ answer \in {"result", "error", "open"} /\ ~strained
    => state = "connected"

(* What a query is answered with is the result of that query, nothing of   *)
(* the last one is left when the next may be sent, and an error of a       *)
(* statement does not end the use of the connection (maria.lua:929-1050).  *)
AnswersInTurn == TypeOK /\ InTurn /\ OwnResult /\ StaysUsable
=============================================================================
