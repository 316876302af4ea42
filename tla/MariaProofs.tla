---------------------------- MODULE MariaProofs ----------------------------
(***************************************************************************)
(* Proofs about Maria for any number of attempts and queries, any kinds of *)
(* results and any number of fields.                                       *)
(***************************************************************************)
EXTENDS Maria, TLAPS

InCall  == {"result", "fields", "eof", "rows"}
Opening == {"greet", "auth"}

(* Fields are awaited until the last of them has come. *)
Counting == pc = "fields" => left > 0

(* A result is only read after a query; apart from the time in which a new *)
(* connection is opened, the descriptor is that of the one in use.         *)
SocketInv ==
  /\ pc \in InCall => state = "sent"
  /\ pc \in InCall \cup {"idle"} /\ state # "nil" /\ ~failed => fd = db

-----------------------------------------------------------------------------
(* Types.                                                                  *)

LEMMA UnitsTyped ==
  ASSUME NEW ps \in Seq(Packet)
  PROVE  Units(ps) \in Seq(Unit)
<1>1. ASSUME NEW i \in 1..(3 * Len(ps))
      PROVE  /\ ((i - 1) \div 3) + 1 \in 1..Len(ps)
             /\ ((i - 1) % 3) + 1 \in 1..3
  OBVIOUS
<1>2. ASSUME NEW j \in 1..3 PROVE <<"head", "body", "rest">>[j] \in {"head", "body", "rest"}
  OBVIOUS
<1>3. ASSUME NEW i \in 1..(3 * Len(ps))
      PROVE  [packet |-> ps[((i - 1) \div 3) + 1],
              part   |-> <<"head", "body", "rest">>[((i - 1) % 3) + 1]] \in Unit
  BY <1>1, <1>2 DEF Unit
<1>4. 3 * Len(ps) \in Nat
  OBVIOUS
<1> QED
  BY <1>3, <1>4 DEF Units

LEMMA StreamTyped ==
  ASSUME NEW s \in Seq(Unit), NEW t \in Seq(Unit)
  PROVE  s \o t \in Seq(Unit)
OBVIOUS

LEMMA EmptyTyped == <<>> \in Seq(Unit) /\ <<>> \in Seq(Packet)
OBVIOUS

LEMMA RestTyped ==
  ASSUME NEW s \in Seq(Unit), NEW m \in Nat \ {0}
  PROVE  SubSeq(s, m, Len(s)) \in Seq(Unit)
OBVIOUS

LEMMA OneTyped ==
  ASSUME NEW t \in {"OK", "ERR", "EOF", "DATA"}, NEW n \in 0..MaxQuery
  PROVE  /\ P(t, n) \in Packet /\ More(P(t, n)) \in Packet
         /\ <<P(t, n)>> \in Seq(Packet)
<1>1. 0 \in Nat /\ n \in Nat
  BY MariaAssumption
<1>2. P(t, n) \in Packet
  BY DEF P, Packet
<1>3. More(P(t, n)) \in Packet
  BY DEF P, More, Packet
<1> QED
  BY <1>2, <1>3

LEMMA PlanTyped ==
  ASSUME NEW k \in Kinds, NEW n \in 0..MaxQuery
  PROVE  Plan(k, n) \in Seq(Packet)
<1>1. /\ P("OK", n) \in Packet /\ P("ERR", n) \in Packet
      /\ P("EOF", n) \in Packet /\ P("DATA", n) \in Packet
      /\ More(P("OK", n)) \in Packet /\ More(P("EOF", n)) \in Packet
  BY OneTyped
<1>2. [i \in 1..Fields |-> P("DATA", n)] \in Seq(Packet)
  BY <1>1, MariaAssumption
<1>3. Head3(n) \in Seq(Packet)
  BY <1>1, <1>2 DEF Head3
<1>4. /\ Head3(n) \o <<P("DATA", n), P("EOF", n)>> \in Seq(Packet)
      /\ Head3(n) \o <<P("DATA", n), More(P("EOF", n)), P("OK", n)>> \in Seq(Packet)
      /\ Head3(n) \o <<P("DATA", n), P("ERR", n)>> \in Seq(Packet)
  BY <1>1, <1>3
<1> QED
  BY <1>1, <1>4, MariaAssumption DEF Plan

LEMMA Small == 0 \in 0..MaxOpen /\ 0 \in 0..MaxQuery
BY MariaAssumption

LEMMA TypeInit == Init => TypeOK
<1> SUFFICES ASSUME Init PROVE TypeOK
  OBVIOUS
<1>1. opens \in 0..MaxOpen /\ fd \in 0..opens /\ db \in 0..opens
  BY Small DEF Init, NoFd
<1>2. todo \in Seq(Unit) /\ wire \in Seq(Unit) /\ got \in Seq(Packet)
  BY DEF Init
<1>3. asked \in Seq(Kinds) /\ Len(asked) <= MaxQuery
  BY MariaAssumption DEF Init
<1>4. /\ shut \in BOOLEAN /\ failed \in BOOLEAN /\ astray \in BOOLEAN
      /\ strained \in BOOLEAN /\ left \in Nat
  BY DEF Init
<1> QED
  BY <1>1, <1>2, <1>3, <1>4 DEF Init, TypeOK

(* Reading takes whole packets from the stream and leaves a stream.        *)
LEMMA TakesTyped ==
  ASSUME TypeOK, Takes
  PROVE  wire' \in Seq(Unit) /\ Next1 \in Packet
<1>1. wire \in Seq(Unit) /\ Len(wire) >= 3
  BY DEF TypeOK, Takes, Intact
<1>2. SubSeq(wire, 4, Len(wire)) \in Seq(Unit)
  BY <1>1
<1>3. wire[1] \in Unit
  BY <1>1
<1> QED
  BY <1>2, <1>3 DEF Takes, Next1, Unit

LEMMA TypeOpening ==
  ASSUME TypeOK, Open \/ ReadGreeting \/ ReadAuth
  PROVE  TypeOK'
<1> USE DEF TypeOK, NoFd, InUse, Return, Succeeds
<1>1. \A t \in {"OK", "ERR", "EOF", "DATA"} : Units(<<P(t, 0)>>) \in Seq(Unit)
  <2>1. ASSUME NEW t \in {"OK", "ERR", "EOF", "DATA"} PROVE <<P(t, 0)>> \in Seq(Packet)
    BY OneTyped, Small
  <2> QED
    BY <2>1, UnitsTyped
<1>2. CASE OpenUnsupported
  BY <1>2 DEF OpenUnsupported, dbVars, netVars, history
<1>3. CASE OpenFails(NoFd) \/ OpenFails(opens + 1)
  <2>1. opens' \in 0..MaxOpen /\ fd' \in 0..opens' /\ db' \in 0..opens'
    BY <1>3, MariaAssumption DEF OpenFails, Attempt
  <2>2. UNCHANGED <<db, state, left, got, asked, astray, strained>>
    BY <1>3 DEF OpenFails, Attempt
  <2>3. /\ wire' = <<>> /\ todo' = <<>> /\ shut' = FALSE /\ peer' = "none"
        /\ pc' = "idle" /\ answer' = "failed" /\ failed' \in BOOLEAN
    BY <1>3 DEF OpenFails, Attempt
  <2> QED
    BY <2>1, <2>2, <2>3, EmptyTyped
<1>4. CASE OpenReaches
  <2>1. opens' \in 0..MaxOpen /\ fd' \in 0..opens' /\ db' \in 0..opens'
    BY <1>4, MariaAssumption DEF OpenReaches, Attempt
  <2>2. UNCHANGED <<db, state, left, got, asked, astray, strained, answer, failed>>
    BY <1>4 DEF OpenReaches, Attempt
  <2>3. /\ wire' = <<>> /\ shut' = FALSE /\ peer' = "greet" /\ pc' = "greet"
    BY <1>4 DEF OpenReaches, Attempt
  <2>4. todo' \in Seq(Unit)
    BY <1>1, <1>4 DEF OpenReaches
  <2> QED
    BY <2>1, <2>2, <2>3, <2>4, EmptyTyped
<1>5. CASE ReadGreeting
  <2>1. wire' \in Seq(Unit)
    BY <1>5, TakesTyped DEF ReadGreeting
  <2>2. UNCHANGED <<opens, fd, shut, left, asked, got, astray, strained>>
    BY <1>5 DEF ReadGreeting, Takes
  <2>3. UNCHANGED dbVars
    BY <1>5 DEF ReadGreeting, Rejected
  <2>4. todo' \in Seq(Unit) /\ peer' \in {"none", "greet", "ready", "gone"}
    <3>1. CASE UNCHANGED <<peer, todo>>
      BY <3>1
    <3>2. ASSUME NEW t \in {"OK", "ERR", "EOF"},
                 todo' = todo \o Units(<<P(t, 0)>>),
                 peer' = IF t = "OK" THEN "ready" ELSE "gone"
          PROVE  todo' \in Seq(Unit) /\ peer' \in {"ready", "gone"}
      BY <1>1, <3>2, StreamTyped
    <3> QED
      BY <1>5, <3>1, <3>2 DEF ReadGreeting
  <2>5. /\ pc' \in {"idle", "auth", "abort"} /\ answer' \in {answer, "failed"}
        /\ failed' \in BOOLEAN
    BY <1>5 DEF ReadGreeting, Rejected
  <2> QED
    BY <2>1, <2>2, <2>3, <2>4, <2>5 DEF dbVars
<1>6. CASE ReadAuth
  <2>1. wire' \in Seq(Unit)
    BY <1>6, TakesTyped DEF ReadAuth
  <2>2. UNCHANGED <<opens, fd, shut, peer, todo, left, asked, got, astray, strained>>
    BY <1>6 DEF ReadAuth, Takes
  <2>3. /\ pc' = "idle" /\ answer' \in {"open", "failed"} /\ failed' \in BOOLEAN
        /\ db' \in {db, fd} /\ state' \in {state, "connected"}
    BY <1>6 DEF ReadAuth, Rejected, dbVars
  <2> QED
    BY <2>1, <2>2, <2>3
<1> QED
  BY <1>2, <1>3, <1>4, <1>5, <1>6 DEF Open

LEMMA TypeCalls ==
  ASSUME TypeOK, QueryRefused \/ (\E k \in Kinds : Query(k)) \/ Close \/ Arrive \/ Hangs
  PROVE  TypeOK'
<1> USE DEF TypeOK, NoFd, Return, dbVars, netVars, history
<1>1. CASE QueryRefused
  BY <1>1 DEF QueryRefused
<1>2. ASSUME NEW k \in Kinds, Query(k) PROVE TypeOK'
  <2>1. asked' \in Seq(Kinds) /\ Len(asked') \in 0..MaxQuery
    BY <1>2, MariaAssumption DEF Query
  <2>2. Units(Plan(k, Len(asked'))) \in Seq(Unit)
    BY <2>1, PlanTyped, UnitsTyped
  <2>3. Units(<<P("ERR", 0)>>) \in Seq(Unit)
    <3>1. <<P("ERR", 0)>> \in Seq(Packet)
      BY OneTyped, Small
    <3> QED
      BY <3>1, UnitsTyped
  <2>4. todo' \in Seq(Unit)
    <3>1. todo' \in {todo, todo \o Units(Plan(k, Len(asked'))), todo \o Units(<<P("ERR", 0)>>)}
      BY <1>2 DEF Query
    <3> QED
      BY <2>2, <2>3, <3>1, StreamTyped
  <2>5. UNCHANGED <<opens, fd, shut, db, wire, left, answer, failed, strained>>
    BY <1>2 DEF Query
  <2>6. /\ pc' \in {"result", "abort"} /\ state' \in {state, "sent"}
        /\ peer' \in {peer, "gone"} /\ got' = <<>> /\ astray' \in BOOLEAN
    BY <1>2 DEF Query
  <2> QED
    BY <2>1, <2>4, <2>5, <2>6, EmptyTyped, MariaAssumption
<1>3. CASE Close
  <2>1. todo' \in {todo, <<>>}
    BY <1>3 DEF Close
  <2>2. todo' \in Seq(Unit)
    BY <2>1, EmptyTyped
  <2>3. /\ state' \in {state, "nil"} /\ peer' \in {peer, "gone"} /\ shut' \in BOOLEAN
        /\ pc' \in {"idle", "abort"} /\ answer' \in {answer, "failed", "closed"}
    BY <1>3 DEF Close
  <2>4. UNCHANGED <<opens, fd, db, wire, left, got>> /\ UNCHANGED history
    BY <1>3 DEF Close
  <2> QED
    BY <2>2, <2>3, <2>4
<1>4. CASE Arrive
  <2>1. PICK k \in 1..Len(todo) : /\ wire' = wire \o SubSeq(todo, 1, k)
                                  /\ todo' = SubSeq(todo, k + 1, Len(todo))
    BY <1>4 DEF Arrive
  <2>2. wire' \in Seq(Unit) /\ todo' \in Seq(Unit)
    BY <2>1, SMTT(30)
  <2> QED
    BY <1>4, <2>2 DEF Arrive
<1>5. CASE Hangs
  BY <1>5 DEF Hangs
<1> QED
  BY <1>1, <1>2, <1>3, <1>4, <1>5

LEMMA TypeReads ==
  ASSUME TypeOK, Counting,
         Silence \/ TooLong \/ Ends \/ LosesStep \/ ReadResult \/ ReadField
           \/ ReadEof \/ ReadRow
  PROVE  TypeOK'
<1> USE DEF TypeOK, Return, Succeeds
<1>1. CASE Silence \/ TooLong
  <2>1. wire' \in Seq(Unit)
    <3>1. CASE Silence
      BY <3>1, EmptyTyped DEF Silence
    <3>2. CASE TooLong
      <4>1. Len(wire) >= 1 /\ wire' = Tail(wire)
        BY <3>2 DEF TooLong
      <4> QED
        BY <4>1
    <3> QED
      BY <1>1, <3>1, <3>2
  <2> QED
    BY <1>1, <2>1 DEF Silence, TooLong, GivesUp, InUse
<1>2. CASE Ends
  BY <1>2 DEF Ends, dbVars, netVars, history
<1>3. CASE LosesStep
  <2>1. wire' \in Seq(Unit)
    <3>1. PICK k \in 2..Len(wire) : wire' = SubSeq(wire, k + 1, Len(wire))
      BY <1>3 DEF LosesStep
    <3>2. k + 1 \in Nat \ {0}
      BY <3>1
    <3> QED
      BY <3>1, <3>2, RestTyped
  <2>2. /\ got' = <<>> /\ strained' = TRUE /\ failed' \in BOOLEAN
        /\ pc' \in {"idle", "abort"}
        /\ db' \in {db, fd} /\ state' \in {state, "connected"}
    BY <1>3 DEF LosesStep, InUse
  <2>3. answer' \in {answer, "failed", "open", "result", "error", "again"}
    BY <1>3 DEF LosesStep
  <2> QED
    BY <1>3, <2>1, <2>2, <2>3, EmptyTyped DEF LosesStep
<1>4. ASSUME Collects
      PROVE  /\ wire' \in Seq(Unit) /\ got' \in Seq(Packet)
             /\ UNCHANGED <<opens, fd, shut, db, peer, todo>> /\ UNCHANGED history
  <2>1. Takes
    BY <1>4 DEF Collects
  <2> QED
    BY <1>4, <2>1, TakesTyped DEF Collects, Takes
<1>5. CASE ReadResult
  <2>1. /\ pc' \in {"idle", "fields"} /\ state' \in {state, "connected"}
        /\ answer' \in {answer, "result", "error", "again", "failed"}
        /\ left' \in {left, Fields}
    BY <1>5 DEF ReadResult, Answered, StatementFails, Done
  <2> QED
    BY <1>4, <1>5, <2>1, MariaAssumption DEF ReadResult, history
<1>6. CASE ReadField
  BY <1>4, <1>6 DEF ReadField, history, Counting
<1>7. CASE ReadEof
  BY <1>4, <1>7 DEF ReadEof, history
<1>8. CASE ReadRow
  BY <1>4, <1>8 DEF ReadRow, Answered, Done, history
<1> QED
  BY <1>1, <1>2, <1>3, <1>5, <1>6, <1>7, <1>8

LEMMA CountingNext ==
  ASSUME TypeOK, Counting, [Next]_vars
  PROVE  Counting'
<1> USE DEF Counting, Return, Succeeds
<1>1. CASE Open
  BY <1>1 DEF Open, OpenUnsupported, OpenFails, OpenReaches, Attempt
<1>2. CASE QueryRefused \/ (\E k \in Kinds : Query(k)) \/ Close
  BY <1>2 DEF QueryRefused, Query, Close
<1>3. CASE Arrive \/ Hangs
  BY <1>3 DEF Arrive, Hangs
<1>4. CASE Silence \/ TooLong \/ Ends \/ LosesStep
  BY <1>4 DEF Silence, TooLong, GivesUp, Ends, LosesStep
<1>5. CASE ReadGreeting \/ ReadAuth
  BY <1>5 DEF ReadGreeting, ReadAuth, Rejected
<1>6. CASE ReadResult
  BY <1>6, MariaAssumption DEF ReadResult, Answered, StatementFails, Done
<1>7. CASE ReadField
  BY <1>7 DEF ReadField, TypeOK
<1>8. CASE ReadEof \/ ReadRow
  BY <1>8 DEF ReadEof, ReadRow, Answered, Done
<1>9. CASE UNCHANGED vars
  BY <1>9 DEF vars
<1> QED
  BY <1>1, <1>2, <1>3, <1>4, <1>5, <1>6, <1>7, <1>8, <1>9 DEF Next, Reads

LEMMA TypeNext == TypeOK /\ Counting /\ [Next]_vars => (TypeOK /\ Counting)'
<1>1. ASSUME TypeOK, UNCHANGED vars PROVE TypeOK'
  BY <1>1 DEF TypeOK, vars
<1> QED
  BY <1>1, TypeOpening, TypeCalls, TypeReads, CountingNext DEF Next, Reads

(* Every variable has its type, for any number of attempts and queries     *)
(* (maria.lua:55-1070).                                                    *)
THEOREM TypeCorrect == Spec => []TypeOK
<1>1. Init => Counting
  BY DEF Init, Counting
<1> QED
  BY <1>1, TypeInit, TypeNext, PTL DEF Spec

-----------------------------------------------------------------------------
(* The descriptor of a query.                                              *)

LEMMA SocketOpening ==
  ASSUME TypeOK, SocketInv, Open \/ ReadGreeting \/ ReadAuth
  PROVE  SocketInv'
<1> USE DEF SocketInv, InCall, Return, Succeeds
<1>1. CASE OpenUnsupported
  BY <1>1 DEF OpenUnsupported, dbVars, netVars, history
<1>2. CASE OpenFails(NoFd) \/ OpenFails(opens + 1)
  BY <1>2 DEF OpenFails, Attempt, InUse, TypeOK
<1>3. CASE OpenReaches
  BY <1>3 DEF OpenReaches, Attempt
<1>4. CASE ReadGreeting
  <2>1. pc' = "idle" => failed' = (failed \/ InUse) /\ UNCHANGED dbVars
    BY <1>4 DEF ReadGreeting, Rejected
  <2>2. pc' \in {"idle", "auth", "abort"} /\ failed \in BOOLEAN
    BY <1>4 DEF ReadGreeting, Rejected, TypeOK
  <2> QED
    BY <2>1, <2>2 DEF dbVars, InUse
<1>5. CASE ReadAuth
  <2>1. CASE db' = fd /\ pc' = "idle"
    BY <1>5, <2>1 DEF ReadAuth, Takes
  <2>2. CASE Rejected
    BY <1>5, <2>2 DEF Rejected, dbVars, InUse, TypeOK
  <2> QED
    BY <1>5, <2>1, <2>2 DEF ReadAuth
<1> QED
  BY <1>1, <1>2, <1>3, <1>4, <1>5 DEF Open

LEMMA SocketCalls ==
  ASSUME TypeOK, SocketInv,
         QueryRefused \/ (\E k \in Kinds : Query(k)) \/ Close \/ Arrive \/ Hangs
  PROVE  SocketInv'
<1> USE DEF SocketInv, InCall, Return, Succeeds
<1>1. CASE QueryRefused
  BY <1>1 DEF QueryRefused, dbVars, netVars, history
<1>2. CASE \E k \in Kinds : Query(k)
  BY <1>2 DEF Query
<1>3. CASE Close
  BY <1>3 DEF Close, history
<1>4. CASE Arrive \/ Hangs
  BY <1>4 DEF Arrive, Hangs, history
<1> QED
  BY <1>1, <1>2, <1>3, <1>4

LEMMA SocketReads ==
  ASSUME TypeOK, SocketInv,
         Silence \/ TooLong \/ Ends \/ LosesStep \/ ReadResult \/ ReadField
           \/ ReadEof \/ ReadRow
  PROVE  SocketInv'
<1> USE DEF SocketInv, InCall, Return, Succeeds
<1>1. CASE Silence \/ TooLong
  BY <1>1 DEF Silence, TooLong, GivesUp, InUse, Reading, TypeOK
<1>2. CASE Ends
  BY <1>2 DEF Ends
<1>3. CASE LosesStep
  <2>1. fd' = fd
    BY <1>3 DEF LosesStep
  <2>2. CASE pc' = "abort"
    BY <2>2
  <2>3. CASE pc \in Opening /\ pc' = "idle"
    BY <1>3, <2>1, <2>3 DEF LosesStep, Opening, InUse, TypeOK
  <2>4. CASE pc \in InCall /\ pc' = "idle"
    <3>1. pc \notin Opening
      BY <2>4 DEF Opening
    <3>2. UNCHANGED db /\ (failed' => failed) /\ (failed => failed')
      BY <1>3, <2>4, <3>1 DEF LosesStep, Opening, TypeOK
    <3>3. state # "nil"
      BY <2>4
    <3> QED
      BY <2>1, <2>4, <3>2, <3>3
  <2> QED
    BY <1>3, <2>2, <2>3, <2>4 DEF LosesStep, Reading, Opening
<1>4. ASSUME Collects PROVE UNCHANGED <<fd, db, failed>>
  BY <1>4 DEF Collects, Takes, history
<1>5. CASE ReadResult
  BY <1>4, <1>5 DEF ReadResult, Answered, StatementFails, Done
<1>6. CASE ReadField
  BY <1>4, <1>6 DEF ReadField
<1>7. CASE ReadEof
  BY <1>4, <1>7 DEF ReadEof
<1>8. CASE ReadRow
  BY <1>4, <1>8 DEF ReadRow, Answered, Done
<1> QED
  BY <1>1, <1>2, <1>3, <1>5, <1>6, <1>7, <1>8

LEMMA SocketNext == TypeOK /\ SocketInv /\ [Next]_vars => SocketInv'
<1>1. ASSUME SocketInv, UNCHANGED vars PROVE SocketInv'
  BY <1>1 DEF SocketInv, vars
<1> QED
  BY <1>1, SocketOpening, SocketCalls, SocketReads DEF Next, Reads

(* A query is sent on the descriptor of its own connection unless an       *)
(* attempt to open failed in between, for any number of attempts, queries  *)
(* and kinds of results (maria.lua:72-89, 929-1050).                       *)
THEOREM RightSocketCorrect == Spec => []RightSocket
<1>1. Init => SocketInv
  BY DEF Init, SocketInv, InCall
<1>2. SocketInv => RightSocket
  BY DEF SocketInv, RightSocket
<1>3. Spec => []TypeOK
  BY TypeCorrect
<1> QED
  BY <1>1, <1>2, <1>3, SocketNext, PTL DEF Spec

-----------------------------------------------------------------------------
(* Answers.                                                                *)

(* What was sent and not read, in the order it is read.                    *)
Stream == wire \o todo

(* The unit at a place of the packets ps.                                  *)
UnitAt(ps, j) ==
  [packet |-> ps[((j - 1) \div 3) + 1], part |-> <<"head", "body", "rest">>[((j - 1) % 3) + 1]]

(* The stream has nothing but what follows the first i packets of ps.      *)
Follows(s, ps, i) ==
  /\ Len(s) <= 3 * (Len(ps) - i)
  /\ \A j \in 1..Len(s) : s[j] = UnitAt(ps, 3 * i + j)

(* The descriptor of a connection that is being opened is new, and the one *)
(* of the connection in use was greeted.                                   *)
GreetInv ==
  /\ pc \in Opening => fd # NoFd /\ fd # db
  /\ state # "nil" => db # NoFd
  /\ ~strained =>
       /\ fd = db /\ db # NoFd => peer \in {"ready", "gone"}
       /\ pc = "auth" => peer \in {"ready", "gone"}
       /\ pc \in Opening => Len(Stream) <= 3

(* How many packets of a result of kind k were read, by what is awaited.   *)
Tables == {"rows", "moreRows", "killed"}

Reached(k, i) ==
  /\ pc = "result" => i = 0
  /\ pc = "fields" => \/ k \in Tables /\ left \in 1..Fields /\ i = 1 + Fields - left
                      \/ k = "cut" /\ i = 1
  /\ pc = "eof" => k \in Tables /\ i = Fields + 1
  /\ pc = "rows" => k \in Tables /\ i >= Fields + 2

(* In a call, what was read and what follows are the result of the query.  *)
CallInv ==
  pc \in InCall /\ ~strained /\ ~astray =>
    /\ Len(asked) > 0
    /\ LET plan == Plan(asked[Len(asked)], Len(asked)) IN
         /\ Len(got) <= Len(plan) /\ got = SubSeq(plan, 1, Len(got))
         /\ Follows(Stream, plan, Len(got))
         /\ Reached(asked[Len(asked)], Len(got))

AnswerInv == GreetInv /\ CallInv /\ InTurn /\ OwnResult /\ StaysUsable
IInv == TypeOK /\ SocketInv /\ AnswerInv

(* The stream.                                                             *)

LEMMA StreamFacts ==
  ASSUME TypeOK
  PROVE  /\ Stream \in Seq(Unit) /\ Len(Stream) = Len(wire) + Len(todo)
         /\ \A j \in 1..Len(wire) : Stream[j] = wire[j]
         /\ \A j \in 1..Len(todo) : Stream[Len(wire) + j] = todo[j]
BY DEF Stream, TypeOK

LEMMA TailTaken ==
  ASSUME NEW s \in Seq(Unit), Len(s) >= 3
  PROVE  LET t == SubSeq(s, 4, Len(s)) IN
         t \in Seq(Unit) /\ Len(t) = Len(s) - 3 /\ \A j \in 1..Len(t) : t[j] = s[j + 3]
<1> DEFINE t == SubSeq(s, 4, Len(s))
<1>0. Len(s) \in Nat
  OBVIOUS
<1>a. t \in Seq(Unit)
  BY RestTyped
<1>b. Len(t) = Len(s) - 3
  <2>1. CASE Len(s) = 3
    BY <2>1
  <2>2. CASE Len(s) >= 4
    BY <2>2
  <2>3. \A m \in Nat : m >= 3 => m = 3 \/ m >= 4
    OBVIOUS
  <2>4. Len(s) = 3 \/ Len(s) >= 4
    BY <1>0, <2>3
  <2> HIDE DEF t
  <2> QED BY <2>1, <2>2, <2>4
<1>1. t \in Seq(Unit) /\ Len(t) = Len(s) - 3
  BY <1>a, <1>b
<1>2. ASSUME NEW j \in 1..(Len(s) - 3) PROVE t[j] = s[j + 3]
  <2>1. t[j] = s[4 + j - 1]
    OBVIOUS
  <2>2. 4 + j - 1 = j + 3
    OBVIOUS
  <2> QED BY <2>1, <2>2
<1> QED BY <1>1, <1>2

LEMMA Associative ==
  ASSUME NEW r \in Seq(Unit), NEW s \in Seq(Unit), NEW t \in Seq(Unit)
  PROVE  (r \o s) \o t = r \o (s \o t)
<1> DEFINE a == (r \o s) \o t
           b == r \o (s \o t)
<1>1. /\ a \in Seq(Unit) /\ b \in Seq(Unit) /\ Len(a) = Len(b)
      /\ Len(a) = Len(r) + Len(s) + Len(t)
  OBVIOUS
<1>2. ASSUME NEW i \in 1..Len(a) PROVE a[i] = b[i]
  <2>1. CASE i <= Len(r)
    BY <1>1, <2>1
  <2>2. CASE i > Len(r) /\ i <= Len(r) + Len(s)
    BY <1>1, <2>2
  <2>3. CASE i > Len(r) + Len(s)
    BY <1>1, <2>3
  <2> QED BY <1>1, <2>1, <2>2, <2>3
<1> QED BY <1>1, <1>2

LEMMA StreamTaken ==
  ASSUME TypeOK, Takes, todo' = todo
  PROVE  /\ Len(Stream) >= 3 /\ Stream' \in Seq(Unit) /\ Len(Stream') = Len(Stream) - 3
         /\ \A j \in 1..Len(Stream') : Stream'[j] = Stream[j + 3]
         /\ Next1 = Stream[1].packet
<1>1. /\ wire \in Seq(Unit) /\ todo \in Seq(Unit) /\ Len(wire) >= 3
      /\ wire' = SubSeq(wire, 4, Len(wire))
  BY DEF TypeOK, Takes, Intact
<1>2. wire' \in Seq(Unit) /\ Len(wire') = Len(wire) - 3 /\ \A j \in 1..Len(wire') : wire'[j] = wire[j + 3]
  BY <1>1, TailTaken
<1>3. Stream' = wire' \o todo
  BY DEF Stream
<1>4. /\ Len(Stream') = Len(wire') + Len(todo) /\ Stream' \in Seq(Unit)
      /\ \A j \in 1..Len(wire') : Stream'[j] = wire'[j]
      /\ \A j \in 1..Len(todo) : Stream'[Len(wire') + j] = todo[j]
  BY <1>1, <1>2, <1>3
<1>5. /\ Len(Stream) = Len(wire) + Len(todo)
      /\ \A j \in 1..Len(wire) : Stream[j] = wire[j]
      /\ \A j \in 1..Len(todo) : Stream[Len(wire) + j] = todo[j]
  BY StreamFacts
<1>6. Next1 = Stream[1].packet
  BY <1>1, <1>5 DEF Next1
<1>7. ASSUME NEW j \in 1..Len(Stream') PROVE Stream'[j] = Stream[j + 3]
  <2>1. CASE j <= Len(wire')
    <3>1. j \in 1..Len(wire') /\ j + 3 \in 1..Len(wire)
      BY <1>1, <1>2, <1>7, <2>1
    <3> QED BY <1>2, <1>4, <1>5, <3>1
  <2>2. CASE j > Len(wire')
    <3> DEFINE i == j - Len(wire')
    <3>0. Len(wire) \in Nat /\ Len(todo) \in Nat /\ Len(wire') \in Nat
      BY <1>1, <1>2
    <3>1. i \in 1..Len(todo) /\ j = Len(wire') + i /\ j + 3 = Len(wire) + i
      BY <1>2, <1>4, <1>7, <2>2, <3>0
    <3>2. Stream'[Len(wire') + i] = todo[i] /\ Stream[Len(wire) + i] = todo[i]
      BY <1>4, <1>5, <3>1
    <3> QED BY <3>1, <3>2
  <2> QED BY <1>1, <1>2, <1>7, <2>1, <2>2
<1> QED BY <1>1, <1>2, <1>4, <1>5, <1>6, <1>7

LEMMA StreamArrived ==
  ASSUME TypeOK, Arrive
  PROVE  Stream' = Stream
<1>1. PICK k \in 1..Len(todo) : /\ wire' = wire \o SubSeq(todo, 1, k)
                                /\ todo' = SubSeq(todo, k + 1, Len(todo))
  BY DEF Arrive
<1>2. wire \in Seq(Unit) /\ todo \in Seq(Unit)
  BY DEF TypeOK
<1>3. SubSeq(todo, 1, k) \o SubSeq(todo, k + 1, Len(todo)) = todo
  BY <1>1, <1>2
<1>4. (wire \o SubSeq(todo, 1, k)) \o SubSeq(todo, k + 1, Len(todo))
        = wire \o (SubSeq(todo, 1, k) \o SubSeq(todo, k + 1, Len(todo)))
  <2>1. SubSeq(todo, 1, k) \in Seq(Unit) /\ SubSeq(todo, k + 1, Len(todo)) \in Seq(Unit)
    BY <1>1, <1>2
  <2> QED BY <1>2, <2>1, Associative
<1> QED BY <1>1, <1>3, <1>4 DEF Stream

(* What the server does not send any more is missing at the end.           *)
LEMMA StreamCut ==
  ASSUME TypeOK, wire' = wire, todo' = <<>>
  PROVE  /\ Stream' = wire /\ wire \in Seq(Unit) /\ Len(wire) <= Len(Stream)
         /\ \A j \in 1..Len(wire) : wire[j] = Stream[j]
<1>1. wire \in Seq(Unit) /\ todo \in Seq(Unit)
  BY DEF TypeOK
<1>2. wire \o <<>> = wire
  BY <1>1
<1> QED BY <1>1, <1>2, StreamFacts DEF Stream

LEMMA FollowsTaken ==
  ASSUME NEW ps \in Seq(Packet), NEW i \in Nat, i <= Len(ps),
         NEW s \in Seq(Unit), NEW t \in Seq(Unit),
         Follows(s, ps, i), Len(s) >= 3, Len(t) = Len(s) - 3,
         \A j \in 1..Len(t) : t[j] = s[j + 3]
  PROVE  /\ i + 1 <= Len(ps) /\ Follows(t, ps, i + 1)
         /\ s[1].packet = ps[i + 1]
<1>1. Len(s) <= 3 * (Len(ps) - i)
  BY DEF Follows
<1>2. i + 1 <= Len(ps)
  BY <1>1
<1>3. Len(t) <= 3 * (Len(ps) - (i + 1))
  BY <1>1
<1>4. ASSUME NEW j \in 1..Len(t) PROVE t[j] = UnitAt(ps, 3 * (i + 1) + j)
  <2>1. j + 3 \in 1..Len(s) /\ 3 * i + (j + 3) = 3 * (i + 1) + j
    OBVIOUS
  <2>2. s[j + 3] = UnitAt(ps, 3 * i + (j + 3))
    BY <2>1 DEF Follows
  <2> QED BY <2>1, <2>2
<1>5. s[1] = UnitAt(ps, 3 * i + 1)
  BY DEF Follows
<1>6. ((3 * i + 1 - 1) \div 3) + 1 = i + 1
  OBVIOUS
<1> QED BY <1>2, <1>3, <1>4, <1>5, <1>6 DEF Follows, UnitAt

LEMMA FollowsCut ==
  ASSUME NEW ps \in Seq(Packet), NEW i \in Nat,
         NEW s \in Seq(Unit), NEW t \in Seq(Unit),
         Follows(s, ps, i), Len(t) <= Len(s), \A j \in 1..Len(t) : t[j] = s[j]
  PROVE  Follows(t, ps, i)
BY DEF Follows

LEMMA FollowsAll ==
  ASSUME NEW ps \in Seq(Packet)
  PROVE  Follows(Units(ps), ps, 0) /\ Len(Units(ps)) = 3 * Len(ps)
<1>1. Len(Units(ps)) = 3 * Len(ps)
  BY DEF Units
<1>2. ASSUME NEW j \in 1..(3 * Len(ps)) PROVE Units(ps)[j] = UnitAt(ps, 3 * 0 + j)
  BY DEF Units, UnitAt
<1> QED BY <1>1, <1>2 DEF Follows

(* Nothing follows the last packet.                                        *)
LEMMA FollowsNone ==
  ASSUME NEW ps \in Seq(Packet), NEW s \in Seq(Unit), Follows(s, ps, Len(ps))
  PROVE  s = <<>>
<1>1. Len(s) = 0
  BY DEF Follows
<1> QED BY <1>1

-----------------------------------------------------------------------------
(* Results.                                                                *)

LEMMA HeadPackets ==
  ASSUME NEW n \in 0..MaxQuery
  PROVE  /\ Head3(n) \in Seq(Packet) /\ Len(Head3(n)) = Fields + 2
         /\ \A i \in 1..(Fields + 1) : Head3(n)[i] = P("DATA", n)
         /\ Head3(n)[Fields + 2] = P("EOF", n)
<1> DEFINE d == P("DATA", n)
           e == P("EOF", n)
           fs == [i \in 1..Fields |-> d]
<1>1. d \in Packet /\ e \in Packet
  BY OneTyped
<1>0. Fields \in Nat
  BY MariaAssumption
<1>2. fs \in Seq(Packet) /\ Len(fs) = Fields /\ \A i \in 1..Fields : fs[i] = d
  BY <1>0, <1>1
<1> HIDE DEF d, e, fs
<1>3. /\ <<d>> \o fs \in Seq(Packet) /\ Len(<<d>> \o fs) = Fields + 1
      /\ \A i \in 1..(Fields + 1) : (<<d>> \o fs)[i] = d
  BY <1>0, <1>1, <1>2
<1> DEFINE h == <<d>> \o fs
<1> HIDE DEF h
<1>4. /\ h \o <<e>> \in Seq(Packet) /\ Len(h \o <<e>>) = Fields + 2
      /\ \A i \in 1..(Fields + 1) : (h \o <<e>>)[i] = d
      /\ (h \o <<e>>)[Fields + 2] = e
  BY <1>0, <1>1, <1>3 DEF h
<1>5. Head3(n) = h \o <<e>>
  BY DEF Head3, h, d, e, fs
<1> QED BY <1>4, <1>5 DEF d, e

(* A result with rows: fields, the end of the fields, a row, and what ends *)
(* it.                                                                     *)
LEMMA TablePackets ==
  ASSUME NEW k \in Tables \cap Kinds, NEW n \in 0..MaxQuery
  PROVE  LET p == Plan(k, n) IN
         /\ Len(p) \in {Fields + 4, Fields + 5}
         /\ \A i \in 1..(Fields + 1) : p[i] = P("DATA", n)
         /\ p[Fields + 2] = P("EOF", n)
         /\ \A i \in (Fields + 3)..Len(p) :
              p[i].typ = "EOF" => (p[i].more <=> i < Len(p))
<1>0. Fields \in Nat
  BY MariaAssumption
<1>1. /\ P("OK", n) \in Packet /\ P("ERR", n) \in Packet
      /\ P("EOF", n) \in Packet /\ P("DATA", n) \in Packet
      /\ More(P("EOF", n)) \in Packet
  BY OneTyped
<1> DEFINE h == Head3(n)
<1>2. /\ h \in Seq(Packet) /\ Len(h) = Fields + 2
      /\ \A i \in 1..(Fields + 1) : h[i] = P("DATA", n)
      /\ h[Fields + 2] = P("EOF", n)
  BY HeadPackets
<1> HIDE DEF h
<1>3. /\ P("DATA", n).typ = "DATA" /\ P("ERR", n).typ = "ERR" /\ P("OK", n).typ = "OK"
      /\ P("EOF", n).typ = "EOF" /\ P("EOF", n).more = FALSE /\ More(P("EOF", n)).more = TRUE
  BY DEF P, More
<1>4. CASE k \in {"rows", "killed"}
  <2> DEFINE e == IF k = "rows" THEN P("EOF", n) ELSE P("ERR", n)
             d == P("DATA", n)
             p == h \o <<d, e>>
  <2>1. Plan(k, n) = p
    BY <1>4 DEF Plan, h
  <2>2. e \in Packet /\ d \in Packet
    BY <1>1
  <2>3. e.typ = "EOF" => ~e.more
    BY <1>3
  <2>4. d.typ # "EOF"
    BY <1>3
  <2> HIDE DEF e, d
  <2>5. /\ Len(p) = Fields + 4
        /\ \A i \in 1..(Fields + 2) : p[i] = h[i]
        /\ p[Fields + 3] = d /\ p[Fields + 4] = e
    BY <1>0, <1>2, <2>2
  <2> HIDE DEF p
  <2>6. \A i \in (Fields + 3)..Len(p) : p[i].typ = "EOF" => (p[i].more <=> i < Len(p))
    <3> SUFFICES ASSUME NEW i \in (Fields + 3)..Len(p), p[i].typ = "EOF" PROVE p[i].more <=> i < Len(p)
      OBVIOUS
    <3>1. i = Fields + 4 /\ p[i] = e
      BY <1>0, <2>4, <2>5
    <3> QED BY <1>0, <2>3, <2>5, <3>1
  <2> QED BY <1>0, <1>2, <2>1, <2>5, <2>6
<1>5. CASE k = "moreRows"
  <2> DEFINE e == More(P("EOF", n))
             o == P("OK", n)
             d == P("DATA", n)
             p == h \o <<d, e, o>>
  <2>1. Plan(k, n) = p
    BY <1>5 DEF Plan, h
  <2>2. e \in Packet /\ d \in Packet /\ o \in Packet
    BY <1>1
  <2>3. e.more /\ d.typ # "EOF" /\ o.typ # "EOF"
    BY <1>3
  <2> HIDE DEF e, d, o
  <2>5. /\ Len(p) = Fields + 5
        /\ \A i \in 1..(Fields + 2) : p[i] = h[i]
        /\ p[Fields + 3] = d /\ p[Fields + 4] = e /\ p[Fields + 5] = o
    BY <1>0, <1>2, <2>2
  <2> HIDE DEF p
  <2>6. \A i \in (Fields + 3)..Len(p) : p[i].typ = "EOF" => (p[i].more <=> i < Len(p))
    <3> SUFFICES ASSUME NEW i \in (Fields + 3)..Len(p), p[i].typ = "EOF" PROVE p[i].more <=> i < Len(p)
      OBVIOUS
    <3>1. i = Fields + 4 /\ p[i] = e
      BY <1>0, <2>3, <2>5
    <3> QED BY <1>0, <2>3, <2>5, <3>1
  <2> QED BY <1>0, <1>2, <2>1, <2>5, <2>6
<1> QED BY <1>4, <1>5 DEF Tables

(* The first packet says how the result goes on.                           *)
LEMMA FirstPacket ==
  ASSUME NEW k \in Kinds, NEW n \in 0..MaxQuery
  PROVE  LET p == Plan(k, n) IN
         /\ Len(p) > 0
         /\ p[1].typ = "OK" => (p[1].more <=> 1 < Len(p))
         /\ p[1].typ = "ERR" => Len(p) = 1
         /\ p[1].typ # "EOF"
         /\ p[1].typ = "DATA" => k \in Tables \cup {"cut"}
         /\ k = "cut" => Len(p) = 2 /\ p[2].typ # "DATA"
<1>0. Fields \in Nat
  BY MariaAssumption
<1>1. \A t : P(t, n).typ = t /\ P(t, n).more = FALSE /\ More(P(t, n)).typ = t /\ More(P(t, n)).more = TRUE
  BY DEF P, More
<1>2. CASE k \in Tables
  <2>1. Plan(k, n)[1] = P("DATA", n) /\ Len(Plan(k, n)) > 0
    BY <1>0, <1>2, TablePackets
  <2> QED BY <1>1, <1>2, <2>1 DEF Tables
<1>3. CASE k \in {"ok", "err"}
  BY <1>1, <1>3 DEF Plan
<1>4. CASE k \in {"more", "cut"}
  BY <1>1, <1>4 DEF Plan
<1> QED BY <1>2, <1>3, <1>4, MariaAssumption DEF Tables

-----------------------------------------------------------------------------
(* Steps.                                                                  *)

(* A step after which no call is running, none has just given a result and *)
(* the connection in use, if it is that of the descriptor, has not changed.*)
LEMMA AnswerIdle ==
  ASSUME AnswerInv, pc' \notin InCall \cup Opening,
         pc' = "idle" => answer' \notin {"result", "error", "again", "open"},
         strained => strained',
         state' # "nil" => db' # NoFd,
         ~strained' /\ fd' = db' /\ db' # NoFd => peer' \in {"ready", "gone"},
         ~strained' /\ ~astray' /\ pc' = "idle" /\ fd' = db' /\ state' = "connected" => Stream' = <<>>
  PROVE  AnswerInv'
<1>1. GreetInv'
  BY DEF GreetInv, Opening
<1>2. CallInv'
  BY DEF CallInv
<1>3. InTurn'
  BY DEF InTurn, Stream
<1>4. OwnResult' /\ StaysUsable'
  BY DEF OwnResult, StaysUsable
<1> QED BY <1>1, <1>2, <1>3, <1>4 DEF AnswerInv

LEMMA OneUnits ==
  ASSUME NEW t \in {"OK", "ERR", "EOF", "DATA"}
  PROVE  /\ Units(<<P(t, 0)>>) \in Seq(Unit) /\ Len(Units(<<P(t, 0)>>)) = 3
<1> DEFINE ps == <<P(t, 0)>>
<1>1. ps \in Seq(Packet) /\ Len(ps) = 1
  BY OneTyped, Small
<1> HIDE DEF ps
<1>2. Len(Units(ps)) = 3 * Len(ps) /\ Units(ps) \in Seq(Unit)
  BY <1>1, FollowsAll, UnitsTyped
<1>3. Len(Units(ps)) = 3
  BY <1>1, <1>2
<1> QED BY <1>2, <1>3 DEF ps

LEMMA NothingBefore ==
  ASSUME NEW s \in Seq(Unit)
  PROVE  <<>> \o s = s /\ s \o <<>> = s
OBVIOUS

LEMMA AnswerOpen ==
  ASSUME IInv, Open
  PROVE  AnswerInv'
<1> USE DEF IInv, AnswerInv
<1>0. state # "nil" => db # NoFd
  BY DEF GreetInv
<1>t. opens \in Nat /\ db \in 0..opens
  BY MariaAssumption DEF TypeOK
<1>1. CASE OpenUnsupported
  <2>1. UNCHANGED <<fd, db, state, peer, strained, astray, wire, todo>>
        /\ pc = "idle" /\ pc' = "idle" /\ answer' = "failed"
    BY <1>1 DEF OpenUnsupported, Return, dbVars, netVars, history
  <2>2. Stream' = Stream
    BY <2>1 DEF Stream
  <2> QED BY <2>1, <2>2, <1>0, AnswerIdle DEF InCall, Opening, GreetInv, InTurn, Stream
<1>2. ASSUME NEW f \in {NoFd, opens + 1}, OpenFails(f) PROVE AnswerInv'
  <2>1. /\ UNCHANGED <<db, state, strained, astray>> /\ fd' = f
        /\ pc' = "idle" /\ answer' = "failed"
    BY <1>2 DEF OpenFails, Attempt, Return
  <2>2. db # NoFd => fd' # db'
    BY <1>t, <2>1 DEF NoFd
  <2> QED BY <2>1, <2>2, <1>0, AnswerIdle DEF InCall, Opening
<1>3. CASE OpenReaches
  <2>1. /\ UNCHANGED <<db, state, strained, astray>> /\ fd' = opens + 1
        /\ pc' = "greet" /\ wire' = <<>>
    BY <1>3 DEF OpenReaches, Attempt
  <2>2. fd' # NoFd /\ fd' # db'
    BY <1>t, <2>1 DEF NoFd
  <2>3. PICK t \in {"DATA", "ERR"} : todo' = Units(<<P(t, 0)>>)
    BY <1>3 DEF OpenReaches
  <2>4. Len(Stream') <= 3
    <3>1. todo' \in Seq(Unit) /\ Len(todo') = 3
      BY <2>3, OneUnits
    <3>2. Stream' = todo'
      BY <2>1, <3>1, NothingBefore DEF Stream
    <3> QED BY <3>1, <3>2, SMTT(30)
  <2>5. GreetInv'
    BY <1>0, <2>1, <2>2, <2>4 DEF GreetInv
  <2>6. CallInv' /\ InTurn' /\ OwnResult' /\ StaysUsable'
    BY <2>1 DEF CallInv, InTurn, OwnResult, StaysUsable, InCall
  <2> QED BY <2>5, <2>6
<1> QED BY <1>1, <1>2, <1>3 DEF Open

(* What was sent to a client that is not greeted yet is one packet.        *)
LEMMA OpeningTaken ==
  ASSUME IInv, pc \in Opening, Takes, ~strained
  PROVE  wire' = <<>> /\ todo = <<>>
<1>1. wire \in Seq(Unit) /\ todo \in Seq(Unit) /\ Len(wire) >= 3 /\ wire' = SubSeq(wire, 4, Len(wire))
  BY DEF IInv, TypeOK, Takes, Intact
<1>2. Len(Stream) = Len(wire) + Len(todo) /\ Len(Stream) <= 3
  BY StreamFacts DEF IInv, AnswerInv, GreetInv
<1>3. Len(wire) \in Nat /\ Len(todo) \in Nat
  BY <1>1
<1>a. \A a, b \in Nat : a >= 3 /\ a + b <= 3 => a = 3 /\ b = 0
  OBVIOUS
<1>b. Len(wire) + Len(todo) <= 3
  BY <1>2
<1>4. Len(wire) = 3 /\ Len(todo) = 0
  BY <1>1, <1>3, <1>a, <1>b
<1>5. wire' \in Seq(Unit) /\ Len(wire') = Len(wire) - 3
  BY <1>1, TailTaken
<1> QED BY <1>1, <1>4, <1>5

LEMMA AnswerGreeting ==
  ASSUME IInv, ReadGreeting
  PROVE  AnswerInv'
<1> USE DEF IInv, AnswerInv
<1>1. pc = "greet" /\ Takes /\ UNCHANGED <<fd, db, state, strained, astray>>
  BY DEF ReadGreeting, Takes, Rejected, dbVars
<1>2. fd # NoFd /\ fd # db /\ (state # "nil" => db # NoFd)
  BY <1>1 DEF GreetInv, Opening
<1>3. CASE Rejected \/ pc' = "abort"
  BY <1>1, <1>2, <1>3, AnswerIdle DEF Rejected, Return, InCall, Opening
<1>4. CASE pc' = "auth"
  <2>1. ASSUME ~strained PROVE peer' \in {"ready", "gone"} /\ Len(Stream') <= 3
    <3>1. wire' = <<>> /\ todo = <<>>
      BY <1>1, <2>1, OpeningTaken DEF Opening
    <3>2. CASE peer = "gone" /\ UNCHANGED <<peer, todo>>
      BY <3>1, <3>2 DEF Stream
    <3>3. ASSUME NEW t \in {"OK", "ERR", "EOF"}, todo' = todo \o Units(<<P(t, 0)>>),
                 peer' = IF t = "OK" THEN "ready" ELSE "gone"
          PROVE  peer' \in {"ready", "gone"} /\ Len(Stream') <= 3
      <4>1. Units(<<P(t, 0)>>) \in Seq(Unit) /\ Len(Units(<<P(t, 0)>>)) = 3
        BY OneUnits
      <4>2. todo' \in Seq(Unit) /\ Len(todo') = 3
        BY <3>1, <3>3, <4>1
      <4>3. Stream' = todo'
        BY <3>1, <4>2, NothingBefore DEF Stream
      <4>4. peer' \in {"ready", "gone"}
        BY <3>3
      <4>5. Len(Stream') = 3
        BY <4>2, <4>3
      <4> QED BY <4>4, <4>5
    <3> QED BY <1>4, <3>2, <3>3 DEF ReadGreeting, Rejected, Return
  <2>2. GreetInv'
    BY <1>1, <1>2, <1>4, <2>1 DEF GreetInv
  <2>3. CallInv' /\ InTurn' /\ OwnResult' /\ StaysUsable'
    BY <1>4 DEF CallInv, InTurn, OwnResult, StaysUsable, InCall
  <2> QED BY <2>2, <2>3
<1> QED BY <1>3, <1>4 DEF ReadGreeting

LEMMA AnswerAuth ==
  ASSUME IInv, ReadAuth
  PROVE  AnswerInv'
<1> USE DEF IInv, AnswerInv
<1>1. pc = "auth" /\ Takes /\ UNCHANGED <<fd, strained, astray, peer, todo>> /\ pc' = "idle"
  BY DEF ReadAuth, Takes, Rejected, Succeeds, Return
<1>2. fd # NoFd /\ fd # db /\ (state # "nil" => db # NoFd)
  BY <1>1 DEF GreetInv, Opening
<1>3. CASE Rejected
  BY <1>1, <1>2, <1>3, AnswerIdle DEF Rejected, Return, InCall, Opening, dbVars
<1>4. CASE Succeeds
  <2>1. db' = fd /\ state' = "connected" /\ answer' = "open"
    BY <1>4 DEF Succeeds, Return
  <2>2. ~strained => peer \in {"ready", "gone"} /\ wire' = <<>> /\ todo = <<>>
    BY <1>1, OpeningTaken DEF GreetInv, Opening
  <2>3. GreetInv'
    BY <1>1, <1>2, <2>1, <2>2 DEF GreetInv, Opening
  <2>4. InTurn'
    BY <1>1, <2>2 DEF InTurn
  <2>5. CallInv' /\ OwnResult' /\ StaysUsable'
    BY <1>1, <2>1 DEF CallInv, OwnResult, StaysUsable, InCall
  <2> QED BY <2>3, <2>4, <2>5
<1> QED BY <1>3, <1>4 DEF ReadAuth

LEMMA PlanFollows ==
  ASSUME NEW k \in Kinds, NEW n \in 0..MaxQuery
  PROVE  /\ Plan(k, n) \in Seq(Packet) /\ Follows(Units(Plan(k, n)), Plan(k, n), 0)
         /\ Follows(<<>>, Plan(k, n), 0)
<1>1. Plan(k, n) \in Seq(Packet)
  BY PlanTyped
<1>2. Follows(<<>>, Plan(k, n), 0)
  BY <1>1 DEF Follows
<1> QED BY <1>1, <1>2, FollowsAll

LEMMA AnswerQuery ==
  ASSUME IInv, NEW k \in Kinds, Query(k)
  PROVE  AnswerInv'
<1> USE DEF IInv, AnswerInv
<1>1. /\ UNCHANGED <<fd, db, wire, strained>> /\ state = "connected" /\ pc = "idle"
      /\ asked' = Append(asked, k) /\ astray' = (astray \/ fd # db) /\ got' = <<>>
      /\ pc' \in {"result", "abort"} /\ peer' \in {peer, "gone"}
  BY DEF Query
<1>2. db # NoFd
  BY <1>1 DEF GreetInv
<1>3. GreetInv'
  BY <1>1, <1>2 DEF GreetInv, Opening
<1>4. InTurn' /\ OwnResult' /\ StaysUsable'
  BY <1>1 DEF InTurn, OwnResult, StaysUsable
<1>5. ASSUME pc' = "result", ~strained, ~astray'
      PROVE  LET n == Len(asked') IN
             /\ n > 0 /\ asked'[n] = k
             /\ Follows(Stream', Plan(k, n), 0)
  <2>1. ~astray /\ fd = db /\ peer \in {"ready", "gone"} /\ wire \o todo = <<>>
    BY <1>1, <1>2, <1>5 DEF TypeOK, GreetInv, InTurn
  <2>2. wire = <<>> /\ todo = <<>>
    BY <2>1 DEF TypeOK
  <2>3. asked \in Seq(Kinds) /\ Len(asked) <= MaxQuery
    BY DEF TypeOK
  <2>4. Len(asked) < MaxQuery
    BY DEF Query
  <2>5. Len(asked') = Len(asked) + 1 /\ asked'[Len(asked')] = k
    BY <1>1, <2>3
  <2>6. Len(asked') \in 0..MaxQuery /\ Len(asked') > 0
    BY <2>3, <2>4, <2>5, MariaAssumption
  <2> DEFINE plan == Plan(k, Len(asked'))
  <2>7. plan \in Seq(Packet) /\ Follows(Units(plan), plan, 0) /\ Follows(<<>>, plan, 0)
    BY <2>6, PlanFollows
  <2>8. Units(plan) \in Seq(Unit)
    BY <2>7, UnitsTyped
  <2>9. todo' = <<>> \/ todo' = <<>> \o Units(plan)
    BY <1>5, <2>1, <2>2 DEF Query
  <2> HIDE DEF plan
  <2>10. Stream' \in {<<>>, Units(plan)}
    BY <1>1, <2>2, <2>8, <2>9 DEF Stream
  <2> QED BY <2>5, <2>6, <2>7, <2>10 DEF plan
<1>6. CallInv'
  <2> SUFFICES ASSUME pc' = "result", ~strained', ~astray' PROVE
        /\ Len(asked') > 0
        /\ LET plan == Plan(asked'[Len(asked')], Len(asked')) IN
             /\ Len(got') <= Len(plan) /\ got' = SubSeq(plan, 1, Len(got'))
             /\ Follows(Stream', plan, Len(got'))
             /\ Reached(asked[Len(asked)], Len(got))'
    BY <1>1 DEF CallInv, InCall
  <2> DEFINE n == Len(asked')
             plan == Plan(k, n)
  <2>1. n > 0 /\ asked'[n] = k /\ Follows(Stream', plan, 0)
    BY <1>1, <1>5
  <2>2. n \in 0..MaxQuery
    BY <1>1, MariaAssumption DEF TypeOK, Query
  <2>3. plan \in Seq(Packet)
    BY <2>2, PlanTyped
  <2> HIDE DEF plan, n
  <2>4. Len(got') = 0 /\ Len(got') <= Len(plan) /\ got' = SubSeq(plan, 1, Len(got'))
    BY <1>1, <2>3
  <2>5. Reached(asked[Len(asked)], Len(got))'
    BY <2>4 DEF Reached
  <2> QED BY <2>1, <2>4, <2>5 DEF plan, n
<1> QED BY <1>3, <1>4, <1>6

LEMMA AnswerCalls ==
  ASSUME IInv, QueryRefused \/ Close
  PROVE  AnswerInv'
<1> USE DEF IInv, AnswerInv
<1>1. state # "nil" => db # NoFd
  BY DEF GreetInv
<1>2. CASE QueryRefused
  <2>1. UNCHANGED <<fd, db, state, peer, strained, astray, wire, todo>>
        /\ state # "connected" /\ pc' = "idle" /\ answer' = "refused"
    BY <1>2 DEF QueryRefused, Return, dbVars, netVars, history
  <2> QED BY <2>1, <1>1, AnswerIdle DEF InCall, Opening, GreetInv
<1>3. CASE Close
  <2>1. UNCHANGED <<fd, db, strained, astray>> /\ peer' \in {peer, "gone"}
        /\ (\/ state' = "nil" /\ pc' = "idle" /\ answer' \in {"failed", "closed"}
            \/ state' = state /\ pc' = "abort")
    BY <1>3 DEF Close, Return, history
  <2> QED BY <2>1, <1>1, AnswerIdle DEF InCall, Opening, GreetInv
<1> QED BY <1>2, <1>3

LEMMA AnswerNet ==
  ASSUME IInv, Arrive \/ Hangs
  PROVE  AnswerInv'
<1> USE DEF IInv, AnswerInv
<1>1. /\ UNCHANGED <<fd, db, state, pc, left, got, answer, asked, strained, astray>>
      /\ peer' \in {peer, "gone"}
  BY DEF Arrive, Hangs, history
<1>2. /\ Stream' \in Seq(Unit) /\ Len(Stream') <= Len(Stream)
      /\ \A j \in 1..Len(Stream') : Stream'[j] = Stream[j]
  <2>1. CASE Arrive
    BY <2>1, StreamArrived, StreamFacts
  <2>2. CASE Hangs
    <3>1. wire' = wire /\ todo' = <<>>
      BY <2>2 DEF Hangs
    <3> QED BY <3>1, StreamCut
  <2> QED BY <2>1, <2>2
<1>3. Stream \in Seq(Unit)
  BY StreamFacts
<1>4. GreetInv'
  BY <1>1, <1>2, <1>3 DEF GreetInv, Opening
<1>5. InTurn'
  BY <1>1, <1>2, <1>3 DEF InTurn, Stream
<1>6. OwnResult' /\ StaysUsable'
  BY <1>1 DEF OwnResult, StaysUsable
<1>7. CallInv'
  <2> SUFFICES ASSUME pc \in InCall, ~strained, ~astray
               PROVE  Follows(Stream', Plan(asked[Len(asked)], Len(asked)), Len(got))
    BY <1>1 DEF CallInv, Reached
  <2> DEFINE plan == Plan(asked[Len(asked)], Len(asked))
  <2>1. Len(asked) > 0 /\ Follows(Stream, plan, Len(got))
    BY DEF CallInv
  <2>2. asked[Len(asked)] \in Kinds /\ Len(asked) \in 0..MaxQuery
    BY <2>1, MariaAssumption DEF TypeOK
  <2>3. plan \in Seq(Packet) /\ Len(got) \in Nat
    BY <2>2, PlanTyped DEF TypeOK
  <2> HIDE DEF plan
  <2>4. Follows(Stream', plan, Len(got))
    BY <1>2, <1>3, <2>1, <2>3, FollowsCut
  <2> QED BY <2>4 DEF plan
<1> QED BY <1>4, <1>5, <1>6, <1>7

LEMMA AnswerGivesUp ==
  ASSUME IInv, Silence \/ TooLong \/ Ends
  PROVE  AnswerInv'
<1> USE DEF IInv, AnswerInv
<1>1. /\ UNCHANGED <<fd, db, state, peer, strained, astray>> /\ Reading
      /\ (pc' = "idle" /\ answer' = "failed") \/ pc' = "abort"
  BY DEF Silence, TooLong, Ends, GivesUp, Return, dbVars, netVars, history
<1>2. (state # "nil" => db # NoFd) /\ (pc \in Opening => fd # db) /\ (pc \notin Opening => state = "sent")
  BY <1>1 DEF GreetInv, SocketInv, Reading, InCall, Opening
<1> QED BY <1>1, <1>2, AnswerIdle DEF InCall, Opening, GreetInv

LEMMA AnswerStrained ==
  ASSUME IInv, LosesStep
  PROVE  AnswerInv'
<1> USE DEF IInv, AnswerInv
<1>1. strained' = TRUE /\ UNCHANGED fd /\ Reading /\ pc' \in {"idle", "abort"}
  BY DEF LosesStep, Return, Succeeds
<1>2. pc \in Opening => fd # NoFd
  BY DEF GreetInv
<1>3. pc \notin Opening => state = "sent"
  BY <1>1 DEF SocketInv, Reading, InCall, Opening
<1>4. state # "nil" => db # NoFd
  BY DEF GreetInv
<1>5. state' # "nil" => db' # NoFd
  BY <1>1, <1>2, <1>3, <1>4 DEF LosesStep, Return, Succeeds, Opening
<1>6. GreetInv'
  BY <1>1, <1>5 DEF GreetInv, Opening
<1>7. CallInv' /\ InTurn' /\ OwnResult' /\ StaysUsable'
  BY <1>1 DEF CallInv, InTurn, OwnResult, StaysUsable
<1> QED BY <1>6, <1>7

-----------------------------------------------------------------------------
(* Reading a result.                                                       *)

LEMMA OneMore ==
  ASSUME NEW ps \in Seq(Packet), NEW i \in Nat, i + 1 <= Len(ps), NEW s,
         s = SubSeq(ps, 1, i)
  PROVE  LET t == Append(s, ps[i + 1]) IN
         Len(t) = i + 1 /\ t = SubSeq(ps, 1, i + 1) /\ t \in Seq(Packet)
<1>0. Len(ps) \in Nat
  OBVIOUS
<1>1. s \in Seq(Packet) /\ Len(s) = i
  BY <1>0
<1>2. \A j \in 1..i : s[j] = ps[j]
  BY <1>0
<1> DEFINE t == Append(s, ps[i + 1])
           u == SubSeq(ps, 1, i + 1)
<1>3. ps[i + 1] \in Packet
  BY <1>0
<1>4. t \in Seq(Packet) /\ Len(t) = i + 1 /\ (\A j \in 1..i : t[j] = s[j]) /\ t[i + 1] = ps[i + 1]
  BY <1>1, <1>3
<1>5. u \in Seq(Packet) /\ Len(u) = i + 1 /\ \A j \in 1..(i + 1) : u[j] = ps[j]
  BY <1>0
<1> HIDE DEF t, u
<1>6. ASSUME NEW j \in 1..(i + 1) PROVE t[j] = u[j]
  BY <1>2, <1>4, <1>5, <1>6
<1>7. t = u
  BY <1>4, <1>5, <1>6
<1> QED BY <1>4, <1>7 DEF t, u

(* While a result is read, the next packet is the next of the result.      *)
LEMMA CollectsNext ==
  ASSUME IInv, Collects, pc \in InCall, ~strained, ~astray
  PROVE  LET n == Len(asked)
             plan == Plan(asked[n], n)
             i == Len(got) IN
         /\ n \in 1..MaxQuery /\ asked[n] \in Kinds /\ plan \in Seq(Packet)
         /\ i \in Nat /\ i + 1 <= Len(plan)
         /\ Next1 = plan[i + 1]
         /\ Len(got') = i + 1 /\ got' = SubSeq(plan, 1, i + 1)
         /\ Stream' \in Seq(Unit) /\ Follows(Stream', plan, i + 1)
         /\ Reached(asked[n], i)
<1> USE DEF IInv, AnswerInv
<1> DEFINE n == Len(asked)
           plan == Plan(asked[n], n)
           i == Len(got)
<1>1. /\ n > 0 /\ i <= Len(plan) /\ got = SubSeq(plan, 1, i)
      /\ Follows(Stream, plan, i) /\ Reached(asked[n], i)
  BY DEF CallInv
<1>2. n \in 1..MaxQuery /\ asked[n] \in Kinds /\ i \in Nat
  BY <1>1, MariaAssumption DEF TypeOK
<1>3. plan \in Seq(Packet)
  BY <1>2, PlanTyped
<1>4. Takes /\ todo' = todo /\ got' = Append(got, Next1)
  BY DEF Collects
<1>5. /\ Len(Stream) >= 3 /\ Stream' \in Seq(Unit) /\ Len(Stream') = Len(Stream) - 3
      /\ \A j \in 1..Len(Stream') : Stream'[j] = Stream[j + 3]
      /\ Next1 = Stream[1].packet
  BY <1>4, StreamTaken
<1>6. Stream \in Seq(Unit)
  BY StreamFacts
<1> HIDE DEF plan, i, n
<1>7. i + 1 <= Len(plan) /\ Follows(Stream', plan, i + 1) /\ Stream[1].packet = plan[i + 1]
  BY <1>1, <1>2, <1>3, <1>5, <1>6, FollowsTaken
<1>8. Next1 = plan[i + 1]
  BY <1>5, <1>7
<1>9. Len(got') = i + 1 /\ got' = SubSeq(plan, 1, i + 1)
  BY <1>1, <1>2, <1>3, <1>4, <1>7, <1>8, OneMore
<1> QED BY <1>1, <1>2, <1>3, <1>5, <1>7, <1>8, <1>9 DEF plan, i, n

(* What a read of a result must establish: that the call goes on at the    *)
(* right place, or ends with the result.                                   *)
LEMMA ReadOn ==
  ASSUME IInv, Collects, pc \in InCall, ~strained, ~astray, pc' \in InCall,
         Reached(asked[Len(asked)], Len(got))'
  PROVE  CallInv' /\ InTurn' /\ OwnResult'
<1>1. UNCHANGED <<asked, strained, astray>>
  BY DEF Collects, history
<1>2. CallInv'
  BY <1>1, CollectsNext DEF CallInv
<1> QED BY <1>2 DEF InTurn, OwnResult, InCall

LEMMA ReadDone ==
  ASSUME IInv, Collects, pc \in InCall, ~strained, ~astray, pc' = "idle",
         LET plan == Plan(asked[Len(asked)], Len(asked)) IN
           /\ state' = "connected" => Len(got) + 1 = Len(plan)
           /\ answer' \in {"result", "error", "again"} =>
                (answer' = "again" <=> Len(got) + 1 < Len(plan))
  PROVE  CallInv' /\ InTurn' /\ OwnResult'
<1> DEFINE plan == Plan(asked[Len(asked)], Len(asked))
<1>1. UNCHANGED <<asked, strained, astray>>
  BY DEF Collects, history
<1>2. /\ plan \in Seq(Packet) /\ Len(got') = Len(got) + 1 /\ got' = SubSeq(plan, 1, Len(got) + 1)
      /\ Stream' \in Seq(Unit) /\ Follows(Stream', plan, Len(got) + 1)
  BY CollectsNext
<1>3. /\ state' = "connected" => Len(got) + 1 = Len(plan)
      /\ answer' \in {"result", "error", "again"} => (answer' = "again" <=> Len(got) + 1 < Len(plan))
  OBVIOUS
<1>4. plan' = plan
  BY <1>1
<1>5. InTurn'
  <2>1. state' = "connected" => Stream' = <<>>
    <3> HIDE DEF plan
    <3> QED BY <1>2, <1>3, FollowsNone
  <2> QED BY <2>1 DEF InTurn, Stream
<1>6. OwnResult'
  BY <1>1, <1>2, <1>3 DEF OwnResult
<1> QED BY <1>5, <1>6 DEF CallInv, InCall

LEMMA AnswerFirst ==
  ASSUME IInv, ReadResult, ~strained, ~astray
  PROVE  CallInv' /\ InTurn' /\ OwnResult'
<1> DEFINE n == Len(asked)
           k == asked[n]
           plan == Plan(k, n)
<1>1. pc = "result" /\ Collects /\ pc \in InCall
  BY DEF ReadResult, InCall
<1>2. /\ n \in 1..MaxQuery /\ k \in Kinds /\ Len(got) = 0
      /\ 1 <= Len(plan) /\ Next1 = plan[1] /\ Len(got') = 1
  BY <1>1, CollectsNext DEF Reached
<1>3. UNCHANGED <<asked, strained, astray>> /\ state = "sent"
  BY <1>1 DEF Collects, history, IInv, SocketInv
<1>4. n \in 0..MaxQuery /\ Len(plan) \in Nat
  BY <1>1, <1>2, CollectsNext
<1>5. /\ plan[1].typ = "OK" => (plan[1].more <=> 1 < Len(plan))
      /\ plan[1].typ = "ERR" => Len(plan) = 1
      /\ plan[1].typ # "EOF"
      /\ plan[1].typ = "DATA" => k \in Tables \cup {"cut"}
  BY <1>2, <1>4, FirstPacket
<1> HIDE DEF plan, n, k
<1>6. CASE Next1.typ = "OK" /\ Answered("result")
  <2>1. plan[1].more <=> 1 < Len(plan)
    BY <1>2, <1>5, <1>6
  <2>2. CASE ~Next1.more /\ state' = "connected" /\ pc' = "idle" /\ answer' = "result"
    <3>1. ~(1 < Len(plan))
      BY <1>2, <2>1, <2>2
    <3>2. Len(got) + 1 = Len(plan) /\ ~(Len(got) + 1 < Len(plan))
      BY <1>2, <1>4, <3>1
    <3> QED BY <1>1, <2>2, <3>2, ReadDone DEF plan, n, k
  <2>3. CASE Next1.more /\ state' = state /\ pc' = "idle" /\ answer' = "again"
    <3>1. Len(got) + 1 < Len(plan)
      BY <1>2, <1>4, <2>1, <2>3
    <3> QED BY <1>1, <1>3, <2>3, <3>1, ReadDone DEF plan, n, k
  <2> QED BY <1>6, <2>2, <2>3 DEF Answered, Done, Return
<1>7. CASE Next1.typ = "ERR" /\ StatementFails
  <2>1. pc' = "idle" /\ answer' = "error" /\ state' = "connected"
    BY <1>7 DEF StatementFails, Done, Return
  <2>a. Len(plan) = 1
    BY <1>2, <1>5, <1>7
  <2>2. Len(got) + 1 = Len(plan) /\ ~(Len(got) + 1 < Len(plan))
    BY <1>2, <2>a
  <2> QED BY <1>1, <2>1, <2>2, ReadDone DEF plan, n, k
<1>8. CASE Next1.typ = "DATA" /\ pc' = "fields" /\ left' = Fields
  <2>1. k \in Tables \cup {"cut"} /\ Fields \in 1..Fields /\ 1 = 1 + Fields - Fields
    BY <1>2, <1>5, <1>8, MariaAssumption
  <2>2. Reached(asked[Len(asked)], Len(got))'
    BY <1>2, <1>3, <1>8, <2>1 DEF Reached, k, n
  <2> QED BY <1>1, <1>8, <2>2, ReadOn DEF InCall
<1> QED BY <1>2, <1>5, <1>6, <1>7, <1>8 DEF ReadResult

LEMMA AnswerField ==
  ASSUME IInv, ReadField, ~strained, ~astray
  PROVE  CallInv' /\ InTurn' /\ OwnResult'
<1> DEFINE n == Len(asked)
           k == asked[n]
           plan == Plan(k, n)
           i == Len(got)
<1>1. pc = "fields" /\ Collects /\ pc \in InCall
  BY DEF ReadField, InCall
<1>2. /\ n \in 1..MaxQuery /\ k \in Kinds /\ i \in Nat
      /\ i + 1 <= Len(plan) /\ Next1 = plan[i + 1] /\ Len(got') = i + 1
      /\ (k \in Tables /\ left \in 1..Fields /\ i = 1 + Fields - left) \/ (k = "cut" /\ i = 1)
  BY <1>1, CollectsNext DEF Reached
<1>3. UNCHANGED <<asked, strained, astray, state>> /\ state = "sent"
  BY <1>1 DEF Collects, history, IInv, SocketInv, ReadField
<1>4. n \in 0..MaxQuery
  BY <1>2, MariaAssumption
<1>5. CASE k = "cut" /\ i = 1
  <2>1. Next1.typ # "DATA"
    <3>1. plan[2].typ # "DATA"
      BY <1>2, <1>4, <1>5, FirstPacket
    <3> QED BY <1>2, <1>5, <3>1
  <2>2. pc' = "idle" /\ answer' = "failed"
    BY <2>1 DEF ReadField, Return
  <2> QED BY <1>1, <1>3, <2>2, ReadDone
<1>6. CASE k \in Tables /\ left \in 1..Fields /\ i = 1 + Fields - left
  <2>0. Fields \in Nat
    BY MariaAssumption
  <2>1. i + 1 \in 1..(Fields + 1)
    BY <1>2, <1>6, <2>0
  <2>2. \A j \in 1..(Fields + 1) : plan[j] = P("DATA", n)
    BY <1>2, <1>4, <1>6, TablePackets
  <2>3. Next1.typ = "DATA"
    <3>1. plan[i + 1] = P("DATA", n)
      BY <2>1, <2>2
    <3> QED BY <1>2, <3>1 DEF P
  <2>4. left' = left - 1 /\ pc' = IF left = 1 THEN "eof" ELSE "fields"
    BY <2>3 DEF ReadField, Return
  <2> HIDE DEF plan
  <2>5. Reached(asked[Len(asked)], Len(got))'
    <3>1. CASE left = 1
      <4>1. pc' = "eof" /\ Len(got') = Fields + 1
        BY <1>2, <1>6, <2>0, <2>4, <3>1
      <4> QED BY <1>3, <1>6, <4>1 DEF Reached
    <3>2. CASE left # 1
      <4>1. pc' = "fields" /\ left' \in 1..Fields /\ Len(got') = 1 + Fields - left'
        BY <1>2, <1>6, <2>0, <2>4, <3>2
      <4> QED BY <1>3, <1>6, <4>1 DEF Reached
    <3> QED BY <3>1, <3>2
  <2>6. pc' \in InCall
    BY <2>4 DEF InCall
  <2> QED BY <1>1, <2>5, <2>6, ReadOn
<1> QED BY <1>2, <1>5, <1>6

LEMMA AnswerRows ==
  ASSUME IInv, ReadEof \/ ReadRow, ~strained, ~astray
  PROVE  CallInv' /\ InTurn' /\ OwnResult'
<1> DEFINE n == Len(asked)
           k == asked[n]
           plan == Plan(k, n)
           i == Len(got)
<1>1. pc \in {"eof", "rows"} /\ Collects /\ pc \in InCall
  BY DEF ReadEof, ReadRow, InCall
<1>2. /\ n \in 1..MaxQuery /\ k \in Kinds /\ i \in Nat /\ plan \in Seq(Packet)
      /\ i + 1 <= Len(plan) /\ Next1 = plan[i + 1] /\ Len(got') = i + 1
      /\ k \in Tables
      /\ pc = "eof" => i = Fields + 1
      /\ pc = "rows" => i >= Fields + 2
  BY <1>1, CollectsNext DEF Reached
<1>3. UNCHANGED <<asked, strained, astray>> /\ state = "sent"
  BY <1>1 DEF Collects, history, IInv, SocketInv
<1>4. n \in 0..MaxQuery /\ Fields \in Nat /\ Len(plan) \in Nat
  BY <1>2, MariaAssumption
<1>5. /\ plan[Fields + 2] = P("EOF", n)
      /\ \A j \in (Fields + 3)..Len(plan) : plan[j].typ = "EOF" => (plan[j].more <=> j < Len(plan))
  BY <1>2, <1>4, TablePackets
<1> HIDE DEF plan
<1>6. CASE ReadEof
  <2>1. i + 1 = Fields + 2 /\ pc = "eof"
    BY <1>2, <1>4, <1>6 DEF ReadEof
  <2>2. Next1.typ = "EOF"
    BY <1>2, <1>5, <2>1 DEF P
  <2>3. pc' = "rows"
    BY <1>6, <2>2 DEF ReadEof
  <2>4. Reached(asked[Len(asked)], Len(got))'
    BY <1>2, <1>3, <1>4, <2>1, <2>3 DEF Reached
  <2> QED BY <1>1, <2>3, <2>4, ReadOn DEF InCall
<1>7. CASE ReadRow
  <2>1. i + 1 \in (Fields + 3)..Len(plan) /\ pc = "rows"
    BY <1>2, <1>4, <1>7 DEF ReadRow
  <2>2. CASE Next1.typ # "EOF"
    <3>1. pc' = "rows" /\ Len(got') >= Fields + 2
      BY <1>2, <1>4, <1>7, <2>1, <2>2 DEF ReadRow
    <3>2. Reached(asked[Len(asked)], Len(got))'
      BY <1>2, <1>3, <3>1 DEF Reached
    <3> QED BY <1>1, <3>1, <3>2, ReadOn DEF InCall
  <2>3. CASE Next1.typ = "EOF"
    <3>1. Next1.more <=> i + 1 < Len(plan)
      BY <1>2, <1>5, <2>1, <2>3
    <3>2. Answered("result")
      BY <1>7, <2>3 DEF ReadRow
    <3>3. CASE ~Next1.more /\ state' = "connected" /\ pc' = "idle" /\ answer' = "result"
      <4>1. i + 1 = Len(plan)
        BY <1>2, <1>4, <3>1, <3>3
      <4> QED BY <1>1, <1>2, <1>4, <3>3, <4>1, ReadDone DEF plan
    <3>4. CASE Next1.more /\ state' = state /\ pc' = "idle" /\ answer' = "again"
      <4>1. i + 1 < Len(plan)
        BY <3>1, <3>4
      <4> QED BY <1>1, <1>3, <3>4, <4>1, ReadDone DEF plan
    <3> QED BY <3>2, <3>3, <3>4 DEF Answered, Done, Return
  <2> QED BY <2>2, <2>3
<1> QED BY <1>6, <1>7

LEMMA AnswerReads ==
  ASSUME IInv, ReadResult \/ ReadField \/ ReadEof \/ ReadRow
  PROVE  AnswerInv'
<1>1. /\ UNCHANGED <<fd, db, peer, asked, strained, astray>> /\ pc \in InCall /\ state = "sent"
      /\ pc' \notin Opening
  BY DEF ReadResult, ReadField, ReadEof, ReadRow, Collects, Takes, history, InCall, Opening,
         Answered, StatementFails, Done, Return, IInv, SocketInv
<1>2. state' \in {"sent", "connected"} /\ db # NoFd
  BY <1>1 DEF ReadResult, ReadField, ReadEof, ReadRow, Answered, StatementFails, Done,
              IInv, AnswerInv, GreetInv
<1>3. GreetInv'
  BY <1>1, <1>2 DEF IInv, AnswerInv, GreetInv, Opening
<1>4. StaysUsable'
  BY <1>1 DEF ReadResult, ReadField, ReadEof, ReadRow, Answered, StatementFails, Done, Return,
              StaysUsable
<1>5. CallInv' /\ InTurn' /\ OwnResult'
  <2>1. CASE strained \/ astray
    BY <1>1, <2>1 DEF CallInv, InTurn, OwnResult
  <2>2. CASE ~strained /\ ~astray
    BY <2>2, AnswerFirst, AnswerField, AnswerRows
  <2> QED BY <2>1, <2>2
<1> QED BY <1>3, <1>4, <1>5 DEF AnswerInv

LEMMA AnswerNext == IInv /\ [Next]_vars => AnswerInv'
<1> SUFFICES ASSUME IInv, [Next]_vars PROVE AnswerInv'
  OBVIOUS
<1>1. CASE UNCHANGED vars
  BY <1>1 DEF vars, IInv, AnswerInv, GreetInv, CallInv, Reached, InTurn, OwnResult, StaysUsable, Stream
<1> QED BY <1>1, AnswerOpen, AnswerGreeting, AnswerAuth, AnswerQuery, AnswerCalls, AnswerNet,
           AnswerGivesUp, AnswerStrained, AnswerReads DEF Next, Reads

(* A query is answered with its own result and leaves nothing in the       *)
(* stream, and errors of statements leave the connection usable, for any   *)
(* number of attempts and queries, any kinds of results, any number of     *)
(* fields and any segmentation (maria.lua:929-1050).                       *)
THEOREM AnswersInTurnCorrect == Spec => []AnswersInTurn
<1>1. Init => SocketInv /\ AnswerInv
  BY DEF Init, SocketInv, InCall, Opening, AnswerInv, GreetInv, CallInv, InTurn, OwnResult, StaysUsable
<1>2. IInv => AnswersInTurn
  BY DEF IInv, AnswerInv, AnswersInTurn
<1>3. TypeOK /\ SocketInv /\ AnswerInv /\ [Next]_vars => (SocketInv /\ AnswerInv)'
  BY SocketNext, AnswerNext DEF IInv
<1>4. TypeOK /\ SocketInv /\ AnswerInv => IInv
  BY DEF IInv
<1> QED BY <1>1, <1>2, <1>3, <1>4, TypeCorrect, PTL DEF Spec
=============================================================================
