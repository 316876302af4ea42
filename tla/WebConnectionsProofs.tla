------------------------ MODULE WebConnectionsProofs ------------------------
(***************************************************************************)
(* Proofs about the turns of a connection (WebRequest), for any number of  *)
(* requests, with bodies and buffers of any size and any kinds of targets, *)
(* and about the proxy (Proxy), for any number of clients and answers and  *)
(* buffers of any size.                                                    *)
(***************************************************************************)
EXTENDS MCWebConnections, SequenceTheorems, WellFoundedInduction, TLAPS

(* What the worker has read: the request of a client, or nothing. *)
Webs ==
  [method : Methods \cup {"none"}, type : Types \cup {"none"}, len : Nat, keep : BOOLEAN,
   target : Targets \cup {"none"}, range : Ranges \cup {-1}]

Replies ==
  [status : Status, from : {"none", "file", "data"}, data : Nat,
   length : Nat \cup {-1}, sent : Nat, keep : BOOLEAN]

(* The units of s belong to requests that were made. *)
Known(s) == \A i \in 1..Len(s) : s[i].req <= Len(made)

Typed ==
  /\ TypeOK
  /\ web \in Webs /\ reply \in Replies
  /\ Known(wire) /\ Known(unsent)
  /\ eof => unsent = <<>>

-----------------------------------------------------------------------------
(* Honest answers: nothing of an answer is sent before Send, and what the  *)
(* header announces is what Send will find, unless the file is edited.     *)
Counted == reply.from # "data" \/ ~Ranged

HonestInv ==
  /\ pc \notin {"header", "closed"} => reply.sent = 0
  /\ pc = "send" /\ ~edited /\ Counted /\ Bytes > 0 => reply.length = Bytes
  /\ HonestLength

-----------------------------------------------------------------------------
(* The stream.  Whatever is done with it: behind the front of each header  *)
(* there are its back and a body of the length it says, and the loop for a *)
(* body that was sent finds all of it, until the client closes.            *)
Follows(s, more) ==
  \A i \in 1..Len(s) :
    s[i].part = "front" => Len(s) - i + more >= 1 + made[s[i].req].len

Followed ==
  ~eof => /\ Follows(wire, Len(unsent)) /\ Follows(unsent, 0)
          /\ pc = "body" => Len(body) + Len(wire) + Len(unsent) >= web.len

(* While nothing puts strain on the reader, the stream holds one whole     *)
(* request, or what is left of its body, or nothing; but for a form that   *)
(* is refused, whose body stays there and whose answer closes.             *)
FrontUnit == [req |-> Len(made), part |-> "front"]
BackUnit  == [req |-> Len(made), part |-> "back"]
AllBody(s, from) == \A i \in from..Len(s) : s[i] = [req |-> Len(made), part |-> "body"]
Bodied(r) == r.method = "post" \/ r.len = 0

Empty == wire = <<>> /\ unsent = <<>>

Request1 ==
  /\ made # <<>> /\ Bodied(made[Len(made)])
  /\ Len(wire) + Len(unsent) = 2 + made[Len(made)].len
  /\ \/ /\ wire = <<>>
        /\ unsent[1] = FrontUnit /\ unsent[2] = BackUnit /\ AllBody(unsent, 3)
     \/ /\ Len(wire) >= 2
        /\ wire[1] = FrontUnit /\ wire[2] = BackUnit /\ AllBody(wire, 3) /\ AllBody(unsent, 1)

Clean ==
  /\ pc = "header" => Empty \/ Request1
  /\ pc = "body" => /\ web.method = "post" /\ ~Refused(web)
                    /\ Len(body) + Len(wire) + Len(unsent) = web.len
                    /\ AllBody(body, 1) /\ AllBody(wire, 1) /\ AllBody(unsent, 1)
  /\ pc \in {"route", "measure", "send"} => Empty \/ Refused(web)
  /\ pc = "send" => Empty \/ ~reply.keep
  /\ BodyWhole

StepInv == Followed /\ (~strained => Clean)

Inv == Typed /\ HonestInv /\ StepInv

-----------------------------------------------------------------------------
(* Sequences of units.                                                     *)

LEMMA Cut ==
  ASSUME NEW s \in Seq(Unit), NEW n \in 0..Len(s)
  PROVE  /\ SubSeq(s, 1, n) \in Seq(Unit) /\ Len(SubSeq(s, 1, n)) = n
         /\ \A i \in 1..n : SubSeq(s, 1, n)[i] = s[i]
         /\ SubSeq(s, n + 1, Len(s)) \in Seq(Unit)
         /\ Len(SubSeq(s, n + 1, Len(s))) = Len(s) - n
         /\ \A i \in 1..Len(s) - n : SubSeq(s, n + 1, Len(s))[i] = s[n + i]
<1>1. \A i \in 1..n : s[i] \in Unit
  OBVIOUS
<1>2. /\ SubSeq(s, 1, n) \in Seq(Unit)
      /\ Len(SubSeq(s, 1, n)) = IF 1 <= n THEN n - 1 + 1 ELSE 0
      /\ \A i \in 1..n - 1 + 1 : SubSeq(s, 1, n)[i] = s[1 + i - 1]
  BY <1>1, SubSeqProperties
<1>3. \A i \in n + 1..Len(s) : s[i] \in Unit
  OBVIOUS
<1>4. /\ SubSeq(s, n + 1, Len(s)) \in Seq(Unit)
      /\ Len(SubSeq(s, n + 1, Len(s))) = IF n + 1 <= Len(s) THEN Len(s) - (n + 1) + 1 ELSE 0
      /\ \A i \in 1..Len(s) - (n + 1) + 1 : SubSeq(s, n + 1, Len(s))[i] = s[n + 1 + i - 1]
  BY <1>3, SubSeqProperties
<1>5. /\ n - 1 + 1 = n /\ Len(s) - (n + 1) + 1 = Len(s) - n
      /\ (IF 1 <= n THEN n - 1 + 1 ELSE 0) = n
      /\ (IF n + 1 <= Len(s) THEN Len(s) - (n + 1) + 1 ELSE 0) = Len(s) - n
  OBVIOUS
<1>6. ASSUME NEW i \in 1..n PROVE SubSeq(s, 1, n)[i] = s[i]
  <2>1. 1 + i - 1 = i
    OBVIOUS
  <2> QED
    BY <1>2, <1>5, <2>1
<1>7. ASSUME NEW i \in 1..Len(s) - n PROVE SubSeq(s, n + 1, Len(s))[i] = s[n + i]
  <2>1. n + 1 + i - 1 = n + i
    OBVIOUS
  <2> QED
    BY <1>4, <1>5, <2>1
<1> QED
  BY <1>2, <1>4, <1>5, <1>6, <1>7

LEMMA Joined ==
  ASSUME NEW s \in Seq(Unit), NEW t \in Seq(Unit)
  PROVE  /\ s \o t \in Seq(Unit) /\ Len(s \o t) = Len(s) + Len(t)
         /\ \A i \in 1..Len(s) : (s \o t)[i] = s[i]
         /\ \A i \in 1..Len(t) : (s \o t)[Len(s) + i] = t[i]
         /\ \A i \in 1..Len(s) + Len(t) : i \in 1..Len(s) \/ i - Len(s) \in 1..Len(t)
<1>1. /\ s \o t \in Seq(Unit) /\ Len(s \o t) = Len(s) + Len(t)
      /\ \A i \in 1..Len(s) + Len(t) :
           (s \o t)[i] = IF i <= Len(s) THEN s[i] ELSE t[i - Len(s)]
  BY ConcatProperties
<1>2. ASSUME NEW i \in 1..Len(s) PROVE i \in 1..Len(s) + Len(t) /\ i <= Len(s)
  OBVIOUS
<1>3. ASSUME NEW i \in 1..Len(t)
      PROVE  /\ Len(s) + i \in 1..Len(s) + Len(t) /\ ~(Len(s) + i <= Len(s))
             /\ Len(s) + i - Len(s) = i
  OBVIOUS
<1> QED
  BY <1>1, <1>2, <1>3

LEMMA TookBounds ==
  ASSUME WebRequestAssumption, wire \in Seq(Unit)
  PROVE  /\ Took \in 0..Len(wire) /\ (wire # <<>> => Took >= 1)
         /\ (Len(wire) >= 2 => Took >= 2)
<1>1. Len(wire) \in Nat /\ (wire # <<>> => Len(wire) >= 1)
  OBVIOUS
<1> QED
  BY <1>1 DEF Took, WebRequestAssumption

LEMMA Taken ==
  ASSUME WebRequestAssumption, wire \in Seq(Unit)
  PROVE  LET rest == SubSeq(wire, Took + 1, Len(wire)) IN
         /\ Data \in Seq(Unit) /\ Len(Data) = Took
         /\ \A i \in 1..Took : Data[i] = wire[i]
         /\ rest \in Seq(Unit) /\ Len(rest) = Len(wire) - Took
         /\ \A i \in 1..Len(wire) - Took : rest[i] = wire[Took + i]
BY TookBounds, Cut DEF Data

(* The units of a new request. *)
LEMMA NewUnits ==
  ASSUME NEW n \in 1..MaxReq, NEW r \in Request, WebRequestAssumption
  PROVE  /\ r.len \in Nat
         /\ Units(n, r) \in Seq(Unit) /\ Len(Units(n, r)) = 2 + r.len
         /\ Units(n, r)[1] = [req |-> n, part |-> "front"]
         /\ Units(n, r)[2] = [req |-> n, part |-> "back"]
         /\ \A i \in 3..2 + r.len : Units(n, r)[i] = [req |-> n, part |-> "body"]
<1> DEFINE h == <<[req |-> n, part |-> "front"], [req |-> n, part |-> "back"]>>
           b == [i \in 1..r.len |-> [req |-> n, part |-> "body"]]
<1>1. r.len \in Nat
  BY DEF Request, WebRequestAssumption
<1>2. h \in Seq(Unit) /\ Len(h) = 2
  BY DEF Unit
<1>3. b \in Seq(Unit) /\ Len(b) = r.len
  <2>1. [req |-> n, part |-> "body"] \in Unit
    BY DEF Unit
  <2> QED
    BY <1>1, <2>1
<1>4. \A i \in 1..r.len : b[i] = [req |-> n, part |-> "body"]
  OBVIOUS
<1>5. /\ h[1] = [req |-> n, part |-> "front"]
      /\ h[2] = [req |-> n, part |-> "back"]
  OBVIOUS
<1> HIDE DEF h, b
<1>6. /\ h \o b \in Seq(Unit) /\ Len(h \o b) = 2 + r.len
      /\ \A i \in 1..2 : (h \o b)[i] = h[i]
      /\ \A i \in 1..r.len : (h \o b)[2 + i] = b[i]
  <2>1. /\ h \o b \in Seq(Unit) /\ Len(h \o b) = Len(h) + Len(b)
        /\ \A i \in 1..Len(h) : (h \o b)[i] = h[i]
        /\ \A i \in 1..Len(b) : (h \o b)[Len(h) + i] = b[i]
    BY <1>2, <1>3, Joined
  <2> QED
    BY <1>2, <1>3, <2>1
<1>7. ASSUME NEW i \in 3..2 + r.len
      PROVE  i - 2 \in 1..r.len /\ i = 2 + (i - 2)
  BY <1>1
<1>8. \A i \in 3..2 + r.len : (h \o b)[i] = [req |-> n, part |-> "body"]
  BY <1>4, <1>6, <1>7
<1>9. Units(n, r) = h \o b
  BY DEF Units, h, b
<1> QED
  BY <1>1, <1>5, <1>6, <1>8, <1>9

-----------------------------------------------------------------------------
(* Types.                                                                  *)

LEMMA TypedInit ==
  ASSUME WebRequestAssumption, Init
  PROVE  Typed
<1>1. made \in Seq(Request) /\ Len(made) <= MaxReq
  BY DEF Init, WebRequestAssumption
<1>2. unsent \in Seq(Unit) /\ wire \in Seq(Unit) /\ body \in Seq(Unit)
  BY DEF Init
<1>3. web \in Webs
  BY DEF Init, Blank, Webs
<1>4. reply \in Replies
  BY DEF Init, NoReply, Replies, Status
<1>5. Known(wire) /\ Known(unsent)
  BY DEF Init, Known
<1>6. /\ eof \in BOOLEAN /\ strained \in BOOLEAN /\ edited \in BOOLEAN /\ framed \in BOOLEAN
      /\ pc \in {"header", "body", "route", "measure", "send", "closed", "abort"}
      /\ file \in Sizes /\ (eof => unsent = <<>>)
  BY DEF Init
<1>7. /\ web.len \in Nat /\ web.keep \in BOOLEAN /\ web.range \in Ranges \cup {-1}
      /\ reply.status \in Status /\ reply.from \in {"none", "file", "data"}
      /\ reply.length >= -1 /\ reply.sent \in Nat
  BY <1>3, <1>4 DEF Webs, Replies
<1> QED
  BY <1>1, <1>2, <1>3, <1>4, <1>5, <1>6, <1>7 DEF Typed, TypeOK

(* What a web and a reply of the right kind say of TypeOK. *)
LEMMA Fields ==
  /\ \A w \in Webs :
       w.len \in Nat /\ w.keep \in BOOLEAN /\ w.range \in Ranges \cup {-1}
  /\ \A r \in Replies :
       /\ r.status \in Status /\ r.from \in {"none", "file", "data"}
       /\ r.length >= -1 /\ r.length \in Int /\ r.sent \in Nat /\ r.data \in Nat
       /\ r.keep \in BOOLEAN
BY DEF Webs, Replies

LEMMA Statuses == {200, 206, 301, 401, 404, 408, 413, 500, 501} \subseteq Status
BY DEF Status

LEMMA NoneTyped == NoReply \in Replies
BY DEF NoReply, Replies, Status

(* What a sequence of units that arrived may be read as. *)
LEMMA ParsedTyped ==
  ASSUME WebRequestAssumption, made \in Seq(Request),
         NEW d \in Seq(Unit), Known(d), NEW r \in Parsed(d)
  PROVE  /\ r \in Webs
         /\ Whole(d) => /\ d[1].req \in 1..Len(made) /\ made[d[1].req] \in Request
                        /\ r = made[d[1].req]
         /\ ~Whole(d) /\ ~Front(d) => r.len = 0
         /\ Front(d) => r.len <= made[d[1].req].len
<1>1. Request \subseteq Webs
  BY DEF Request, Webs, WebRequestAssumption
<1>2. ASSUME Len(d) >= 1 PROVE d[1].req \in 1..Len(made)
  <2>1. d[1] \in Unit /\ 1 \in 1..Len(d)
    BY <1>2
  <2>2. d[1].req \in Int /\ d[1].req >= 1
    BY <2>1, WebRequestAssumption DEF Unit, WebRequestAssumption
  <2> QED
    BY <2>1, <2>2 DEF Known
<1>3. CASE Whole(d)
  <2>1. d[1].req \in 1..Len(made)
    BY <1>2, <1>3 DEF Whole
  <2>2. made[d[1].req] \in Request
    BY <2>1
  <2> QED
    BY <1>1, <1>3, <2>1, <2>2 DEF Parsed, Whole, Front
<1>4. CASE ~Whole(d) /\ Front(d)
  <2> DEFINE m == made[d[1].req]
  <2>1. d[1].req \in 1..Len(made)
    BY <1>2, <1>4 DEF Front
  <2>2. m \in Webs /\ m.len \in Nat
    BY <1>1, <2>1 DEF Webs
  <2>3. r \in CutShort(m)
    BY <1>4 DEF Parsed
  <2> HIDE DEF m
  <2>4. CASE r = Blank
    <3>1. Blank \in Webs /\ Blank.len = 0
      BY DEF Blank, Webs
    <3> QED
      BY <1>4, <2>2, <2>4, <3>1 DEF m
  <2>5. CASE r # Blank
    <3>1. /\ r = [method |-> r.method, type |-> r.type, len |-> r.len,
                  keep |-> r.keep, target |-> r.target, range |-> r.range]
          /\ r.method = m.method /\ r.target = m.target /\ r.len \in 0..m.len
          /\ r.keep \in {FALSE, m.keep} /\ r.type \in Types /\ r.range \in Ranges \cup {-1}
      BY <2>3, <2>5 DEF CutShort
    <3>2. /\ m.method \in Methods \cup {"none"} /\ m.target \in Targets \cup {"none"}
          /\ m.keep \in BOOLEAN
      BY <2>2 DEF Webs
    <3>4. r.len \in Nat /\ r.len <= m.len
      BY <2>2, <3>1, SMT
    <3>5. r.keep \in BOOLEAN
      BY <3>1, <3>2, Zenon
    <3>3. r \in Webs /\ r.len <= m.len
      BY <3>1, <3>2, <3>4, <3>5 DEF Webs
    <3> QED
      BY <1>4, <3>3 DEF m
  <2> QED
    BY <2>4, <2>5
<1>5. CASE ~Whole(d) /\ ~Front(d)
  <2>1. r = Blank
    BY <1>5 DEF Parsed
  <2>2. Blank \in Webs /\ Blank.len = 0
    BY DEF Blank, Webs
  <2> QED
    BY <1>5, <2>1, <2>2
<1> QED
  BY <1>3, <1>4, <1>5

LEMMA TypedMakeRequest ==
  ASSUME WebRequestAssumption, Typed, MakeRequest
  PROVE  Typed'
<1>1. PICK r \in Request : /\ made' = Append(made, r)
                           /\ unsent' = Units(Len(made) + 1, r)
                           /\ strained' \in BOOLEAN
  BY DEF MakeRequest
<1>2. made \in Seq(Request) /\ Len(made) < MaxReq
  BY DEF Typed, TypeOK, MakeRequest
<1>3. made' \in Seq(Request) /\ Len(made') = Len(made) + 1
  BY <1>1, <1>2
<1>4. Len(made) + 1 \in 1..MaxReq
  BY <1>2, WebRequestAssumption DEF WebRequestAssumption
<1>5. /\ r.len \in Nat
      /\ unsent' \in Seq(Unit) /\ Len(unsent') = 2 + r.len
      /\ unsent'[1] = [req |-> Len(made) + 1, part |-> "front"]
      /\ unsent'[2] = [req |-> Len(made) + 1, part |-> "back"]
      /\ \A i \in 3..2 + r.len : unsent'[i] = [req |-> Len(made) + 1, part |-> "body"]
  BY <1>1, <1>4, NewUnits
<1>6. Known(unsent)'
  <2>1. ASSUME NEW i \in 1..Len(unsent') PROVE unsent'[i].req <= Len(made')
    <3>1. i = 1 \/ i = 2 \/ i \in 3..2 + r.len
      BY <1>5
    <3>2. unsent'[i].req = Len(made) + 1
      BY <1>5, <3>1
    <3> QED
      BY <1>3, <3>2
  <2> QED
    BY <2>1 DEF Known
<1>7. Known(wire)'
  <2>1. ASSUME NEW i \in 1..Len(wire) PROVE wire[i].req <= Len(made) + 1
    <3>1. wire[i].req <= Len(made) /\ wire[i] \in Unit
      BY DEF Typed, TypeOK, Known
    <3>2. wire[i].req \in Int
      BY <3>1, WebRequestAssumption DEF Unit, WebRequestAssumption
    <3> QED
      BY <1>2, <3>1, <3>2
  <2>2. wire' = wire
    BY DEF MakeRequest
  <2> QED
    BY <1>3, <2>1, <2>2 DEF Known
<1>8. Len(made') <= MaxReq
  BY <1>3, <1>4
<1> QED
  BY <1>1, <1>3, <1>5, <1>6, <1>7, <1>8 DEF Typed, TypeOK, MakeRequest

LEMMA TypedDeliver ==
  ASSUME WebRequestAssumption, Typed, Deliver
  PROVE  Typed'
<1>1. PICK k \in 1..Len(unsent) : /\ wire' = wire \o SubSeq(unsent, 1, k)
                                  /\ unsent' = SubSeq(unsent, k + 1, Len(unsent))
                                  /\ strained' = (strained \/ unsent[k].part = "front")
  BY DEF Deliver
<1> DEFINE u == SubSeq(unsent, 1, k)
<1>2. wire \in Seq(Unit) /\ unsent \in Seq(Unit) /\ k \in 0..Len(unsent)
  BY DEF Typed, TypeOK
<1>3. /\ u \in Seq(Unit) /\ Len(u) = k /\ \A i \in 1..k : u[i] = unsent[i]
      /\ unsent' \in Seq(Unit) /\ Len(unsent') = Len(unsent) - k
      /\ \A i \in 1..Len(unsent) - k : unsent'[i] = unsent[k + i]
  BY <1>1, <1>2, Cut
<1> HIDE DEF u
<1>4. /\ wire' \in Seq(Unit) /\ Len(wire') = Len(wire) + k
      /\ \A i \in 1..Len(wire) : wire'[i] = wire[i]
      /\ \A i \in 1..k : wire'[Len(wire) + i] = u[i]
      /\ \A i \in 1..Len(wire) + k : i \in 1..Len(wire) \/ i - Len(wire) \in 1..k
  BY <1>1, <1>2, <1>3, Joined DEF u
<1>5. Known(unsent)'
  <2>1. ASSUME NEW i \in 1..Len(unsent') PROVE unsent'[i].req <= Len(made)
    <3>1. k + i \in 1..Len(unsent) /\ i \in 1..Len(unsent) - k
      BY <1>2, <1>3
    <3> QED
      BY <1>3, <3>1 DEF Typed, Known
  <2>2. made' = made
    BY DEF Deliver
  <2> QED
    BY <2>1, <2>2 DEF Known
<1>6. Known(wire)'
  <2>1. ASSUME NEW i \in 1..Len(wire') PROVE wire'[i].req <= Len(made)
    <3>1. CASE i \in 1..Len(wire)
      BY <1>4, <3>1 DEF Typed, Known
    <3>2. CASE i - Len(wire) \in 1..k
      <4>1. i = Len(wire) + (i - Len(wire)) /\ i - Len(wire) \in 1..Len(unsent)
        BY <1>2, <3>2
      <4>2. wire'[i] = unsent[i - Len(wire)]
        BY <1>3, <1>4, <3>2, <4>1
      <4> QED
        BY <4>1, <4>2 DEF Typed, Known
    <3> QED
      BY <1>4, <3>1, <3>2
  <2>2. made' = made
    BY DEF Deliver
  <2> QED
    BY <2>1, <2>2 DEF Known
<1>7. strained' \in BOOLEAN /\ eof' = eof /\ unsent # <<>>
  BY <1>1, <1>2 DEF Deliver
<1> QED
  BY <1>1, <1>3, <1>4, <1>5, <1>6, <1>7, SMTT(30) DEF Typed, TypeOK, Deliver

LEMMA TypedClient ==
  ASSUME WebRequestAssumption, Typed, HalfClose \/ Edit
  PROVE  Typed'
<1>1. CASE HalfClose
  BY <1>1 DEF Typed, TypeOK, HalfClose, Known, Webs, Replies, Request
<1>2. CASE Edit
  BY <1>2 DEF Typed, TypeOK, Edit, Known, clientVars, Webs, Replies, Request
<1> QED
  BY <1>1, <1>2

(* What a turn of the header, and of the body, leaves of the stream. *)
LEMMA TypedRest ==
  ASSUME WebRequestAssumption, Typed,
         wire' = SubSeq(wire, Took + 1, Len(wire)), UNCHANGED made
  PROVE  wire' \in Seq(Unit) /\ Known(wire)' /\ Known(Data)
<1>1. wire \in Seq(Unit) /\ Took \in 0..Len(wire)
  BY TookBounds DEF Typed, TypeOK
<1>2. /\ wire' \in Seq(Unit) /\ Len(wire') = Len(wire) - Took
      /\ \A i \in 1..Len(wire) - Took : wire'[i] = wire[Took + i]
      /\ Data \in Seq(Unit) /\ Len(Data) = Took
      /\ \A i \in 1..Took : Data[i] = wire[i]
  BY <1>1, Taken
<1>3. ASSUME NEW i \in 1..Len(wire') PROVE wire'[i].req <= Len(made')
  <2>1. Took + i \in 1..Len(wire) /\ i \in 1..Len(wire) - Took
    BY <1>1, <1>2
  <2> QED
    BY <1>2, <2>1 DEF Typed, Known
<1>4. ASSUME NEW i \in 1..Len(Data) PROVE Data[i].req <= Len(made)
  <2>1. i \in 1..Took /\ i \in 1..Len(wire)
    BY <1>1, <1>2
  <2> QED
    BY <1>2, <2>1 DEF Typed, Known
<1> QED
  BY <1>2, <1>3, <1>4 DEF Known

LEMMA TypedReadHeader ==
  ASSUME WebRequestAssumption, Typed, ReadHeader
  PROVE  Typed'
<1>1. /\ made' = made /\ unsent' = unsent /\ eof' = eof /\ strained' = strained
      /\ file' = file /\ framed' = framed /\ edited' = FALSE
      /\ wire' = SubSeq(wire, Took + 1, Len(wire))
  BY DEF ReadHeader, clientVars
<1>2. wire' \in Seq(Unit) /\ Known(wire)' /\ Known(Data) /\ Data \in Seq(Unit)
  BY <1>1, TypedRest, Taken DEF Typed, TypeOK
<1>3. PICK r \in Parsed(Data) :
        /\ web' = r /\ pc' = AfterHeader(r)
        /\ reply' = [NoReply EXCEPT !.status = IF Refused(r) THEN 413 ELSE 200, !.keep = r.keep]
  BY DEF ReadHeader
<1>4. web' \in Webs
  BY <1>2, <1>3, ParsedTyped DEF Typed, TypeOK
<1>5. pc' \in {"route", "abort", "body"}
  BY <1>3 DEF AfterHeader
<1>6. reply' \in Replies
  <2>1. web'.keep \in BOOLEAN
    BY <1>4, Fields
  <2>2. (IF Refused(web') THEN 413 ELSE 200) \in Status
    BY Statuses
  <2> QED
    BY <1>3, <2>1, <2>2, NoneTyped, ZenonT(40) DEF Replies
<1>7. body' \in Seq(Unit)
  <2>1. CASE ~Whole(Data)
    BY <2>1 DEF ReadHeader
  <2>2. CASE Whole(Data)
    <3>1. 2 \in 0..Len(Data)
      BY <1>2, <2>2 DEF Whole
    <3>2. SubSeq(Data, 2 + 1, Len(Data)) \in Seq(Unit)
      BY <1>2, <3>1, Cut
    <3>3. 2 + 1 = 3
      OBVIOUS
    <3> QED
      BY <2>2, <3>2, <3>3 DEF ReadHeader
  <2> QED
    BY <2>1, <2>2
<1>8. Known(unsent)'
  BY <1>1 DEF Typed, Known
<1> QED
  BY <1>1, <1>2, <1>4, <1>5, <1>6, <1>7, <1>8, Fields DEF Typed, TypeOK

LEMMA TypedReads ==
  ASSUME WebRequestAssumption, Typed, HeaderTimeout \/ ReadBody \/ BodyTimeout
  PROVE  Typed'
<1>1. CASE HeaderTimeout
  <2>1. web' \in Webs
    BY <1>1 DEF HeaderTimeout, Blank, Webs
  <2>2. reply' \in Replies
    BY <1>1, NoneTyped, Statuses DEF HeaderTimeout, Replies
  <2>3. Known(wire)' /\ Known(unsent)'
    BY <1>1 DEF HeaderTimeout, clientVars, Typed, Known
  <2>4. /\ web'.len \in Nat /\ web'.keep \in BOOLEAN /\ web'.range \in Ranges \cup {-1}
        /\ reply'.status \in Status /\ reply'.from \in {"none", "file", "data"}
        /\ reply'.length >= -1 /\ reply'.sent \in Nat
    BY <2>1, <2>2, Fields
  <2>5. /\ made' = made /\ unsent' = unsent /\ eof' = eof /\ wire' = wire /\ file' = file
        /\ framed' = framed /\ edited' = FALSE /\ body' = <<>> /\ pc' = "route"
        /\ strained' \in BOOLEAN
    BY <1>1 DEF HeaderTimeout, clientVars, Typed, TypeOK
  <2>6. body' \in Seq(Unit) /\ wire' \in Seq(Unit) /\ unsent' \in Seq(Unit)
    BY <2>5 DEF Typed, TypeOK
  <2> QED
    BY <2>1, <2>2, <2>3, <2>4, <2>5, <2>6 DEF Typed, TypeOK
<1>2. CASE ReadBody
  <2>1. /\ made' = made /\ unsent' = unsent /\ eof' = eof /\ strained' = strained
        /\ web' = web /\ reply' = reply
        /\ file' = file /\ framed' = framed /\ edited' = edited
        /\ pc' \in {"route", "body"}
    BY <1>2 DEF ReadBody, clientVars
  <2>2. wire' \in Seq(Unit) /\ Known(wire)' /\ body' \in Seq(Unit)
    <3>1. CASE wire' = SubSeq(wire, Took + 1, Len(wire)) /\ body' = body \o Data
      <4>1. Data \in Seq(Unit) /\ body \in Seq(Unit)
        BY Taken DEF Typed, TypeOK
      <4> QED
        BY <2>1, <3>1, <4>1, TypedRest, Joined
    <3>2. CASE wire' = wire /\ body' = body
      BY <2>1, <3>2 DEF Typed, TypeOK, Known
    <3> QED
      BY <1>2, <3>1, <3>2 DEF ReadBody
  <2>3. Known(unsent)'
    BY <2>1 DEF Typed, Known
  <2> QED
    BY <2>1, <2>2, <2>3 DEF Typed, TypeOK, Webs, Replies
<1>3. CASE BodyTimeout
  <2>1. Known(wire)' /\ Known(unsent)'
    BY <1>3 DEF BodyTimeout, clientVars, Typed, Known
  <2> QED
    BY <1>3, <2>1 DEF Typed, TypeOK, BodyTimeout, clientVars, Webs, Replies
<1> QED
  BY <1>1, <1>2, <1>3

(* An answer that was routed. *)
LEMMA RoutedTyped ==
  ASSUME WebRequestAssumption, reply \in Replies, NEW f \in Found, NEW r \in Hooked(f)
  PROVE  r \in Replies /\ r.sent = reply.sent
<1>1. \A n \in Sizes : n \in Nat
  BY DEF WebRequestAssumption
<1>2. f \in Replies /\ f.sent = reply.sent
  <2>1. CASE web.target = "none"
    <3>1. f = [reply EXCEPT !.status = IF reply.status = 408 THEN 408 ELSE 501]
      BY <2>1 DEF Found
    <3>2. (IF reply.status = 408 THEN 408 ELSE 501) \in Status
      BY Statuses
    <3> QED
      BY <3>1, <3>2 DEF Replies
  <2>2. CASE web.target = "denied"
    <3>1. f = [reply EXCEPT !.status = 401]
      BY <2>2 DEF Found
    <3> QED
      BY <3>1, Statuses DEF Replies
  <2>3. CASE web.target = "missing"
    <3>1. PICK s \in {404, 500} : f = [reply EXCEPT !.status = s]
      BY <2>3 DEF Found
    <3>2. s \in Status
      BY Statuses
    <3> QED
      BY <3>1, <3>2 DEF Replies
  <2>4. CASE web.target = "file"
    <3>1. f = [reply EXCEPT !.from = "file"]
      BY <2>4 DEF Found
    <3> QED
      BY <3>1 DEF Replies
  <2>5. CASE web.target \notin {"none", "denied", "missing", "file"}
    <3>1. PICK n \in Sizes : f = [reply EXCEPT !.from = "data", !.data = n]
      BY <2>5 DEF Found
    <3> QED
      BY <1>1, <3>1 DEF Replies
  <2> QED
    BY <2>1, <2>2, <2>3, <2>4, <2>5
<1>3. f.status \in Status
  BY <1>2, Fields
<1>4. CASE r = f
  BY <1>2, <1>4
<1>5. CASE r = [f EXCEPT !.status = 301]
  BY <1>2, <1>5, Statuses DEF Replies
<1>6. CASE \E s \in {f.status, 200}, n \in Sizes : r = Page(f, s, n)
  <2>1. PICK s \in {f.status, 200}, n \in Sizes : r = Page(f, s, n)
    BY <1>6
  <2>2. s \in Status /\ n \in Nat
    BY <1>1, <1>3, Statuses
  <2> QED
    BY <1>2, <2>1, <2>2 DEF Page, Replies
<1>7. \/ r = f \/ r = [f EXCEPT !.status = 301]
      \/ \E s \in {f.status, 200}, n \in Sizes : r = Page(f, s, n)
  BY DEF Hooked
<1> QED
  BY <1>4, <1>5, <1>6, <1>7

LEMMA TypedAnswers ==
  ASSUME WebRequestAssumption, Typed, Route \/ Measure \/ Send
  PROVE  Typed'
<1>1. /\ made' = made /\ unsent' = unsent /\ eof' = eof /\ wire' = wire
      /\ web' = web /\ body' = body /\ file' = file /\ edited' = edited
  BY DEF Route, Measure, Send, clientVars
<1>2. Known(wire)' /\ Known(unsent)'
  BY <1>1 DEF Typed, Known
<1>3. /\ strained' \in BOOLEAN /\ framed' \in BOOLEAN
      /\ pc' \in {"measure", "abort", "send", "header", "closed"}
  BY DEF Route, Measure, Send, Typed, TypeOK
<1>4. file \in Nat /\ web.range \in Int
  <2>1. file \in Sizes /\ web \in Webs
    BY DEF Typed, TypeOK
  <2>2. web.range \in Ranges \cup {-1}
    BY <2>1, Fields
  <2>3. -1 \in Int /\ NoNumber \in Int
    BY DEF NoNumber
  <2>4. file \in Nat
    BY <2>1 DEF WebRequestAssumption
  <2>5. Ranges \subseteq Nat \cup {-1, NoNumber}
    BY DEF WebRequestAssumption
  <2>6. web.range \in Int
    <3>1. web.range \in Ranges => web.range \in Nat \cup {-1, NoNumber}
      BY <2>5
    <3> QED
      BY <2>2, <2>3, <3>1
  <2> QED
    BY <2>4, <2>6
<1>5. reply \in Replies /\ reply.data \in Nat
  BY DEF Typed, Replies
<1>6. reply' \in Replies
  <2>1. CASE Route
    BY <1>5, <2>1, RoutedTyped DEF Route
  <2>2. CASE Measure
    <3>1. Length \in Nat
      BY <1>4, <1>5 DEF Length
    <3>2. Announced \in Int
      BY <1>4, <3>1 DEF Announced
    <3>3. (IF Announced < 1 THEN -1 ELSE Announced) \in Nat \cup {-1}
      BY <3>2
    <3>4. (IF Ranged THEN 206 ELSE reply.status) \in Status
      BY <1>5, Fields, Statuses
    <3>5. \A s \in Status : Keeps(s) \in BOOLEAN
      BY DEF Keeps
    <3>6. (IF reply.from = "file" /\ file = 0 THEN "none" ELSE reply.from)
            \in {"none", "file", "data"}
      BY <1>5, Fields
    <3>7. CASE web.range = NoNumber
      BY <1>5, <2>2, <3>7 DEF Measure
    <3>8. CASE web.range # NoNumber
      <4> DEFINE s == IF Ranged THEN 206 ELSE reply.status
                 l == IF Announced < 1 THEN -1 ELSE Announced
                 f == IF reply.from = "file" /\ file = 0 THEN "none" ELSE reply.from
      <4>1. reply' = [reply EXCEPT !.status = s, !.length = l, !.from = f, !.keep = Keeps(s)]
        BY <2>2, <3>8 DEF Measure
      <4>2. s \in Status /\ l \in Nat \cup {-1} /\ f \in {"none", "file", "data"}
        BY <3>3, <3>4, <3>6
      <4>3. Keeps(s) \in BOOLEAN
        BY <3>5, <4>2
      <4> HIDE DEF s, l, f
      <4> QED
        BY <1>5, <4>1, <4>2, <4>3 DEF Replies
    <3> QED
      BY <3>7, <3>8
  <2>3. CASE Send
    <3>1. Bytes \in Nat
      BY <1>4, <1>5 DEF Bytes
    <3> QED
      BY <1>5, <2>3, <3>1 DEF Send, Replies
  <2> QED
    BY <2>1, <2>2, <2>3
<1> QED
  BY <1>1, <1>2, <1>3, <1>6, Fields DEF Typed, TypeOK

LEMMA TypedNext ==
  ASSUME WebRequestAssumption, Typed, [Next]_vars
  PROVE  Typed'
<1>1. CASE Next
  BY <1>1, TypedMakeRequest, TypedDeliver, TypedClient, TypedReadHeader, TypedReads, TypedAnswers
     DEF Next, Worker
<1>2. CASE UNCHANGED vars
  BY <1>2 DEF vars, Typed, TypeOK, Known, Webs, Replies, Request
<1> QED
  BY <1>1, <1>2

-----------------------------------------------------------------------------
(* The bytes sent are those announced.                                     *)

LEMMA HonestMeasure ==
  ASSUME WebRequestAssumption, Typed, HonestInv, Measure
  PROVE  HonestInv'
<1>1. file \in Nat /\ reply \in Replies /\ reply.data \in Nat /\ web.range \in Int
  <2>1. Ranges \subseteq Nat \cup {-1, -2}
    BY DEF WebRequestAssumption, NoNumber
  <2>2. web.range \in Ranges \cup {-1} /\ file \in Sizes
    BY DEF Typed, TypeOK
  <2>3. web.range \in Ranges => web.range \in Nat \cup {-1, -2}
    BY <2>1
  <2>4. web.range \in Int /\ file \in Nat
    BY <2>2, <2>3 DEF WebRequestAssumption
  <2> QED
    BY <2>4, Fields DEF Typed
<1>2. web' = web /\ file' = file /\ edited' = edited /\ reply.sent = 0
  BY DEF Measure, HonestInv
<1>3. CASE web.range = NoNumber
  BY <1>2, <1>3 DEF Measure, HonestInv, HonestLength
<1>4. CASE web.range # NoNumber
  <2> DEFINE s == IF Ranged THEN 206 ELSE reply.status
             l == IF Announced < 1 THEN -1 ELSE Announced
             f == IF reply.from = "file" /\ file = 0 THEN "none" ELSE reply.from
  <2>1. /\ pc' = "send"
        /\ reply' = [reply EXCEPT !.status = s, !.length = l, !.from = f, !.keep = Keeps(s)]
    BY <1>4 DEF Measure
  <2> HIDE DEF s
  <2>2. /\ reply'.sent = reply.sent /\ reply'.length = l
        /\ reply'.from = f /\ reply'.data = reply.data
    BY <1>1, <2>1 DEF Replies
  <2>3. Ranged' = Ranged
    BY <1>2 DEF Ranged
  <2>4. CASE f = "file"
    <3>1. Length = file
      BY <2>4 DEF Length
    <3>2. Bytes' = IF ~Ranged THEN file
                   ELSE IF file > web.range THEN file - web.range ELSE 0
      BY <1>2, <2>2, <2>3, <2>4 DEF Bytes
    <3>3. Bytes' > 0 => l = Bytes'
      BY <1>1, <3>1, <3>2 DEF Announced
    <3> QED
      BY <1>2, <2>1, <2>2, <3>3 DEF HonestInv, HonestLength
  <2>5. CASE f = "data"
    <3>1. Length = reply.data
      BY <2>5 DEF Length
    <3>2. Bytes' = reply.data
      BY <2>2, <2>5 DEF Bytes
    <3>3. Bytes' > 0 /\ ~Ranged => l = Bytes'
      BY <1>1, <3>1, <3>2 DEF Announced
    <3>4. Counted' => ~Ranged
      BY <2>2, <2>3, <2>5 DEF Counted
    <3> QED
      BY <1>2, <2>1, <2>2, <3>3, <3>4 DEF HonestInv, HonestLength
  <2>6. CASE f \notin {"file", "data"}
    <3>1. Bytes' = 0
      BY <2>2, <2>6 DEF Bytes
    <3> QED
      BY <1>2, <2>1, <2>2, <3>1 DEF HonestInv, HonestLength
  <2> QED
    BY <2>4, <2>5, <2>6
<1> QED
  BY <1>3, <1>4

LEMMA HonestNext ==
  ASSUME WebRequestAssumption, Typed, HonestInv, [Next]_vars
  PROVE  HonestInv'
<1>1. CASE UNCHANGED <<pc, web, reply, file, edited>>
  BY <1>1 DEF HonestInv, HonestLength, Bytes, Counted, Ranged
<1>2. CASE Edit
  BY <1>2 DEF Edit, HonestInv, HonestLength
<1>3. CASE ReadHeader \/ HeaderTimeout
  <2>1. reply'.sent = 0
    BY <1>3, NoneTyped, ZenonT(40) DEF ReadHeader, HeaderTimeout, NoReply
  <2>2. pc' # "send"
    BY <1>3 DEF ReadHeader, HeaderTimeout, AfterHeader
  <2> QED
    BY <2>1, <2>2 DEF HonestInv, HonestLength
<1>4. CASE ReadBody \/ BodyTimeout
  <2>1. pc = "body" /\ pc' \in {"body", "route"} /\ reply' = reply
    BY <1>4 DEF ReadBody, BodyTimeout
  <2> QED
    BY <2>1 DEF HonestInv, HonestLength
<1>5. CASE Route
  <2>1. pc = "route" /\ pc' \in {"measure", "abort"} /\ reply'.sent = reply.sent
    BY <1>5, RoutedTyped DEF Route, Typed
  <2> QED
    BY <2>1 DEF HonestInv, HonestLength
<1>6. CASE Send
  <2>1. /\ pc = "send" /\ pc' \in {"header", "closed"} /\ edited' = edited
        /\ reply' = [reply EXCEPT !.sent = Bytes] /\ web' = web
    BY <1>6 DEF Send
  <2>2. /\ reply'.sent = Bytes /\ reply'.length = reply.length
        /\ reply'.from = reply.from
    BY <2>1 DEF Typed, Replies
  <2>3. Ranged' = Ranged
    BY <2>1 DEF Ranged
  <2> QED
    BY <2>1, <2>2, <2>3 DEF HonestInv, HonestLength, Counted
<1>7. CASE UNCHANGED vars \/ MakeRequest \/ Deliver \/ HalfClose
  BY <1>1, <1>7 DEF vars, MakeRequest, Deliver, HalfClose
<1> QED
  BY <1>2, <1>3, <1>4, <1>5, <1>6, <1>7, HonestMeasure DEF Next, Worker

-----------------------------------------------------------------------------
(* The worker stays in step with the stream.                               *)

LEMMA StreamTyped ==
  ASSUME WebRequestAssumption, Typed
  PROVE  /\ made \in Seq(Request) /\ Len(made) \in Nat
         /\ wire \in Seq(Unit) /\ Len(wire) \in Nat
         /\ unsent \in Seq(Unit) /\ Len(unsent) \in Nat
         /\ body \in Seq(Unit) /\ Len(body) \in Nat
         /\ web.len \in Nat
         /\ \A i \in 1..Len(made) : made[i].len \in Nat
         /\ \A i \in 1..Len(wire) : wire[i].req \in 1..Len(made)
         /\ \A i \in 1..Len(unsent) : unsent[i].req \in 1..Len(made)
<1>1. /\ made \in Seq(Request) /\ wire \in Seq(Unit) /\ unsent \in Seq(Unit)
      /\ body \in Seq(Unit) /\ web.len \in Nat
  BY DEF Typed, TypeOK
<1>2. \A r \in Request : r.len \in Nat
  BY DEF Request, WebRequestAssumption
<1>3. \A u \in Unit : u.req \in Int /\ u.req >= 1
  BY DEF Unit, WebRequestAssumption
<1>4. \A i \in 1..Len(wire) : wire[i].req \in 1..Len(made)
  BY <1>1, <1>3 DEF Typed, Known
<1>5. \A i \in 1..Len(unsent) : unsent[i].req \in 1..Len(made)
  BY <1>1, <1>3 DEF Typed, Known
<1> QED
  BY <1>1, <1>2, <1>4, <1>5

LEMMA StepMakeRequest ==
  ASSUME WebRequestAssumption, Typed, StepInv, MakeRequest
  PROVE  StepInv'
<1>1. PICK r \in Request :
        /\ made' = Append(made, r)
        /\ unsent' = Units(Len(made) + 1, r)
        /\ strained' = \/ strained
                       \/ ~(pc = "header" /\ wire = <<>> /\ framed)
                       \/ r.method # "post" /\ r.len > 0
  BY DEF MakeRequest
<1>2. /\ wire' = wire /\ eof' = eof /\ pc' = pc /\ web' = web /\ body' = body /\ reply' = reply
      /\ ~eof /\ unsent = <<>> /\ Len(made) < MaxReq
  BY DEF MakeRequest
<1>3. /\ Len(made') = Len(made) + 1 /\ made'[Len(made) + 1] = r
      /\ \A i \in 1..Len(made) : made'[i] = made[i]
  BY <1>1, StreamTyped
<1>4. Len(made) + 1 \in 1..MaxReq
  BY <1>2, StreamTyped DEF WebRequestAssumption
<1>5. /\ r.len \in Nat /\ Len(unsent') = 2 + r.len
      /\ unsent'[1] = [req |-> Len(made) + 1, part |-> "front"]
      /\ unsent'[2] = [req |-> Len(made) + 1, part |-> "back"]
      /\ \A i \in 3..2 + r.len : unsent'[i] = [req |-> Len(made) + 1, part |-> "body"]
  BY <1>1, <1>4, NewUnits
<1>6. Followed'
  <2>1. /\ Follows(wire, 0)
        /\ pc = "body" => Len(body) + Len(wire) + 0 >= web.len
    BY <1>2 DEF StepInv, Followed
  <2>2. ASSUME NEW i \in 1..Len(wire), wire[i].part = "front"
        PROVE  Len(wire) - i + Len(unsent') >= 1 + made'[wire[i].req].len
    <3>1. Len(wire) - i + 0 >= 1 + made[wire[i].req].len
      BY <2>1, <2>2 DEF Follows
    <3>2. made'[wire[i].req] = made[wire[i].req] /\ made[wire[i].req].len \in Nat
      BY <1>3, StreamTyped
    <3>3. \A a \in Int, m, n \in Nat : a + 0 >= 1 + m => a + n >= 1 + m
      OBVIOUS
    <3>4. Len(wire) - i \in Int /\ Len(unsent') \in Nat
      BY <1>5, StreamTyped
    <3> QED
      BY <3>1, <3>2, <3>3, <3>4
  <2>3. ASSUME NEW i \in 1..Len(unsent'), unsent'[i].part = "front"
        PROVE  Len(unsent') - i + 0 >= 1 + made'[unsent'[i].req].len
    <3>1. i = 1 \/ i = 2 \/ i \in 3..2 + r.len
      BY <1>5
    <3>2. i = 1
      BY <1>5, <2>3, <3>1
    <3> QED
      BY <1>3, <1>5, <3>2, SMTT(30)
  <2>4. pc = "body" => Len(body) + Len(wire) + Len(unsent') >= web.len
    BY <1>5, <2>1, StreamTyped, SMTT(30)
  <2> QED
    BY <1>2, <2>2, <2>3, <2>4 DEF Followed, Follows
<1>7. ASSUME ~strained' PROVE Clean'
  <2>1. pc = "header" /\ wire = <<>> /\ (r.method = "post" \/ r.len = 0)
    BY <1>1, <1>5, <1>7
  <2>2. Bodied(made[Len(made)])'
    BY <1>3, <2>1 DEF Bodied
  <2>3. Request1'
    <3>1. Len(made') = Len(made) + 1 /\ made' # <<>> /\ wire' = <<>>
      BY <1>1, <1>2, <1>3, <2>1, StreamTyped
    <3>2. Len(wire') + Len(unsent') = 2 + made'[Len(made')].len
      BY <1>3, <1>5, <3>1
    <3>3. FrontUnit' = unsent'[1] /\ BackUnit' = unsent'[2]
      BY <1>5, <3>1 DEF FrontUnit, BackUnit
    <3>4. AllBody(unsent, 3)'
      BY <1>5, <3>1 DEF AllBody
    <3> QED
      BY <2>2, <3>1, <3>2, <3>3, <3>4 DEF Request1
  <2> QED
    BY <1>2, <2>1, <2>3 DEF Clean, BodyWhole
<1> QED
  BY <1>6, <1>7 DEF StepInv

LEMMA StepDeliver ==
  ASSUME WebRequestAssumption, Typed, StepInv, Deliver
  PROVE  StepInv'
<1>1. PICK k \in 1..Len(unsent) : /\ wire' = wire \o SubSeq(unsent, 1, k)
                                  /\ unsent' = SubSeq(unsent, k + 1, Len(unsent))
                                  /\ strained' = (strained \/ unsent[k].part = "front")
  BY DEF Deliver
<1> DEFINE u == SubSeq(unsent, 1, k)
<1>2. wire \in Seq(Unit) /\ unsent \in Seq(Unit) /\ k \in 0..Len(unsent)
  BY StreamTyped
<1>3. /\ u \in Seq(Unit) /\ Len(u) = k /\ \A i \in 1..k : u[i] = unsent[i]
      /\ unsent' \in Seq(Unit) /\ Len(unsent') = Len(unsent) - k
      /\ \A i \in 1..Len(unsent) - k : unsent'[i] = unsent[k + i]
  BY <1>1, <1>2, Cut
<1> HIDE DEF u
<1>4. /\ wire' \in Seq(Unit) /\ Len(wire') = Len(wire) + k
      /\ \A i \in 1..Len(wire) : wire'[i] = wire[i]
      /\ \A i \in 1..k : wire'[Len(wire) + i] = unsent[i]
  BY <1>1, <1>2, <1>3, Joined DEF u
<1>5. ASSUME NEW i \in 1..Len(wire')
      PROVE  \/ i \in 1..Len(wire) /\ wire'[i] = wire[i]
             \/ i - Len(wire) \in 1..k /\ wire'[i] = unsent[i - Len(wire)]
  <2>1. i \in 1..Len(wire) \/ (i - Len(wire) \in 1..k /\ i = Len(wire) + (i - Len(wire)))
    BY <1>2, <1>4
  <2> QED
    BY <1>4, <2>1
<1>6. ASSUME NEW i \in 1..Len(unsent')
      PROVE  k + i \in 1..Len(unsent) /\ k + i > k /\ unsent'[i] = unsent[k + i]
  BY <1>2, <1>3
<1>7. made' = made /\ eof' = eof /\ pc' = pc /\ web' = web /\ body' = body /\ reply' = reply
  BY DEF Deliver
<1>8. Followed'
  <2> SUFFICES ASSUME ~eof PROVE Followed'
    BY <1>7 DEF Followed
  <2>1. /\ Follows(wire, Len(unsent)) /\ Follows(unsent, 0)
        /\ pc = "body" => Len(body) + Len(wire) + Len(unsent) >= web.len
    BY DEF StepInv, Followed
  <2>2. ASSUME NEW i \in 1..Len(wire'), wire'[i].part = "front"
        PROVE  Len(wire') - i + Len(unsent') >= 1 + made[wire'[i].req].len
    <3>1. CASE i \in 1..Len(wire) /\ wire'[i] = wire[i]
      <4>1. Len(wire) - i + Len(unsent) >= 1 + made[wire'[i].req].len
        BY <2>1, <2>2, <3>1 DEF Follows
      <4>2. made[wire[i].req].len \in Nat
        BY <3>1, StreamTyped
      <4> QED
        BY <1>2, <1>3, <1>4, <3>1, <4>1, <4>2
    <3>2. CASE i - Len(wire) \in 1..k /\ wire'[i] = unsent[i - Len(wire)]
      <4>1. i - Len(wire) \in 1..Len(unsent)
        BY <1>2, <3>2
      <4>2. Len(unsent) - (i - Len(wire)) + 0 >= 1 + made[wire'[i].req].len
        BY <2>1, <2>2, <3>2, <4>1 DEF Follows
      <4>3. made[wire'[i].req].len \in Nat
        BY <3>2, <4>1, StreamTyped
      <4> QED
        BY <1>2, <1>3, <1>4, <4>2, <4>3
    <3> QED
      BY <1>5, <3>1, <3>2
  <2>3. ASSUME NEW i \in 1..Len(unsent'), unsent'[i].part = "front"
        PROVE  Len(unsent') - i + 0 >= 1 + made[unsent'[i].req].len
    <3>1. Len(unsent) - (k + i) + 0 >= 1 + made[unsent'[i].req].len
      BY <1>6, <2>1, <2>3 DEF Follows
    <3>2. made[unsent'[i].req].len \in Nat
      BY <1>6, StreamTyped
    <3> QED
      BY <1>2, <1>3, <3>1, <3>2
  <2>4. pc = "body" => Len(body) + Len(wire') + Len(unsent') >= web.len
    BY <1>2, <1>3, <1>4, <2>1, StreamTyped
  <2> QED
    BY <1>7, <2>2, <2>3, <2>4 DEF Followed, Follows
<1>9. ASSUME ~strained' PROVE Clean'
  <2>1. ~strained /\ unsent[k].part # "front" /\ Clean
    BY <1>1, <1>9 DEF StepInv
  <2>2. unsent # <<>> /\ ~Empty
    BY <1>2 DEF Empty
  <2>3. ASSUME pc = "header" PROVE Request1'
    <3>1. Request1
      BY <2>1, <2>2, <2>3 DEF Clean
    <3>2. /\ made' # <<>> /\ Bodied(made[Len(made)])'
          /\ Len(wire') + Len(unsent') = 2 + made[Len(made)].len
      BY <1>2, <1>3, <1>4, <1>7, <3>1, StreamTyped DEF Request1, Bodied
    <3>3. CASE wire = <<>>
      <4>1. unsent[1] = FrontUnit /\ unsent[2] = BackUnit /\ AllBody(unsent, 3)
        BY <3>1, <3>3 DEF Request1
      <4>2. k >= 2
        BY <2>1, <4>1 DEF FrontUnit
      <4>3. Len(wire) = 0
        BY <3>3
      <4>4. wire'[1] = FrontUnit /\ wire'[2] = BackUnit
        BY <1>4, <4>1, <4>2, <4>3
      <4>5. AllBody(wire', 3)
        <5>1. ASSUME NEW i \in 3..Len(wire')
              PROVE  wire'[i] = unsent[i] /\ i \in 3..Len(unsent)
          BY <1>2, <1>4, <4>3
        <5> QED
          BY <4>1, <5>1 DEF AllBody
      <4>6. AllBody(unsent', 1)
        <5>1. ASSUME NEW i \in 1..Len(unsent')
              PROVE  unsent'[i] = unsent[k + i] /\ k + i \in 3..Len(unsent)
          BY <1>2, <1>6, <4>2
        <5> QED
          BY <4>1, <5>1 DEF AllBody
      <4>7. Len(wire') >= 2
        BY <1>4, <4>2, <4>3
      <4> QED
        BY <1>7, <3>2, <4>4, <4>5, <4>6, <4>7 DEF Request1, FrontUnit, BackUnit, AllBody
    <3>4. CASE Len(wire) >= 2
      <4>1. /\ wire[1] = FrontUnit /\ wire[2] = BackUnit
            /\ AllBody(wire, 3) /\ AllBody(unsent, 1)
        BY <3>1, <3>4 DEF Request1
      <4>2. wire'[1] = FrontUnit /\ wire'[2] = BackUnit /\ Len(wire') >= 2
        <5>1. 1 \in 1..Len(wire) /\ 2 \in 1..Len(wire)
          BY <1>2, <3>4
        <5> QED
          BY <1>2, <1>4, <3>4, <4>1, <5>1
      <4>3. AllBody(wire', 3)
        <5>1. ASSUME NEW i \in 3..Len(wire')
              PROVE  \/ wire'[i] = wire[i] /\ i \in 3..Len(wire)
                     \/ wire'[i] = unsent[i - Len(wire)] /\ i - Len(wire) \in 1..Len(unsent)
          BY <1>2, <1>5
        <5> QED
          BY <4>1, <5>1 DEF AllBody
      <4>4. AllBody(unsent', 1)
        BY <1>6, <4>1 DEF AllBody
      <4> QED
        BY <1>7, <3>2, <4>2, <4>3, <4>4 DEF Request1, FrontUnit, BackUnit, AllBody
    <3> QED
      BY <3>1, <3>3, <3>4 DEF Request1
  <2>4. ASSUME pc = "body"
        PROVE  /\ web.method = "post" /\ ~Refused(web)
               /\ Len(body) + Len(wire') + Len(unsent') = web.len
               /\ AllBody(body, 1) /\ AllBody(wire', 1) /\ AllBody(unsent', 1)
    <3>1. /\ web.method = "post" /\ ~Refused(web)
          /\ Len(body) + Len(wire) + Len(unsent) = web.len
          /\ AllBody(body, 1) /\ AllBody(wire, 1) /\ AllBody(unsent, 1)
      BY <2>1, <2>4 DEF Clean
    <3>2. AllBody(wire', 1)
      <4>1. ASSUME NEW i \in 1..Len(wire')
            PROVE  \/ wire'[i] = wire[i] /\ i \in 1..Len(wire)
                   \/ wire'[i] = unsent[i - Len(wire)] /\ i - Len(wire) \in 1..Len(unsent)
        BY <1>2, <1>5
      <4> QED
        BY <3>1, <4>1 DEF AllBody
    <3>3. AllBody(unsent', 1)
      BY <1>6, <3>1 DEF AllBody
    <3> QED
      BY <1>2, <1>3, <1>4, <3>1, <3>2, <3>3, StreamTyped
  <2>5. AllBody(body, 1)' <=> AllBody(body, 1)
    BY <1>7 DEF AllBody
  <2>6. AllBody(wire, 1)' <=> AllBody(wire', 1)
    BY <1>7 DEF AllBody
  <2>7. AllBody(unsent, 1)' <=> AllBody(unsent', 1)
    BY <1>7 DEF AllBody
  <2>8. BodyWhole'
    BY <1>7, <2>1 DEF Clean, BodyWhole, Refused
  <2> QED
    BY <1>7, <2>1, <2>2, <2>3, <2>4, <2>5, <2>6, <2>7, <2>8 DEF Clean, Refused
<1> QED
  BY <1>8, <1>9 DEF StepInv

(* Steps that leave the stream and the body as they are. *)
LEMMA FollowedSame ==
  ASSUME Followed, UNCHANGED <<made, unsent, wire, body, web>>,
         eof' = eof, pc' # "body" \/ pc = "body"
  PROVE  Followed'
BY DEF Followed, Follows

LEMMA StepOthers ==
  ASSUME WebRequestAssumption, Typed, StepInv, HalfClose \/ Edit \/ UNCHANGED vars
  PROVE  StepInv'
<1>1. CASE HalfClose
  <2>1. Followed'
    BY <1>1 DEF HalfClose, Followed
  <2>2. ASSUME ~strained' PROVE Clean'
    <3>1. ~strained /\ unsent' = unsent /\ UNCHANGED <<made, wire, pc, web, body, reply>>
      BY <1>1, <2>2 DEF HalfClose
    <3> QED
      BY <3>1 DEF StepInv, Clean, Empty, Request1, FrontUnit, BackUnit, AllBody, BodyWhole, Refused
  <2> QED
    BY <2>1, <2>2 DEF StepInv
<1>2. CASE Edit \/ UNCHANGED vars
  <2>1. UNCHANGED <<made, unsent, eof, wire, strained, pc, web, body, reply>>
    BY <1>2 DEF Edit, clientVars, vars
  <2> QED
    BY <2>1, FollowedSame DEF StepInv, Clean, Empty, Request1, FrontUnit, BackUnit, AllBody,
                              BodyWhole, Refused
<1> QED
  BY <1>1, <1>2

(* What follows in the stream also follows when its first units were read. *)
LEMMA FollowsRest ==
  ASSUME WebRequestAssumption, Typed, NEW n \in Nat, Follows(wire, n),
         wire' = SubSeq(wire, Took + 1, Len(wire)), UNCHANGED made
  PROVE  \A i \in 1..Len(wire') :
           wire'[i].part = "front" => Len(wire') - i + n >= 1 + made[wire'[i].req].len
<1>1. /\ Took \in 0..Len(wire) /\ Len(wire') = Len(wire) - Took
      /\ \A i \in 1..Len(wire) - Took : wire'[i] = wire[Took + i]
  BY TookBounds, Taken, StreamTyped
<1>2. SUFFICES ASSUME NEW i \in 1..Len(wire'), wire'[i].part = "front"
               PROVE  Len(wire') - i + n >= 1 + made[wire'[i].req].len
  OBVIOUS
<1>3. Took + i \in 1..Len(wire) /\ wire'[i] = wire[Took + i]
  <2>1. Len(wire) \in Nat /\ Took \in 0..Len(wire)
    BY <1>1, StreamTyped
  <2>2. i \in 1..Len(wire) - Took
    BY <1>1, <1>2
  <2>3. wire'[i] = wire[Took + i]
    BY <1>1, <2>2
  <2>4. Took + i \in 1..Len(wire)
    BY <2>1, <2>2
  <2> QED
    BY <2>3, <2>4
<1>4. Len(wire) - (Took + i) + n >= 1 + made[wire'[i].req].len
  BY <1>2, <1>3 DEF Follows
<1>5. Len(wire) - (Took + i) = Len(wire') - i
  BY <1>1, StreamTyped
<1> QED
  BY <1>4, <1>5

LEMMA StepReadHeader ==
  ASSUME WebRequestAssumption, Typed, StepInv, ReadHeader
  PROVE  StepInv'
<1>1. PICK r \in Parsed(Data) :
        /\ web' = r /\ pc' = AfterHeader(r)
        /\ reply' = [NoReply EXCEPT !.status = IF Refused(r) THEN 413 ELSE 200, !.keep = r.keep]
  BY DEF ReadHeader
<1>2. /\ made' = made /\ unsent' = unsent /\ eof' = eof /\ strained' = strained
      /\ body' = IF Whole(Data) THEN SubSeq(Data, 3, Len(Data)) ELSE <<>>
      /\ wire' = SubSeq(wire, Took + 1, Len(wire))
      /\ pc = "header" /\ (wire # <<>> \/ eof)
  BY DEF ReadHeader, clientVars
<1>3. /\ Took \in 0..Len(wire) /\ Data \in Seq(Unit) /\ Len(Data) = Took
      /\ \A i \in 1..Took : Data[i] = wire[i]
      /\ Len(wire') = Len(wire) - Took
      /\ \A i \in 1..Len(wire) - Took : wire'[i] = wire[Took + i]
  BY <1>2, TookBounds, Taken, StreamTyped
<1>4. /\ r \in Webs /\ r.len \in Nat
      /\ Whole(Data) => /\ Data[1].req \in 1..Len(made) /\ made[Data[1].req] \in Request
                        /\ r = made[Data[1].req]
      /\ ~Whole(Data) /\ ~Front(Data) => r.len = 0
      /\ Front(Data) => r.len <= made[Data[1].req].len
  BY <1>1, <1>2, <1>3, TypedRest, ParsedTyped, StreamTyped, Fields
<1>5. ASSUME Whole(Data)
      PROVE  /\ Took >= 2 /\ Len(body') = Took - 2
             /\ \A i \in 1..Took - 2 : body'[i] = wire[2 + i]
  <2>1. Took >= 2 /\ 2 \in 0..Len(Data)
    BY <1>3, <1>5 DEF Whole
  <2>2. /\ Len(SubSeq(Data, 2 + 1, Len(Data))) = Len(Data) - 2
        /\ \A i \in 1..Len(Data) - 2 : SubSeq(Data, 2 + 1, Len(Data))[i] = Data[2 + i]
    BY <1>3, <2>1, Cut
  <2>3. body' = SubSeq(Data, 2 + 1, Len(Data))
    BY <1>2, <1>5
  <2>4. ASSUME NEW i \in 1..Took - 2 PROVE body'[i] = wire[2 + i]
    <3>1. 2 + i \in 1..Took
      BY <1>3
    <3> QED
      BY <1>3, <2>2, <2>3, <3>1
  <2> QED
    BY <1>3, <2>1, <2>2, <2>3, <2>4
<1>6. pc' = "body" => (Whole(Data) \/ Front(Data)) /\ r.method = "post" /\ ~Refused(r)
  BY <1>1, <1>4 DEF AfterHeader
<1>7. Followed'
  <2> SUFFICES ASSUME ~eof PROVE Followed'
    BY <1>2 DEF Followed
  <2>1. Follows(wire, Len(unsent)) /\ Follows(unsent, 0)
    BY DEF StepInv, Followed
  <2>2. \A i \in 1..Len(wire') : wire'[i].part = "front"
          => Len(wire') - i + Len(unsent) >= 1 + made[wire'[i].req].len
    BY <1>2, <2>1, StreamTyped, FollowsRest
  <2>3. ASSUME pc' = "body" PROVE Len(body') + Len(wire') + Len(unsent) >= r.len
    <3>1. Whole(Data) \/ Front(Data)
      BY <1>6, <2>3
    <3>2. Data[1] = wire[1] /\ wire[1].part = "front" /\ 1 \in 1..Len(wire)
      BY <1>3, <3>1, StreamTyped DEF Whole, Front
    <3>3. Len(wire) - 1 + Len(unsent) >= 1 + made[wire[1].req].len
      BY <2>1, <3>2 DEF Follows
    <3>4. CASE Whole(Data)
      <4>1. Took >= 2 /\ Len(body') = Took - 2
        BY <1>5, <3>4
      <4>2. made[wire[1].req].len = r.len
        BY <1>4, <3>2, <3>4
      <4> QED
        BY <1>3, <1>4, <3>3, <4>1, <4>2, StreamTyped
    <3>5. CASE Front(Data)
      <4>1. Took = 1 /\ ~Whole(Data)
        BY <1>3, <3>5 DEF Front, Whole
      <4>2. Len(body') = 0
        BY <1>2, <4>1
      <4>3. r.len <= made[wire[1].req].len
        BY <1>4, <3>2, <3>5
      <4>4. made[wire[1].req].len \in Nat
        <5>1. wire[1] \in Unit /\ wire[1].req <= Len(made) /\ made \in Seq(Request)
          BY <3>2, StreamTyped DEF Typed, TypeOK, Known
        <5>2. made[wire[1].req] \in Request
          BY <5>1, WebRequestAssumption DEF Unit, WebRequestAssumption
        <5> QED
          BY <5>2 DEF Request, WebRequestAssumption
      <4> QED
        BY <1>3, <1>4, <3>3, <4>1, <4>2, <4>3, <4>4, StreamTyped
    <3> QED
      BY <3>1, <3>4, <3>5
  <2> QED
    BY <1>1, <1>2, <2>1, <2>2, <2>3 DEF Followed, Follows
<1>8. ASSUME ~strained' PROVE Clean'
  <2>1. Empty \/ Request1
    BY <1>2, <1>8 DEF StepInv, Clean
  <2>2. CASE wire = <<>>
    <3>1. Len(Data) = 0 /\ Len(wire') = 0
      BY <1>3, <2>2
    <3>2. r = Blank
      BY <1>1, <3>1 DEF Parsed, Whole, Front
    <3>3. pc' = "route" /\ web'.method # "post"
      BY <1>1, <3>2 DEF AfterHeader, Blank
    <3>4. unsent' = <<>> /\ wire' = <<>>
      BY <1>2, <2>2, <3>1, TypedRest DEF Typed
    <3> QED
      BY <3>3, <3>4 DEF Clean, Empty, BodyWhole
  <2>3. CASE wire # <<>>
    <3>1. /\ made # <<>> /\ Bodied(made[Len(made)])
          /\ Len(wire) + Len(unsent) = 2 + made[Len(made)].len
          /\ Len(wire) >= 2
          /\ wire[1] = FrontUnit /\ wire[2] = BackUnit /\ AllBody(wire, 3) /\ AllBody(unsent, 1)
      BY <2>1, <2>3 DEF Empty, Request1
    <3>2. Took >= 2
      BY <3>1, TookBounds, StreamTyped
    <3>3. Data[1] = FrontUnit /\ Data[2] = BackUnit /\ Whole(Data)
      <4>1. 1 \in 1..Took /\ 2 \in 1..Took
        BY <1>3, <3>2, StreamTyped
      <4>2. Data[1] = FrontUnit /\ Data[2] = BackUnit
        BY <1>3, <3>1, <4>1
      <4> QED
        BY <1>3, <3>2, <4>2 DEF Whole, FrontUnit, BackUnit
    <3>4. r = made[Len(made)]
      BY <1>4, <3>3 DEF FrontUnit
    <3>5. Len(body') + Len(wire') + Len(unsent) = r.len
      BY <1>3, <1>4, <1>5, <3>1, <3>3, <3>4, StreamTyped, SMTT(30)
    <3>6. AllBody(body', 1)
      <4>1. ASSUME NEW i \in 1..Len(body')
            PROVE  body'[i] = wire[2 + i] /\ 2 + i \in 3..Len(wire)
        <5>1. Len(body') = Took - 2 /\ Took \in 0..Len(wire) /\ Took \in Int /\ Len(wire) \in Nat
          BY <1>3, <1>5, <3>3, StreamTyped
        <5>2. i \in 1..Took - 2 /\ 2 + i \in 3..Len(wire)
          BY <5>1
        <5> QED
          BY <1>5, <3>3, <5>2
      <4> QED
        BY <3>1, <4>1 DEF AllBody
    <3>7. AllBody(wire', 1)
      <4>1. ASSUME NEW i \in 1..Len(wire')
            PROVE  wire'[i] = wire[Took + i] /\ Took + i \in 3..Len(wire)
        BY <1>3, <3>2, StreamTyped
      <4> QED
        BY <3>1, <4>1 DEF AllBody
    <3>8. CASE pc' = "body"
      BY <1>1, <1>2, <1>6, <3>1, <3>5, <3>6, <3>7, <3>8 DEF Clean, BodyWhole, AllBody, Refused
    <3>9. CASE pc' = "route"
      <4>1. r.len = 0 \/ Refused(r)
        BY <1>1, <3>1, <3>4, <3>9 DEF AfterHeader, Bodied
      <4>2. CASE Refused(r)
        BY <1>1, <3>9, <4>2 DEF Clean, BodyWhole, Refused
      <4>3. CASE r.len = 0
        <5>1. Len(body') = 0 /\ Len(wire') = 0 /\ Len(unsent) = 0
          BY <1>3, <1>5, <3>3, <3>5, <4>3, StreamTyped
        <5>2. wire' = <<>> /\ unsent' = <<>>
          BY <1>2, <5>1, TypedRest, StreamTyped
        <5> QED
          BY <1>1, <3>9, <4>3, <5>1, <5>2 DEF Clean, Empty, BodyWhole
      <4> QED
        BY <4>1, <4>2, <4>3
    <3>10. CASE pc' = "abort"
      BY <3>10 DEF Clean, BodyWhole
    <3> QED
      BY <1>1, <3>8, <3>9, <3>10 DEF AfterHeader
  <2> QED
    BY <2>2, <2>3
<1> QED
  BY <1>7, <1>8 DEF StepInv

LEMMA StepReadBody ==
  ASSUME WebRequestAssumption, Typed, StepInv, ReadBody
  PROVE  StepInv'
<1>1. /\ made' = made /\ unsent' = unsent /\ eof' = eof /\ strained' = strained
      /\ web' = web /\ reply' = reply /\ pc = "body"
  BY DEF ReadBody, clientVars
<1>2. CASE /\ Missing > 0 /\ wire # <<>> /\ body' = body \o Data
           /\ wire' = SubSeq(wire, Took + 1, Len(wire)) /\ pc' = pc
  <2>1. /\ Took \in 0..Len(wire) /\ Data \in Seq(Unit) /\ Len(Data) = Took
        /\ \A i \in 1..Took : Data[i] = wire[i]
        /\ Len(wire') = Len(wire) - Took
        /\ \A i \in 1..Len(wire) - Took : wire'[i] = wire[Took + i]
    BY <1>2, TookBounds, Taken, StreamTyped
  <2>2. /\ Len(body') = Len(body) + Took
        /\ \A i \in 1..Len(body) : body'[i] = body[i]
        /\ \A i \in 1..Took : body'[Len(body) + i] = wire[i]
        /\ \A i \in 1..Len(body) + Took : i \in 1..Len(body) \/ i - Len(body) \in 1..Took
    <3>1. body \in Seq(Unit)
      BY StreamTyped
    <3>2. /\ Len(body \o Data) = Len(body) + Len(Data)
          /\ \A i \in 1..Len(body) : (body \o Data)[i] = body[i]
          /\ \A i \in 1..Len(Data) : (body \o Data)[Len(body) + i] = Data[i]
          /\ \A i \in 1..Len(body) + Len(Data) :
               i \in 1..Len(body) \/ i - Len(body) \in 1..Len(Data)
      BY <2>1, <3>1, Joined
    <3> QED
      BY <1>2, <2>1, <3>2
  <2>3. Len(body') + Len(wire') + Len(unsent) = Len(body) + Len(wire) + Len(unsent)
    BY <2>1, <2>2, StreamTyped
  <2>4. Followed'
    <3>1. ~eof => Follows(wire, Len(unsent))
      BY DEF StepInv, Followed
    <3>2. ~eof => \A i \in 1..Len(wire') : wire'[i].part = "front"
            => Len(wire') - i + Len(unsent) >= 1 + made[wire'[i].req].len
      BY <1>1, <1>2, <3>1, StreamTyped, FollowsRest
    <3> QED
      BY <1>1, <2>3, <3>2 DEF StepInv, Followed, Follows
  <2>5. ASSUME ~strained' PROVE Clean'
    <3>1. /\ web.method = "post" /\ ~Refused(web)
          /\ Len(body) + Len(wire) + Len(unsent) = web.len
          /\ AllBody(body, 1) /\ AllBody(wire, 1) /\ AllBody(unsent, 1)
      BY <1>1, <2>5 DEF StepInv, Clean
    <3>2. AllBody(body, 1)'
      <4>1. ASSUME NEW i \in 1..Len(body')
            PROVE  \/ body'[i] = body[i] /\ i \in 1..Len(body)
                   \/ body'[i] = wire[i - Len(body)] /\ i - Len(body) \in 1..Len(wire)
        <5>1. CASE i \in 1..Len(body)
          BY <2>2, <5>1
        <5>2. CASE i - Len(body) \in 1..Took
          <6>1. i = Len(body) + (i - Len(body)) /\ i - Len(body) \in 1..Len(wire)
            BY <2>1, <5>2, StreamTyped
          <6>2. body'[Len(body) + (i - Len(body))] = wire[i - Len(body)]
            BY <2>2, <5>2
          <6> QED
            BY <6>1, <6>2
        <5> QED
          BY <2>2, <5>1, <5>2
      <4> QED
        BY <1>1, <3>1, <4>1 DEF AllBody
    <3>3. AllBody(wire, 1)'
      <4>1. ASSUME NEW i \in 1..Len(wire')
            PROVE  wire'[i] = wire[Took + i] /\ Took + i \in 1..Len(wire)
        <5>1. Len(wire) \in Nat /\ Took \in 0..Len(wire)
          BY <2>1, StreamTyped
        <5>2. i \in 1..Len(wire) - Took
          BY <2>1
        <5>3. wire'[i] = wire[Took + i]
          BY <2>1, <5>2
        <5>4. Took + i \in 1..Len(wire)
          BY <5>1, <5>2
        <5> QED
          BY <5>3, <5>4
      <4> QED
        BY <1>1, <3>1, <4>1 DEF AllBody
    <3>4. AllBody(unsent, 1)'
      BY <1>1, <3>1 DEF AllBody
    <3> QED
      BY <1>1, <1>2, <2>3, <3>1, <3>2, <3>3, <3>4 DEF Clean, BodyWhole, Refused
  <2> QED
    BY <2>4, <2>5 DEF StepInv
<1>3. CASE Missing <= 0 /\ pc' = "route" /\ UNCHANGED <<body, wire>>
  <2>1. Followed'
    BY <1>1, <1>3, FollowedSame DEF StepInv
  <2>2. ASSUME ~strained' PROVE Clean'
    <3>1. /\ Len(body) + Len(wire) + Len(unsent) = web.len /\ AllBody(body, 1)
      BY <1>1, <2>2 DEF StepInv, Clean
    <3>2. Len(body) = web.len /\ Len(wire) = 0 /\ Len(unsent) = 0
      BY <1>3, <3>1, StreamTyped DEF Missing
    <3>3. wire = <<>> /\ unsent = <<>>
      BY <3>2, StreamTyped
    <3>4. \A i \in 1..Len(body) : body[i].part = "body" /\ body[i].req = Len(made)
      BY <3>1 DEF AllBody
    <3> QED
      BY <1>1, <1>3, <3>2, <3>3, <3>4 DEF Clean, Empty, BodyWhole
  <2> QED
    BY <2>1, <2>2 DEF StepInv
<1> QED
  BY <1>2, <1>3 DEF ReadBody

LEMMA StepTimeouts ==
  ASSUME WebRequestAssumption, Typed, StepInv, HeaderTimeout \/ BodyTimeout
  PROVE  StepInv'
<1>1. /\ made' = made /\ unsent' = unsent /\ eof' = eof /\ wire' = wire /\ wire = <<>>
      /\ strained' = (strained \/ unsent # <<>>) /\ pc' = "route"
  BY DEF HeaderTimeout, BodyTimeout, Waited, clientVars
<1>2. Followed'
  BY <1>1 DEF StepInv, Followed, Follows
<1>3. ASSUME ~strained' PROVE Clean'
  <2>1. ~strained /\ unsent = <<>>
    BY <1>1, <1>3
  <2>2. CASE HeaderTimeout
    <3>1. web'.method # "post"
      BY <2>2 DEF HeaderTimeout, Blank
    <3> QED
      BY <1>1, <2>1, <3>1 DEF Clean, Empty, BodyWhole
  <2>3. CASE BodyTimeout
    <3>1. Len(body) + Len(wire) + Len(unsent) = web.len
      BY <2>1, <2>3 DEF StepInv, Clean, BodyTimeout
    <3>2. Len(wire) = 0 /\ Len(unsent) = 0
      BY <1>1, <2>1
    <3>3. FALSE
      BY <2>3, <3>1, <3>2, StreamTyped DEF BodyTimeout, Missing
    <3> QED
      BY <3>3
  <2> QED
    BY <2>2, <2>3
<1> QED
  BY <1>2, <1>3 DEF StepInv

LEMMA StepAnswers ==
  ASSUME WebRequestAssumption, Typed, StepInv, Route \/ Measure \/ Send
  PROVE  StepInv'
<1>1. /\ made' = made /\ unsent' = unsent /\ eof' = eof /\ wire' = wire
      /\ web' = web /\ body' = body
  BY DEF Route, Measure, Send, clientVars
<1>2. pc' \in {"measure", "abort", "send", "header", "closed"}
  BY DEF Route, Measure, Send
<1>3. Followed'
  BY <1>1, <1>2, FollowedSame DEF StepInv
<1>4. ASSUME ~strained' PROVE Clean'
  <2>1. ~strained
    BY <1>4 DEF Route, Measure, Send
  <2>2. Empty \/ Refused(web)
    BY <2>1 DEF Route, Measure, Send, StepInv, Clean
  <2>3. Empty' = Empty /\ Refused(web)' = Refused(web)
    BY <1>1 DEF Empty, Refused
  <2>4. CASE Route
    BY <2>2, <2>3, <2>4 DEF Route, Clean, BodyWhole
  <2>5. CASE Measure
    <3>1. CASE pc' = "abort"
      BY <3>1 DEF Clean, BodyWhole
    <3>2. CASE pc' # "abort"
      <4> DEFINE s == IF Ranged THEN 206 ELSE reply.status
      <4>1. /\ pc' = "send"
            /\ strained' = (strained \/ (Refused(web) /\ s \in 200..299))
            /\ reply' = [reply EXCEPT
                 !.status = s,
                 !.length = IF Announced < 1 THEN -1 ELSE Announced,
                 !.from = IF @ = "file" /\ file = 0 THEN "none" ELSE @,
                 !.keep = Keeps(s)]
        BY <2>5, <3>2 DEF Measure
      <4> HIDE DEF s
      <4>2. reply'.keep = Keeps(s)
        BY <4>1 DEF Typed, Replies
      <4>3. Empty \/ ~Keeps(s)
        BY <1>4, <2>2, <4>1 DEF Keeps
      <4> QED
        BY <2>2, <2>3, <4>1, <4>2, <4>3 DEF Clean, BodyWhole
    <3> QED
      BY <3>1, <3>2
  <2>6. CASE Send
    <3>1. reply.keep => Empty
      BY <2>1, <2>6 DEF Send, StepInv, Clean
    <3> QED
      BY <2>3, <2>6, <3>1 DEF Send, Clean, BodyWhole
  <2> QED
    BY <2>4, <2>5, <2>6
<1> QED
  BY <1>3, <1>4 DEF StepInv

-----------------------------------------------------------------------------
(* A set of numbers that is not empty has a least element; induction, for *)
(* a property given as a set, follows.                                     *)
LEMMA Least ==
  ASSUME NEW T, T \subseteq Nat, T # {}
  PROVE  \E x \in T : \A y \in T : x <= y
<1>1. PICK x \in T : \A y \in T : ~(<<y, x>> \in OpToRel(<, Nat))
  BY WFMin, NatLessThanWellFounded, Zenon
<1>2. ASSUME NEW y \in T PROVE ~(y < x)
  <2>1. ~(<<y, x>> \in {ss \in Nat \X Nat : ss[1] < ss[2]})
    BY <1>1, Zenon DEF OpToRel
  <2>2. y \in Nat /\ x \in Nat
    OBVIOUS
  <2> QED
    BY <2>1, <2>2
<1> QED
  BY <1>2

LEMMA Induction ==
  ASSUME NEW S, 0 \in S, \A n \in Nat : n \in S => n + 1 \in S
  PROVE  \A n \in Nat : n \in S
<1> DEFINE T == Nat \ S
<1>1. SUFFICES ASSUME T # {} PROVE FALSE
  OBVIOUS
<1>2. PICK x \in T : \A y \in T : x <= y
  <2>1. T \subseteq Nat
    OBVIOUS
  <2> HIDE DEF T
  <2> QED BY <1>1, <2>1, Least
<1>3. x \in Nat /\ x # 0
  OBVIOUS
<1>4. x - 1 \in Nat /\ x - 1 \notin T
  BY <1>2, <1>3
<1>5. x - 1 \in S /\ x = (x - 1) + 1
  BY <1>3, <1>4
<1> QED
  BY <1>4, <1>5

-----------------------------------------------------------------------------
(* FlattenSeq.  f flattens s when f[i] is the first i of its sequences     *)
(* joined; there is one such f, so what FlattenSeq chooses is known.       *)
Flattens(f, s) ==
  f = [i \in 1..Len(s) |-> IF i = 1 THEN s[i] ELSE f[i - 1] \o s[i]]

LEMMA FlattensAt ==
  ASSUME NEW s, NEW f, Flattens(f, s), NEW i \in 1..Len(s)
  PROVE  f[i] = IF i = 1 THEN s[i] ELSE f[i - 1] \o s[i]
BY Zenon DEF Flattens

LEMMA FlattenExists ==
  ASSUME NEW C, NEW s \in Seq(Seq(C))
  PROVE  \E f \in [1..Len(s) -> Seq(C)] : Flattens(f, s)
<1> DEFINE Up(f, m) == \A i \in 1..Len(s) : i <= m => f[i] = IF i = 1 THEN s[i] ELSE f[i - 1] \o s[i]
           S == {m \in Nat : \E f \in [1..Len(s) -> Seq(C)] : Up(f, m)}
<1>1. Len(s) \in Nat /\ \A i \in 1..Len(s) : s[i] \in Seq(C)
  OBVIOUS
<1>2. 0 \in S
  <2>1. [i \in 1..Len(s) |-> <<>>] \in [1..Len(s) -> Seq(C)]
    OBVIOUS
  <2>2. \A i \in 1..Len(s) : ~(i <= 0)
    BY <1>1
  <2>3. \A f : Up(f, 0)
    BY <2>2
  <2> QED
    BY <2>1, <2>3
<1>3. ASSUME NEW m \in Nat, m \in S PROVE m + 1 \in S
  <2>1. PICK f \in [1..Len(s) -> Seq(C)] : Up(f, m)
    BY <1>3
  <2> DEFINE x == IF m + 1 = 1 THEN s[m + 1] ELSE f[m] \o s[m + 1]
             g == [f EXCEPT ![m + 1] = x]
  <2>2. CASE m + 1 \in 1..Len(s)
    <3>1. x \in Seq(C)
      <4>1. CASE m = 0
        BY <1>1, <2>2, <4>1
      <4>2. CASE m # 0
        <5>1. m \in 1..Len(s)
          BY <1>1, <2>2, <4>2
        <5>2. f[m] \in Seq(C) /\ s[m + 1] \in Seq(C)
          BY <1>1, <2>2, <5>1
        <5>3. f[m] \o s[m + 1] \in Seq(C)
          BY <5>2, ConcatProperties
        <5> QED
          BY <4>2, <5>3
      <4> QED
        BY <4>1, <4>2
    <3> HIDE DEF x
    <3>2. g \in [1..Len(s) -> Seq(C)] /\ g[m + 1] = x
          /\ \A i \in 1..Len(s) : i # m + 1 => g[i] = f[i]
      BY <2>2, <3>1
    <3> HIDE DEF g
    <3>3. ASSUME NEW i \in 1..Len(s), i <= m + 1
          PROVE  g[i] = IF i = 1 THEN s[i] ELSE g[i - 1] \o s[i]
      <4>1. CASE i = m + 1
        <5>1. CASE i = 1
          BY <3>2, <4>1, <5>1 DEF x
        <5>2. CASE i # 1
          <6>1. m \in 1..Len(s) /\ m # m + 1 /\ i - 1 = m /\ m + 1 # 1
            BY <1>1, <4>1, <5>2
          <6>2. g[m] = f[m]
            BY <3>2, <6>1
          <6> QED
            BY <3>2, <4>1, <5>2, <6>1, <6>2 DEF x
        <5> QED
          BY <5>1, <5>2
      <4>2. CASE i # m + 1
        <5>1. i <= m /\ (i # 1 => i - 1 \in 1..Len(s) /\ i - 1 # m + 1)
          BY <1>1, <3>3, <4>2
        <5>2. f[i] = IF i = 1 THEN s[i] ELSE f[i - 1] \o s[i]
          BY <2>1, <5>1
        <5> QED
          BY <3>2, <4>2, <5>1, <5>2
      <4> QED
        BY <4>1, <4>2
    <3>4. Up(g, m + 1)
      BY <3>3
    <3> HIDE DEF Up
    <3> QED
      BY <3>2, <3>4
  <2>3. CASE m + 1 \notin 1..Len(s)
    <3>1. \A i \in 1..Len(s) : i <= m + 1 => i <= m
      BY <1>1, <2>3
    <3>2. Up(f, m + 1)
      BY <2>1, <3>1
    <3> HIDE DEF Up
    <3> QED
      BY <2>1, <3>2
  <2> QED
    BY <2>2, <2>3
<1>4. Len(s) \in S
  <2> HIDE DEF S
  <2>1. \A n \in Nat : n \in S
    BY <1>2, <1>3, Induction
  <2> QED
    BY <1>1, <2>1
<1>5. PICK f \in [1..Len(s) -> Seq(C)] : Up(f, Len(s))
  BY <1>4
<1>6. \A i \in 1..Len(s) : f[i] = IF i = 1 THEN s[i] ELSE f[i - 1] \o s[i]
  <2>1. \A i \in 1..Len(s) : i <= Len(s)
    BY <1>1
  <2> QED
    BY <1>5, <2>1
<1>7. f = [i \in 1..Len(s) |-> f[i]]
  OBVIOUS
<1> QED
  BY <1>6, <1>7 DEF Flattens

LEMMA FlattensTyped ==
  ASSUME NEW C, NEW s \in Seq(Seq(C)), NEW f, Flattens(f, s)
  PROVE  \A i \in 1..Len(s) : f[i] \in Seq(C)
<1> DEFINE S == {m \in Nat : m + 1 \in 1..Len(s) => f[m + 1] \in Seq(C)}
<1>1. /\ Len(s) \in Nat /\ \A i \in 1..Len(s) : s[i] \in Seq(C)
      /\ \A i \in 1..Len(s) : f[i] = IF i = 1 THEN s[i] ELSE f[i - 1] \o s[i]
  BY FlattensAt
<1>2. 0 \in S
  BY <1>1
<1>3. ASSUME NEW m \in Nat, m \in S PROVE m + 1 \in S
  <2>1. ASSUME NEW k \in 1..Len(s), k = m + 1 + 1 PROVE f[k] \in Seq(C)
    <3>1. m + 1 \in 1..Len(s) /\ k # 1 /\ k - 1 = m + 1
      BY <1>1, <2>1
    <3>2. f[m + 1] \in Seq(C) /\ s[k] \in Seq(C)
      BY <1>1, <1>3, <3>1
    <3>3. f[k] = f[k - 1] \o s[k]
      BY <1>1, <3>1
    <3> QED
      BY <3>1, <3>2, <3>3, ConcatProperties
  <2> QED
    BY <2>1
<1>4. \A n \in Nat : n \in S
  <2> HIDE DEF S
  <2> QED
    BY <1>2, <1>3, Induction
<1>5. ASSUME NEW i \in 1..Len(s) PROVE f[i] \in Seq(C)
  <2>1. i - 1 \in Nat /\ (i - 1) + 1 = i
    BY <1>1
  <2>2. i - 1 \in S
    BY <1>4, <2>1
  <2> QED
    BY <2>1, <2>2
<1> QED
  BY <1>5

LEMMA FlattensAgree ==
  ASSUME NEW C, NEW s \in Seq(Seq(C)), NEW x \in Seq(C), NEW f, NEW g,
         Flattens(f, s), Flattens(g, Append(s, x))
  PROVE  \A i \in 1..Len(s) : g[i] = f[i]
<1> DEFINE S == {m \in Nat : m + 1 \in 1..Len(s) => g[m + 1] = f[m + 1]}
           t == Append(s, x)
<1>1. /\ Len(s) \in Nat /\ Len(t) = Len(s) + 1
      /\ \A i \in 1..Len(s) : t[i] = s[i] /\ i \in 1..Len(t)
      /\ \A i \in 1..Len(s) : f[i] = IF i = 1 THEN s[i] ELSE f[i - 1] \o s[i]
  BY AppendProperties, FlattensAt
<1>2. \A i \in 1..Len(t) : g[i] = IF i = 1 THEN t[i] ELSE g[i - 1] \o t[i]
  <2> HIDE DEF t
  <2> QED
    BY DEF Flattens, t
<1>3. \A i \in 1..Len(s) : g[i] = IF i = 1 THEN s[i] ELSE g[i - 1] \o s[i]
  BY <1>1, <1>2
<1>4. 0 \in S
  BY <1>1, <1>3
<1>5. ASSUME NEW m \in Nat, m \in S PROVE m + 1 \in S
  <2> SUFFICES ASSUME m + 1 + 1 \in 1..Len(s) PROVE g[m + 1 + 1] = f[m + 1 + 1]
    OBVIOUS
  <2>1. m + 1 \in 1..Len(s) /\ m + 1 + 1 # 1 /\ m + 1 + 1 - 1 = m + 1
    BY <1>1
  <2>2. g[m + 1] = f[m + 1]
    BY <1>5, <2>1
  <2> QED
    BY <1>1, <1>3, <2>1, <2>2
<1>6. \A n \in Nat : n \in S
  <2> HIDE DEF S
  <2> QED
    BY <1>4, <1>5, Induction
<1>7. ASSUME NEW i \in 1..Len(s) PROVE g[i] = f[i]
  <2>1. i - 1 \in Nat /\ (i - 1) + 1 = i
    BY <1>1
  <2>2. i - 1 \in S
    BY <1>6, <2>1
  <2> QED
    BY <2>1, <2>2
<1> QED
  BY <1>7

(* Remote!FlattenSeq of a nonempty sequence is the last value of a function that  *)
(* flattens. *)
LEMMA FlattenIs ==
  ASSUME NEW C, NEW s \in Seq(Seq(C)), s # <<>>
  PROVE  \E f : Flattens(f, s) /\ Remote!FlattenSeq(s) = f[Len(s)]
<1> DEFINE h == CHOOSE f : Flattens(f, s)
<1>1. Flattens(h, s)
  BY FlattenExists
<1>2. Len(s) # 0
  OBVIOUS
<1>3. Remote!FlattenSeq(s) = h[Len(s)]
  BY <1>2 DEF Remote!FlattenSeq, Flattens
<1> QED
  BY <1>1, <1>3

LEMMA FlattenEmpty == Remote!FlattenSeq(<<>>) = <<>>
BY DEF Remote!FlattenSeq

LEMMA FlattenTyped ==
  ASSUME NEW C, NEW s \in Seq(Seq(C))
  PROVE  Remote!FlattenSeq(s) \in Seq(C)
<1>1. CASE s = <<>>
  <2>1. Remote!FlattenSeq(s) = <<>>
    BY <1>1, FlattenEmpty
  <2> QED
    BY <2>1
<1>2. CASE s # <<>>
  <2>1. PICK f : Flattens(f, s) /\ Remote!FlattenSeq(s) = f[Len(s)]
    BY <1>2, FlattenIs
  <2>2. Len(s) \in 1..Len(s)
    BY <1>2
  <2> QED
    BY <2>1, <2>2, FlattensTyped
<1> QED
  BY <1>1, <1>2

LEMMA FlattenAppend ==
  ASSUME NEW C, NEW s \in Seq(Seq(C)), NEW x \in Seq(C)
  PROVE  Remote!FlattenSeq(Append(s, x)) = Remote!FlattenSeq(s) \o x
<1> DEFINE t == Append(s, x)
<1>1. t \in Seq(Seq(C)) /\ t # <<>> /\ Len(t) = Len(s) + 1 /\ t[Len(t)] = x /\ Len(s) \in Nat
  BY AppendProperties
<1>2. PICK g : Flattens(g, t) /\ Remote!FlattenSeq(t) = g[Len(t)]
  <2> HIDE DEF t
  <2> QED
    BY <1>1, FlattenIs
<1>3. g[Len(t)] = IF Len(t) = 1 THEN x ELSE g[Len(s)] \o x
  <2> HIDE DEF t
  <2>1. Len(t) \in 1..Len(t) /\ Len(t) - 1 = Len(s)
    BY <1>1
  <2> QED
    BY <1>1, <1>2, <2>1 DEF Flattens
<1>4. CASE s = <<>>
  <2>1. Remote!FlattenSeq(t) = x
    BY <1>1, <1>2, <1>3, <1>4
  <2>2. <<>> \o x = x
    BY ConcatEmptySeq
  <2> QED
    BY <1>4, <2>1, <2>2, FlattenEmpty
<1>5. CASE s # <<>>
  <2>1. PICK f : Flattens(f, s) /\ Remote!FlattenSeq(s) = f[Len(s)]
    BY <1>5, FlattenIs
  <2>2. Len(s) \in 1..Len(s) /\ Len(t) # 1
    BY <1>1, <1>5
  <2>3. g[Len(s)] = f[Len(s)]
    BY <1>2, <2>1, <2>2, FlattensAgree
  <2> QED
    BY <1>2, <1>3, <2>1, <2>2, <2>3
<1> QED
  BY <1>4, <1>5
-----------------------------------------------------------------------------
(* The proxy.  A client is waiting, in hand or closed, and was served and  *)
(* asked for at most once.                                                 *)
InHand(c) == c = cur /\ cst[c] = "taken"

Lined ==
  /\ \A i \in 1..Len(line) : cst[line[i]] = "waiting"
  /\ \A i, j \in 1..Len(line) : line[i] = line[j] => i = j
  /\ at \in {"read", "ask", "answer", "reply", "close"} => cur \in Client /\ cst[cur] = "taken"

Turned ==
  /\ \A i \in 1..Len(served) :
       cst[served[i]] = "closed" \/ (InHand(served[i]) /\ at = "close")
  /\ \A i \in 1..Len(asked) :
       \/ cst[asked[i]] = "closed"
       \/ InHand(asked[i]) /\ at \in {"answer", "reply", "close", "dead"}
  /\ at \in {"accept", "read", "ask", "answer"} => out = <<>>

(* What was given, is in hand, has arrived and is still to come, in order. *)
Given == [i \in 1..Len(served) |-> got[served[i]]]
Read == IF at \in {"reply", "dead"} THEN out ELSE <<>>
Due == [i \in 1..Len(asked) |-> Remote!Answer(asked[i])]

InOrder == ~closed => Remote!Flat(Given) \o Read \o answers \o todo = Remote!Flat(Due)

(* While no answer is late, nothing is under way but the answer for the    *)
(* client in hand, whole, in one of three places.                          *)
Own(s, c) == IF Remote!Contains(s, c) THEN Remote!Answer(c) ELSE <<>>

InTime ==
  ~late /\ ~closed =>
    /\ \A i \in 1..Len(served) : got[served[i]] = Own(asked, served[i])
    /\ at \in {"accept", "read", "ask", "reply", "close"} => answers = <<>> /\ todo = <<>>
    /\ at = "answer" => \/ todo = <<>> /\ answers = Own(asked, cur)
                        \/ todo = Own(asked, cur) /\ answers = <<>>
    /\ at = "reply" => out = Own(asked, cur)

ProxyInv == Remote!TypeOK /\ Lined /\ Turned /\ InOrder /\ InTime

-----------------------------------------------------------------------------
(* Sequences of clients.                                                   *)

LEMMA AnswerTyped ==
  ASSUME Remote!ProxyAssumption, NEW c \in Client
  PROVE  /\ Remote!Answer(c) \in Seq(Client) /\ Len(Remote!Answer(c)) = AnswerLen
         /\ Remote!Answer(c) # <<>> /\ AnswerLen \in Nat \ {0}
<1>1. AnswerLen \in Nat \ {0}
  BY DEF Remote!ProxyAssumption
<1>2. [i \in 1..AnswerLen |-> c] \in Seq(Client) /\ Len([i \in 1..AnswerLen |-> c]) = AnswerLen
  BY <1>1
<1>3. [i \in 1..AnswerLen |-> c] # <<>>
  BY <1>1, <1>2
<1> QED
  BY <1>1, <1>2, <1>3 DEF Remote!Answer

LEMMA CutClients ==
  ASSUME NEW t \in Seq(Client), NEW n \in 0..Len(t)
  PROVE  /\ SubSeq(t, 1, n) \in Seq(Client) /\ Len(SubSeq(t, 1, n)) = n
         /\ SubSeq(t, n + 1, Len(t)) \in Seq(Client)
         /\ Len(SubSeq(t, n + 1, Len(t))) = Len(t) - n
         /\ SubSeq(t, 1, n) \o SubSeq(t, n + 1, Len(t)) = t
<1>1. /\ Len(t) \in Nat /\ n \in Nat /\ n <= Len(t) /\ 1 \in 1..Len(t) + 1
      /\ n \in 1 - 1..Len(t) /\ Len(t) \in n..Len(t)
      /\ \A i \in 1..n : t[i] \in Client
      /\ \A i \in n + 1..Len(t) : t[i] \in Client
  OBVIOUS
<1>2. SubSeq(t, 1, n) \in Seq(Client) /\ Len(SubSeq(t, 1, n)) = IF 1 <= n THEN n - 1 + 1 ELSE 0
  BY <1>1, SubSeqProperties
<1>3. /\ SubSeq(t, n + 1, Len(t)) \in Seq(Client)
      /\ Len(SubSeq(t, n + 1, Len(t))) = IF n + 1 <= Len(t) THEN Len(t) - (n + 1) + 1 ELSE 0
  BY <1>1, SubSeqProperties
<1>4. SubSeq(t, 1, n) \o SubSeq(t, n + 1, Len(t)) = SubSeq(t, 1, Len(t))
  BY <1>1, ConcatAdjacentSubSeq
<1>5. SubSeq(t, 1, Len(t)) = t
  BY SubSeqFull
<1>6. /\ (IF 1 <= n THEN n - 1 + 1 ELSE 0) = n
      /\ (IF n + 1 <= Len(t) THEN Len(t) - (n + 1) + 1 ELSE 0) = Len(t) - n
  BY <1>1
<1>7. Len(SubSeq(t, 1, n)) = n /\ Len(SubSeq(t, n + 1, Len(t))) = Len(t) - n
  BY <1>2, <1>3, <1>6
<1>8. SubSeq(t, 1, n) \o SubSeq(t, n + 1, Len(t)) = t
  BY <1>4, <1>5
<1> QED
  BY <1>2, <1>3, <1>7, <1>8

LEMMA ClientsAssociate ==
  \A s, t, u \in Seq(Client) : (s \o t) \o u = s \o (t \o u)
BY ConcatAssociative

LEMMA TypedRemote ==
  Remote!TypeOK =>
    /\ line \in Seq(Client) /\ served \in Seq(Client) /\ asked \in Seq(Client)
    /\ out \in Seq(Client) /\ todo \in Seq(Client) /\ answers \in Seq(Client)
    /\ got \in [Client -> Seq(Client)] /\ cst \in [Client -> {"away", "waiting", "taken", "closed"}]
    /\ closed \in BOOLEAN /\ late \in BOOLEAN
BY DEF Remote!TypeOK, Remote!Units

LEMMA TookOf ==
  ASSUME Remote!ProxyAssumption, answers \in Seq(Client)
  PROVE  Remote!Took \in 0..Len(answers)
<1>1. Len(answers) \in Nat /\ BufferSize \in Nat
  BY DEF Remote!ProxyAssumption
<1> QED
  BY <1>1 DEF Remote!Took

-----------------------------------------------------------------------------
(* Types, and who is where.                                                *)

LEMMA RemoteTyped ==
  ASSUME Remote!ProxyAssumption, Remote!TypeOK, Lined, [Remote!Next]_ProxyVars
  PROVE  Remote!TypeOK'
<1> USE DEF Remote!Units
<1> USE TypedRemote
<1>1. ASSUME NEW c \in Client, Remote!Connect(c) PROVE Remote!TypeOK'
  BY <1>1 DEF Remote!Connect, Remote!TypeOK, Remote!remoteVars
<1>2. ASSUME NEW c \in Client, Remote!HangUp(c) PROVE Remote!TypeOK'
  BY <1>2 DEF Remote!HangUp, Remote!TypeOK, Remote!remoteVars
<1>3. CASE Remote!RemoteSend
  <2>1. PICK k \in 1..Len(todo) :
          /\ answers' = answers \o SubSeq(todo, 1, k)
          /\ todo' = SubSeq(todo, k + 1, Len(todo))
          /\ late' = (late \/ k # AnswerLen)
    BY <1>3 DEF Remote!RemoteSend
  <2>2. k \in 0..Len(todo)
    OBVIOUS
  <2>3. SubSeq(todo, 1, k) \in Seq(Client) /\ todo' \in Seq(Client)
    BY <2>1, <2>2, CutClients
  <2>4. answers' \in Seq(Client)
    BY <2>1, <2>3, ConcatProperties
  <2>5. late' \in BOOLEAN
    BY <2>1
  <2> QED
    BY <1>3, <2>3, <2>4, <2>5 DEF Remote!RemoteSend, Remote!TypeOK, Remote!clientVars
<1>4. CASE Remote!RemoteClose
  BY <1>4 DEF Remote!RemoteClose, Remote!TypeOK, Remote!clientVars
<1>5. CASE Remote!Accept
  <2>1. Head(line) \in Client /\ Tail(line) \in Seq(Client)
    BY <1>5, HeadTailProperties DEF Remote!Accept
  <2> QED
    BY <1>5, <2>1 DEF Remote!Accept, Remote!TypeOK, Remote!remoteVars
<1>6. CASE Remote!AcceptFail
  BY <1>6 DEF Remote!AcceptFail, Remote!TypeOK, Remote!clientVars, Remote!remoteVars
<1>7. CASE Remote!ReadClient \/ Remote!ClientTimeout
  BY <1>7 DEF Remote!ReadClient, Remote!ClientTimeout, Remote!ReadGives, Remote!TypeOK,
     Remote!clientVars, Remote!remoteVars
<1>8. CASE Remote!Ask
  <2>1. CASE asked' = Append(asked, cur) /\ at' = "answer"
             /\ todo' = IF closed THEN todo ELSE todo \o Remote!Answer(cur)
    <3>1. cur \in Client
      BY <1>8 DEF Lined, Remote!Ask
    <3>2. asked' \in Seq(Client)
      BY <2>1, <3>1, AppendProperties
    <3>3. todo' \in Seq(Client)
      BY <2>1, <3>1, AnswerTyped, ConcatProperties
    <3> QED
      BY <1>8, <2>1, <3>2, <3>3 DEF Remote!Ask, Remote!TypeOK, Remote!clientVars
  <2>2. CASE at' = "dead" /\ UNCHANGED <<asked, todo>>
    BY <1>8, <2>2 DEF Remote!Ask, Remote!TypeOK, Remote!clientVars
  <2> QED
    BY <1>8, <2>1, <2>2 DEF Remote!Ask
<1>9. CASE Remote!ReadRemote
  <2>1. out' \in Seq(Client) /\ answers' \in Seq(Client)
    BY <1>9, TookOf, CutClients DEF Remote!ReadRemote
  <2> QED
    BY <1>9, <2>1 DEF Remote!ReadRemote, Remote!TypeOK, Remote!clientVars
<1>10. CASE Remote!RemoteTimeout
  BY <1>10 DEF Remote!RemoteTimeout, Remote!TypeOK, Remote!clientVars, Remote!remoteVars
<1>11. CASE Remote!Reply
  <2>1. cur \in Client
    BY <1>11 DEF Lined, Remote!Reply
  <2>2. Append(served, cur) \in Seq(Client)
    BY <2>1, AppendProperties
  <2> QED
    BY <1>11, <2>2 DEF Remote!Reply, Remote!TypeOK, Remote!clientVars, Remote!remoteVars
<1>12. CASE Remote!Close
  <2>1. cur' \in Client \cup {"none"} /\ at' \in {"accept"} /\ out' \in Seq(Client)
    BY <1>12 DEF Remote!Close
  <2>2. cst' \in [Client -> {"away", "waiting", "taken", "closed"}]
    BY <1>12 DEF Remote!Close
  <2> QED
    BY <1>12, <2>1, <2>2 DEF Remote!Close, Remote!TypeOK, Remote!remoteVars
<1>13. CASE UNCHANGED ProxyVars
  BY <1>13 DEF ProxyVars, Remote!TypeOK
<1> QED
  BY <1>1, <1>2, <1>3, <1>4, <1>5, <1>6, <1>7, <1>8, <1>9, <1>10, <1>11, <1>12, <1>13
     DEF Remote!Next, Remote!Loop

LEMMA LinedNext ==
  ASSUME Remote!TypeOK, Lined, [Remote!Next]_ProxyVars
  PROVE  Lined'
<1> USE TypedRemote
<1>1. ASSUME NEW c \in Client, Remote!Connect(c) PROVE Lined'
  <2>1. /\ cst[c] = "away" /\ cst' = [cst EXCEPT ![c] = "waiting"]
        /\ line' = Append(line, c) /\ UNCHANGED <<at, cur>>
    BY <1>1 DEF Remote!Connect
  <2>2. /\ Len(line') = Len(line) + 1 /\ line'[Len(line) + 1] = c /\ Len(line) \in Nat
        /\ \A i \in 1..Len(line) : line'[i] = line[i]
    BY <2>1, AppendProperties
  <2>3. ASSUME NEW i \in 1..Len(line') PROVE i \in 1..Len(line) \/ i = Len(line) + 1
    <3>1. i \in 1..Len(line) + 1
      BY <2>2
    <3>2. \A n \in Nat : \A j \in 1..n + 1 : j \in 1..n \/ j = n + 1
      OBVIOUS
    <3> QED
      BY <2>2, <3>1, <3>2
  <2>4. \A i \in 1..Len(line) : line[i] \in Client /\ line[i] # c
    BY <2>1 DEF Lined
  <2>5. \A i \in 1..Len(line') : cst'[line'[i]] = "waiting"
    BY <2>1, <2>2, <2>3, <2>4 DEF Lined
  <2>6. ASSUME NEW i \in 1..Len(line'), NEW j \in 1..Len(line'), line'[i] = line'[j] PROVE i = j
    <3>1. /\ i \in 1..Len(line) \/ i = Len(line) + 1
          /\ j \in 1..Len(line) \/ j = Len(line) + 1
      BY <2>3
    <3>2. CASE i \in 1..Len(line) /\ j \in 1..Len(line)
      BY <2>2, <2>6, <3>2 DEF Lined
    <3> QED
      BY <2>2, <2>4, <2>6, <3>1, <3>2
  <2> QED
    BY <2>1, <2>5, <2>6 DEF Lined
<1>2. CASE Remote!Accept
  <2>1. /\ line # <<>> /\ at' = "read" /\ cur' = Head(line) /\ line' = Tail(line)
        /\ cst' = [cst EXCEPT ![Head(line)] = "taken"]
    BY <1>2 DEF Remote!Accept
  <2>2. /\ Len(line') = Len(line) - 1 /\ Len(line) \in Nat /\ Len(line) >= 1
        /\ Head(line) = line[1] /\ Head(line) \in Client
        /\ \A i \in 1..Len(line') : line'[i] = line[i + 1]
    BY <2>1, HeadTailProperties
  <2>3. \A i \in 1..Len(line') : i + 1 \in 1..Len(line) /\ i + 1 # 1 /\ line[i + 1] \in Client
    BY <2>2
  <2>4. \A i \in 1..Len(line') : cst'[line'[i]] = "waiting"
    BY <2>1, <2>2, <2>3 DEF Lined
  <2>5. \A i, j \in 1..Len(line') : line'[i] = line'[j] => i = j
    <3>1. ASSUME NEW i \in 1..Len(line'), NEW j \in 1..Len(line'), line'[i] = line'[j]
          PROVE  i = j
      <4>1. line[i + 1] = line[j + 1] /\ i + 1 \in 1..Len(line) /\ j + 1 \in 1..Len(line)
        BY <2>2, <2>3, <3>1
      <4>2. i + 1 = j + 1
        BY <4>1 DEF Lined
      <4>3. i \in Nat /\ j \in Nat
        BY <2>2
      <4> QED
        BY <4>2, <4>3
    <3> QED
      BY <3>1
  <2> QED
    BY <2>1, <2>2, <2>4, <2>5 DEF Lined
<1>3. CASE Remote!Close
  <2>1. /\ at = "close" /\ at' = "accept" /\ UNCHANGED line
        /\ cst' = [cst EXCEPT ![cur] = "closed"]
    BY <1>3 DEF Remote!Close
  <2>2. \A i \in 1..Len(line) : line[i] # cur
    BY <2>1 DEF Lined
  <2> QED
    BY <2>1, <2>2 DEF Lined
<1>4. ASSUME NEW c \in Client, Remote!HangUp(c) PROVE Lined'
  BY <1>4 DEF Remote!HangUp, Lined
<1>5. CASE Remote!RemoteSend \/ Remote!RemoteClose
  BY <1>5 DEF Remote!RemoteSend, Remote!RemoteClose, Remote!clientVars, Lined
<1>6. CASE Remote!AcceptFail \/ Remote!ReadClient \/ Remote!ClientTimeout
  BY <1>6 DEF Remote!AcceptFail, Remote!ReadClient, Remote!ClientTimeout, Remote!ReadGives,
     Remote!clientVars, Lined
<1>7. CASE Remote!Ask
  BY <1>7 DEF Remote!Ask, Remote!clientVars, Lined
<1>8. CASE Remote!ReadRemote \/ Remote!RemoteTimeout
  BY <1>8 DEF Remote!ReadRemote, Remote!RemoteTimeout, Remote!clientVars, Lined
<1>9. CASE Remote!Reply
  BY <1>9 DEF Remote!Reply, Remote!clientVars, Lined
<1>10. CASE UNCHANGED ProxyVars
  BY <1>10 DEF ProxyVars, Lined
<1> QED
  BY <1>1, <1>2, <1>3, <1>4, <1>5, <1>6, <1>7, <1>8, <1>9, <1>10 DEF Remote!Next, Remote!Loop

LEMMA TurnedNext ==
  ASSUME Remote!TypeOK, Lined, Turned, [Remote!Next]_ProxyVars
  PROVE  Turned'
<1> USE TypedRemote
<1>1. ASSUME NEW c \in Client, Remote!Connect(c) PROVE Turned'
  <2>1. /\ cst[c] = "away" /\ cst' = [cst EXCEPT ![c] = "waiting"]
        /\ UNCHANGED <<at, cur, out, served, asked>>
    BY <1>1 DEF Remote!Connect, Remote!remoteVars
  <2>2. \A d \in Client : cst[d] # "away" => cst'[d] = cst[d]
    BY <2>1
  <2> QED
    BY <2>1, <2>2, SMTT(30) DEF Turned, InHand
<1>2. CASE Remote!Accept
  <2>1. /\ line # <<>> /\ at = "accept" /\ at' = "read" /\ out = <<>>
        /\ cst' = [cst EXCEPT ![Head(line)] = "taken"] /\ UNCHANGED <<out, served, asked>>
    BY <1>2 DEF Remote!Accept, Remote!remoteVars, Turned
  <2>2. cst[Head(line)] = "waiting"
    BY <2>1 DEF Lined
  <2>3. \A d \in Client : cst[d] = "closed" => cst'[d] = "closed"
    BY <2>1, <2>2
  <2> QED
    BY <2>1, <2>3, SMTT(30) DEF Turned
<1>3. CASE Remote!Close
  <2>1. /\ at = "close" /\ at' = "accept" /\ out' = <<>> /\ cst' = [cst EXCEPT ![cur] = "closed"]
        /\ UNCHANGED <<served, asked>> /\ cur \in Client
    BY <1>3 DEF Remote!Close, Remote!remoteVars, Lined
  <2>2. \A d \in Client : cst[d] = "closed" \/ d = cur => cst'[d] = "closed"
    BY <2>1
  <2> QED
    BY <2>1, <2>2 DEF Turned, InHand
<1>4. CASE Remote!Ask
  <2>1. /\ at = "ask" /\ at' \in {"answer", "dead"} /\ out = <<>>
        /\ UNCHANGED <<cur, cst, out, served>> /\ cur \in Client /\ cst[cur] = "taken"
    BY <1>4 DEF Remote!Ask, Remote!clientVars, Lined, Turned
  <2>2. ASSUME NEW i \in 1..Len(asked') 
        PROVE  \/ cst[asked'[i]] = "closed"
               \/ InHand(asked'[i]) /\ at' = "answer"
    <3>1. CASE asked' = asked
      BY <2>1, <2>2, <3>1 DEF Turned
    <3>2. CASE asked' = Append(asked, cur) /\ at' = "answer"
      <4>1. /\ Len(asked') = Len(asked) + 1 /\ asked'[Len(asked) + 1] = cur /\ Len(asked) \in Nat
            /\ \A j \in 1..Len(asked) : asked'[j] = asked[j]
        BY <2>1, <3>2, AppendProperties
      <4>2. i \in 1..Len(asked) \/ i = Len(asked) + 1
        BY <2>2, <4>1
      <4> QED
        BY <2>1, <3>2, <4>1, <4>2 DEF Turned, InHand
    <3> QED
      BY <1>4, <3>1, <3>2 DEF Remote!Ask
  <2>3. \A i \in 1..Len(served) : cst[served[i]] = "closed"
    BY <2>1 DEF Turned
  <2> QED
    BY <2>1, <2>2, <2>3 DEF Turned, InHand
<1>5. CASE Remote!Reply
  <2>1. /\ at = "reply" /\ at' \in {"close", "dead"}
        /\ UNCHANGED <<cur, cst, out, asked>> /\ cur \in Client /\ cst[cur] = "taken"
    BY <1>5 DEF Remote!Reply, Remote!clientVars, Remote!remoteVars, Lined
  <2>2. ASSUME NEW i \in 1..Len(served')
        PROVE  \/ cst[served'[i]] = "closed"
               \/ InHand(served'[i]) /\ at' = "close"
    <3>1. CASE served' = served
      BY <2>1, <2>2, <3>1 DEF Turned
    <3>2. CASE served' = Append(served, cur) /\ at' = "close"
      <4>1. /\ Len(served') = Len(served) + 1 /\ served'[Len(served) + 1] = cur /\ Len(served) \in Nat
            /\ \A j \in 1..Len(served) : served'[j] = served[j]
        BY <2>1, <3>2, AppendProperties
      <4>2. i \in 1..Len(served) \/ i = Len(served) + 1
        BY <2>2, <4>1
      <4> QED
        BY <2>1, <3>2, <4>1, <4>2 DEF Turned, InHand
    <3> QED
      BY <1>5, <3>1, <3>2 DEF Remote!Reply
  <2> QED
    BY <2>1, <2>2 DEF Turned, InHand
<1>6. ASSUME NEW c \in Client, Remote!HangUp(c) PROVE Turned'
  BY <1>6 DEF Remote!HangUp, Remote!remoteVars, Turned, InHand
<1>7. CASE Remote!RemoteSend \/ Remote!RemoteClose
  BY <1>7 DEF Remote!RemoteSend, Remote!RemoteClose, Remote!clientVars, Turned, InHand
<1>8. CASE Remote!AcceptFail \/ Remote!ReadClient \/ Remote!ClientTimeout
  <2>1. /\ at \in {"accept", "read"} /\ at' \in {"dead", "ask", "answer"} /\ UNCHANGED <<cur, cst, out, served, asked>>
    BY <1>8 DEF Remote!AcceptFail, Remote!ReadClient, Remote!ClientTimeout, Remote!ReadGives,
       Remote!clientVars, Remote!remoteVars
  <2> QED
    BY <2>1 DEF Turned, InHand
<1>9. CASE Remote!ReadRemote \/ Remote!RemoteTimeout
  <2>1. at = "answer" /\ at' = "reply" /\ UNCHANGED <<cur, cst, served, asked>>
    BY <1>9 DEF Remote!ReadRemote, Remote!RemoteTimeout, Remote!clientVars, Remote!remoteVars
  <2> QED
    BY <2>1 DEF Turned, InHand
<1>10. CASE UNCHANGED ProxyVars
  BY <1>10 DEF ProxyVars, Turned, InHand
<1> QED
  BY <1>1, <1>2, <1>3, <1>4, <1>5, <1>6, <1>7, <1>8, <1>9, <1>10 DEF Remote!Next, Remote!Loop

-----------------------------------------------------------------------------
(* The order of the stream.                                                *)

LEMMA GivenTyped ==
  ASSUME Remote!ProxyAssumption, Remote!TypeOK
  PROVE  /\ Given \in Seq(Seq(Client)) /\ Due \in Seq(Seq(Client))
         /\ Remote!Flat(Given) \in Seq(Client) /\ Remote!Flat(Due) \in Seq(Client)
         /\ Read \in Seq(Client)
<1> USE TypedRemote
<1>1. \A i \in 1..Len(served) : got[served[i]] \in Seq(Client)
  OBVIOUS
<1>2. Given \in Seq(Seq(Client))
  BY <1>1 DEF Given
<1>3. \A i \in 1..Len(asked) : Remote!Answer(asked[i]) \in Seq(Client)
  BY AnswerTyped, SMTT(30)
<1>4. Due \in Seq(Seq(Client))
  BY <1>3 DEF Due
<1>5. Remote!FlattenSeq(Given) \in Seq(Client) /\ Remote!FlattenSeq(Due) \in Seq(Client)
  BY <1>2, <1>4, FlattenTyped
<1> QED
  BY <1>2, <1>4, <1>5 DEF Remote!Flat, Read

(* One more client was asked for.                                          *)
LEMMA DueAfter ==
  ASSUME Remote!ProxyAssumption, Remote!TypeOK, cur \in Client, asked' = Append(asked, cur)
  PROVE  Remote!Flat(Due)' = Remote!Flat(Due) \o Remote!Answer(cur)
<1> USE TypedRemote
<1>1. /\ Len(asked') = Len(asked) + 1 /\ asked'[Len(asked) + 1] = cur /\ Len(asked) \in Nat
      /\ \A j \in 1..Len(asked) : asked'[j] = asked[j]
  BY AppendProperties
<1>2. Due' = [i \in 1..Len(asked) + 1 |-> Remote!Answer(asked'[i])]
  BY <1>1 DEF Due, Remote!Answer
<1>3. Append(Due, Remote!Answer(cur)) =
        [i \in 1..Len(asked) + 1 |-> IF i = Len(asked) + 1 THEN Remote!Answer(cur)
                                     ELSE Remote!Answer(asked[i])]
  <2>1. Len(Due) = Len(asked)
    BY <1>1 DEF Due
  <2> QED
    BY <1>1, <2>1 DEF Due
<1>4. ASSUME NEW i \in 1..Len(asked) + 1
      PROVE  Remote!Answer(asked'[i]) =
               IF i = Len(asked) + 1 THEN Remote!Answer(cur) ELSE Remote!Answer(asked[i])
  <2>1. CASE i = Len(asked) + 1
    BY <1>1, <2>1
  <2>2. CASE i # Len(asked) + 1
    <3>1. \A n \in Nat : \A j \in 1..n + 1 : j # n + 1 => j \in 1..n
      OBVIOUS
    <3>2. i \in 1..Len(asked)
      BY <1>1, <2>2, <3>1
    <3> QED
      BY <1>1, <2>2, <3>2
  <2> QED
    BY <2>1, <2>2
<1>5. Due' = Append(Due, Remote!Answer(cur))
  BY <1>2, <1>3, <1>4
<1>6. Remote!FlattenSeq(Append(Due, Remote!Answer(cur)))
        = Remote!FlattenSeq(Due) \o Remote!Answer(cur)
  BY GivenTyped, AnswerTyped, FlattenAppend
<1> QED
  BY <1>5, <1>6 DEF Remote!Flat

(* One more client was served.                                             *)
LEMMA GivenAfter ==
  ASSUME Remote!ProxyAssumption, Remote!TypeOK, cur \in Client, served' = Append(served, cur),
         got' = [got EXCEPT ![cur] = out], \A i \in 1..Len(served) : served[i] # cur
  PROVE  Remote!Flat(Given)' = Remote!Flat(Given) \o out
<1> USE TypedRemote
<1>1. /\ Len(served') = Len(served) + 1 /\ served'[Len(served) + 1] = cur /\ Len(served) \in Nat
      /\ \A j \in 1..Len(served) : served'[j] = served[j]
  BY AppendProperties
<1>2. Given' = [i \in 1..Len(served) + 1 |-> got'[served'[i]]]
  BY <1>1 DEF Given
<1>3. Append(Given, out) =
        [i \in 1..Len(served) + 1 |-> IF i = Len(served) + 1 THEN out ELSE got[served[i]]]
  <2>1. Len(Given) = Len(served)
    BY <1>1 DEF Given
  <2> QED
    BY <1>1, <2>1 DEF Given
<1>4. ASSUME NEW i \in 1..Len(served) + 1
      PROVE  got'[served'[i]] = IF i = Len(served) + 1 THEN out ELSE got[served[i]]
  <2>1. CASE i = Len(served) + 1
    BY <1>1, <2>1
  <2>2. CASE i # Len(served) + 1
    <3>3. \A n \in Nat : \A j \in 1..n + 1 : j # n + 1 => j \in 1..n
      OBVIOUS
    <3>1. i \in 1..Len(served)
      BY <1>1, <2>2, <3>3
    <3>2. served[i] # cur /\ served[i] \in Client /\ served'[i] = served[i]
      BY <1>1, <3>1
    <3> QED
      BY <2>2, <3>2
  <2> QED
    BY <2>1, <2>2
<1>5. Given' = Append(Given, out)
  BY <1>2, <1>3, <1>4
<1>6. Remote!FlattenSeq(Append(Given, out)) = Remote!FlattenSeq(Given) \o out
  BY GivenTyped, FlattenAppend
<1> QED
  BY <1>5, <1>6 DEF Remote!Flat

LEMMA InOrderNext ==
  ASSUME Remote!ProxyAssumption, Remote!TypeOK, Lined, Turned, InOrder, [Remote!Next]_ProxyVars
  PROVE  InOrder'
<1>0. /\ answers \in Seq(Client) /\ todo \in Seq(Client) /\ out \in Seq(Client)
      /\ served \in Seq(Client) /\ cst \in [Client -> {"away", "waiting", "taken", "closed"}]
  BY TypedRemote
<1>18. ASSUME NEW u \in Seq(Client), NEW p \in Seq(Client), NEW q \in Seq(Client)
       PROVE  u \o (answers \o p) \o q = u \o answers \o (p \o q)
  <2> DEFINE b == answers \o p
             r == p \o q
  <2>6. answers \in Seq(Client)
    BY <1>0
  <2>1. b \in Seq(Client) /\ r \in Seq(Client)
    BY <2>6, ConcatProperties
  <2>2. b \o q = answers \o r
    BY <2>6, ClientsAssociate, Zenon
  <2> HIDE DEF b, r
  <2>3. (u \o b) \o q = u \o (b \o q)
    BY <2>1, ClientsAssociate, ZenonT(30)
  <2>4. (u \o answers) \o r = u \o (answers \o r)
    BY <2>1, <2>6, ClientsAssociate, ZenonT(60)
  <2>5. (u \o b) \o q = (u \o answers) \o r
    BY <2>2, <2>3, <2>4
  <2> QED
    BY <2>5 DEF b, r
<1>19. ASSUME NEW u \in Seq(Client), NEW p \in Seq(Client)
       PROVE  u \o (todo \o p) = (u \o todo) \o p
  BY <1>0, ClientsAssociate, ZenonT(30)
<1> DEFINE F == Remote!Flat(Given)
           D == Remote!Flat(Due)
<1>1. F \in Seq(Client) /\ D \in Seq(Client) /\ Read \in Seq(Client)
  BY GivenTyped
<1>2. UNCHANGED <<served, got>> => UNCHANGED F
  BY DEF Given
<1>3. UNCHANGED asked => UNCHANGED D
  BY DEF Due, Remote!Answer
<1>4. ASSUME ~closed PROVE F \o Read \o answers \o todo = D
  BY <1>4 DEF InOrder
<1>5. (~closed' => F' \o Read' \o answers' \o todo' = D') => InOrder'
  BY DEF InOrder
<1> HIDE DEF F, D
<1>6. F \o Read \in Seq(Client)
  BY <1>1, ConcatProperties
<1>7. ASSUME UNCHANGED <<served, got, asked, answers, todo, closed>>, Read' = Read PROVE InOrder'
  BY <1>2, <1>3, <1>4, <1>5, <1>7
<1>8. ASSUME NEW c \in Client, Remote!Connect(c) \/ Remote!HangUp(c) PROVE InOrder'
  BY <1>7, <1>8 DEF Remote!Connect, Remote!HangUp, Remote!remoteVars, Read
<1>9. CASE Remote!RemoteSend
  <2>1. PICK k \in 1..Len(todo) :
          answers' = answers \o SubSeq(todo, 1, k) /\ todo' = SubSeq(todo, k + 1, Len(todo))
    BY <1>9 DEF Remote!RemoteSend
  <2> DEFINE p == SubSeq(todo, 1, k)
             q == SubSeq(todo, k + 1, Len(todo))
  <2>2. k \in 0..Len(todo)
    BY <1>0
  <2>3. p \in Seq(Client) /\ q \in Seq(Client) /\ p \o q = todo
    BY <1>0, <2>2, CutClients
  <2>4. answers' = answers \o p /\ todo' = q
    BY <2>1
  <2> HIDE DEF p, q
  <2>5. UNCHANGED <<served, got, asked, closed>> /\ Read' = Read
    BY <1>9 DEF Remote!RemoteSend, Read
  <2> DEFINE u == F \o Read
  <2>7. u \in Seq(Client)
    BY <1>6
  <2> HIDE DEF u
  <2>8. u \o (answers \o p) \o q = u \o answers \o (p \o q)
    BY <1>18, <2>3, <2>7
  <2>6. F \o Read \o (answers \o p) \o q = F \o Read \o answers \o (p \o q)
    BY <2>8, Zenon DEF u
  <2> QED
    BY <1>2, <1>3, <1>4, <1>5, <2>3, <2>4, <2>5, <2>6
<1>10. CASE Remote!RemoteClose
  BY <1>5, <1>10 DEF Remote!RemoteClose
<1>11. CASE Remote!Accept \/ Remote!AcceptFail \/ Remote!ReadClient \/ Remote!ClientTimeout
  <2>1. /\ at \in {"accept", "read"} /\ out = <<>> /\ at' \in {"read", "dead", "ask", "answer"}
        /\ UNCHANGED <<out, served, got, asked, answers, todo, closed>>
    BY <1>11 DEF Remote!Accept, Remote!AcceptFail, Remote!ReadClient, Remote!ClientTimeout,
       Remote!ReadGives, Remote!clientVars, Remote!remoteVars, Turned
  <2>2. Read' = Read
    BY <2>1 DEF Read
  <2> QED
    BY <1>7, <2>1, <2>2
<1>12. CASE Remote!Ask
  <2>1. /\ at = "ask" /\ out = <<>> /\ cur \in Client
        /\ UNCHANGED <<out, served, got, answers, closed>>
    BY <1>12 DEF Remote!Ask, Remote!clientVars, Lined, Turned
  <2>2. CASE closed
    BY <1>5, <2>1, <2>2
  <2>3. CASE ~closed
    <3>1. asked' = Append(asked, cur) /\ todo' = todo \o Remote!Answer(cur) /\ at' = "answer"
      BY <1>12, <2>3 DEF Remote!Ask
    <3>2. D' = D \o Remote!Answer(cur)
      BY <2>1, <3>1, DueAfter DEF D
    <3>3. Read' = Read
      BY <2>1, <3>1 DEF Read
    <3> DEFINE w == F \o Read \o answers
    <3>4. w \in Seq(Client) /\ Remote!Answer(cur) \in Seq(Client)
      BY <1>0, <1>6, <2>1, ConcatProperties, AnswerTyped
    <3>5. w \o todo = D /\ w' = w
      BY <1>2, <1>4, <2>1, <2>3, <3>3
    <3>6. w' \o todo' = D' => InOrder'
      BY <1>5
    <3> HIDE DEF w
    <3>7. w \o (todo \o Remote!Answer(cur)) = (w \o todo) \o Remote!Answer(cur)
      BY <1>19, <3>4
    <3> QED
      BY <3>1, <3>2, <3>5, <3>6, <3>7
  <2> QED
    BY <2>2, <2>3
<1>13. CASE Remote!ReadRemote
  <2> DEFINE p == SubSeq(answers, 1, Remote!Took)
             q == SubSeq(answers, Remote!Took + 1, Len(answers))
  <2>1. p \in Seq(Client) /\ q \in Seq(Client) /\ p \o q = answers
    BY <1>0, TookOf, CutClients
  <2>2. /\ at = "answer" /\ at' = "reply" /\ out' = p /\ answers' = q /\ out = <<>>
        /\ UNCHANGED <<served, got, asked, todo, closed>>
    BY <1>13 DEF Remote!ReadRemote, Turned
  <2> HIDE DEF p, q
  <2>3. Read = <<>> /\ Read' = p
    BY <2>2 DEF Read
  <2>4. F \o Read = F
    BY <1>1, <2>3, ConcatEmptySeq
  <2>5. (F \o p) \o q = F \o (p \o q)
    BY <1>1, <2>1, ClientsAssociate, ZenonT(30)
  <2> QED
    BY <1>2, <1>3, <1>4, <1>5, <2>1, <2>2, <2>3, <2>4, <2>5
<1>14. CASE Remote!RemoteTimeout
  <2>1. /\ at = "answer" /\ at' = "reply" /\ out' = <<>>
        /\ UNCHANGED <<served, got, asked, answers, todo, closed>>
    BY <1>14 DEF Remote!RemoteTimeout, Remote!remoteVars
  <2>2. Read' = Read
    BY <2>1 DEF Read
  <2> QED
    BY <1>7, <2>1, <2>2
<1>15. CASE Remote!Reply
  <2>1. /\ at = "reply" /\ cur \in Client /\ cst[cur] = "taken"
        /\ UNCHANGED <<cur, out, asked, answers, todo, closed>>
    BY <1>15 DEF Remote!Reply, Remote!remoteVars, Lined
  <2>2. CASE at' = "close" /\ got' = [got EXCEPT ![cur] = out] /\ served' = Append(served, cur)
    <3>1. \A i \in 1..Len(served) : served[i] # cur
      BY <2>1 DEF Turned
    <3>2. F' = F \o out
      BY <2>1, <2>2, <3>1, GivenAfter DEF F
    <3>3. Read = out /\ Read' = <<>>
      BY <2>1, <2>2 DEF Read
    <3>4. F \o out \in Seq(Client)
      BY <1>0, <1>1, ConcatProperties
    <3>5. F' \o Read' = F \o Read
      BY <3>2, <3>3, <3>4, ConcatEmptySeq
    <3> QED
      BY <1>3, <1>4, <1>5, <2>1, <3>5
  <2>3. CASE at' = "dead" /\ UNCHANGED <<got, served>>
    <3>1. Read' = Read
      BY <2>1, <2>3 DEF Read
    <3> QED
      BY <1>7, <2>1, <2>3, <3>1
  <2> QED
    BY <1>15, <2>2, <2>3 DEF Remote!Reply
<1>16. CASE Remote!Close
  <2>1. at = "close" /\ at' = "accept" /\ UNCHANGED <<served, got, asked, answers, todo, closed>>
    BY <1>16 DEF Remote!Close, Remote!remoteVars
  <2>2. Read' = Read
    BY <2>1 DEF Read
  <2> QED
    BY <1>7, <2>1, <2>2
<1>17. CASE UNCHANGED ProxyVars
  BY <1>7, <1>17 DEF ProxyVars, Read
<1> QED
  BY <1>8, <1>9, <1>10, <1>11, <1>12, <1>13, <1>14, <1>15, <1>16, <1>17
     DEF Remote!Next, Remote!Loop

-----------------------------------------------------------------------------
(* Each client gets its own answer.                                        *)

LEMMA CutWhole ==
  ASSUME NEW t \in Seq(Client)
  PROVE  SubSeq(t, 1, Len(t)) = t /\ SubSeq(t, Len(t) + 1, Len(t)) = <<>>
<1>1. SubSeq(t, 1, Len(t)) = t
  BY SubSeqFull
<1>2. Len(t) + 1 \in Int /\ Len(t) \in Int /\ Len(t) < Len(t) + 1
  OBVIOUS
<1>3. SubSeq(t, Len(t) + 1, Len(t)) = <<>>
  BY <1>2, SubSeqEmpty
<1> QED
  BY <1>1, <1>3

LEMMA OwnWhole ==
  ASSUME Remote!ProxyAssumption, NEW c \in Client, Own(asked, c) # <<>>
  PROVE  Own(asked, c) \in Seq(Client) /\ Len(Own(asked, c)) = AnswerLen
BY AnswerTyped DEF Own

LEMMA InTimeNext ==
  ASSUME Remote!ProxyAssumption, Remote!TypeOK, Lined, Turned, InTime, [Remote!Next]_ProxyVars
  PROVE  InTime'
<1> DEFINE Rest(a, t) == a = <<>> /\ t = <<>>
<1>1. SUFFICES ASSUME ~late', ~closed'
      PROVE  /\ \A i \in 1..Len(served') : got'[served'[i]] = Own(asked', served'[i])
             /\ at' \in {"accept", "read", "ask", "reply", "close"} => Rest(answers', todo')
             /\ at' = "answer" => \/ todo' = <<>> /\ answers' = Own(asked', cur')
                                  \/ todo' = Own(asked', cur') /\ answers' = <<>>
             /\ at' = "reply" => out' = Own(asked', cur')
  BY DEF InTime
<1>2. ~late /\ ~closed
  <2>2. late => late'
    BY DEF Remote!Next, Remote!Loop, Remote!Connect, Remote!HangUp, Remote!RemoteSend,
       Remote!RemoteClose, Remote!Accept, Remote!AcceptFail, Remote!ReadClient,
       Remote!ClientTimeout, Remote!ReadGives, Remote!Ask, Remote!ReadRemote,
       Remote!RemoteTimeout, Remote!Reply, Remote!Close, ProxyVars
  <2>3. closed => closed'
    BY DEF Remote!Next, Remote!Loop, Remote!Connect, Remote!HangUp, Remote!RemoteSend,
       Remote!RemoteClose, Remote!Accept, Remote!AcceptFail, Remote!ReadClient,
       Remote!ClientTimeout, Remote!ReadGives, Remote!Ask, Remote!ReadRemote,
       Remote!RemoteTimeout, Remote!Reply, Remote!Close, ProxyVars, Remote!remoteVars
  <2> QED
    BY <1>1, <2>2, <2>3
<1>3. /\ \A i \in 1..Len(served) : got[served[i]] = Own(asked, served[i])
      /\ at \in {"accept", "read", "ask", "reply", "close"} => Rest(answers, todo)
      /\ at = "answer" => \/ todo = <<>> /\ answers = Own(asked, cur)
                          \/ todo = Own(asked, cur) /\ answers = <<>>
      /\ at = "reply" => out = Own(asked, cur)
  BY <1>2 DEF InTime
<1>4. UNCHANGED asked => \A c \in Client \cup {"none"} : Own(asked', c) = Own(asked, c)
  BY DEF Own, Remote!Contains, Remote!Answer
<1>5. /\ answers \in Seq(Client) /\ todo \in Seq(Client) /\ out \in Seq(Client)
      /\ served \in Seq(Client) /\ asked \in Seq(Client) /\ got \in [Client -> Seq(Client)]
      /\ cur \in Client \cup {"none"}
  BY TypedRemote DEF Remote!TypeOK
<1>6. \A i \in 1..Len(served) : served[i] \in Client
  BY <1>5
<1>7. UNCHANGED <<asked, served, got>> =>
        \A i \in 1..Len(served') : got'[served'[i]] = Own(asked', served'[i])
  BY <1>3, <1>4, <1>6 DEF Own
<1>8. CASE UNCHANGED <<at, cur, out, got, served, asked, todo, answers>>
  BY <1>3, <1>4, <1>5, <1>7, <1>8 DEF Own
<1>9. CASE Remote!RemoteSend
  <2>1. PICK k \in 1..Len(todo) :
          /\ answers' = answers \o SubSeq(todo, 1, k)
          /\ todo' = SubSeq(todo, k + 1, Len(todo))
          /\ late' = (late \/ k # AnswerLen)
    BY <1>9 DEF Remote!RemoteSend
  <2>2. k = AnswerLen /\ UNCHANGED <<at, cur, out, got, served, asked>> /\ todo # <<>>
    <3>1. todo # <<>>
      BY <1>5
    <3>2. UNCHANGED <<at, cur, out, got, served, asked>>
      BY <1>9 DEF Remote!RemoteSend, Remote!clientVars
    <3> QED
      BY <1>1, <2>1, <3>1, <3>2
  <2>3. CASE at = "answer"
    <3>1. todo = Own(asked, cur) /\ answers = <<>>
      BY <1>3, <2>2, <2>3
    <3>2. cur \in Client
      BY <2>3 DEF Lined
    <3>3. Len(todo) = AnswerLen
      BY <2>2, <3>1, <3>2, OwnWhole
    <3>4. SubSeq(todo, 1, Len(todo)) = todo /\ SubSeq(todo, Len(todo) + 1, Len(todo)) = <<>>
      BY <1>5, CutWhole
    <3>5. answers' = <<>> \o todo /\ todo' = <<>>
      BY <2>1, <2>2, <3>1, <3>3, <3>4
    <3>6. <<>> \o todo = todo
      BY <1>5, ConcatEmptySeq
    <3>7. Own(asked', cur') = Own(asked, cur)
      BY <1>4, <2>2, <3>2 DEF Own
    <3> QED
      BY <1>7, <2>2, <2>3, <3>1, <3>5, <3>6, <3>7
  <2>4. CASE at # "answer"
    <3>1. at \notin {"accept", "read", "ask", "reply", "close"}
      BY <1>3, <2>2
    <3> QED
      BY <1>7, <2>2, <2>4, <3>1
  <2> QED
    BY <2>3, <2>4
<1>10. CASE Remote!RemoteClose
  BY <1>1, <1>10 DEF Remote!RemoteClose
<1>11. CASE Remote!Accept \/ Remote!AcceptFail \/ Remote!ReadClient \/ Remote!ClientTimeout
  <2>1. /\ at \in {"accept", "read"} /\ at' \in {"read", "dead", "ask", "answer"}
        /\ UNCHANGED <<out, served, got, asked, answers, todo>>
        /\ at' = "answer" => at = "read" /\ UNCHANGED cur
    BY <1>11 DEF Remote!Accept, Remote!AcceptFail, Remote!ReadClient, Remote!ClientTimeout,
       Remote!ReadGives, Remote!clientVars, Remote!remoteVars
  <2>2. ASSUME at' = "answer" PROVE answers' = Own(asked', cur')
    <3>1. \A i \in 1..Len(asked) : asked[i] # cur
      BY <2>1, <2>2 DEF Turned, Lined
    <3>2. Own(asked', cur') = <<>>
      BY <2>1, <2>2, <3>1 DEF Own, Remote!Contains
    <3> QED
      BY <1>3, <2>1, <3>2
  <2> QED
    BY <1>3, <1>7, <2>1, <2>2
<1>12. CASE Remote!Ask
  <2>1. /\ at = "ask" /\ at' = "answer" /\ cur \in Client /\ cst[cur] = "taken"
        /\ asked' = Append(asked, cur) /\ todo' = todo \o Remote!Answer(cur)
        /\ UNCHANGED <<cur, served, got, answers>>
    BY <1>2, <1>12 DEF Remote!Ask, Remote!clientVars, Lined
  <2>2. /\ Len(asked') = Len(asked) + 1 /\ asked'[Len(asked) + 1] = cur /\ Len(asked) \in Nat
        /\ \A j \in 1..Len(asked) : asked'[j] = asked[j]
    BY <1>5, <2>1, AppendProperties
  <2>3. /\ \A j \in 1..Len(asked) : j \in 1..Len(asked') /\ Len(asked) + 1 \in 1..Len(asked')
        /\ \A j \in 1..Len(asked') : j \in 1..Len(asked) \/ j = Len(asked) + 1
    <3>1. \A n \in Nat : /\ \A j \in 1..n : j \in 1..n + 1
                         /\ n + 1 \in 1..n + 1
                         /\ \A j \in 1..n + 1 : j \in 1..n \/ j = n + 1
      OBVIOUS
    <3> QED
      BY <2>2, <3>1
  <2>4. \A c \in Client : c # cur => Own(asked', c) = Own(asked, c)
    BY <2>2, <2>3 DEF Own, Remote!Contains, Remote!Answer
  <2>5. Own(asked', cur') = Remote!Answer(cur)
    <3>1. Len(asked) + 1 \in 1..Len(asked')
      <4>1. \A n \in Nat : n + 1 \in 1..n + 1
        OBVIOUS
      <4> QED
        BY <2>2, <4>1
    <3> QED
      BY <2>1, <2>2, <3>1 DEF Own, Remote!Contains, Remote!Answer
  <2>6. \A i \in 1..Len(served) : served[i] # cur
    BY <2>1 DEF Turned
  <2>7. todo = <<>> /\ answers = <<>>
    BY <1>3, <2>1
  <2>8. todo' = Remote!Answer(cur)
    BY <2>1, <2>7, AnswerTyped, ConcatEmptySeq
  <2>9. \A i \in 1..Len(served') : got'[served'[i]] = Own(asked', served'[i])
    BY <1>3, <1>6, <2>1, <2>4, <2>6 DEF Own
  <2> QED
    BY <2>1, <2>5, <2>7, <2>8, <2>9
<1>13. CASE Remote!ReadRemote
  <2>1. /\ at = "answer" /\ at' = "reply" /\ answers # <<>>
        /\ out' = SubSeq(answers, 1, Remote!Took)
        /\ answers' = SubSeq(answers, Remote!Took + 1, Len(answers))
        /\ Remote!Took = AnswerLen
        /\ UNCHANGED <<cur, served, got, asked, todo>>
    BY <1>1, <1>13 DEF Remote!ReadRemote, Remote!clientVars
  <2>2. todo = <<>> /\ answers = Own(asked, cur) /\ cur \in Client
    BY <1>3, <2>1 DEF Lined
  <2>3. Len(answers) = AnswerLen
    BY <2>1, <2>2, OwnWhole
  <2>4. out' = answers /\ answers' = <<>>
    <3>1. SubSeq(answers, 1, Len(answers)) = answers
          /\ SubSeq(answers, Len(answers) + 1, Len(answers)) = <<>>
      BY <1>5, CutWhole
    <3> QED
      BY <2>1, <2>3, <3>1
  <2>5. Own(asked', cur') = Own(asked, cur)
    BY <1>4, <2>1, <2>2 DEF Own
  <2> QED
    BY <1>7, <2>1, <2>2, <2>4, <2>5
<1>14. CASE Remote!RemoteTimeout
  <2>1. /\ at = "answer" /\ at' = "reply" /\ answers = <<>> /\ out' = <<>> /\ todo = <<>>
        /\ UNCHANGED <<cur, served, got, asked, todo, answers>>
    BY <1>1, <1>14 DEF Remote!RemoteTimeout, Remote!clientVars, Remote!remoteVars
  <2>2. Own(asked, cur) = <<>>
    BY <1>3, <2>1
  <2>3. Own(asked', cur') = Own(asked, cur)
    BY <2>1 DEF Own, Remote!Contains, Remote!Answer
  <2> QED
    BY <1>7, <2>1, <2>2, <2>3
<1>15. CASE Remote!Reply
  <2>1. /\ at = "reply" /\ at' \in {"close", "dead"} /\ cur \in Client /\ cst[cur] = "taken"
        /\ UNCHANGED <<cur, out, asked, answers, todo>>
    BY <1>15 DEF Remote!Reply, Remote!remoteVars, Lined
  <2>2. answers = <<>> /\ todo = <<>> /\ out = Own(asked, cur)
    BY <1>3, <2>1
  <2>3. CASE got' = [got EXCEPT ![cur] = out] /\ served' = Append(served, cur)
    <3>1. \A i \in 1..Len(served) : served[i] # cur
      BY <2>1 DEF Turned
    <3>2. /\ Len(served') = Len(served) + 1 /\ served'[Len(served) + 1] = cur /\ Len(served) \in Nat
          /\ \A j \in 1..Len(served) : served'[j] = served[j]
      BY <1>5, <2>1, <2>3, AppendProperties
    <3>3. ASSUME NEW i \in 1..Len(served') PROVE got'[served'[i]] = Own(asked', served'[i])
      <4>1. i \in 1..Len(served) \/ i = Len(served) + 1
        <5>1. \A n \in Nat : \A j \in 1..n + 1 : j \in 1..n \/ j = n + 1
          OBVIOUS
        <5> QED
          BY <3>2, <5>1
      <4>2. CASE i = Len(served) + 1
        <5>1. got'[cur] = out
          BY <1>5, <2>1, <2>3
        <5>2. served'[i] = cur
          BY <3>2, <4>2
        <5>3. Own(asked', served'[i]) = Own(asked, cur)
          BY <2>1, <5>2 DEF Own, Remote!Contains, Remote!Answer
        <5> QED
          BY <2>2, <5>1, <5>2, <5>3
      <4>3. CASE i \in 1..Len(served)
        <5>1. served'[i] = served[i] /\ served[i] # cur /\ served[i] \in Client
          BY <1>6, <3>1, <3>2, <4>3
        <5>2. got'[served'[i]] = got[served[i]]
          BY <1>5, <2>3, <5>1
        <5>3. Own(asked', served'[i]) = Own(asked, served[i])
          BY <2>1, <5>1 DEF Own, Remote!Contains, Remote!Answer
        <5> QED
          BY <1>3, <4>3, <5>2, <5>3
      <4> QED
        BY <4>1, <4>2, <4>3
    <3> QED
      BY <2>1, <2>2, <3>3
  <2>4. CASE at' = "dead" /\ UNCHANGED <<got, served>>
    BY <1>7, <2>1, <2>4
  <2> QED
    BY <1>15, <2>3, <2>4 DEF Remote!Reply
<1>16. CASE Remote!Close
  <2>1. at = "close" /\ at' = "accept" /\ UNCHANGED <<served, got, asked, answers, todo>>
    BY <1>16 DEF Remote!Close, Remote!remoteVars
  <2> QED
    BY <1>3, <1>7, <2>1
<1>17. ASSUME NEW c \in Client, Remote!Connect(c) \/ Remote!HangUp(c)
       PROVE  UNCHANGED <<at, cur, out, got, served, asked, todo, answers>>
  BY <1>17 DEF Remote!Connect, Remote!HangUp, Remote!remoteVars
<1>18. CASE UNCHANGED ProxyVars
  BY <1>8, <1>18 DEF ProxyVars
<1> QED
  BY <1>8, <1>9, <1>10, <1>11, <1>12, <1>13, <1>14, <1>15, <1>16, <1>17, <1>18
     DEF Remote!Next, Remote!Loop

-----------------------------------------------------------------------------
LEMMA ProxyInit == Remote!Init => ProxyInv
<1> SUFFICES ASSUME Remote!Init PROVE ProxyInv
  OBVIOUS
<1>1. Remote!TypeOK
  <2>1. <<>> \in Seq(Client)
    OBVIOUS
  <2> QED
    BY <2>1 DEF Remote!Init, Remote!TypeOK, Remote!Units
<1>2. Lined /\ Turned /\ InTime
  BY DEF Remote!Init, Lined, Turned, InTime
<1>3. InOrder
  <2>1. Given = <<>> /\ Due = <<>> /\ Read = <<>> /\ answers = <<>> /\ todo = <<>>
    BY DEF Remote!Init, Given, Due, Read
  <2>2. Remote!Flat(<<>>) = <<>>
    BY FlattenEmpty DEF Remote!Flat
  <2>3. <<>> \o <<>> = <<>>
    OBVIOUS
  <2> QED
    BY <2>1, <2>2, <2>3 DEF InOrder
<1> QED
  BY <1>1, <1>2, <1>3 DEF ProxyInv

LEMMA ProxyNext == Remote!ProxyAssumption /\ ProxyInv /\ [Remote!Next]_ProxyVars => ProxyInv'
BY RemoteTyped, LinedNext, TurnedNext, InOrderNext, InTimeNext DEF ProxyInv

LEMMA ProxyGives == ProxyInv => Remote!TypeOK /\ Remote!StreamInOrder /\ Remote!OwnAnswer
BY DEF ProxyInv, InOrder, InTime, Given, Read, Due, Own, Remote!StreamInOrder, Remote!OwnAnswer

LEMMA ProxyStep == [AllNext]_AllVars => [Remote!Next]_ProxyVars
BY DEF AllNext, AllVars, Turns, Proxying

-----------------------------------------------------------------------------
(* The theorems.                                                           *)

LEMMA InvInit == WebRequestAssumption /\ Init => Inv
<1> SUFFICES ASSUME WebRequestAssumption, Init PROVE Inv
  OBVIOUS
<1>1. HonestInv
  BY DEF Init, NoReply, HonestInv, HonestLength
<1>2. StepInv
  BY DEF Init, StepInv, Followed, Follows, Clean, Empty, BodyWhole
<1> QED
  BY <1>1, <1>2, TypedInit DEF Inv

LEMMA InvNext == WebRequestAssumption /\ Inv /\ [Next]_vars => Inv'
<1> SUFFICES ASSUME WebRequestAssumption, Inv, [Next]_vars PROVE Inv'
  OBVIOUS
<1>1. StepInv'
  BY StepMakeRequest, StepDeliver, StepOthers, StepReadHeader, StepReadBody, StepTimeouts,
     StepAnswers DEF Inv, Next, Worker
<1> QED
  BY <1>1, TypedNext, HonestNext DEF Inv

LEMMA InvInStep == WebRequestAssumption /\ Inv => TurnsInStep /\ HonestLength
<1> SUFFICES ASSUME WebRequestAssumption, Inv PROVE TurnsInStep /\ HonestLength
  OBVIOUS
<1> USE DEF Inv
<1>1. TypeOK /\ HonestLength
  BY DEF Typed, HonestInv
<1>2. ASSUME pc = "header", ~strained, wire \o unsent # <<>>
      PROVE  Head(wire \o unsent).part = "front"
  <2>1. Empty \/ Request1
    BY <1>2 DEF StepInv, Clean
  <2>2. Request1
    BY <1>2, <2>1 DEF Empty
  <2>3. CASE wire = <<>>
    <3>1. unsent[1].part = "front"
      BY <2>2, <2>3 DEF Request1, FrontUnit
    <3>2. wire \o unsent = unsent
      BY <2>3, StreamTyped, ConcatEmptySeq
    <3> QED
      BY <1>2, <3>1, <3>2, StreamTyped
  <2>4. CASE wire # <<>>
    <3>1. wire[1].part = "front" /\ Len(wire) >= 2
      BY <2>2, <2>4 DEF Request1, FrontUnit
    <3>2. (wire \o unsent)[1] = wire[1] /\ wire \o unsent \in Seq(Unit)
      BY <3>1, StreamTyped, Joined
    <3> QED
      BY <1>2, <3>1, <3>2
  <2> QED
    BY <2>3, <2>4
<1>3. ASSUME ~strained PROVE BodyWhole
  BY <1>3 DEF StepInv, Clean
<1>4. BodyWhole
  BY <1>3 DEF BodyWhole
<1>5. NoMutualWait
  <2> SUFFICES ASSUME pc = "body", wire = <<>>, ~eof, unsent = <<>>, Missing > 0 PROVE FALSE
    BY DEF NoMutualWait, Waited
  <2>1. Len(body) + 0 + 0 >= web.len
    BY DEF StepInv, Followed
  <2> QED
    BY <2>1, StreamTyped DEF Missing
<1> QED
  BY <1>1, <1>2, <1>4, <1>5 DEF TurnsInStep, InStep

(* A connection alone: the worker stays in step with the stream, and the   *)
(* bytes sent are those announced, for all values of the constants         *)
(* (web.lua:114-183, 283-333).                                             *)
THEOREM ConnectionCorrect ==
  ASSUME WebRequestAssumption
  PROVE  Spec => [](TurnsInStep /\ HonestLength)
<1>1. Init => Inv
  BY InvInit
<1>2. Inv /\ [Next]_vars => Inv'
  BY InvNext
<1>3. Inv => TurnsInStep /\ HonestLength
  BY InvInStep
<1> QED
  BY <1>1, <1>2, <1>3, PTL DEF Spec

(* The steps of all parts are steps of the connection, or leave it alone.  *)
LEMMA ConnectionStep == [AllNext]_AllVars => [Next]_vars
BY DEF AllNext, AllVars, Turns, Proxying

(* In the model as it is checked: a body is read to its end, each turn     *)
(* begins with a header, and the worker does not wait for what was sent    *)
(* already (web.lua:114-183).                                              *)
THEOREM TurnsInStepCorrect == AllSpec => []TurnsInStep
<1>1. WebRequestAssumption
  BY WebConnectionsAssumption
<1>2. AllInit => Inv
  BY <1>1, InvInit DEF AllInit
<1>3. Inv /\ [AllNext]_AllVars => Inv'
  BY <1>1, InvNext, ConnectionStep
<1>4. Inv => TurnsInStep
  BY <1>1, InvInStep
<1> QED
  BY <1>2, <1>3, <1>4, PTL DEF AllSpec

(* In the model as it is checked: the bytes sent are those announced,      *)
(* unless the file changed meanwhile or a range of a page was asked for    *)
(* (web.lua:283-328).                                                      *)
THEOREM HonestLengthCorrect == AllSpec => []HonestLength
<1>1. WebRequestAssumption
  BY WebConnectionsAssumption
<1>2. AllInit => Inv
  BY <1>1, InvInit DEF AllInit
<1>3. Inv /\ [AllNext]_AllVars => Inv'
  BY <1>1, InvNext, ConnectionStep
<1>4. Inv => HonestLength
  BY <1>1, InvInStep
<1> QED
  BY <1>2, <1>3, <1>4, PTL DEF AllSpec

(* In the model as it is checked: what the remote sends reaches the        *)
(* clients of the proxy in the order in which it was asked for, and while  *)
(* no answer is late each client gets its own (web.lua:461-478).           *)
THEOREM StreamInOrderCorrect == AllSpec => []StreamInOrder
<1>1. Remote!ProxyAssumption
  BY WebConnectionsAssumption
<1>2. AllInit => ProxyInv
  BY ProxyInit DEF AllInit
<1>3. ProxyInv /\ [AllNext]_AllVars => ProxyInv'
  BY <1>1, ProxyNext, ProxyStep
<1>4. ProxyInv => StreamInOrder
  BY ProxyGives DEF StreamInOrder
<1> QED
  BY <1>2, <1>3, <1>4, PTL DEF AllSpec
=============================================================================
