----------------------------- MODULE WebRequest -----------------------------
(***************************************************************************)
(* One connection of the web server: the turns of ejaWebThread             *)
(* (src/lib/web.lua) against a client that sends requests over a stream.   *)
(* A turn reads the header with a single recv, reads the body of a POST in *)
(* a loop, finds the answer, measures it, sends it, and says whether the   *)
(* connection is kept for another turn.                                    *)
(*                                                                         *)
(* The stream is counted in units: a header is two of them (so that it can *)
(* arrive in two pieces), a body as many as its length.  A unit carries    *)
(* the number of the request it belongs to.                                *)
(***************************************************************************)
EXTENDS Integers, Sequences

CONSTANTS
  MaxReq,      \* how many requests the client makes
  BufferSize,  \* units one recv returns at most: web.bufferSize
  Methods,     \* a subset of {"get", "head", "post", "put"}
  Types,       \* content types: a subset of {"form", "other", "none"}
  Lens,        \* lengths of bodies
  Targets,     \* a subset of {"file", "list", "script", "missing", "denied"}
  Ranges,      \* Range headers: -1 is none, NoNumber one without a first byte
  Sizes        \* lengths of files and of generated pages

NoNumber == -2

(* What the constants may be.                                              *)
WebRequestAssumption ==
  /\ MaxReq \in Nat \ {0}
  /\ BufferSize \in Nat /\ BufferSize >= 2
  /\ Lens \subseteq Nat /\ Sizes \subseteq Nat
  /\ Ranges \subseteq Nat \cup {-1, NoNumber}

VARIABLES
  made,      \* the requests the client has made, in order
  unsent,    \* units of the last one that are still with the client
  wire,      \* units that have arrived and were not read
  eof,       \* the client has closed its side
  strained,  \* history: something was done that the reader does not provide for
  pc,        \* where the worker is
  web,       \* the request as the worker has read it
  body,      \* what the worker has of its body
  reply,     \* the answer as far as it is made
  file,      \* the length of the file asked for, now
  edited,    \* history: the file changed while the answer was made
  framed     \* the client can tell where the last answer ended

clientVars == <<made, unsent, eof>>
vars == <<made, unsent, wire, eof, strained, pc, web, body, reply, file, edited, framed>>

(* Only of a POST is the type of the body looked at.                       *)
Request ==
  {r \in [method : Methods, type : Types, len : Lens, keep : BOOLEAN,
          target : Targets, range : Ranges] : r.method # "post" => r.type = "other"}

Blank == [method |-> "none", type |-> "none", len |-> 0, keep |-> FALSE,
          target |-> "none", range |-> -1]

Unit == [req : 1..MaxReq, part : {"front", "back", "body"}]

NoReply == [status |-> 200, from |-> "none", data |-> 0, length |-> -1,
            sent |-> 0, keep |-> FALSE]

Status == {200, 206, 301, 401, 404, 408, 413, 500, 501}

TypeOK ==
  /\ made \in Seq(Request) /\ Len(made) <= MaxReq
  /\ unsent \in Seq(Unit) /\ wire \in Seq(Unit) /\ body \in Seq(Unit)
  /\ eof \in BOOLEAN /\ strained \in BOOLEAN
  /\ pc \in {"header", "body", "route", "measure", "send", "closed", "abort"}
  /\ web.len \in Nat /\ web.keep \in BOOLEAN /\ web.range \in Ranges \cup {-1}
  /\ reply.status \in Status /\ reply.from \in {"none", "file", "data"}
  /\ reply.length >= -1 /\ reply.sent \in Nat
  /\ file \in Sizes /\ edited \in BOOLEAN /\ framed \in BOOLEAN

Init ==
  /\ made = <<>> /\ unsent = <<>> /\ wire = <<>>
  /\ eof = FALSE /\ strained = FALSE
  /\ pc = "header" /\ web = Blank /\ body = <<>> /\ reply = NoReply
  /\ file \in Sizes /\ edited = FALSE /\ framed = TRUE

Open == pc \notin {"closed", "abort"}

-----------------------------------------------------------------------------
(* The client.                                                             *)

Units(n, r) ==
  <<[req |-> n, part |-> "front"], [req |-> n, part |-> "back"]>>
    \o [i \in 1..r.len |-> [req |-> n, part |-> "body"]]

(* A client that waits for each answer makes the next request when it has  *)
(* seen the end of the last one; one that does not wait puts strain on the *)
(* reader, and so does a body where none is expected.                      *)
MakeRequest ==
  /\ Open /\ ~eof /\ unsent = <<>> /\ Len(made) < MaxReq
  /\ \E r \in Request :
       /\ made' = Append(made, r)
       /\ unsent' = Units(Len(made) + 1, r)
       /\ strained' = \/ strained
                      \/ ~(pc = "header" /\ wire = <<>> /\ framed)
                      \/ r.method # "post" /\ r.len > 0
  /\ UNCHANGED <<wire, eof, pc, web, body, reply, file, edited, framed>>

(* The stream delivers in pieces.  A header that arrives in two is strain. *)
Deliver ==
  /\ Open
  /\ \E k \in 1..Len(unsent) :
       /\ wire' = wire \o SubSeq(unsent, 1, k)
       /\ unsent' = SubSeq(unsent, k + 1, Len(unsent))
       /\ strained' = (strained \/ unsent[k].part = "front")
  /\ UNCHANGED <<made, eof, pc, web, body, reply, file, edited, framed>>

HalfClose ==
  /\ Open /\ ~eof
  /\ eof' = TRUE
  /\ unsent' = <<>>
  /\ strained' = (strained \/ unsent # <<>>)
  /\ UNCHANGED <<made, wire, pc, web, body, reply, file, edited, framed>>

(* Whoever owns the files may change one at any moment.                    *)
Edit ==
  /\ pc \in {"measure", "send"} /\ reply.from = "file"
  /\ file' \in Sizes \ {file}
  /\ edited' = TRUE
  /\ UNCHANGED clientVars
  /\ UNCHANGED <<wire, strained, pc, web, body, reply, framed>>

-----------------------------------------------------------------------------
(* Reading.  recv gives what has arrived, up to the size of the buffer; ''  *)
(* when the client has closed; nil when nothing came for 100 seconds.      *)

Took    == IF Len(wire) < BufferSize THEN Len(wire) ELSE BufferSize
Data    == SubSeq(wire, 1, Took)
Waited  == wire = <<>> /\ ~eof

Whole(d) == Len(d) >= 2 /\ d[1].part = "front" /\ d[2].part = "back"
Front(d) == Len(d) = 1 /\ d[1].part = "front"

(* A header is understood in part when only a part of it came: nothing, or *)
(* its first line and some of the rest, with numbers and names cut as well.*)
CutShort(r) ==
  {Blank} \cup
  [method : {r.method}, target : {r.target}, len : 0..r.len, keep : {FALSE, r.keep},
   type : {t \in Types : \/ t = r.type
                        \/ (r.method = "post" /\ t = "none")
                        \/ (r.type = "form" /\ t = "other")},
   range : {-1} \cup {g \in Ranges : r.range # -1 /\ g <= r.range}]

(* What is no header is understood to say nothing.                         *)
Parsed(d) ==
  IF Whole(d) THEN {made[d[1].req]}
  ELSE IF Front(d) THEN CutShort(made[d[1].req])
  ELSE {Blank}

Refused(r) == r.method = "post" /\ r.type = "form" /\ r.len >= BufferSize

AfterHeader(r) ==
  IF r.method # "post" \/ r.len = 0 \/ Refused(r) THEN "route"
  ELSE IF r.type = "none" THEN "abort"
  ELSE "body"

ReadHeader ==
  /\ pc = "header"
  /\ wire # <<>> \/ eof
  /\ \E r \in Parsed(Data) :
       /\ web' = r
       /\ pc' = AfterHeader(r)
       /\ reply' = [NoReply EXCEPT !.status = IF Refused(r) THEN 413 ELSE 200, !.keep = r.keep]
  /\ body' = IF Whole(Data) THEN SubSeq(Data, 3, Len(Data)) ELSE <<>>
  /\ wire' = SubSeq(wire, Took + 1, Len(wire))
  /\ edited' = FALSE
  /\ UNCHANGED clientVars
  /\ UNCHANGED <<strained, file, framed>>

(* Nothing came: the answer is 408, and the connection is not kept.        *)
HeaderTimeout ==
  /\ pc = "header" /\ Waited
  /\ pc' = "route"
  /\ web' = Blank
  /\ reply' = [NoReply EXCEPT !.status = 408]
  /\ body' = <<>>
  /\ edited' = FALSE
  /\ strained' = (strained \/ unsent # <<>>)
  /\ UNCHANGED clientVars
  /\ UNCHANGED <<wire, file, framed>>

Missing == web.len - Len(body)

(* The loops for a form and for a file: once the client has closed, recv   *)
(* gives '' again and again, and the loop goes round without a change.     *)
ReadBody ==
  /\ pc = "body"
  /\ \/ /\ Missing > 0 /\ wire # <<>>
        /\ body' = body \o Data
        /\ wire' = SubSeq(wire, Took + 1, Len(wire))
        /\ UNCHANGED pc
     \/ /\ Missing <= 0
        /\ pc' = "route"
        /\ UNCHANGED <<body, wire>>
  /\ UNCHANGED clientVars
  /\ UNCHANGED <<strained, web, reply, file, edited, framed>>

(* Mutant: a read that fails is tried again.                               *)
BodyTimeoutRetried ==
  /\ pc = "body" /\ Missing > 0 /\ Waited
  /\ strained' = (strained \/ unsent # <<>>)
  /\ UNCHANGED clientVars
  /\ UNCHANGED <<wire, pc, web, body, reply, file, edited, framed>>

(* A read that fails ends the loop, and the request is served with what    *)
(* there is of its body.                                                   *)
BodyTimeout ==
  /\ pc = "body" /\ Missing > 0 /\ Waited
  /\ pc' = "route"
  /\ strained' = (strained \/ unsent # <<>>)
  /\ UNCHANGED clientVars
  /\ UNCHANGED <<wire, web, body, reply, file, edited, framed>>

-----------------------------------------------------------------------------
(* Answering.                                                              *)

(* What the path leads to; a script makes a page of any length.            *)
Found ==
  CASE web.target = "none"    -> {[reply EXCEPT !.status = IF @ = 408 THEN 408 ELSE 501]}
    [] web.target = "denied"  -> {[reply EXCEPT !.status = 401]}
    [] web.target = "missing" -> {[reply EXCEPT !.status = s] : s \in {404, 500}}
    [] web.target = "file"    -> {[reply EXCEPT !.from = "file"]}
    [] OTHER                  -> {[reply EXCEPT !.from = "data", !.data = n] : n \in Sizes}

(* For a status 4xx the site may have a page, to which the client is sent  *)
(* on, or a script, which may make any answer of it.                       *)
Page(r, s, n) == [r EXCEPT !.status = s, !.from = "data", !.data = n]
Hooked(r) ==
  IF r.status \notin 400..499 THEN {r}
  ELSE {r, [r EXCEPT !.status = 301]} \cup {Page(r, s, n) : s \in {r.status, 200}, n \in Sizes}

Route ==
  /\ pc = "route"
  /\ \/ /\ pc' = "measure"
        /\ \E f \in Found : \E r \in Hooked(f) : reply' = r
     \/ /\ web.target = "script"
        /\ pc' = "abort"
        /\ UNCHANGED reply
  /\ UNCHANGED clientVars
  /\ UNCHANGED <<wire, strained, web, body, file, edited, framed>>

(* The length is that of the file, or of the page if the file is empty; a  *)
(* range shortens it and makes any answer a 206; a length below one is not *)
(* announced; what is not a 2xx closes the connection.  A form that was    *)
(* refused for its length and is answered with a 2xx all the same, because *)
(* of a range or by the script for 4xx, is strain: its body stays unread.  *)
Length == IF reply.from = "file" THEN file
          ELSE IF reply.from = "data" THEN reply.data ELSE 0

Ranged == web.range > 0

(* Mutants: the connection is kept whatever the status; the range is only  *)
(* announced.                                                              *)
Kept(s) == reply.keep
AnnouncedWhole == Length

Keeps(s) == reply.keep /\ s \in 200..299

Announced == IF Ranged THEN Length - web.range ELSE Length

Measure ==
  /\ pc = "measure"
  /\ IF web.range = NoNumber
     THEN pc' = "abort" /\ UNCHANGED <<reply, strained>>
     ELSE LET s == IF Ranged THEN 206 ELSE reply.status IN
          /\ pc' = "send"
          /\ reply' = [reply EXCEPT
               !.status = s,
               !.length = IF Announced < 1 THEN -1 ELSE Announced,
               !.from = IF @ = "file" /\ file = 0 THEN "none" ELSE @,
               !.keep = Keeps(s)]
          /\ strained' = (strained \/ (Refused(web) /\ s \in 200..299))
  /\ UNCHANGED clientVars
  /\ UNCHANGED <<wire, web, body, file, edited, framed>>

(* A file is sent from the range on, as it is now; a page is sent whole.   *)
Bytes ==
  IF reply.from = "file"
  THEN IF ~Ranged THEN file
       ELSE IF file > web.range THEN file - web.range ELSE 0
  ELSE IF reply.from = "data" THEN reply.data ELSE 0

Send ==
  /\ pc = "send"
  /\ pc' = IF reply.keep THEN "header" ELSE "closed"
  /\ reply' = [reply EXCEPT !.sent = Bytes]
  /\ framed' = (reply.length = Bytes /\ web.method # "head")
  /\ UNCHANGED clientVars
  /\ UNCHANGED <<wire, strained, web, body, file, edited>>

-----------------------------------------------------------------------------
Worker ==
  ReadHeader \/ HeaderTimeout \/ ReadBody \/ BodyTimeout \/ Route \/ Measure \/ Send

Next == MakeRequest \/ Deliver \/ HalfClose \/ Edit \/ Worker

Spec == Init /\ [][Next]_vars

(* The worker's process runs, and its reads time out.                      *)
FairSpec == Spec /\ WF_vars(Worker)

-----------------------------------------------------------------------------
(* Properties.                                                             *)

(* While the client keeps to one whole header at a time and bodies where   *)
(* they are expected, each turn begins with a header: a body is read to    *)
(* its end or the connection is closed (web.lua:149-183, 303, 333).        *)
InStep ==
  pc = "header" /\ ~strained /\ wire \o unsent # <<>>
    => Head(wire \o unsent).part = "front"

(* A handler gets the body of its own request, all of it and nothing else, *)
(* when the client has sent it all (web.lua:149-183).                      *)
BodyWhole ==
  pc = "route" /\ ~strained /\ web.method = "post" /\ ~Refused(web)
    => /\ Len(body) = web.len
       /\ \A i \in 1..Len(body) : body[i].part = "body" /\ body[i].req = Len(made)

(* The worker never waits for more of a body that was sent completely: the *)
(* client would be waiting for the answer meanwhile (web.lua:152, 172).    *)
NoMutualWait ==
  ~(pc = "body" /\ Waited /\ unsent = <<>> /\ Missing > 0)

(* The bytes sent are those announced, and none are sent unannounced,      *)
(* ranges of a file included, provided that the file did not change; a     *)
(* range of a generated page is announced and not made, which leaves it    *)
(* out of this property (web.lua:283-328).                                 *)
HonestLength ==
  reply.sent > 0 /\ ~edited /\ ~(Ranged /\ reply.from = "data")
    => reply.sent = reply.length

(* Reading a body ends, at the latest when the client has been silent for  *)
(* the time of the timeout; a client that closes before the end of its     *)
(* body is the exception, for which the loop never ends (web.lua:152-159,  *)
(* 172-180).                                                               *)
BodyEnds == pc = "body" ~> (pc # "body" \/ eof)
=============================================================================
