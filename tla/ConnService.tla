---------------------------- MODULE ConnService ----------------------------
(***************************************************************************)
(* What the accept loop promises its clients, with no process and no       *)
(* descriptor in sight: connections are taken in the order in which they   *)
(* were made, each at most once, an ended connection stays ended, and when *)
(* the service shuts down whoever still waits is refused.                  *)
(***************************************************************************)
EXTENDS Sequences

CONSTANT Conn   \* the connections clients may make

VARIABLES line,    \* who waits, in order of arrival
          status,  \* what became of each connection
          open     \* the service accepts connections

cvars == <<line, status, open>>

Init ==
  /\ line = <<>>
  /\ status = [c \in Conn |-> "idle"]
  /\ open = TRUE

Arrive(c) ==
  /\ open
  /\ status[c] = "idle"
  /\ line' = Append(line, c)
  /\ status' = [status EXCEPT ![c] = "waiting"]
  /\ UNCHANGED open

Take ==
  /\ open
  /\ line # <<>>
  /\ line' = Tail(line)
  /\ status' = [status EXCEPT ![Head(line)] = "serving"]
  /\ UNCHANGED open

Leave(c) ==
  /\ status[c] = "serving"
  /\ status' = [status EXCEPT ![c] = "ended"]
  /\ UNCHANGED <<line, open>>

(* At most one connection ends with the service: the one in its hands.     *)
Shutdown(dropped) ==
  /\ open
  /\ open' = FALSE
  /\ line' = <<>>
  /\ \A c \in dropped : status[c] = "serving"
  /\ status' = [c \in Conn |->
                  IF status[c] = "waiting" THEN "refused"
                  ELSE IF c \in dropped THEN "ended" ELSE status[c]]

Next ==
  \/ \E c \in Conn : Arrive(c) \/ Leave(c) \/ Shutdown({c})
  \/ Take
  \/ Shutdown({})

Spec == Init /\ [][Next]_cvars
=============================================================================
