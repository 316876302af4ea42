\* Four connections, three process identifiers and a backlog of two, so that
\* identifiers are used again and the queue fills up.  No symmetry, because of
\* the liveness properties.
CONSTANTS
  Conn = {c1, c2, c3, c4}
  Worker = {w1, w2, w3}
  Backlog = 2
  Master = Master
  Listener = Listener
  NoConn = NoConn
SPECIFICATION FairSpec
INVARIANTS ZombieBound SoleServer HandledMeansClosed
PROPERTIES QueueAnswered PortReleased ServesInOrder
\* The daemon may be killed and every connection be used up.
CHECK_DEADLOCK FALSE
