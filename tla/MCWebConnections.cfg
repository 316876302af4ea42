\* Two requests or one answer of WebRequest (MCWebConnections says which), and
\* three clients of the proxy.  No symmetry, because of the liveness properties.
CONSTANTS
  MaxReq = 2
  BufferSize = 3
  Methods = {"get", "head", "post"}
  Types = {"form", "other", "none"}
  Lens = {0, 2, 3}
  Targets = {"file", "list", "script", "missing", "denied"}
  Ranges <- SomeRanges
  Sizes = {0, 1, 2}
  Client = {c1, c2, c3}
  AnswerLen = 2
SPECIFICATION AllSpec
INVARIANTS TurnsInStep HonestLength StreamInOrder
PROPERTIES BodyReadEnds EveryoneServed
\* The client makes a bounded number of requests, and the proxy may end.
CHECK_DEADLOCK FALSE
