\* Four commands one after the other; the three that overlap have the first three
\* names, which are those of the stored files as well.
CONSTANTS
  Cmd = {a, b, c, d}
  Three = {a, b, c}
  Pair = {u, v}
  AtOnce = 3
  Records = 3
  Calls = 3
  Pid = {9, 10}
  MaxActive = 1
  ForkMayFail = TRUE
SPECIFICATION AllSpec
SYMMETRY Symmetry
INVARIANTS NamedDaemon KillsOnlyDaemons ReadableWhenOver AreaKept RecordsKept
PROPERTIES StopStops LoneRecovers EvictsOldest
\* Each command is given once, so the commands run out.
CHECK_DEADLOCK FALSE
