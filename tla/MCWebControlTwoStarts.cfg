\* Two commands at a time: does a later stop, given alone, stop the daemon?
CONSTANTS
  Cmd = {a, b, c}
  Pid = {9, 10, 90}
  MaxActive = 2
  ForkMayFail = FALSE
SPECIFICATION Spec
SYMMETRY Symmetry
PROPERTY StopStops
\* Each command is given once, so the commands run out.
CHECK_DEADLOCK FALSE
