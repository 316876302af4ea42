\* One command after the other: does a started daemon get its port?
CONSTANTS
  Cmd = {a, b, c}
  Pid = {9, 10}
  MaxActive = 1
  ForkMayFail = FALSE
SPECIFICATION Spec
SYMMETRY Symmetry
INVARIANT StartServes
\* Each command is given once, so the commands run out.
CHECK_DEADLOCK FALSE
