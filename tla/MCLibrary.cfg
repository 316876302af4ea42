\* Three commands on two libraries and one exported file, all at a time;
\* the server has two texts of a library.
CONSTANTS
  Libs = {1, 2}
  Outs = {x}
  MaxCmd = 3
  Replies = {"none", "short", "long", "part", "page"}
SPECIFICATION Spec
INVARIANTS AtRest Undisturbed
\* Every command is given once.
CHECK_DEADLOCK FALSE
