\* Two attempts to open and two queries with every kind of result, packets
\* arriving in any segmentation.
CONSTANTS
  MaxOpen = 2
  MaxQuery = 2
  Kinds = {"ok", "err", "rows", "more", "moreRows", "killed", "cut"}
  Fields = 1
SPECIFICATION Spec
INVARIANTS RightSocket AnswersInTurn
\* Attempts and queries run out, and the program may end.
CHECK_DEADLOCK FALSE
