CONSTANTS
  N = 4
  MaxEntries = 1
  Profiles <- MCProfiles
SPECIFICATION Spec
INVARIANT NoDangling
INVARIANT TriColor
INVARIANT Finalized
PROPERTY FullCollects
CHECK_DEADLOCK FALSE
