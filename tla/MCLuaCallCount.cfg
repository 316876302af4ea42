SPECIFICATION Spec
CONSTANTS
  N = 2
  Profiles <- Nested
INVARIANT CountsReturned
