\* One of five parts in each behaviour; bounds are in the module.
SPECIFICATION AllSpec
CONSTANTS
  Nil = Nil
  Null = Null
  None = None
  Arrays <- SmallArrays
  MaxAny = 5
  Handles = {"in", "out", "h"}
  Files = {"stdin", "stdout", "f"}
  Iterators = {"it"}
  Lines = 1
  Formats <- SomeFormats
INVARIANTS Sorts RoundTrip MatchesAsSaid PutTogether Owned
PROPERTIES AsMap Returns NoneLeaks
