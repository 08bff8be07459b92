CONSTANTS
  MaxLength = 4
  INT_MAX = 2047
SPECIFICATION Spec
INVARIANTS StaysInText NothingSkipped WordsWhole IdsRoundTrip
PROPERTIES TextEnds
CHECK_DEADLOCK FALSE
