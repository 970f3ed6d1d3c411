SPECIFICATION ChatSpec
CONSTANTS
  Calls = {c1, c2}
  NoCall = NoCall
  Histories <- SomeHistories
  Wide = {1}
  MaxChunk = 3
  MaxEvents = 2
  MaxAfter = 1
SYMMETRY Symmetric
CHECK_DEADLOCK FALSE
INVARIANTS
  FailureIsShown
