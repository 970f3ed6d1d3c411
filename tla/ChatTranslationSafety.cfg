SPECIFICATION ChatSpec
CONSTANTS
  Calls = {c1, c2}
  NoCall = NoCall
  Histories <- SomeHistories
  Wide = {1}
  MaxChunk = 3
  MaxEvents = 7
  MaxAfter = 1
SYMMETRY Symmetric
CHECK_DEADLOCK FALSE
INVARIANTS
  EndsOnce
  StreamingAgrees
  HistorySurvives
