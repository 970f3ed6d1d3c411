SPECIFICATION TraceSpec
CONSTANTS
  Requests = {r1, r2, r3}
  Tables = {"prefix", "tools"}
  Keys <- SomeKeys
  RecencyCap = 2
  Expiries = {5, 60}
  Absent = Absent
  Bodies <- SomeBodies
  Fp <- SomeFp
  PrevSlots = 1
  BytesBudget = 4
  ToolsHashCap = 1
  SystemHashCap = 2
  MsgsHashCap = 2
SYMMETRY Symmetric
CHECK_DEADLOCK FALSE
INVARIANTS
  PendingExact
  ReadableOnlyIfBegun
  RollbackKeepsSends
  FailuresLeaveNoTrace
  FirstDifferenceReported
PROPERTIES
  SiblingInFlightSeen
