SPECIFICATION Spec
CONSTANTS
  Providers = {"OpenAI"}
  Paths = {"a", "b"}
  Views = {"file", "slice"}
  NoPath = NoPath
  NoHash = NoHash
  Requests = {r1}
  MaxText = 2
  Turns <- Lookings
  Minimums = {1, 2}
  MaxCalls = 3
  MaxChange = 1
INVARIANT CurrentViewSent
