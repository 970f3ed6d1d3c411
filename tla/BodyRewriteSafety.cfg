SPECIFICATION Spec
CONSTANTS
  Providers = {"OpenAI", "Gemini"}
  Paths = {"a", "b"}
  Views = {"file", "slice"}
  NoPath = NoPath
  NoHash = NoHash
  Requests = {r1}
  MaxText = 2
  Turns <- SomeTurns
  Minimums = {1, 2}
  MaxCalls = 3
  MaxChange = 1
INVARIANTS
  StubsAreTrue
  StubsRetrievable
  JudgedByOwnSettings
PROPERTIES
  PrefixStable
