SPECIFICATION MCSpec
CONSTANTS
  Paths <- MCPaths
  ClientAuth <- MCClientAuth
  Versions = {v1, v2}
  Accounts = {alice, bob}
  NoAccount = NoAccount
  MaxIssued = 5
INVARIANT CredentialsStayHome
INVARIANT OwnKeyUntouched
INVARIANT RetryIsSameRequest
INVARIANT TokenMatchesAccount
INVARIANT ExplanationIsTrue
CHECK_DEADLOCK FALSE
