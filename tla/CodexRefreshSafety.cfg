SPECIFICATION Spec
CONSTANTS
  Requests = {r1, r2}
  Pids = {p1}
  Nobody = Nobody
  Nothing = Nothing
  Torn = Torn
  MaxGrant = 3
  MaxCrash = 1
SYMMETRY Symmetric
INVARIANTS
  OneGrantPerBurst
  AuthFileCurrent
  TempOnlyWhileWritten
PROPERTIES
  NoRefreshTokenReplayed
  ForeignTempKept
