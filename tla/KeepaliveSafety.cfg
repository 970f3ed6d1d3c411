SPECIFICATION FairSpec
CONSTANTS
  Tick = 4
  Lead = 3
  Backoff = 7
  SpawnTimeout = 2
  Ttl = 1
  MaxTtl = 14
  Margin = 5
  FetchTime = 1
  Lifetime = 12
  MaxOutage = 6
  Unknown = Unknown
  Zeroed = Zeroed
  Nothing = Nothing
INVARIANT OutageBounded
PROPERTY FailedRunBacksOff
PROPERTY ExpiryIsRepaired
