SPECIFICATION FairSpec
CONSTANTS
  Callers = {t1, t2}
  Nobody = Nobody
  Nothing = Nothing
  Ttl = 1
  Margin = 1
  MaxTtl = 2
  Lifetimes = {2, 4}
  MaxTime = 2
  MaxEpoch = 1
INVARIANTS
  ServedWithinLimits
  InvalidationForcesReadUnlessRaced
PROPERTIES
  NoReadWhileGood
  EveryCallReturns
