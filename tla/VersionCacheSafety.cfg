SPECIFICATION MemoFairSpec
CONSTANTS
  Callers = {c1, c2}
  Releases = {v1, v2}
  Fallback = Fallback
  Pinned = Pinned
  Absent = Absent
  Broken = Broken
  Ttl = 2
  DetectTime = 2
INVARIANT VersionIsRecent
PROPERTY UpgradeIsServed
