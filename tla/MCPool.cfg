SPECIFICATION FairSpec
CONSTANTS
  c1 = c1
  c2 = c2
  s1 = s1
  s2 = s2
  s3 = s3
  r1 = r1
  r2 = r2
  u1 = u1
  u2 = u2
  Cluster = {c1}
  Setting = {s1, s2}
  Connects = {s1, s2}
  Absent = Absent
  Request = {r1, r2}
  Releasing = {r1}
  Updater = {u1, u2}
  MaxGen = 2
  NoHandle = NoHandle
INVARIANTS TypeOK LiveMatchesConfig MarkedIsOwned RefsCoverUsers
PROPERTIES ImplementsService UpdateReturns MarkedGetsClosed
