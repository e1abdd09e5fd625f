SPECIFICATION RouterSpec
CONSTANTS
  c1 = c1
  c2 = c2
  s1 = s1
  s2 = s2
  r1 = r1
  r2 = r2
  r3 = r3
  u1 = u1
  b1 = b1
  b2 = b2
  Cluster = {c1}
  Setting = {s1}
  Connects = {s1}
  Absent = Absent
  Request = {r1, r2}
  Releasing = {}
  Updater = {u1}
  MaxGen = 1
  NoHandle = NoHandle
  Database = {b1, b2}
  NoCluster = NoCluster
  Routes <- MCRoutes
  Kinds <- MCKinds
  MaxOpen = 1
  NoConn = NoConn
  NoOwner = NoOwner
  NoSchema = NoSchema
INVARIANT QueryGivesBack
