SPECIFICATION LifeFairSpec
CONSTANTS
  c1 = c1
  s1 = s1
  s2 = s2
  r1 = r1
  u1 = u1
  Cluster = {c1}
  Setting = {s1, s2}
  Connects = {s1, s2}
  Absent = Absent
  Request = {r1}
  Releasing = {}
  Updater = {u1}
  MaxGen = 2
  NoHandle = NoHandle
  MaxWriter = 2
CHECK_DEADLOCK FALSE
INVARIANTS LifeTypeOK DrainedBeforeClose ClosedAtExit AuditWritable CrashNeedsReload NoOrphan
PROPERTIES ServedUntilMarked ImplementsGracefulStop ShutdownEnds
