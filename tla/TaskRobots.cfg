SPECIFICATION Spec
CONSTANTS
  p1 = p1
  p2 = p2
  r1 = r1
  r2 = r2
  c1 = c1
  c2 = c2
  Procs = {p1, p2}
  Robots = {r1, r2}
  Commands = {}
  Home <- RobotsApart
  Tasks = {1}
  TypeOf <- OneMonitor
  ForcedFail = {}
  MayRun = {1}
  Interval = 1
  RetryLimit = 1
  Faults = {"db", "send", "session", "crash"}
  MayHang = FALSE
  MaxRetries = 2
  RetryDelays = {0, 1}
  StuckAfter = 0
  NoTask = NoTask
  NoThread = NoThread
  NoKey = NoKey
  NoItem = NoItem
  Unset = Unset
  NoRow = NoRow
  Null = Null
  MaxTime = 2
  MaxInstant = 0
  MaxFaults = 2
  MaxQueue = 4
INVARIANTS TypeOK NoOverlap StopSilences
PROPERTIES ImplementsLifecycle
