SPECIFICATION Spec
CONSTANTS
  p1 = p1
  p2 = p2
  r1 = r1
  r2 = r2
  c1 = c1
  c2 = c2
  Procs = {p1}
  Robots = {r1}
  Commands = {c1, c2}
  Home <- TwoCommands
  Tasks = {1, 2}
  TypeOf <- MonitorAndManual
  ForcedFail = {}
  MayRun = {1, 2}
  Interval = 1
  RetryLimit = 1
  Faults = {}
  MayHang = FALSE
  MaxRetries = 2
  RetryDelays = {0, 1}
  StuckAfter = 0
  NoTask = NoTask
  NoThread = NoThread
  NoKey = NoKey
  NoItem = NoItem
  Unset = Unset
  NoRow = NoRow
  Null = Null
  MaxTime = 1
  MaxInstant = 2
  MaxFaults = 2
  MaxQueue = 4
INVARIANTS ManualRunExecuted
