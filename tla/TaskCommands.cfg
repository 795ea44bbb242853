SPECIFICATION Spec
CONSTANTS
  p1 = p1
  p2 = p2
  r1 = r1
  r2 = r2
  c1 = c1
  c2 = c2
  Procs = {p1, p2}
  Robots = {r1}
  Commands = {c1, c2}
  Home <- RunsApart
  Tasks = {1}
  TypeOf <- OneMonitor
  ForcedFail = {1}
  MayRun = {1}
  Interval = 1
  RetryLimit = 1
  Faults = {"send", "answer", "crash"}
  MayHang = TRUE
  MaxRetries = 1
  RetryDelays = {0}
  StuckAfter = 0
  NoTask = NoTask
  NoThread = NoThread
  NoKey = NoKey
  NoItem = NoItem
  Unset = Unset
  NoRow = NoRow
  Null = Null
  MaxTime = 1
  MaxInstant = 0
  MaxFaults = 2
  MaxQueue = 3
INVARIANTS AttemptsDistinct AttemptsBounded
