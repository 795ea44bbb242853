------------------------ MODULE TaskExecution_proofs ------------------------
(***************************************************************************)
(* Type correctness of TaskExecution, that it uses the worker as JobRunner *)
(* allows, and its safety, for any processes, threads and tasks and any    *)
(* bounds.                                                                 *)
(*                                                                         *)
(* The first two are proved together: a thread's item is a job because     *)
(* only enqueue makes items, and a step is a step of JobRunner because     *)
(* what the callers submit are jobs and keys.  WorkerType is what          *)
(* JobRunner's steps keep of that, CmdHeld and StepHeld what the callers   *)
(* need.                                                                   *)
(*                                                                         *)
(* Safety: SingleTick, AttemptsDistinct, NoOverlap, that task_runs         *)
(* implements RunLifecycle, and two bounds: how many signals may follow    *)
(* the stop of a task (StopSilences), and how many attempts a run may see  *)
(* beyond the limit of the policy (AttemptsBounded).  Each says which      *)
(* faults it needs to exclude; the bounds need none.                       *)
(*                                                                         *)
(* NoOverlap, RunLifecycle and AttemptsBounded rest on Effects: of all the *)
(* steps of the system only six kinds write task_runs, one lets time pass, *)
(* and no other brings a worker to life or changes what a live worker      *)
(* works on.                                                               *)
(***************************************************************************)
EXTENDS TaskExecution, FiniteSetTheorems, TLAPS

-----------------------------------------------------------------------------
(* The worker's steps *)

(* The window number floor(n / Interval) stays within its bounds. *)
LEMMA DivBound ==
    ASSUME NEW I \in Nat \ {0}, NEW M \in Nat, NEW n \in 0 .. M
    PROVE  n \div I \in 0 .. M \div I
<1> DEFINE a == n \div I  b == M \div I
<1>1. /\ a \in Nat /\ I * a <= n
      /\ b \in Nat /\ M < I * (b + 1)
  OBVIOUS
<1>2. a > b => I * a >= I * (b + 1)
  BY <1>1
<1> QED
  BY <1>1, <1>2

(* The worker's types, with what JobRunner's TypeOK leaves out: a thread   *)
(* inside runOnce has an item.                                             *)
WorkerType ==
    /\ W!TypeOK
    /\ \A t \in Threads : W!Busy(t) => worker[t].item \in W!Items

(* From one await of runOnce to the next. *)
LEMMA GotoType ==
    ASSUME WorkerType, NEW t \in Threads,
           NEW from \in W!Stages \ {"idle"}, NEW to \in W!Stages \ {"idle"},
           W!Goto(t, from, to)
    PROVE  WorkerType'
BY DEF WorkerType, W!TypeOK, W!Busy, W!Goto, W!Stages

(* The end of runOnce. *)
LEMMA LeaveType ==
    ASSUME WorkerType, NEW t \in Threads, W!Leave(t), UNCHANGED dlq
    PROVE  WorkerType'
BY HomeAssumption DEF WorkerType, W!TypeOK, W!Busy, W!Leave, W!ReleaseKey, W!Idle, W!Stages

(* The shift of runOnce. *)
LEMMA TakeHeadType ==
    ASSUME WorkerType, NEW t \in Threads,
           NEW q \in Seq(W!Items), q # <<>>, W!TakeHead(t, q),
           keys' \in [Procs -> SUBSET Keys], UNCHANGED dlq
    PROVE  WorkerType'
<1>1. Head(q) \in W!Items /\ Tail(q) \in Seq(W!Items)
  OBVIOUS
<1> QED
  BY <1>1, HomeAssumption DEF WorkerType, W!TypeOK, W!Busy, W!TakeHead, W!Stages

(* Every way enqueue and runOnce answer a caller. *)
LEMMA SubmitType ==
    ASSUME WorkerType, NEW t \in Threads, NEW job \in Jobs,
           NEW key \in Keys \cup {NoKey},
           W!SubmitRun(t, job, key) \/ W!SubmitQueued(t, job, key)
           \/ W!SubmitRejected(t, key) \/ W!RejectedThenRun(t, key)
    PROVE  WorkerType'
<1> DEFINE p == Home[t]  x == [job |-> job, key |-> key]
<1>0. p \in Procs /\ x \in W!Items /\ queue[p] \in Seq(W!Items)
  BY HomeAssumption DEF WorkerType, W!TypeOK, W!Items
<1>1. /\ p \in Procs /\ x \in W!Items /\ queue[p] \in Seq(W!Items)
      /\ Append(queue[p], x) \in Seq(W!Items) /\ Append(queue[p], x) # <<>>
  BY <1>0
<1>2. CASE W!SubmitRun(t, job, key)
  <2>1. keys' \in [Procs -> SUBSET Keys]
    BY <1>2, HomeAssumption DEF WorkerType, W!TypeOK, W!SubmitRun, W!Reserve
  <2> QED
    BY <1>1, <1>2, <2>1, TakeHeadType DEF W!SubmitRun
<1>3. CASE W!SubmitQueued(t, job, key)
  BY <1>1, <1>3, HomeAssumption DEF WorkerType, W!TypeOK, W!SubmitQueued, W!Reserve, W!Busy
<1>4. CASE W!SubmitRejected(t, key)
  BY <1>4 DEF WorkerType, W!TypeOK, W!SubmitRejected, W!runnerVars, W!Busy
<1>5. CASE W!RejectedThenRun(t, key)
  <2>1. CASE queue[p] # <<>> /\ W!TakeHead(t, queue[p]) /\ UNCHANGED <<keys, dlq>>
    BY <1>1, <2>1, TakeHeadType DEF WorkerType, W!TypeOK
  <2>2. CASE UNCHANGED W!runnerVars
    BY <2>2 DEF WorkerType, W!TypeOK, W!runnerVars, W!Busy
  <2> QED
    BY <1>5, <2>1, <2>2 DEF W!RejectedThenRun
<1> QED
  BY <1>2, <1>3, <1>4, <1>5

(* A process restarts. *)
LEMMA RestartType ==
    ASSUME WorkerType, NEW p \in Procs, W!Restart(p)
    PROVE  WorkerType'
BY DEF WorkerType, W!TypeOK, W!Busy, W!Restart, W!Idle, W!Stages

(* The worker is left alone. *)
LEMMA StutterType ==
    ASSUME WorkerType, UNCHANGED runnerVars
    PROVE  WorkerType'
BY DEF WorkerType, W!TypeOK, W!Busy, runnerVars

-----------------------------------------------------------------------------
(* What the callers hold, and the rows *)

CmdHeld  == \A t \in Commands : cmd[t].at # "idle" => cmd[t].task \in Tasks
StepHeld == \A t \in Threads :
               AtStep(t, "recheck") \/ AtStep(t, "send") => JobTask(t) \in Tasks

TypeInv == TypeOK /\ WorkerType /\ CmdHeld /\ StepHeld

(* The statements on task_runs map rows to rows. *)
LEMMA RowTypes ==
    ASSUME NEW row \in Rows \cup {NoRow}, NEW time \in Nat, NEW at \in Nat \cup {Null}
    PROVE  /\ Started(row, time) \in Rows
           /\ Completed(row) \in Rows \cup {NoRow}
           /\ MarkedFailed(row, at) \in Rows \cup {NoRow}
           /\ Recovered(row, time) \in Rows \cup {NoRow}
           /\ AttemptsOf(row) \in Nat
<1> USE NoRowAssumption DEF Rows, FailedStatus
<1>1. Started(row, time) \in Rows
  BY DEF Started
<1>2. Completed(row) \in Rows \cup {NoRow}
  BY DEF Completed
<1>3. MarkedFailed(row, at) \in Rows \cup {NoRow}
  BY DEF MarkedFailed
<1>4. Recovered(row, time) \in Rows \cup {NoRow}
  BY DEF Recovered, Stuck
<1>5. AttemptsOf(row) \in Nat
  BY DEF AttemptsOf
<1> QED
  BY <1>1, <1>2, <1>3, <1>4, <1>5

(* retry_at is a time or NULL. *)
LEMMA RetryTimesType ==
    ASSUME NEW a \in Nat, NEW time \in Nat
    PROVE  RetryTimes(a, time) \subseteq Nat \cup {Null}
BY RetryDelaysAssumption DEF RetryTimes

(* A run belongs to a task. *)
LEMMA RunTask ==
    ASSUME NEW r \in RunIds PROVE r.task \in Tasks
BY DEF RunIds

(* Every answer that resumes runOnce. *)
LEMMA ProgressType ==
    ASSUME WorkerType, NEW t \in Threads, W!Progress(t)
    PROVE  WorkerType'
<1>1. CASE W!GateSkips(t) \/ W!FinishWritten(t) \/ W!Fail(t)
  BY <1>1, LeaveType DEF W!GateSkips, W!FinishWritten, W!Fail
<1>2. CASE W!GateOpens(t) \/ W!GateThrows(t) \/ W!HandlerReturns(t) \/ W!HandlerThrows(t)
  BY <1>2, GotoType DEF W!GateOpens, W!GateThrows, W!HandlerReturns, W!HandlerThrows, W!Stages
<1>3. CASE W!FinishThrows(t) \/ W!AttemptsRead(t) \/ W!MarkWritten(t) \/ W!CatchThrows(t)
  BY <1>3, GotoType DEF W!FinishThrows, W!AttemptsRead, W!MarkWritten, W!CatchThrows, W!Stages
<1> QED
  BY <1>1, <1>2, <1>3 DEF W!Progress

(* Every step of JobRunner keeps the types of the worker. *)
LEMMA WorkerNextType ==
    ASSUME WorkerType, [W!Next]_(W!runnerVars)
    PROVE  WorkerType'
<1>1. ASSUME NEW t \in Threads, W!Submit(t) PROVE WorkerType'
  BY <1>1, SubmitType DEF W!Submit
<1>2. ASSUME NEW t \in Threads, W!Progress(t) PROVE WorkerType'
  BY <1>2, ProgressType
<1>3. ASSUME NEW p \in Procs, W!Restart(p) PROVE WorkerType'
  BY <1>3, RestartType
<1>4. CASE UNCHANGED W!runnerVars
  BY <1>4, StutterType DEF W!runnerVars, runnerVars
<1> QED
  BY <1>1, <1>2, <1>3, <1>4 DEF W!Next

(* The robot's run key names a run. *)
LEMMA WindowId ==
    ASSUME NEW k \in Tasks, NEW time \in 0 .. MaxTime
    PROVE  Window(k, time) \in RunIds
<1>1. time \div Interval \in 0 .. MaxTime \div Interval
  BY DivBound, IntervalAssumption, BoundsAssumption
<1> QED
  BY <1>1 DEF Window, RunIds

-----------------------------------------------------------------------------
(* Each step of the system is a step of the workers or leaves them alone. *)

(* A submission by the robot is one of JobRunner. *)
LEMMA RobotSubmits ==
    ASSUME NEW t \in Threads, NEW job \in Jobs, NEW key \in Keys,
           RobotSubmit(t, job, key)
    PROVE  W!Next
BY DEF RobotSubmit, W!Next, W!Submit

(* A step of a tick. *)
LEMMA TickWorker ==
    ASSUME TypeInv, NEW t \in Robots, TickStart(t) \/ TickGoesOn(t)
    PROVE  [W!Next]_(W!runnerVars)
<1> USE DEF TypeInv
<1>1. t \in Threads
  BY DEF Threads
<1>2. CASE RunRetry(t)
  <2>1. PICK x \in tick[t].retries :
            RobotSubmit(t, [run |-> x.run, task |-> x.run.task],
                           [of |-> "retry", run |-> x.run])
    BY <1>2 DEF RunRetry
  <2>2. x.run \in RunIds
    BY DEF TypeOK
  <2>3. [run |-> x.run, task |-> x.run.task] \in Jobs
    BY <2>2, RunTask DEF Jobs
  <2>4. [of |-> "retry", run |-> x.run] \in Keys
    BY <2>2 DEF Keys
  <2> QED
    BY <1>1, <2>1, <2>3, <2>4, RobotSubmits
<1>3. CASE VisitTask(t)
  <2>1. PICK k \in tick[t].tasks :
            \/ RobotSubmit(t, [run |-> Window(k, now), task |-> k],
                              [of |-> "run", run |-> Window(k, now)])
            \/ UNCHANGED runnerVars
    BY <1>3 DEF VisitTask
  <2>2. k \in Tasks
    BY DEF TypeOK
  <2>3. Window(k, now) \in RunIds
    BY <2>2, WindowId DEF TypeOK
  <2>4. [run |-> Window(k, now), task |-> k] \in Jobs
    BY <2>2, <2>3 DEF Jobs
  <2>5. [of |-> "run", run |-> Window(k, now)] \in Keys
    BY <2>3 DEF Keys
  <2> QED
    BY <1>1, <2>1, <2>4, <2>5, RobotSubmits DEF runnerVars, W!runnerVars
<1> QED
  BY <1>2, <1>3 DEF TickStart, TickGoesOn, RecoverStuckTaskRuns, PickDueRetries,
     RetriesDone, ListTasks, ReleaseRobotLock, runnerVars, W!runnerVars

(* A step of a /run. *)
LEMMA CommandWorker ==
    ASSUME TypeInv, NEW t \in Commands, CommandStep(t)
    PROVE  [W!Next]_(W!runnerVars)
<1> USE DEF TypeInv
<1>1. t \in Threads
  BY DEF Threads
<1>2. CASE RunCommandSubmits(t)
  <2>1. PICK i \in 0 .. MaxInstant :
          LET r == Manual(cmd[t].task, i)
              job == [run |-> r, task |-> NoTask]
              key == [of |-> "run", run |-> r] IN
          W!SubmitRun(t, job, key) \/ W!SubmitQueued(t, job, key) \/ W!RejectedThenRun(t, key)
    BY <1>2 DEF RunCommandSubmits
  <2> DEFINE r == Manual(cmd[t].task, i)
  <2>2. r \in RunIds
    BY <1>2 DEF RunCommandSubmits, CmdHeld, Manual, RunIds
  <2>3. [run |-> r, task |-> NoTask] \in Jobs /\ [of |-> "run", run |-> r] \in Keys
    BY <2>2 DEF Jobs, Keys
  <2>4. Len(queue[Home[t]]) < MaxQueue
    BY <1>2 DEF RunCommandSubmits
  <2> QED
    BY <1>1, <2>1, <2>3, <2>4 DEF W!Next, W!Submit
<1>3. CASE RunCommandReturns(t)
  BY <1>3 DEF RunCommandReturns, runnerVars, W!runnerVars
<1> QED
  BY <1>2, <1>3 DEF CommandStep

(* A step of runOnce. *)
LEMMA RunnerWorker ==
    ASSUME NEW t \in Threads, RunnerStep(t)
    PROVE  W!Progress(t)
BY DEF RunnerStep, GateStartsRun, GateSkipsRun, GateFails, FinishesRun, FinishFails,
   ReadsAttempts, MarksFailed, CatchFails, FailsItem, W!Progress

(* A step of a handler. *)
LEMMA HandlerWorker ==
    ASSUME NEW t \in Threads, RobotHandler(t) \/ CommandHandler(t)
    PROVE  W!HandlerReturns(t) \/ W!HandlerThrows(t) \/ UNCHANGED runnerVars
BY DEF RobotHandler, CommandHandler, RobotIgnoresJob, PriceNotChecked, PriceForcedToFail,
   PriceChecked, RecheckActive, RecheckNotActive, SendSignal, SendFindsNoChat, SendFails,
   AiRuns, AiFails

(* Any step of the system. *)
LEMMA NextWorker ==
    ASSUME TypeInv, [Next]_vars
    PROVE  [W!Next]_(W!runnerVars)
<1> USE DEF runnerVars, W!runnerVars
<1>1. ASSUME NEW t \in Robots, TickStart(t) \/ TickGoesOn(t)
      PROVE  [W!Next]_(W!runnerVars)
  BY <1>1, TickWorker
<1>2. ASSUME NEW t \in Commands, CommandStep(t)
      PROVE  [W!Next]_(W!runnerVars)
  BY <1>2, CommandWorker
<1>3. ASSUME NEW t \in Threads, RunnerStep(t)
      PROVE  W!Next
  BY <1>3, RunnerWorker DEF W!Next
<1>4. ASSUME NEW t \in Threads, RobotHandler(t) \/ CommandHandler(t)
      PROVE  [W!Next]_(W!runnerVars)
  BY <1>4, HandlerWorker DEF W!Next, W!Progress
<1>5. ASSUME NEW t \in Commands, NEW k \in Tasks, RunCommand(t, k)
      PROVE  UNCHANGED W!runnerVars
  BY <1>5 DEF RunCommand
<1>6. ASSUME NEW ks, NEW s, SetStatus(ks, s) PROVE UNCHANGED W!runnerVars
  BY <1>6 DEF SetStatus
<1>7. CASE Clock \/ LoseSession \/ UNCHANGED vars
  BY <1>7 DEF Clock, LoseSession, vars
<1>8. ASSUME NEW p \in Procs, Crash(p) PROVE W!Next
  BY <1>8 DEF Crash, W!Next
<1> QED
  BY <1>1, <1>2, <1>3, <1>4, <1>5, <1>6, <1>7, <1>8
     DEF Next, Threads, StartTask, StopTask, StopTasksType, StopAllTasks

-----------------------------------------------------------------------------
(* Submitting brings a thread to the gate and moves no other. *)

Arrives == \A u \in Threads : worker'[u] = worker[u] \/ worker'[u].stage = "gate"

(* enqueue and runOnce. *)
LEMMA SubmitArrives ==
    ASSUME WorkerType, NEW t \in Threads, NEW job, NEW key,
           W!SubmitRun(t, job, key) \/ W!SubmitQueued(t, job, key)
           \/ W!SubmitRejected(t, key) \/ W!RejectedThenRun(t, key)
    PROVE  Arrives
<1>1. ASSUME NEW q, W!TakeHead(t, q) PROVE Arrives
  BY <1>1 DEF Arrives, W!TakeHead, WorkerType, W!TypeOK
<1> QED
  BY <1>1 DEF W!SubmitRun, W!SubmitQueued, W!SubmitRejected, W!RejectedThenRun,
     W!runnerVars, Arrives

(* A step of a tick. *)
LEMMA TickArrives ==
    ASSUME WorkerType, NEW t \in Robots, TickStart(t) \/ TickGoesOn(t)
    PROVE  Arrives
<1>1. ASSUME NEW job, NEW key, RobotSubmit(t, job, key) PROVE Arrives
  BY <1>1, SubmitArrives DEF RobotSubmit, Threads
<1>2. CASE RunRetry(t)
  BY <1>1, <1>2 DEF RunRetry
<1>3. CASE VisitTask(t)
  BY <1>1, <1>3 DEF VisitTask, Arrives, runnerVars
<1> QED
  BY <1>2, <1>3 DEF TickStart, TickGoesOn, RecoverStuckTaskRuns, PickDueRetries,
     RetriesDone, ListTasks, ReleaseRobotLock, Arrives, runnerVars

(* A step of a /run. *)
LEMMA CommandArrives ==
    ASSUME WorkerType, NEW t \in Commands, CommandStep(t)
    PROVE  Arrives
<1>1. CASE RunCommandSubmits(t)
  BY <1>1, SubmitArrives DEF RunCommandSubmits, Threads
<1>2. CASE RunCommandReturns(t)
  BY <1>2 DEF RunCommandReturns, Arrives, runnerVars
<1> QED
  BY <1>1, <1>2 DEF CommandStep

(* A thread that has just arrived is at no step of a handler. *)
LEMMA ArrivesStepHeld ==
    ASSUME StepHeld, Arrives, UNCHANGED local
    PROVE  StepHeld'
BY DEF StepHeld, Arrives, AtStep, JobTask

-----------------------------------------------------------------------------
(* Type correctness *)

TickStates == [at : {"idle", "recover", "pick", "retries", "list", "tasks"},
               retries : SUBSET [run : RunIds, due : Nat],
               tasks   : SUBSET Tasks]

(* The tick takes the lock. *)
LEMMA TickStartType ==
    ASSUME TypeInv, WorkerType', NEW t \in Robots, TickStart(t)
    PROVE  TypeInv'
<1>1. StepHeld'
  BY TickArrives, ArrivesStepHeld DEF TypeInv, TickStart
<1>2. tick' \in [Robots -> TickStates]
  <2>1. tick \in [Robots -> TickStates]
    BY DEF TypeInv, TypeOK, TickStates
  <2>2. tick' = tick \/ tick' = [tick EXCEPT ![t].at = "recover"]
    BY DEF TickStart, Advance
  <2> QED
    BY <2>1, <2>2 DEF TickStates
<1> QED
  BY <1>1, <1>2 DEF TypeInv, TypeOK, TickStates, CmdHeld, TickStart, WorkerType,
     dbVars, cmdVars, envVars, history

(* A tick goes on: what it holds are rows it has read. *)
LEMMA TickStatesType ==
    ASSUME TypeInv, NEW t \in Robots, TickGoesOn(t)
    PROVE  tick' \in [Robots -> TickStates]
<1>1. tick \in [Robots -> TickStates]
  BY DEF TypeInv, TypeOK, TickStates
<1>4. CASE RecoverStuckTaskRuns(t) \/ RetriesDone(t) \/ ReleaseRobotLock(t)
  BY <1>1, <1>4 DEF RecoverStuckTaskRuns, RetriesDone, ReleaseRobotLock, Advance, TickStates
<1>5. CASE PickDueRetries(t)
  <2>1. \A r \in DueRuns : r \in RunIds /\ runs[r].retryAt \in Nat
    BY NoRowAssumption DEF DueRuns, RetryDue, Rows, TypeInv, TypeOK
  <2>2. ASSUME NEW picked \in SUBSET DueRuns
        PROVE  {[run |-> r, due |-> runs[r].retryAt] : r \in picked}
                 \in SUBSET [run : RunIds, due : Nat]
    BY <2>1, <2>2
  <2>3. ASSUME NEW S \in SUBSET [run : RunIds, due : Nat],
               tick' = [tick EXCEPT ![t].at = "retries", ![t].retries = S]
        PROVE  tick' \in [Robots -> TickStates]
    BY <1>1, <2>3 DEF TickStates
  <2>4. CASE tick' = [tick EXCEPT ![t].at = "list"]
    BY <1>1, <2>4 DEF TickStates
  <2> QED
    BY <1>5, <2>2, <2>3, <2>4 DEF PickDueRetries
<1>6. CASE RunRetry(t)
  <2>1. PICK z \in tick[t].retries : tick' = [tick EXCEPT ![t].retries = @ \ {z}]
    BY <1>6 DEF RunRetry
  <2> QED
    BY <1>1, <2>1 DEF TickStates
<1>7. CASE ListTasks(t)
  <2>1. ASSUME NEW S \in SUBSET Tasks, tick' = [tick EXCEPT ![t].at = "tasks", ![t].tasks = S]
        PROVE  tick' \in [Robots -> TickStates]
    BY <1>1, <2>1 DEF TickStates
  <2>2. CASE tick' = [tick EXCEPT ![t].at = "tasks"]
    BY <1>1, <2>2 DEF TickStates
  <2> QED
    BY <1>7, <2>1, <2>2 DEF ListTasks
<1>8. CASE VisitTask(t)
  <2>1. PICK k \in tick[t].tasks : tick' = [tick EXCEPT ![t].tasks = @ \ {k}]
    BY <1>8 DEF VisitTask
  <2> QED
    BY <1>1, <2>1 DEF TickStates
<1> QED
  BY <1>4, <1>5, <1>6, <1>7, <1>8 DEF TickGoesOn

(* A tick goes on: the rest of the state. *)
LEMMA TickType ==
    ASSUME TypeInv, WorkerType', NEW t \in Robots, TickGoesOn(t)
    PROVE  TypeInv'
<1> USE DEF TypeInv, TypeOK, WorkerType, dbVars, cmdVars, envVars, history
<1>1. /\ UNCHANGED <<cmdVars, local, now, served, grace, status>>
      /\ CmdHeld' /\ StepHeld'
  <2>1. UNCHANGED <<cmdVars, local, now, served, grace, status>>
    BY DEF TickGoesOn, RecoverStuckTaskRuns, PickDueRetries, RunRetry, RetriesDone,
       ListTasks, VisitTask, ReleaseRobotLock
  <2>2. Arrives
    BY TickArrives
  <2> QED
    BY <2>1, <2>2, ArrivesStepHeld DEF CmdHeld
<1>2. faults' \in 0 .. MaxFaults
  BY BoundsAssumption DEF TickGoesOn, RecoverStuckTaskRuns, PickDueRetries, RunRetry,
     RetriesDone, ListTasks, VisitTask, ReleaseRobotLock, Fault
<1>3. runs' \in [RunIds -> Rows \cup {NoRow}] /\ timeouts' \in [RunIds -> Nat]
  <2>1. CASE RecoverStuckTaskRuns(t)
    <3>1. now \in Nat /\ \A r \in RunIds : runs[r] \in Rows \cup {NoRow}
      BY BoundsAssumption
    <3>2. \A r \in RunIds : Recovered(runs[r], now) \in Rows \cup {NoRow}
      BY <3>1, RowTypes
    <3>3. runs' \in [RunIds -> Rows \cup {NoRow}]
      <4>1. UNCHANGED runs \/ runs' = [r \in RunIds |-> Recovered(runs[r], now)]
        BY <2>1 DEF RecoverStuckTaskRuns
      <4> QED
        BY <3>1, <3>2, <4>1
    <3>4. timeouts' \in [RunIds -> Nat]
      <4>1. \/ UNCHANGED timeouts
            \/ timeouts' = [r \in RunIds |-> timeouts[r] + IF Stuck(runs[r], now) THEN 1 ELSE 0]
        BY <2>1 DEF RecoverStuckTaskRuns
      <4>2. timeouts \in [RunIds -> Nat]
        OBVIOUS
      <4> HIDE DEF TypeInv, TypeOK, WorkerType
      <4> QED
        BY <4>1, <4>2
    <3> QED
      BY <3>3, <3>4
  <2> QED
    BY <2>1 DEF TickGoesOn, PickDueRetries, RunRetry, RetriesDone,
       ListTasks, VisitTask, ReleaseRobotLock
<1>4. lock' \in Robots \cup {NoThread}
  BY DEF TickGoesOn, RecoverStuckTaskRuns, PickDueRetries,
     RunRetry, RetriesDone, ListTasks, VisitTask, ReleaseRobotLock
<1>5. price' \in [Procs -> [Tasks -> Nat \cup {Unset}]]
  <2>1. CASE VisitTask(t)
    <3>1. CASE UNCHANGED price
      BY <3>1
    <3>2. ASSUME NEW k \in Tasks, price' = [price EXCEPT ![Home[t]][k] = now]
          PROVE  price' \in [Procs -> [Tasks -> Nat \cup {Unset}]]
      <4>1. Home[t] \in Procs /\ now \in Nat
        BY HomeAssumption, BoundsAssumption DEF Threads
      <4> HIDE DEF TypeInv, TypeOK, WorkerType
      <4>2. price \in [Procs -> [Tasks -> Nat \cup {Unset}]]
        BY DEF TypeInv, TypeOK
      <4> QED
        BY <3>2, <4>1, <4>2
    <3>3. tick[t].tasks \subseteq Tasks
      OBVIOUS
    <3> QED
      BY <2>1, <3>1, <3>2, <3>3 DEF VisitTask
  <2> QED
    BY <2>1 DEF TickGoesOn, RecoverStuckTaskRuns, PickDueRetries, RunRetry, RetriesDone,
       ListTasks, ReleaseRobotLock
<1>6. tick' \in [Robots -> TickStates]
  BY TickStatesType DEF TickStates
<1> QED
  BY <1>1, <1>2, <1>3, <1>4, <1>5, <1>6 DEF TickStates

(* /run reads its task, submits, returns. *)
LEMMA CommandType ==
    ASSUME TypeInv, WorkerType', NEW t \in Commands,
           CommandStep(t) \/ \E k \in Tasks : RunCommand(t, k)
    PROVE  TypeInv'
<1> USE DEF TypeInv, TypeOK, WorkerType, dbVars, robotVars, envVars, history, runnerVars
<1>1. UNCHANGED <<dbVars, robotVars, local, envVars, history>>
  BY DEF CommandStep, RunCommandSubmits, RunCommandReturns, RunCommand
<1>2. StepHeld'
  <2>1. CASE CommandStep(t)
    BY <1>1, <2>1, CommandArrives, ArrivesStepHeld
  <2>2. CASE \E k \in Tasks : RunCommand(t, k)
    BY <2>2 DEF RunCommand, StepHeld, AtStep, JobTask
  <2> QED
    BY <2>1, <2>2
<1>3. cmd' \in [Commands -> [at : {"idle", "ready", "running"}, task : Tasks \cup {NoTask}]]
  <2>0. cmd \in [Commands -> [at : {"idle", "ready", "running"}, task : Tasks \cup {NoTask}]]
    OBVIOUS
  <2>1. CASE RunCommandSubmits(t)
    <3>1. cmd' = [cmd EXCEPT ![t].at = "running"]
      BY <2>1 DEF RunCommandSubmits
    <3> HIDE DEF TypeInv, TypeOK, WorkerType
    <3> QED
      BY <2>0, <3>1
  <2>2. CASE RunCommandReturns(t)
    <3>1. cmd' = [cmd EXCEPT ![t] = IdleCmd]
      BY <2>2 DEF RunCommandReturns
    <3> HIDE DEF TypeInv, TypeOK, WorkerType
    <3> QED
      BY <2>0, <3>1 DEF IdleCmd
  <2>3. ASSUME NEW k \in Tasks, RunCommand(t, k)
        PROVE  cmd' \in [Commands -> [at : {"idle", "ready", "running"},
                                     task : Tasks \cup {NoTask}]]
    BY <2>3 DEF RunCommand
  <2> QED
    BY <2>1, <2>2, <2>3 DEF CommandStep
<1>4. instant' \in 0 .. MaxInstant
  BY DEF CommandStep, RunCommandSubmits, RunCommandReturns, RunCommand
<1>5. CmdHeld'
  <2>1. CASE RunCommandSubmits(t)
    BY <2>1 DEF RunCommandSubmits, CmdHeld
  <2>2. CASE RunCommandReturns(t)
    BY <2>2 DEF RunCommandReturns, IdleCmd, CmdHeld
  <2>3. ASSUME NEW k \in Tasks, RunCommand(t, k) PROVE CmdHeld'
    BY <2>3 DEF RunCommand, CmdHeld
  <2> QED
    BY <2>1, <2>2, <2>3 DEF CommandStep
<1> QED
  BY <1>1, <1>2, <1>3, <1>4, <1>5

(* What a step of runOnce leaves to its caller. *)
LEMMA RunnerMoves ==
    ASSUME WorkerType, NEW t \in Threads, RunnerStep(t)
    PROVE  /\ W!Busy(t)
           /\ \A u \in Threads \ {t} : worker'[u] = worker[u]
           /\ GateStartsRun(t) \/ worker'[t].stage # "handler"
BY DEF WorkerType, W!TypeOK, RunnerStep, GateSkipsRun, GateStartsRun, GateFails, FinishesRun,
   FinishFails, ReadsAttempts, MarksFailed, CatchFails, FailsItem, W!Goto, W!Leave, W!Idle,
   W!GateOpens, W!GateSkips, W!GateThrows, W!FinishWritten, W!FinishThrows, W!AttemptsRead,
   W!MarkWritten, W!CatchThrows, W!Fail, W!Busy

Locals == [step : {"none", "start", "recheck", "send"}, attempt : Nat, seen : Nat]

(* runOnce and its writes to task_runs. *)
LEMMA RunnerType ==
    ASSUME TypeInv, WorkerType', NEW t \in Threads, RunnerStep(t)
    PROVE  TypeInv'
<1> USE DEF TypeInv, TypeOK, WorkerType, dbVars, robotVars, cmdVars, envVars, history
<1>0. RunOf(t) \in RunIds
  BY RunnerMoves DEF RunOf, W!Items, Jobs
<1>1. UNCHANGED <<status, robotVars, cmdVars, now, history>>
  BY DEF RunnerStep, GateStartsRun, GateSkipsRun, GateFails, FinishesRun,
     FinishFails, ReadsAttempts, MarksFailed, CatchFails, FailsItem
<1>2. faults' \in 0 .. MaxFaults
  BY BoundsAssumption DEF RunnerStep, GateStartsRun, GateSkipsRun, GateFails, FinishesRun,
     FinishFails, ReadsAttempts, MarksFailed, CatchFails, FailsItem, Fault
<1>3. /\ now \in Nat
      /\ \A r \in RunIds : /\ Started(runs[r], now) \in Rows
                            /\ Completed(runs[r]) \in Rows \cup {NoRow}
                            /\ AttemptsOf(runs[r]) \in Nat
      /\ \A r \in RunIds, at \in Nat \cup {Null} :
             MarkedFailed(runs[r], at) \in Rows \cup {NoRow}
  <2>1. now \in Nat /\ \A r \in RunIds : runs[r] \in Rows \cup {NoRow}
    BY BoundsAssumption
  <2> HIDE DEF TypeInv, TypeOK, WorkerType
  <2> QED
    BY <2>1, RowTypes
<1>4. runs' \in [RunIds -> Rows \cup {NoRow}]
  <2>1. CASE MarksFailed(t)
    <3>1. RetryTimes(local[t].seen, now) \subseteq Nat \cup {Null}
      BY <1>3, RetryTimesType
    <3>2. PICK at \in RetryTimes(local[t].seen, now) :
              runs' = [runs EXCEPT ![RunOf(t)] = MarkedFailed(@, at)]
      BY <2>1 DEF MarksFailed
    <3>3. MarkedFailed(runs[RunOf(t)], at) \in Rows \cup {NoRow}
      BY <1>0, <1>3, <3>1
    <3> QED
      BY <1>0, <3>2, <3>3
  <2>2. ASSUME NEW row \in Rows \cup {NoRow}, runs' = [runs EXCEPT ![RunOf(t)] = row]
        PROVE  runs' \in [RunIds -> Rows \cup {NoRow}]
    BY <1>0, <2>2
  <2>3. \/ UNCHANGED runs
        \/ runs' = [runs EXCEPT ![RunOf(t)] = Started(@, now)]
        \/ runs' = [runs EXCEPT ![RunOf(t)] = Completed(@)]
        \/ MarksFailed(t)
    BY DEF RunnerStep, GateStartsRun, GateSkipsRun, GateFails, FinishesRun, FinishFails,
       ReadsAttempts, CatchFails, FailsItem
  <2> QED
    BY <1>0, <1>3, <2>1, <2>2, <2>3
<1>5. local' \in [Threads -> Locals]
  <2>0. local \in [Threads -> Locals]
    BY DEF Locals
  <2>1. CASE GateStartsRun(t)
    <3>1. Started(runs[RunOf(t)], now).attempts \in Nat
      BY <1>0, <1>3 DEF Rows
    <3> QED
      BY <2>0, <2>1, <3>1 DEF GateStartsRun, Locals
  <2>2. CASE ReadsAttempts(t)
    BY <1>0, <1>3, <2>0, <2>2 DEF ReadsAttempts, Locals
  <2> QED
    BY <2>0, <2>1, <2>2 DEF RunnerStep, GateSkipsRun, GateFails, FinishesRun,
       FinishFails, MarksFailed, CatchFails, FailsItem, NoLocal, Locals
<1>6. StepHeld'
  <2>0. StepHeld /\ WorkerType
    OBVIOUS
  <2>1. \A u \in Threads \ {t} : local'[u] = local[u]
    BY DEF RunnerStep, GateStartsRun, GateSkipsRun, GateFails, FinishesRun,
       FinishFails, ReadsAttempts, MarksFailed, CatchFails, FailsItem
  <2>2. CASE GateStartsRun(t)
    <3>1. local'[t].step = "start"
      BY <2>2 DEF GateStartsRun
    <3>2. ~AtStep(t, "recheck")' /\ ~AtStep(t, "send")'
      BY <3>1 DEF AtStep
    <3> HIDE DEF TypeInv, TypeOK, WorkerType
    <3> QED
      BY <2>0, <2>1, <3>2, RunnerMoves DEF StepHeld, AtStep, JobTask
  <2>3. CASE worker'[t].stage # "handler"
    <3> HIDE DEF TypeInv, TypeOK, WorkerType
    <3> QED
      BY <2>0, <2>1, <2>3, RunnerMoves DEF StepHeld, AtStep, JobTask
  <2> QED
    BY <2>2, <2>3, RunnerMoves
<1>7. CmdHeld'
  BY <1>1 DEF CmdHeld
<1> QED
  BY <1>1, <1>2, <1>4, <1>5, <1>6, <1>7 DEF Locals

(* What a step of a handler leaves to runOnce. *)
LEMMA HandlerMoves ==
    ASSUME WorkerType, NEW t \in Threads,
           W!HandlerReturns(t) \/ W!HandlerThrows(t) \/ UNCHANGED runnerVars
    PROVE  /\ \A u \in Threads \ {t} : worker'[u] = worker[u]
           /\ worker'[t] = worker[t] \/ worker'[t].stage # "handler"
BY DEF WorkerType, W!TypeOK, W!HandlerReturns, W!HandlerThrows, W!Goto, runnerVars

(* The handlers of the robot and of /run. *)
LEMMA HandlerType ==
    ASSUME TypeInv, WorkerType', NEW t \in Threads,
           (t \in Robots /\ RobotHandler(t)) \/ (t \in Commands /\ CommandHandler(t))
    PROVE  TypeInv'
<1> USE DEF TypeInv, TypeOK, WorkerType, dbVars, robotVars, cmdVars, envVars, history
<1> USE DEF RobotHandler, CommandHandler
<1>0. AtStep(t, "start") \/ AtStep(t, "recheck") \/ AtStep(t, "send")
  BY DEF RobotIgnoresJob, PriceNotChecked, PriceForcedToFail, PriceChecked,
     RecheckActive, RecheckNotActive, SendSignal, SendFindsNoChat, SendFails, AiRuns, AiFails
<1>1. W!Busy(t) /\ RunOf(t) \in RunIds
  BY <1>0 DEF AtStep, W!Busy, RunOf, W!Items, Jobs
<1>2. UNCHANGED <<dbVars, lock, tick, cmdVars, now, timeouts>>
  BY DEF RobotIgnoresJob, PriceNotChecked, PriceForcedToFail, PriceChecked,
     RecheckActive, RecheckNotActive, SendSignal, SendFindsNoChat, SendFails, AiRuns, AiFails
<1>3. faults' \in 0 .. MaxFaults
  BY BoundsAssumption DEF RobotIgnoresJob, PriceNotChecked, PriceForcedToFail, PriceChecked,
     RecheckActive, RecheckNotActive, SendSignal, SendFindsNoChat, SendFails, AiRuns, AiFails,
     Fault
<1>4. price' \in [Procs -> [Tasks -> Nat \cup {Unset}]]
  <2>1. CASE UNCHANGED price
    BY <2>1
  <2>2. ASSUME NEW k \in Tasks, price' = [price EXCEPT ![Home[t]][k] = now]
        PROVE  price' \in [Procs -> [Tasks -> Nat \cup {Unset}]]
    <3>1. /\ Home[t] \in Procs /\ now \in Nat
          /\ price \in [Procs -> [Tasks -> Nat \cup {Unset}]]
      BY HomeAssumption, BoundsAssumption
    <3> HIDE DEF TypeInv, TypeOK, WorkerType
    <3> QED
      BY <2>2, <3>1
  <2>3. CASE PriceNotChecked(t)
    BY <2>1, <2>2, <2>3 DEF PriceNotChecked, Monitors
  <2>4. CASE PriceChecked(t)
    BY <2>2, <2>4 DEF PriceChecked, Monitors
  <2> QED
    BY <2>1, <2>3, <2>4 DEF RobotIgnoresJob, PriceForcedToFail, RecheckActive,
       RecheckNotActive, SendSignal, SendFindsNoChat, SendFails, AiRuns, AiFails
<1>5. local' \in [Threads -> Locals]
  <2>1. local \in [Threads -> Locals]
    BY DEF Locals
  <2>2. \/ UNCHANGED local
        \/ \E s \in {"recheck", "send"} : local' = [local EXCEPT ![t].step = s]
    BY DEF RobotIgnoresJob, PriceNotChecked, PriceForcedToFail, PriceChecked, RecheckActive,
       RecheckNotActive, SendSignal, SendFindsNoChat, SendFails, AiRuns, AiFails
  <2> HIDE DEF TypeInv, TypeOK, WorkerType
  <2> QED
    BY <2>1, <2>2 DEF Locals
<1>6. served' \subseteq [run : RunIds, task : Tasks]
  <2>1. ASSUME NEW k \in Tasks, Serve(t, k)
        PROVE  served' \subseteq [run : RunIds, task : Tasks]
    BY <1>1, <2>1 DEF Serve
  <2>2. CASE PriceChecked(t)
    BY <2>1, <2>2 DEF PriceChecked, Monitors
  <2>3. CASE RecheckNotActive(t)
    BY <2>1, <2>3 DEF RecheckNotActive, StepHeld
  <2>4. CASE SendSignal(t)
    BY <2>1, <2>4 DEF SendSignal, StepHeld
  <2>5. CASE AiRuns(t)
    BY <2>1, <2>5, MayRunAssumption DEF AiRuns
  <2> QED
    BY <2>2, <2>3, <2>4, <2>5 DEF RobotIgnoresJob, PriceNotChecked, PriceForcedToFail,
       RecheckActive, SendFindsNoChat, SendFails, AiFails
<1>7. grace' \in [Tasks -> Int]
  <2>1. CASE SendSignal(t)
    <3>1. grace' = grace \/ grace' = [grace EXCEPT ![JobTask(t)] = @ - 1]
      BY <2>1 DEF SendSignal
    <3>2. grace \in [Tasks -> Int]
      OBVIOUS
    <3> HIDE DEF TypeInv, TypeOK, WorkerType
    <3> QED
      BY <3>1, <3>2
  <2> QED
    BY <2>1 DEF RobotIgnoresJob, PriceNotChecked, PriceForcedToFail, PriceChecked,
       RecheckActive, RecheckNotActive, SendFindsNoChat, SendFails, AiRuns, AiFails
<1>8. StepHeld'
  <2>1. /\ \A u \in Threads \ {t} : worker'[u] = worker[u] /\ local'[u] = local[u]
        /\ worker'[t] = worker[t] \/ worker'[t].stage # "handler"
    <3>1. W!HandlerReturns(t) \/ W!HandlerThrows(t) \/ UNCHANGED runnerVars
      BY HandlerWorker
    <3>2. \A u \in Threads \ {t} : local'[u] = local[u]
      BY DEF RobotIgnoresJob, PriceNotChecked, PriceForcedToFail, PriceChecked,
         RecheckActive, RecheckNotActive, SendSignal, SendFindsNoChat, SendFails, AiRuns, AiFails
    <3> QED
      BY <3>1, <3>2, HandlerMoves
  <2>2. worker'[t].stage = "handler" /\ local'[t].step \in {"recheck", "send"}
           => JobTask(t) \in Tasks
    <3>1. CASE PriceChecked(t)
      BY <3>1 DEF PriceChecked, Monitors
    <3>2. CASE UNCHANGED local
      BY <2>1, <3>2 DEF StepHeld, AtStep
    <3>3. CASE RecheckActive(t)
      BY <3>3 DEF RecheckActive, StepHeld
    <3> QED
      BY <3>1, <3>2, <3>3 DEF RobotIgnoresJob, PriceNotChecked, PriceForcedToFail,
         RecheckNotActive, SendSignal, SendFindsNoChat, SendFails, AiRuns, AiFails
  <2> QED
    BY <2>1, <2>2 DEF StepHeld, AtStep, JobTask
<1>9. CmdHeld'
  BY <1>2 DEF CmdHeld
<1> QED
  BY <1>2, <1>3, <1>4, <1>5, <1>6, <1>7, <1>8, <1>9 DEF Locals

(* The stop and start commands. *)
LEMMA SetStatusType ==
    ASSUME TypeInv, WorkerType', NEW ks, NEW st \in {"active", "stopped"}, SetStatus(ks, st)
    PROVE  TypeInv'
<1> USE DEF TypeInv, TypeOK, WorkerType, robotVars, cmdVars, envVars, runnerVars, SetStatus
<1>1. grace' \in [Tasks -> Int]
  <2>1. \A k \in Tasks : Cardinality(Senders(k)) \in Int
    <3>1. ASSUME NEW k \in Tasks PROVE Cardinality(Senders(k)) \in Nat
      <4>1. Senders(k) \subseteq Threads
        BY DEF Senders, Threads
      <4> QED
        BY <4>1, ThreadsAssumption, FS_Subset, FS_CardinalityType
    <3> QED
      BY <3>1
  <2> QED
    BY <2>1
<1>2. StepHeld' /\ CmdHeld'
  BY DEF StepHeld, CmdHeld, AtStep, JobTask
<1> QED
  BY <1>1, <1>2

(* A process exits and starts again. *)
LEMMA CrashType ==
    ASSUME TypeInv, WorkerType', NEW p \in Procs, Crash(p)
    PROVE  TypeInv'
<1> USE DEF TypeInv, TypeOK, WorkerType, dbVars, history
<1>1. faults' \in 0 .. MaxFaults
  BY BoundsAssumption DEF Crash, Fault
<1>2. tick' \in [Robots -> TickStates]
  BY DEF Crash, TickStates, IdleTick, Threads
<1>3. local' \in [Threads -> Locals]
  BY DEF Crash, Locals, NoLocal
<1>4. /\ cmd' \in [Commands -> [at : {"idle", "ready", "running"}, task : Tasks \cup {NoTask}]]
      /\ CmdHeld'
  BY DEF Crash, IdleCmd, CmdHeld
<1>5. StepHeld'
  BY DEF Crash, W!Restart, W!Idle, StepHeld, AtStep, JobTask
<1>6. lock' \in Robots \cup {NoThread} /\ price' \in [Procs -> [Tasks -> Nat \cup {Unset}]]
  BY DEF Crash
<1> QED
  BY <1>1, <1>2, <1>3, <1>4, <1>5, <1>6 DEF Crash, TickStates, Locals

(* Time passes, a session is lost, or nothing happens. *)
LEMMA ClockType ==
    ASSUME TypeInv, WorkerType', Clock \/ LoseSession \/ UNCHANGED vars
    PROVE  TypeInv'
<1> USE DEF TypeInv, TypeOK, WorkerType, dbVars, robotVars, cmdVars, envVars, history, runnerVars
<1>1. CmdHeld' /\ StepHeld'
  BY DEF Clock, LoseSession, vars, CmdHeld, StepHeld, AtStep, JobTask
<1> QED
  BY <1>1, BoundsAssumption DEF Clock, LoseSession, vars, Fault

(* The initial state. *)
LEMMA TypeInit == Init => TypeInv
<1> SUFFICES ASSUME Init PROVE TypeInv
  OBVIOUS
<1> USE DEF Init
<1>1. WorkerType
  BY DEF WorkerType, W!Init, W!TypeOK, W!Idle, W!Stages, W!Busy
<1>2. CmdHeld /\ StepHeld
  BY <1>1 DEF CmdHeld, StepHeld, IdleCmd, AtStep, NoLocal
<1>3. TypeOK
  BY <1>1, BoundsAssumption DEF TypeOK, WorkerType, IdleTick, IdleCmd, NoLocal
<1> QED
  BY <1>1, <1>2, <1>3 DEF TypeInv

(* Every step of Next. *)
LEMMA TypeStep ==
    ASSUME TypeInv, [Next]_vars
    PROVE  TypeInv'
<1>1. WorkerType'
  BY NextWorker, WorkerNextType DEF TypeInv
<1>2. ASSUME NEW t \in Robots, TickStart(t) \/ TickGoesOn(t) \/ RobotHandler(t)
      PROVE  TypeInv'
  BY <1>1, <1>2, TickStartType, TickType, HandlerType DEF Threads
<1>3. ASSUME NEW t \in Commands, CommandStep(t) \/ CommandHandler(t)
      PROVE  TypeInv'
  BY <1>1, <1>3, CommandType, HandlerType DEF Threads
<1>4. ASSUME NEW t \in Commands, NEW k \in Tasks, RunCommand(t, k)
      PROVE  TypeInv'
  BY <1>1, <1>4, CommandType
<1>5. ASSUME NEW t \in Threads, RunnerStep(t) PROVE TypeInv'
  BY <1>1, <1>5, RunnerType
<1>6. ASSUME NEW ks, NEW st \in {"active", "stopped"}, SetStatus(ks, st) PROVE TypeInv'
  BY <1>1, <1>6, SetStatusType
<1>7. CASE Clock \/ LoseSession \/ UNCHANGED vars
  BY <1>1, <1>7, ClockType
<1>8. ASSUME NEW p \in Procs, Crash(p) PROVE TypeInv'
  BY <1>1, <1>8, CrashType
<1> QED
  BY <1>2, <1>3, <1>4, <1>5, <1>6, <1>7, <1>8
     DEF Next, StartTask, StopTask, StopTasksType, StopAllTasks

(* The system's state has its types, and what a thread holds while it      *)
(* works for a job is a job: robotMock.js and dispatchTaskCommands.js never *)
(* hand runOnce an item it did not get from enqueue.                       *)
THEOREM TypeInvariant == Spec => []TypeInv
<1>1. TypeInv /\ [Next]_vars => TypeInv'
  BY TypeStep
<1> QED
  BY TypeInit, <1>1, PTL DEF Spec

(* The variables have the types TypeOK gives them: no row without a status *)
(* and a positive number of attempts, no run of a task that is none.       *)
THEOREM TypeCorrect == Spec => []TypeOK
<1>1. TypeInv => TypeOK
  BY DEF TypeInv
<1> QED
  BY TypeInvariant, <1>1, PTL

(* Embedded in the system, with the robots and the commands as its only    *)
(* callers and the database deciding its branches, the worker does nothing *)
(* that JobRunner does not allow.                                          *)
THEOREM UsesJobRunner == Spec => W!Spec
<1>1. Init => W!Init
  BY DEF Init
<1>2. TypeInv /\ [Next]_vars => [W!Next]_(W!runnerVars)
  BY NextWorker
<1> QED
  BY <1>1, <1>2, TypeInvariant, PTL DEF Spec, W!Spec

-----------------------------------------------------------------------------
(* One tick at a time *)

LockInv == \A t \in Robots : tick[t].at # "idle" => lock = t

(* At the start no tick is on its way. *)
LEMMA LockInit == Init => LockInv
BY DEF Init, LockInv, IdleTick

(* Only robotTick takes the lock, and only when it is free. *)
LEMMA LockStep ==
    ASSUME TypeInv, LockInv, "session" \notin Faults, [Next]_vars
    PROVE  LockInv'
<1> USE DEF TypeInv, TypeOK, LockInv, robotVars
<1>0. NoThread \notin Robots /\ tick \in [Robots -> TickStates]
  BY ThreadsAssumption DEF Threads, TickStates
<1>1. ASSUME NEW t \in Robots, TickStart(t) PROVE LockInv'
  BY <1>0, <1>1 DEF TickStart, Advance
<1>2. ASSUME NEW t \in Robots, TickGoesOn(t) PROVE LockInv'
  <2>1. tick[t].at # "idle" /\ lock = t
    BY <1>2 DEF TickGoesOn, RecoverStuckTaskRuns, PickDueRetries, RunRetry, RetriesDone,
       ListTasks, VisitTask, ReleaseRobotLock, Advance
  <2>2. \A u \in Robots \ {t} : tick'[u] = tick[u]
    BY <1>0, <1>2 DEF TickGoesOn, RecoverStuckTaskRuns, PickDueRetries, RunRetry,
       RetriesDone, ListTasks, VisitTask, ReleaseRobotLock, Advance
  <2>3. CASE ReleaseRobotLock(t)
    BY <1>0, <2>1, <2>2, <2>3 DEF ReleaseRobotLock, Advance
  <2>4. CASE ~ReleaseRobotLock(t)
    <3>1. UNCHANGED lock
      BY <1>2, <2>4 DEF TickGoesOn, RecoverStuckTaskRuns, PickDueRetries, RunRetry,
         RetriesDone, ListTasks, VisitTask
    <3> QED
      BY <2>1, <2>2, <3>1
  <2> QED
    BY <2>3, <2>4
<1>3. ASSUME NEW p \in Procs, Crash(p) PROVE LockInv'
  BY <1>0, <1>3 DEF Crash, IdleTick
<1>4. ASSUME UNCHANGED <<lock, tick>> PROVE LockInv'
  BY <1>4
<1>5. CASE \E t \in Robots : RobotHandler(t)
  BY <1>4, <1>5 DEF RobotHandler, RobotIgnoresJob, PriceNotChecked, PriceForcedToFail,
     PriceChecked, RecheckActive, RecheckNotActive, SendSignal, SendFindsNoChat, SendFails
<1>6. CASE \E t \in Commands : \/ CommandStep(t) \/ CommandHandler(t)
                               \/ \E k \in Tasks : RunCommand(t, k)
  BY <1>4, <1>6 DEF CommandStep, RunCommandSubmits, RunCommandReturns, CommandHandler,
     AiRuns, AiFails, RunCommand
<1>7. CASE \E t \in Threads : RunnerStep(t)
  BY <1>4, <1>7 DEF RunnerStep, GateStartsRun, GateSkipsRun, GateFails, FinishesRun,
     FinishFails, ReadsAttempts, MarksFailed, CatchFails, FailsItem
<1>8. ASSUME NEW ks, NEW st, SetStatus(ks, st) PROVE LockInv'
  BY <1>4, <1>8 DEF SetStatus
<1>9. CASE Clock \/ UNCHANGED vars
  BY <1>4, <1>9 DEF Clock, vars
<1> QED
  BY <1>1, <1>2, <1>3, <1>5, <1>6, <1>7, <1>8, <1>9
     DEF Next, StartTask, StopTask, StopTasksType, StopAllTasks, LoseSession, Fault

(* While no session that holds the advisory lock is lost, at most one tick *)
(* of all the processes is between tryAcquireRobotLock and                 *)
(* releaseRobotLock: it is the one the lock names.                         *)
THEOREM SingleTickHolds ==
    ASSUME "session" \notin Faults
    PROVE  Spec => []SingleTick
<1>1. TypeInv /\ LockInv /\ [Next]_vars => LockInv'
  BY LockStep
<1>2. LockInv => SingleTick
  BY DEF LockInv, SingleTick
<1> QED
  BY LockInit, <1>1, <1>2, TypeInvariant, PTL DEF Spec

-----------------------------------------------------------------------------
(* What the steps do to task_runs and to the live workers *)

(* No row changes, no time passes, no recovery, no worker comes to life.   *)
Quiet ==
    /\ UNCHANGED <<runs, now, timeouts>>
    /\ \A u \in Threads : Live(u)' => /\ Live(u)
                                      /\ RunOf(u)' = RunOf(u)
                                      /\ local'[u].attempt = local[u].attempt

(* The others stay as they are. *)
Alone(t) == \A u \in Threads \ {t} : worker'[u] = worker[u] /\ local'[u] = local[u]

Opens(t) ==
    /\ Alone(t) /\ Live(t)'
    /\ MayStart(runs[RunOf(t)], now)
    /\ runs' = [runs EXCEPT ![RunOf(t)] = Started(@, now)]
    /\ RunOf(t)' = RunOf(t)
    /\ local'[t].attempt = Started(runs[RunOf(t)], now).attempts

OpensUnnoticed(t) ==
    /\ "answer" \in Faults
    /\ Alone(t) /\ ~Live(t)'
    /\ MayStart(runs[RunOf(t)], now)
    /\ runs' = [runs EXCEPT ![RunOf(t)] = Started(@, now)]

Finishes(t) ==
    /\ Alone(t) /\ Live(t) /\ ~Live(t)'
    /\ runs' = [runs EXCEPT ![RunOf(t)] = Completed(@)]

FinishesUnnoticed(t) ==
    /\ "answer" \in Faults
    /\ Alone(t) /\ Live(t)
    /\ RunOf(t)' = RunOf(t) /\ local'[t] = local[t]
    /\ runs' = [runs EXCEPT ![RunOf(t)] = Completed(@)]

Marks(t) ==
    /\ Alone(t) /\ Live(t) /\ ~Live(t)' /\ worker[t].stage = "mark"
    /\ \E at \in Nat \cup {Null} :
          /\ at \in RetryTimes(local[t].seen, now)
          /\ runs' = [runs EXCEPT ![RunOf(t)] = MarkedFailed(@, at)]

Recovers ==
    /\ UNCHANGED <<worker, local>>
    /\ runs' = [r \in RunIds |-> Recovered(runs[r], now)]
    /\ timeouts' = [r \in RunIds |-> timeouts[r] + IF Stuck(runs[r], now) THEN 1 ELSE 0]

WritesRow(t) ==
    Opens(t) \/ OpensUnnoticed(t) \/ Finishes(t) \/ FinishesUnnoticed(t) \/ Marks(t)

Effect ==
    \/ Quiet
    \/ Clock
    \/ UNCHANGED now /\ Recovers
    \/ UNCHANGED <<now, timeouts>> /\ \E t \in Threads : W!Busy(t) /\ WritesRow(t)

(* A submission brings nobody past the gate. *)
LEMMA ArrivesQuiet ==
    ASSUME Arrives, UNCHANGED <<runs, now, local, timeouts>>
    PROVE  Quiet
BY DEF Arrives, Quiet, Live, RunOf

(* A step of a tick. *)
LEMMA TickEffect ==
    ASSUME TypeInv, NEW t \in Robots, TickStart(t) \/ TickGoesOn(t)
    PROVE  Effect
<1>1. Arrives
  BY TickArrives DEF TypeInv
<1>2. CASE RecoverStuckTaskRuns(t)
  <2>1. UNCHANGED <<worker, local, now>>
    BY <1>2 DEF RecoverStuckTaskRuns, runnerVars
  <2>2. CASE /\ runs' = [r \in RunIds |-> Recovered(runs[r], now)]
             /\ timeouts' = [r \in RunIds |->
                               timeouts[r] + IF Stuck(runs[r], now) THEN 1 ELSE 0]
    BY <2>1, <2>2 DEF Effect, Recovers
  <2>3. CASE UNCHANGED <<runs, timeouts>>
    BY <1>1, <2>1, <2>3, ArrivesQuiet DEF Effect
  <2> QED
    BY <1>2, <2>2, <2>3 DEF RecoverStuckTaskRuns
<1>3. CASE ~RecoverStuckTaskRuns(t)
  <2>1. UNCHANGED <<runs, local, now, timeouts>>
    BY <1>3 DEF TickStart, TickGoesOn, PickDueRetries, RunRetry, RetriesDone, ListTasks,
       VisitTask, ReleaseRobotLock, dbVars, envVars, history
  <2> QED
    BY <1>1, <2>1, ArrivesQuiet DEF Effect
<1> QED
  BY <1>2, <1>3

(* A step of a /run. *)
LEMMA CommandEffect ==
    ASSUME TypeInv, NEW t \in Commands,
           CommandStep(t) \/ \E k \in Tasks : RunCommand(t, k)
    PROVE  Effect
<1>1. UNCHANGED <<runs, local, now, timeouts>>
  BY DEF CommandStep, RunCommandSubmits, RunCommandReturns, RunCommand, dbVars, envVars,
     history
<1>2. Arrives
  <2>1. CASE CommandStep(t)
    BY <2>1, CommandArrives DEF TypeInv
  <2>2. CASE ~CommandStep(t)
    BY <2>2 DEF RunCommand, Arrives, runnerVars
  <2> QED
    BY <2>1, <2>2
<1> QED
  BY <1>1, <1>2, ArrivesQuiet DEF Effect

(* A worker that goes from one await of runOnce to another keeps its item. *)
LEMMA GotoFrame ==
    ASSUME WorkerType, NEW t \in Threads, NEW from, NEW to, W!Goto(t, from, to)
    PROVE  /\ \A u \in Threads \ {t} : worker'[u] = worker[u]
           /\ worker[t].stage = from /\ worker'[t].stage = to
           /\ worker'[t].item = worker[t].item
BY DEF WorkerType, W!TypeOK, W!Goto

(* A worker that returns from runOnce is idle. *)
LEMMA LeaveFrame ==
    ASSUME WorkerType, NEW t \in Threads, W!Leave(t)
    PROVE  /\ \A u \in Threads \ {t} : worker'[u] = worker[u]
           /\ worker'[t].stage = "idle"
BY DEF WorkerType, W!TypeOK, W!Leave, W!Idle

(* A step of runOnce. *)
LEMMA RunnerEffect ==
    ASSUME TypeInv, NEW t \in Threads, RunnerStep(t)
    PROVE  Effect
<1> DEFINE r == RunOf(t)
<1> USE DEF Effect, WritesRow
<1>0. /\ WorkerType /\ local \in [Threads -> Locals] /\ runs \in [RunIds -> Rows \cup {NoRow}]
      /\ now \in Nat
  BY BoundsAssumption DEF TypeInv, TypeOK, Locals
<1>1. W!Busy(t) /\ UNCHANGED <<now, timeouts>>
  BY <1>0, RunnerMoves DEF RunnerStep, GateStartsRun, GateSkipsRun, GateFails, FinishesRun,
     FinishFails, ReadsAttempts, MarksFailed, CatchFails, FailsItem, envVars, history
<1>2. Alone(t)
  <2>1. \A u \in Threads \ {t} : local'[u] = local[u]
    BY <1>0 DEF RunnerStep, GateStartsRun, GateSkipsRun, GateFails, FinishesRun,
       FinishFails, ReadsAttempts, MarksFailed, CatchFails, FailsItem
  <2> QED
    BY <1>0, <2>1, RunnerMoves DEF Alone
<1>3. CASE GateStartsRun(t)
  <2>1. worker'[t].item = worker[t].item /\ Live(t)'
    BY <1>0, <1>3, GotoFrame DEF GateStartsRun, W!GateOpens, Live
  <2>2. local'[t].attempt = Started(runs[r], now).attempts
    BY <1>0, <1>3 DEF GateStartsRun
  <2>3. Opens(t)
    BY <1>2, <1>3, <2>1, <2>2 DEF GateStartsRun, Opens, RunOf
  <2> QED
    BY <1>1, <2>3
<1>4. ASSUME UNCHANGED <<runs, now>>, ~Live(t)' PROVE Quiet
  BY <1>1, <1>2, <1>4 DEF Quiet, Alone, Live, RunOf
<1>5. CASE GateSkipsRun(t) \/ FailsItem(t)
  <2>1. worker'[t].stage = "idle"
    BY <1>0, <1>5, LeaveFrame DEF GateSkipsRun, FailsItem, W!GateSkips, W!Fail
  <2> QED
    BY <1>1, <1>4, <1>5, <2>1 DEF GateSkipsRun, FailsItem, dbVars, Live
<1>6. CASE GateFails(t)
  <2>1. ~Live(t)'
    BY <1>0, <1>6, GotoFrame DEF GateFails, W!GateThrows, Live
  <2>2. CASE UNCHANGED runs
    BY <1>1, <1>4, <2>1, <2>2
  <2>3. CASE /\ Fault("answer")
             /\ MayStart(runs[r], now) /\ runs' = [runs EXCEPT ![r] = Started(@, now)]
    BY <1>1, <1>2, <2>1, <2>3 DEF OpensUnnoticed, Fault
  <2> QED
    BY <1>6, <2>2, <2>3 DEF GateFails
<1>7. CASE FinishesRun(t)
  <2>1. Live(t) /\ ~Live(t)'
    BY <1>0, <1>7, LeaveFrame DEF FinishesRun, W!FinishWritten, Live
  <2> QED
    BY <1>1, <1>2, <1>7, <2>1 DEF FinishesRun, Finishes
<1>8. CASE FinishFails(t)
  <2>1. Live(t) /\ worker'[t].item = worker[t].item /\ local'[t] = local[t]
    BY <1>0, <1>8, GotoFrame DEF FinishFails, W!FinishThrows, Live
  <2>2. CASE UNCHANGED runs
    BY <1>1, <1>2, <2>1, <2>2 DEF Quiet, Alone, Live, RunOf
  <2>3. CASE Fault("answer") /\ runs' = [runs EXCEPT ![r] = Completed(@)]
    BY <1>1, <1>2, <2>1, <2>3 DEF FinishesUnnoticed, RunOf, Fault
  <2> QED
    BY <1>8, <2>2, <2>3 DEF FinishFails
<1>9. CASE ReadsAttempts(t)
  <2>1. Live(t) /\ worker'[t].item = worker[t].item
    BY <1>0, <1>9, GotoFrame DEF ReadsAttempts, W!AttemptsRead, Live
  <2>2. local'[t].attempt = local[t].attempt /\ UNCHANGED runs
    BY <1>0, <1>9 DEF ReadsAttempts, Locals, dbVars
  <2> QED
    BY <1>1, <1>2, <2>1, <2>2 DEF Quiet, Alone, Live, RunOf
<1>10. CASE MarksFailed(t)
  <2>1. Live(t) /\ ~Live(t)' /\ worker[t].stage = "mark"
    BY <1>0, <1>10, GotoFrame DEF MarksFailed, W!MarkWritten, Live
  <2>2. RetryTimes(local[t].seen, now) \subseteq Nat \cup {Null}
    BY <1>0, RetryTimesType DEF Locals
  <2> QED
    BY <1>1, <1>2, <1>10, <2>1, <2>2 DEF MarksFailed, Marks
<1>11. CASE CatchFails(t)
  <2>1. ~Live(t)'
    BY <1>0, <1>11, GotoFrame DEF CatchFails, W!CatchThrows, Live
  <2> QED
    BY <1>1, <1>4, <1>11, <2>1 DEF CatchFails, dbVars
<1> QED
  BY <1>3, <1>5, <1>6, <1>7, <1>8, <1>9, <1>10, <1>11 DEF RunnerStep

(* A step of a handler. *)
LEMMA HandlerEffect ==
    ASSUME TypeInv, NEW t \in Threads, RobotHandler(t) \/ CommandHandler(t)
    PROVE  Effect
<1>0. WorkerType /\ local \in [Threads -> Locals]
  BY DEF TypeInv, TypeOK, Locals
<1>1. UNCHANGED <<runs, now, timeouts>>
  BY DEF RobotHandler, CommandHandler, RobotIgnoresJob, PriceNotChecked, PriceForcedToFail,
     PriceChecked, RecheckActive, RecheckNotActive, SendSignal, SendFindsNoChat, SendFails,
     AiRuns, AiFails, dbVars, envVars, history
<1>2. \A u \in Threads : local'[u].attempt = local[u].attempt
  <2>1. local' = local \/ \E s \in {"recheck", "send"} : local' = [local EXCEPT ![t].step = s]
    BY DEF RobotHandler, CommandHandler, RobotIgnoresJob, PriceNotChecked, PriceForcedToFail,
       PriceChecked, RecheckActive, RecheckNotActive, SendSignal, SendFindsNoChat, SendFails,
       AiRuns, AiFails
  <2> QED
    BY <1>0, <2>1 DEF Locals
<1>3. \A u \in Threads : worker'[u].item = worker[u].item /\ (Live(u)' => Live(u))
  <2>1. CASE W!HandlerReturns(t)
    BY <1>0, <2>1, GotoFrame DEF W!HandlerReturns, Live
  <2>2. CASE W!HandlerThrows(t)
    BY <1>0, <2>2, GotoFrame DEF W!HandlerThrows, Live
  <2>3. CASE UNCHANGED runnerVars
    BY <2>3 DEF runnerVars, Live
  <2> QED
    BY <2>1, <2>2, <2>3, HandlerWorker
<1> QED
  BY <1>1, <1>2, <1>3 DEF Effect, Quiet, RunOf

(* Every step of the system has one of these effects. *)
LEMMA Effects ==
    ASSUME TypeInv, [Next]_vars
    PROVE  Effect
<1>1. ASSUME UNCHANGED <<runs, now, worker, local, timeouts>> PROVE Effect
  BY <1>1 DEF Effect, Quiet, Live, RunOf
<1>2. ASSUME NEW ks, NEW st, SetStatus(ks, st) PROVE Effect
  BY <1>1, <1>2 DEF SetStatus, envVars, runnerVars, history
<1>3. CASE LoseSession \/ UNCHANGED vars
  BY <1>1, <1>3 DEF LoseSession, vars, dbVars, envVars, runnerVars, history
<1>4. CASE Clock
  BY <1>4 DEF Effect
<1>5. ASSUME NEW p \in Procs, Crash(p) PROVE Effect
  <2>1. \A u \in Threads : Live(u)' => worker'[u] = worker[u] /\ local'[u] = local[u]
    BY <1>5 DEF Crash, W!Restart, W!Idle, Live
  <2> QED
    BY <1>5, <2>1 DEF Effect, Quiet, Crash, dbVars, history, Live, RunOf
<1> QED
  BY <1>2, <1>3, <1>4, <1>5, TickEffect, CommandEffect, RunnerEffect, HandlerEffect
     DEF Next, Threads, StartTask, StopTask, StopTasksType, StopAllTasks

(* The facts about types that the invariants below use. *)
LEMMA LiveTypes ==
    ASSUME TypeInv
    PROVE  /\ runs \in [RunIds -> Rows \cup {NoRow}]
           /\ now \in Nat
           /\ \A t \in Threads : W!Busy(t) => RunOf(t) \in RunIds
           /\ \A t \in Threads : Live(t) => W!Busy(t)
BY BoundsAssumption DEF TypeInv, TypeOK, WorkerType, W!Busy, W!Items, Jobs, RunOf, Live

(* Before the first step nobody is live. *)
LEMMA InitLive == Init => \A t \in Threads : ~Live(t)
BY DEF Init, W!Init, W!Idle, Live

-----------------------------------------------------------------------------
(* Attempts *)

AttemptsInv ==
    \A t \in Threads : Live(t) =>
       /\ runs[RunOf(t)] # NoRow
       /\ local[t].attempt \in Nat
       /\ local[t].attempt <= runs[RunOf(t)].attempts
       /\ \A u \in Threads \ {t} :
             Live(u) /\ RunOf(t) = RunOf(u) => local[t].attempt # local[u].attempt

(* What the statements do to the row of a run that has one. *)
LEMMA RowEffects ==
    ASSUME NEW row \in Rows, NEW time \in Nat, NEW at \in Nat \cup {Null}
    PROVE  /\ Started(row, time) # NoRow   /\ Started(row, time).attempts = row.attempts + 1
           /\ Completed(row) # NoRow       /\ Completed(row).attempts = row.attempts
           /\ MarkedFailed(row, at) # NoRow /\ MarkedFailed(row, at).attempts = row.attempts
           /\ Recovered(row, time) # NoRow /\ Recovered(row, time).attempts = row.attempts
           /\ row.attempts \in Nat
<1>1. /\ row # NoRow /\ row.attempts \in Nat
      /\ row = [status |-> row.status, attempts |-> row.attempts,
                retryAt |-> row.retryAt, startedAt |-> row.startedAt]
  BY NoRowAssumption DEF Rows
<1>2. Started(row, time) # NoRow /\ Started(row, time).attempts = row.attempts + 1
  BY <1>1, RowTypes, NoRowAssumption DEF Started
<1>3. Completed(row) # NoRow /\ Completed(row).attempts = row.attempts
  <2>1. [row EXCEPT !.status = "completed"] \in Rows
    BY DEF Rows
  <2> QED
    BY <1>1, <2>1, NoRowAssumption DEF Completed
<1>4. MarkedFailed(row, at) # NoRow /\ MarkedFailed(row, at).attempts = row.attempts
  <2>1. [row EXCEPT !.status = "failed", !.retryAt = at] \in Rows
    BY DEF Rows, FailedStatus
  <2> QED
    BY <1>1, <2>1, NoRowAssumption DEF MarkedFailed
<1>5. Recovered(row, time) # NoRow /\ Recovered(row, time).attempts = row.attempts
  <2>1. [row EXCEPT !.status = "failed_timeout", !.retryAt = time] \in Rows
    BY DEF Rows, FailedStatus
  <2> QED
    BY <1>1, <2>1, NoRowAssumption DEF Recovered
<1> QED
  BY <1>1, <1>2, <1>3, <1>4, <1>5

(* No statement deletes a row or lowers its attempts. *)
LEMMA RowsGrow ==
    ASSUME TypeInv, Effect, NEW r \in RunIds, runs[r] # NoRow
    PROVE  runs'[r] # NoRow /\ runs[r].attempts <= runs'[r].attempts
<1> DEFINE Grows(row) == row # NoRow /\ runs[r].attempts <= row.attempts
<1>0. runs \in [RunIds -> Rows \cup {NoRow}] /\ runs[r] \in Rows /\ now \in Nat
  BY LiveTypes
<1>1. /\ Grows(runs[r])
      /\ Grows(Started(runs[r], now))
      /\ Grows(Completed(runs[r]))
      /\ Grows(Recovered(runs[r], now))
      /\ \A at \in Nat \cup {Null} : Grows(MarkedFailed(runs[r], at))
  <2>1. runs[r].attempts \in Nat
    BY <1>0 DEF Rows
  <2> QED
    BY <1>0, <2>1, RowEffects
<1> SUFFICES Grows(runs'[r])
  OBVIOUS
<1> HIDE DEF Grows
<1>2. CASE UNCHANGED runs
  BY <1>1, <1>2
<1>3. CASE Recovers
  BY <1>1, <1>3 DEF Recovers
<1>4. ASSUME NEW t \in Threads, WritesRow(t)
      PROVE  Grows(runs'[r])
  BY <1>0, <1>1, <1>4
     DEF WritesRow, Opens, OpensUnnoticed, Finishes, FinishesUnnoticed, Marks
<1> QED
  BY <1>2, <1>3, <1>4 DEF Effect, Quiet, Clock, dbVars

(* A worker that passes the gate is ahead of all others on its run. *)
LEMMA AttemptsStep ==
    ASSUME TypeInv, TypeInv', AttemptsInv, Effect
    PROVE  AttemptsInv'
<1> DEFINE Same(u) == /\ Live(u) /\ RunOf(u)' = RunOf(u)
                      /\ local'[u].attempt = local[u].attempt
<1>0. /\ \A t \in Threads : Live(t) => RunOf(t) \in RunIds
      /\ \A r \in RunIds : /\ runs[r] # NoRow => runs[r].attempts \in Nat
                           /\ runs'[r] # NoRow => runs'[r].attempts \in Nat
  BY LiveTypes DEF Rows, TypeInv, TypeOK
<1>1. ASSUME \A u \in Threads : Live(u)' => Same(u)
      PROVE  AttemptsInv'
  <2>1. SUFFICES ASSUME NEW t \in Threads, Live(t)'
                 PROVE  /\ runs'[RunOf(t)'] # NoRow
                        /\ local'[t].attempt \in Nat
                        /\ local'[t].attempt <= runs'[RunOf(t)'].attempts
                        /\ \A u \in Threads \ {t} :
                              Live(u)' /\ RunOf(t)' = RunOf(u)'
                                 => local'[t].attempt # local'[u].attempt
    BY DEF AttemptsInv
  <2>2. /\ Same(t) /\ RunOf(t) \in RunIds /\ runs[RunOf(t)] # NoRow
        /\ local[t].attempt \in Nat /\ local[t].attempt <= runs[RunOf(t)].attempts
    BY <1>0, <1>1, <2>1 DEF AttemptsInv
  <2>3. runs'[RunOf(t)] # NoRow /\ runs[RunOf(t)].attempts <= runs'[RunOf(t)].attempts
    BY <2>2, RowsGrow
  <2>4. local[t].attempt <= runs'[RunOf(t)].attempts
    BY <1>0, <2>2, <2>3
  <2> QED
    BY <1>1, <2>1, <2>2, <2>3, <2>4 DEF AttemptsInv
<1>2. ASSUME NEW t \in Threads, W!Busy(t), Opens(t)
      PROVE  AttemptsInv'
  <2> DEFINE r == RunOf(t)
  <2>1. r \in RunIds /\ runs'[r] = Started(runs[r], now)
    BY <1>2, LiveTypes DEF Opens
  <2>2. /\ runs'[r] # NoRow /\ RunOf(t)' = r
        /\ local'[t].attempt = runs'[r].attempts /\ runs'[r].attempts \in Nat
    BY <1>0, <1>2, <2>1, LiveTypes, RowTypes, NoRowAssumption DEF Opens
  <2>3. ASSUME NEW u \in Threads \ {t}, Live(u)'
        PROVE  /\ Same(u)
               /\ runs'[RunOf(u)] # NoRow
               /\ local[u].attempt \in Nat
               /\ local[u].attempt <= runs'[RunOf(u)].attempts
               /\ RunOf(u) = r => local[u].attempt < runs'[r].attempts
    <3>1. Same(u)
      BY <1>2, <2>3 DEF Opens, Alone, Live, RunOf
    <3>2. /\ RunOf(u) \in RunIds /\ runs[RunOf(u)] # NoRow
          /\ local[u].attempt \in Nat /\ local[u].attempt <= runs[RunOf(u)].attempts
      BY <1>0, <3>1 DEF AttemptsInv
    <3>3. runs'[RunOf(u)] # NoRow /\ runs[RunOf(u)].attempts <= runs'[RunOf(u)].attempts
      BY <3>2, RowsGrow
    <3>4. RunOf(u) = r => runs'[r].attempts = runs[r].attempts + 1
      BY <2>1, <3>2 DEF Started
    <3> QED
      BY <1>0, <2>2, <3>1, <3>2, <3>3, <3>4
  <2> QED
    BY <1>2, <2>2, <2>3 DEF AttemptsInv
<1>3. ASSUME NEW t \in Threads, OpensUnnoticed(t) \/ Finishes(t) \/ Marks(t)
      PROVE  AttemptsInv'
  BY <1>1, <1>3 DEF OpensUnnoticed, Finishes, Marks, Alone, Live, RunOf
<1>4. ASSUME NEW t \in Threads, FinishesUnnoticed(t) PROVE AttemptsInv'
  BY <1>1, <1>4 DEF FinishesUnnoticed, Alone, Live, RunOf
<1>5. CASE Quiet
  BY <1>1, <1>5 DEF Quiet
<1>6. CASE Clock \/ Recovers
  BY <1>1, <1>6 DEF Clock, Recovers, runnerVars, Live, RunOf
<1> QED
  BY <1>2, <1>3, <1>4, <1>5, <1>6 DEF Effect, WritesRow

(* Two workers of one run never take themselves for the same attempt, and  *)
(* none is ahead of its row: whatever hangs, fails or is lost, each pass    *)
(* through the gate of tryStartTaskRun gets a number of its own.           *)
THEOREM AttemptsDistinctHolds == Spec => []AttemptsDistinct
<1>1. Init => AttemptsInv
  BY InitLive DEF AttemptsInv
<1>2. TypeInv /\ TypeInv' /\ AttemptsInv /\ [Next]_vars => AttemptsInv'
  BY Effects, AttemptsStep
<1>3. AttemptsInv => AttemptsDistinct
  BY DEF AttemptsInv, AttemptsDistinct
<1> QED
  BY <1>1, <1>2, <1>3, TypeInvariant, PTL DEF Spec

-----------------------------------------------------------------------------
(* No overlap *)

(* The row of a run that a worker is executing is running and not stuck;   *)
(* only an UPDATE whose answer was lost may have completed it already.     *)
LiveRow(row, time) ==
    /\ row # NoRow
    /\ row.status = "running" \/ ("answer" \in Faults /\ row.status = "completed")
    /\ ~Stuck(row, time)

OverlapInv == NoOverlap /\ \A t \in Threads : Live(t) => LiveRow(runs[RunOf(t)], now)

(* The gate lets nobody in on a run that is being executed. *)
LEMMA LiveShut ==
    ASSUME NEW row, NEW time, LiveRow(row, time) PROVE ~MayStart(row, time)
BY DEF LiveRow, MayStart, RetryDue, FailedStatus

(* The row that tryStartTaskRun leaves. *)
LEMMA StartedLive ==
    ASSUME NEW row \in Rows \cup {NoRow}, NEW time \in Nat
    PROVE  LiveRow(Started(row, time), time)
<1>1. Started(row, time) # NoRow
  BY RowTypes, NoRowAssumption
<1>2. Started(row, time).status = "running" /\ Started(row, time).startedAt = time
  BY DEF Started
<1>3. ~(time < time - StuckAfter)
  BY StuckAfterAssumption
<1> QED
  BY <1>1, <1>2, <1>3 DEF LiveRow, Stuck

(* The row that finishTaskRun leaves when its answer is lost. *)
LEMMA CompletedLive ==
    ASSUME NEW row \in Rows, NEW time, "answer" \in Faults
    PROVE  LiveRow(Completed(row), time)
<1>1. [row EXCEPT !.status = "completed"] \in Rows
  BY DEF Rows
<1>2. [row EXCEPT !.status = "completed"].status = "completed"
  BY DEF Rows
<1> QED
  BY <1>1, <1>2, NoRowAssumption DEF Completed, LiveRow, Stuck

(* No effect brings a second worker to a run. *)
LEMMA OverlapStep ==
    ASSUME TypeInv, OverlapInv, Effect, ~MayHang
    PROVE  OverlapInv'
<1> DEFINE Same(u) == Live(u) /\ RunOf(u)' = RunOf(u)
<1>0. /\ runs \in [RunIds -> Rows \cup {NoRow}]
      /\ \A t \in Threads : Live(t) => RunOf(t) \in RunIds
      /\ now \in Nat
  BY LiveTypes
<1>1. ASSUME \A u \in Threads : Live(u)' => Same(u) /\ LiveRow(runs'[RunOf(u)], now')
      PROVE  OverlapInv'
  BY <1>1 DEF OverlapInv, NoOverlap, LiveRow, Stuck
<1>2. CASE Quiet
  BY <1>1, <1>2 DEF Quiet, OverlapInv
<1>3. CASE Clock
  <2>1. \A u \in Threads : Live(u)' => Same(u)
    BY <1>3 DEF Clock, runnerVars, Live, RunOf
  <2>2. UNCHANGED runs /\ now' = now + 1
    BY <1>3 DEF Clock, dbVars
  <2>3. \A u \in Threads : Live(u) => LiveRow(runs[RunOf(u)], now + 1)
    BY <1>3 DEF Clock, OverlapInv, LiveRow
  <2> QED
    BY <1>1, <2>1, <2>2, <2>3
<1>4. CASE UNCHANGED now /\ Recovers
  <2>1. \A u \in Threads : Live(u)' => Same(u)
    BY <1>4 DEF Recovers, Live, RunOf
  <2>2. \A u \in Threads : Live(u) => runs'[RunOf(u)] = runs[RunOf(u)]
    BY <1>0, <1>4 DEF Recovers, Recovered, OverlapInv, LiveRow
  <2> QED
    BY <1>1, <1>4, <2>1, <2>2 DEF OverlapInv
<1>5. ASSUME NEW t \in Threads, W!Busy(t), UNCHANGED now, Opens(t)
      PROVE  OverlapInv'
  <2> DEFINE r == RunOf(t)
  <2>1. r \in RunIds /\ RunOf(t)' = r
    BY <1>5, LiveTypes DEF Opens
  <2>2. LiveRow(runs'[r], now)
    BY <1>0, <1>5, <2>1, StartedLive DEF Opens
  <2>3. ASSUME NEW u \in Threads \ {t}, Live(u)'
        PROVE  Same(u) /\ RunOf(u) # r /\ LiveRow(runs'[RunOf(u)], now)
    <3>1. Same(u)
      BY <1>5, <2>3 DEF Opens, Alone, Live, RunOf
    <3>2. LiveRow(runs[RunOf(u)], now) /\ RunOf(u) # r
      BY <1>5, <3>1, LiveShut DEF OverlapInv, Opens
    <3> QED
      BY <1>0, <1>5, <3>1, <3>2 DEF Opens
  <2> QED
    BY <1>5, <2>1, <2>2, <2>3 DEF OverlapInv, NoOverlap, LiveRow, Stuck
<1>6. ASSUME NEW t \in Threads, W!Busy(t), UNCHANGED now, OpensUnnoticed(t)
      PROVE  OverlapInv'
  <2>1. ASSUME NEW u \in Threads, Live(u)'
        PROVE  Same(u) /\ LiveRow(runs'[RunOf(u)], now')
    <3>1. Same(u)
      BY <1>6, <2>1 DEF OpensUnnoticed, Alone, Live, RunOf
    <3>2. LiveRow(runs[RunOf(u)], now) /\ RunOf(u) # RunOf(t)
      BY <1>6, <3>1, LiveShut DEF OverlapInv, OpensUnnoticed
    <3> QED
      BY <1>0, <1>6, <3>1, <3>2 DEF OpensUnnoticed
  <2> QED
    BY <1>1, <2>1
<1>7. ASSUME NEW t \in Threads, UNCHANGED now, Finishes(t) \/ Marks(t)
      PROVE  OverlapInv'
  <2>1. ASSUME NEW u \in Threads, Live(u)'
        PROVE  Same(u) /\ LiveRow(runs'[RunOf(u)], now')
    <3>1. u # t /\ Same(u)
      BY <1>7, <2>1 DEF Finishes, Marks, Alone, Live, RunOf
    <3>2. LiveRow(runs[RunOf(u)], now) /\ RunOf(u) # RunOf(t)
      BY <1>7, <3>1 DEF OverlapInv, NoOverlap, Finishes, Marks
    <3>3. runs'[RunOf(u)] = runs[RunOf(u)]
      BY <1>0, <1>7, <3>1, <3>2 DEF Finishes, Marks
    <3> QED
      BY <1>7, <3>1, <3>2, <3>3
  <2> QED
    BY <1>1, <2>1
<1>8. ASSUME NEW t \in Threads, UNCHANGED now, FinishesUnnoticed(t)
      PROVE  OverlapInv'
  <2>1. ASSUME NEW u \in Threads, Live(u)'
        PROVE  Same(u) /\ LiveRow(runs'[RunOf(u)], now')
    <3>1. Same(u) /\ LiveRow(runs[RunOf(u)], now) /\ RunOf(u) \in RunIds
      BY <1>0, <1>8, <2>1 DEF FinishesUnnoticed, Alone, Live, RunOf, OverlapInv
    <3>2. CASE RunOf(u) = RunOf(t)
      <4>1. runs[RunOf(u)] \in Rows /\ runs'[RunOf(u)] = Completed(runs[RunOf(u)])
        BY <1>0, <1>8, <3>1, <3>2 DEF FinishesUnnoticed, LiveRow
      <4> QED
        BY <1>8, <3>1, <4>1, CompletedLive DEF FinishesUnnoticed
    <3>3. CASE RunOf(u) # RunOf(t)
      BY <1>0, <1>8, <3>1, <3>3 DEF FinishesUnnoticed
    <3> QED
      BY <3>2, <3>3
  <2> QED
    BY <1>1, <2>1
<1> QED
  BY <1>2, <1>3, <1>4, <1>5, <1>6, <1>7, <1>8 DEF Effect, WritesRow

(* At the start nobody is live. *)
LEMMA OverlapInit == Init => OverlapInv
BY InitLive DEF OverlapInv, NoOverlap

(* While no handler outlasts the recovery's timeout, the row of a run that *)
(* a worker is executing says so: recoverStuckTaskRuns leaves it alone and *)
(* tryStartTaskRun refuses it.                                             *)
THEOREM OverlapInvariant ==
    ASSUME ~MayHang
    PROVE  Spec => []OverlapInv
<1>1. TypeInv /\ OverlapInv /\ [Next]_vars => OverlapInv'
  BY Effects, OverlapStep
<1> QED
  BY OverlapInit, <1>1, TypeInvariant, PTL DEF Spec

(* If no handler outlasts the timeout of the recovery, no run is executed  *)
(* by two workers at a time, in one process or in two, whatever else       *)
(* fails: the conditional upsert of tryStartTaskRun is enough.             *)
THEOREM NoOverlapHolds ==
    ASSUME ~MayHang
    PROVE  Spec => []NoOverlap
<1>1. OverlapInv => NoOverlap
  BY DEF OverlapInv
<1> QED
  BY OverlapInvariant, <1>1, PTL

-----------------------------------------------------------------------------
(* task_runs implements RunLifecycle *)

Attempts(row) == IF row = NoRow THEN 0 ELSE row.attempts

(* The number of workers of a run that has at most one. *)
LEMMA FewWorkers ==
    ASSUME NEW S, \A a, b \in S : a = b
    PROVE  Cardinality(S) = IF S = {} THEN 0 ELSE 1
<1>1. CASE S = {}
  BY <1>1, FS_EmptySet
<1>2. CASE S # {}
  <2>1. PICK a \in S : S = {a}
    BY <1>2
  <2> QED
    BY <2>1, FS_Singleton
<1> QED
  BY <1>1, <1>2

(* The initial state is one of RunLifecycle. *)
LEMMA LifecycleInit == Init => Lifecycle!Init
<1> SUFFICES ASSUME Init PROVE Lifecycle!Init
  OBVIOUS
<1>1. \A r \in RunIds : LiveOn(r) = {}
  BY InitLive DEF LiveOn
<1>2. \A r \in RunIds : runs[r] = NoRow
  BY DEF Init
<1> QED
  BY <1>1, <1>2, FS_EmptySet DEF Lifecycle!Init, Phase

(* What a step may do to one run, without Cardinality. *)
Transition(r) ==
    LET row == runs[r]  row2 == runs'[r]  on == LiveOn(r)  on2 == LiveOn(r)' IN
    \/ /\ Phase(row) \in {"new", "failed"} /\ Phase(row2) = "running"
       /\ Attempts(row2) = Attempts(row) + 1
       /\ on = {} /\ on2 # {}
    \/ /\ Phase(row) = "running" /\ Phase(row2) \in {"failed", "completed"}
       /\ Attempts(row2) = Attempts(row)
       /\ on2 = {}
    \/ /\ Phase(row2) = Phase(row)
       /\ Attempts(row2) = Attempts(row)
       /\ on2 \in {on, {}}

(* Transitions of all the runs together are a step of RunLifecycle. *)
LEMMA TransitionStep ==
    ASSUME OverlapInv, OverlapInv', \A r \in RunIds : Transition(r)
    PROVE  Lifecycle!Next
<1>1. \A r \in RunIds :
         /\ Cardinality(LiveOn(r))  = IF LiveOn(r)  = {} THEN 0 ELSE 1
         /\ Cardinality(LiveOn(r)') = IF LiveOn(r)' = {} THEN 0 ELSE 1
  BY FewWorkers DEF OverlapInv, NoOverlap, LiveOn
<1> SUFFICES ASSUME NEW r \in RunIds
             PROVE  \/ Lifecycle!Start(r) \/ Lifecycle!End(r)
                    \/ Lifecycle!Abandon(r) \/ Lifecycle!Rest(r)
  BY DEF Lifecycle!Next
<1> DEFINE n == Cardinality(LiveOn(r))  n2 == Cardinality(LiveOn(r)')
<1>2. CASE /\ Phase(runs[r]) \in {"new", "failed"} /\ Phase(runs'[r]) = "running"
           /\ Attempts(runs'[r]) = Attempts(runs[r]) + 1
           /\ LiveOn(r) = {} /\ LiveOn(r)' # {}
  <2>1. n = 0 /\ n2 = 1
    BY <1>1, <1>2
  <2> QED
    BY <1>2, <2>1 DEF Lifecycle!Start, Attempts
<1>3. CASE /\ Phase(runs[r]) = "running" /\ Phase(runs'[r]) \in {"failed", "completed"}
           /\ Attempts(runs'[r]) = Attempts(runs[r])
           /\ LiveOn(r)' = {}
  <2>1. n2 = 0
    BY <1>1, <1>3
  <2> QED
    BY <1>3, <2>1 DEF Lifecycle!End, Attempts
<1>4. CASE /\ Phase(runs'[r]) = Phase(runs[r])
           /\ Attempts(runs'[r]) = Attempts(runs[r])
           /\ LiveOn(r)' \in {LiveOn(r), {}}
  <2>1. n2 = n \/ n2 = 0
    BY <1>1, <1>4
  <2> QED
    BY <1>4, <2>1 DEF Lifecycle!Rest, Lifecycle!Abandon, Attempts
<1> QED
  BY <1>2, <1>3, <1>4 DEF Transition

(* The phases before and after the statements. *)
LEMMA Phases ==
    ASSUME NEW row \in Rows \cup {NoRow}, NEW time \in Nat, NEW at \in Nat \cup {Null}
    PROVE  /\ MayStart(row, time) => Phase(row) \in {"new", "failed"}
           /\ Phase(Started(row, time)) = "running"
           /\ Attempts(Started(row, time)) = Attempts(row) + 1
           /\ row # NoRow /\ row.status = "running" =>
                 /\ Phase(row) = "running"
                 /\ Phase(Completed(row)) = "completed"
                 /\ Phase(MarkedFailed(row, at)) = "failed"
                 /\ Attempts(Completed(row)) = Attempts(row)
                 /\ Attempts(MarkedFailed(row, at)) = Attempts(row)
           /\ Stuck(row, time) =>
                 /\ Phase(row) = "running"
                 /\ Phase(Recovered(row, time)) = "failed"
                 /\ Attempts(Recovered(row, time)) = Attempts(row)
<1>1. MayStart(row, time) => Phase(row) \in {"new", "failed"}
  BY DEF MayStart, RetryDue, Phase
<1>2. Started(row, time).status = "running" /\ Started(row, time) # NoRow
  BY RowTypes, NoRowAssumption DEF Started
<1>3. Attempts(Started(row, time)) = Attempts(row) + 1
  BY <1>2 DEF Started, Attempts
<1>4. ASSUME row # NoRow
      PROVE  /\ Completed(row) # NoRow /\ MarkedFailed(row, at) # NoRow
             /\ Recovered(row, time) # NoRow
             /\ Completed(row).status = "completed"
             /\ MarkedFailed(row, at).status = "failed"
             /\ Stuck(row, time) => Recovered(row, time).status = "failed_timeout"
             /\ Attempts(Completed(row)) = Attempts(row)
             /\ Attempts(MarkedFailed(row, at)) = Attempts(row)
             /\ Attempts(Recovered(row, time)) = Attempts(row)
  <2>1. row \in Rows
    BY <1>4
  <2>2. /\ Completed(row).status = "completed"
        /\ MarkedFailed(row, at).status = "failed"
        /\ Stuck(row, time) => Recovered(row, time).status = "failed_timeout"
    BY <1>4, <2>1 DEF Completed, MarkedFailed, Recovered, Rows
  <2> QED
    BY <1>4, <2>1, <2>2, RowEffects DEF Attempts
<1> QED
  BY <1>1, <1>2, <1>3, <1>4 DEF Phase, FailedStatus, Stuck

(* Every effect is a transition of each run. *)
LEMMA LifecycleTransition ==
    ASSUME TypeInv, OverlapInv, Effect, "answer" \notin Faults, NEW r \in RunIds
    PROVE  Transition(r)
<1>0. /\ runs \in [RunIds -> Rows \cup {NoRow}] /\ runs[r] \in Rows \cup {NoRow}
      /\ now \in Nat
      /\ \A t \in Threads : Live(t) => /\ runs[RunOf(t)] # NoRow
                                      /\ runs[RunOf(t)].status = "running"
                                      /\ ~Stuck(runs[RunOf(t)], now)
  BY LiveTypes DEF OverlapInv, LiveRow
<1>1. ASSUME UNCHANGED <<runs>>, LiveOn(r)' \in {LiveOn(r), {}} PROVE Transition(r)
  BY <1>1 DEF Transition
<1>2. ASSUME \A u \in Threads : /\ (Live(u)' <=> Live(u))
                                /\ (Live(u) => RunOf(u)' = RunOf(u))
      PROVE  LiveOn(r)' = LiveOn(r)
  BY <1>2 DEF LiveOn
<1>3. CASE Quiet
  <2>1. LiveOn(r)' \subseteq LiveOn(r) /\ UNCHANGED runs
    BY <1>3 DEF Quiet, LiveOn
  <2>2. \A a, b \in LiveOn(r) : a = b
    BY DEF OverlapInv, NoOverlap, LiveOn
  <2>3. LiveOn(r)' \in {LiveOn(r), {}}
    BY <2>1, <2>2
  <2> QED
    BY <1>1, <2>1, <2>3
<1>4. CASE Clock
  BY <1>1, <1>2, <1>4 DEF Clock, runnerVars, dbVars, Live, RunOf
<1>5. CASE Recovers
  <2>1. LiveOn(r)' = LiveOn(r) /\ runs'[r] = Recovered(runs[r], now)
    BY <1>2, <1>5 DEF Recovers, Live, RunOf
  <2>2. CASE Stuck(runs[r], now)
    <3>1. LiveOn(r) = {}
      BY <1>0, <2>2 DEF LiveOn
    <3> QED
      BY <1>0, <2>1, <2>2, <3>1, Phases DEF Transition
  <2>3. CASE ~Stuck(runs[r], now)
    BY <2>1, <2>3 DEF Transition, Recovered
  <2> QED
    BY <2>2, <2>3
<1>6. ASSUME NEW t \in Threads, W!Busy(t), Opens(t)
      PROVE  Transition(r)
  <2>1. \A u \in Threads \ {t} : (Live(u)' <=> Live(u)) /\ RunOf(u)' = RunOf(u)
    BY <1>6 DEF Opens, Alone, Live, RunOf
  <2>2. \A u \in Threads : Live(u) => RunOf(u) # RunOf(t)
    BY <1>6, LiveShut DEF OverlapInv, Opens
  <2>3. CASE RunOf(t) = r
    <3>1. LiveOn(r) = {}
      BY <2>2, <2>3 DEF LiveOn
    <3>2. runs'[r] = Started(runs[r], now) /\ MayStart(runs[r], now)
      BY <1>0, <1>6, <2>3 DEF Opens
    <3>3. LiveOn(r)' # {}
      BY <1>6, <2>3 DEF LiveOn, Opens
    <3> QED
      BY <1>0, <3>1, <3>2, <3>3, Phases DEF Transition
  <2>4. CASE RunOf(t) # r
    <3>1. runs'[r] = runs[r]
      BY <1>0, <1>6, <2>4 DEF Opens
    <3>2. LiveOn(r)' = LiveOn(r)
      BY <1>6, <2>1, <2>2, <2>4 DEF LiveOn, Opens
    <3> QED
      BY <3>1, <3>2 DEF Transition
  <2> QED
    BY <2>3, <2>4
<1>7. ASSUME NEW t \in Threads, Finishes(t) \/ Marks(t)
      PROVE  Transition(r)
  <2>1. \A u \in Threads \ {t} : (Live(u)' <=> Live(u)) /\ RunOf(u)' = RunOf(u)
    BY <1>7 DEF Finishes, Marks, Alone, Live, RunOf
  <2>2. Live(t) /\ ~Live(t)'
    BY <1>7 DEF Finishes, Marks
  <2>3. CASE RunOf(t) = r
    <3>1. LiveOn(r)' = {}
      BY <2>1, <2>2, <2>3 DEF LiveOn, OverlapInv, NoOverlap
    <3>2. \/ runs'[r] = Completed(runs[r])
          \/ \E at \in Nat \cup {Null} : runs'[r] = MarkedFailed(runs[r], at)
      BY <1>0, <1>7, <2>3 DEF Finishes, Marks
    <3> QED
      BY <1>0, <2>2, <2>3, <3>1, <3>2, Phases DEF Transition
  <2>4. CASE RunOf(t) # r
    <3>1. runs'[r] = runs[r]
      BY <1>0, <1>7, <2>4 DEF Finishes, Marks
    <3>2. LiveOn(r)' = LiveOn(r)
      BY <2>1, <2>2, <2>4 DEF LiveOn
    <3> QED
      BY <3>1, <3>2 DEF Transition
  <2> QED
    BY <2>3, <2>4
<1> QED
  BY <1>3, <1>4, <1>5, <1>6, <1>7 DEF Effect, WritesRow, OpensUnnoticed, FinishesUnnoticed

(* If no handler outlasts the timeout of the recovery and no answer of the *)
(* database is lost, task_runs keeps the promise of RunLifecycle: one      *)
(* worker per start, attempts that count the starts, and completed runs    *)
(* that stay completed.                                                    *)
THEOREM LifecycleImplemented ==
    ASSUME ~MayHang, "answer" \notin Faults
    PROVE  Spec => ImplementsLifecycle
<1>1. TypeInv /\ OverlapInv /\ OverlapInv' /\ [Next]_vars => Lifecycle!Next
  BY Effects, LifecycleTransition, TransitionStep
<1> QED
  BY LifecycleInit, <1>1, TypeInvariant, OverlapInvariant, PTL
     DEF Spec, ImplementsLifecycle, Lifecycle!Spec

-----------------------------------------------------------------------------
(* Signals after a stop *)

(* Nobody stops or starts a task, and nobody comes to the point of sending *)
(* a signal.                                                               *)
NoNewSender ==
    /\ UNCHANGED <<status, grace>>
    /\ \A u \in Robots : AtStep(u, "send")' => AtStep(u, "send") /\ JobTask(u)' = JobTask(u)

(* The workers of a task that are about to signal can be counted. *)
LEMMA SendersFinite == \A k \in Tasks : IsFiniteSet(Senders(k)) /\ Cardinality(Senders(k)) \in Nat
<1>1. ASSUME NEW k \in Tasks PROVE IsFiniteSet(Senders(k))
  <2>1. Senders(k) \subseteq Threads
    BY DEF Senders, Threads
  <2> QED
    BY <2>1, FS_Subset, ThreadsAssumption
<1> QED
  BY <1>1, FS_CardinalityType

(* Fewer senders than before are within the bound of before. *)
LEMMA FewerSenders ==
    ASSUME TypeInv, NEW k \in Tasks, NEW S, S \subseteq Senders(k)
    PROVE  /\ IsFiniteSet(S) /\ Cardinality(S) \in Nat
           /\ Cardinality(S) <= Cardinality(Senders(k))
BY SendersFinite, FS_Subset, FS_CardinalityType

(* A step without a new sender keeps the bound. *)
LEMMA NoNewSenderStep ==
    ASSUME TypeInv, StopSilences, NoNewSender
    PROVE  StopSilences'
<1> SUFFICES ASSUME NEW k \in Tasks, status'[k] = "stopped"
             PROVE  Cardinality(Senders(k)') <= grace'[k]
  BY DEF StopSilences
<1>1. Senders(k)' \subseteq Senders(k)
  BY DEF NoNewSender, Senders
<1>2. Cardinality(Senders(k)) <= grace[k]
  BY DEF StopSilences, NoNewSender
<1>3. grace[k] \in Int
  BY DEF TypeInv, TypeOK
<1> QED
  BY <1>1, <1>2, <1>3, FewerSenders, SendersFinite DEF NoNewSender

(* A submission brings nobody past the gate. *)
LEMMA ArrivesNoSender ==
    ASSUME Arrives, UNCHANGED <<status, grace, local>>
    PROVE  NoNewSender
BY DEF Arrives, NoNewSender, AtStep, JobTask, Threads

(* A step of a tick or of a /run. *)
LEMMA CallerNoSender ==
    ASSUME TypeInv,
           \/ \E t \in Robots : TickStart(t) \/ TickGoesOn(t)
           \/ \E t \in Commands : CommandStep(t) \/ \E k \in Tasks : RunCommand(t, k)
    PROVE  NoNewSender
<1>1. CASE \E t \in Robots : TickStart(t) \/ TickGoesOn(t)
  <2>1. UNCHANGED <<status, grace, local>>
    BY <1>1 DEF TickStart, TickGoesOn, RecoverStuckTaskRuns, PickDueRetries, RunRetry,
       RetriesDone, ListTasks, VisitTask, ReleaseRobotLock, dbVars, history
  <2> QED
    BY <1>1, <2>1, TickArrives, ArrivesNoSender DEF TypeInv
<1>2. ASSUME NEW t \in Commands, CommandStep(t) PROVE NoNewSender
  <2>1. UNCHANGED <<status, grace, local>>
    BY <1>2 DEF CommandStep, RunCommandSubmits, RunCommandReturns, dbVars, history
  <2> QED
    BY <1>2, <2>1, CommandArrives, ArrivesNoSender DEF TypeInv
<1>3. ASSUME NEW t \in Commands, NEW k \in Tasks, RunCommand(t, k) PROVE NoNewSender
  BY <1>3 DEF RunCommand, NoNewSender, AtStep, JobTask, runnerVars, dbVars, history
<1> QED
  BY <1>1, <1>2, <1>3

(* A step of runOnce: the gate opens on a handler that begins. *)
LEMMA RunnerNoSender ==
    ASSUME TypeInv, NEW t \in Threads, RunnerStep(t)
    PROVE  NoNewSender
<1>0. WorkerType /\ local \in [Threads -> Locals]
  BY DEF TypeInv, TypeOK, Locals
<1>1. UNCHANGED <<status, grace>>
  BY DEF RunnerStep, GateStartsRun, GateSkipsRun, GateFails, FinishesRun, FinishFails,
     ReadsAttempts, MarksFailed, CatchFails, FailsItem, dbVars, history
<1>2. \A u \in Threads \ {t} : worker'[u] = worker[u] /\ local'[u] = local[u]
  <2>1. \A u \in Threads \ {t} : local'[u] = local[u]
    BY <1>0 DEF RunnerStep, GateStartsRun, GateSkipsRun, GateFails, FinishesRun,
       FinishFails, ReadsAttempts, MarksFailed, CatchFails, FailsItem
  <2> QED
    BY <1>0, <2>1, RunnerMoves
<1>3. ~AtStep(t, "send")'
  <2>1. CASE GateStartsRun(t)
    <3>1. local'[t].step = "start"
      BY <1>0, <2>1 DEF GateStartsRun
    <3> QED
      BY <3>1 DEF AtStep
  <2>2. CASE ~GateStartsRun(t)
    BY <1>0, <2>2, RunnerMoves DEF AtStep
  <2> QED
    BY <2>1, <2>2
<1> QED
  BY <1>1, <1>2, <1>3 DEF NoNewSender, AtStep, JobTask, Threads

(* A step of a handler, but for the re-check that succeeds and the signal. *)
LEMMA HandlerNoSender ==
    ASSUME TypeInv, NEW t \in Threads, RobotHandler(t) \/ CommandHandler(t),
           ~RecheckActive(t), ~SendSignal(t)
    PROVE  NoNewSender
<1>0. WorkerType /\ local \in [Threads -> Locals]
  BY DEF TypeInv, TypeOK, Locals
<1>1. UNCHANGED <<status, grace>>
  BY DEF RobotHandler, CommandHandler, RobotIgnoresJob, PriceNotChecked, PriceForcedToFail,
     PriceChecked, RecheckNotActive, SendFindsNoChat, SendFails, AiRuns, AiFails, dbVars,
     history
<1>2. local' = local \/ local' = [local EXCEPT ![t].step = "recheck"]
  BY DEF RobotHandler, CommandHandler, RobotIgnoresJob, PriceNotChecked, PriceForcedToFail,
     PriceChecked, RecheckNotActive, SendFindsNoChat, SendFails, AiRuns, AiFails
<1>3. \A u \in Threads : worker'[u] = worker[u] \/ worker'[u].stage # "handler"
  BY <1>0, HandlerMoves DEF RobotHandler, CommandHandler, RobotIgnoresJob, PriceNotChecked,
     PriceForcedToFail, PriceChecked, RecheckNotActive, SendFindsNoChat, SendFails, AiRuns,
     AiFails
<1>4. \A u \in Threads : local'[u].step = "send" => local[u].step = "send"
  BY <1>0, <1>2 DEF Locals
<1> QED
  BY <1>1, <1>3, <1>4 DEF NoNewSender, AtStep, JobTask, Threads

(* The re-check that succeeds adds a sender, of a task that is active. *)
LEMMA RecheckSilent ==
    ASSUME TypeInv, StopSilences, NEW t \in Robots, RecheckActive(t)
    PROVE  StopSilences'
<1> SUFFICES ASSUME NEW k \in Tasks, status'[k] = "stopped"
             PROVE  Cardinality(Senders(k)') <= grace'[k]
  BY DEF StopSilences
<1>0. UNCHANGED <<status, grace, worker>> /\ local \in [Threads -> Locals]
  BY DEF RecheckActive, dbVars, history, runnerVars, TypeInv, TypeOK, Locals
<1>1. \A u \in Threads \ {t} : local'[u] = local[u]
  BY <1>0 DEF RecheckActive
<1>2. JobTask(t) # k
  BY <1>0 DEF RecheckActive
<1>3. Senders(k)' \subseteq Senders(k)
  BY <1>0, <1>1, <1>2 DEF Senders, AtStep, JobTask, Threads
<1>4. Cardinality(Senders(k)) <= grace[k] /\ grace[k] \in Int
  BY <1>0 DEF StopSilences, TypeInv, TypeOK
<1> QED
  BY <1>0, <1>3, <1>4, FewerSenders, SendersFinite

(* A signal: one sender fewer, and one off what a stop had allowed. *)
LEMMA SignalSilent ==
    ASSUME TypeInv, StopSilences, NEW t \in Robots, SendSignal(t)
    PROVE  StopSilences'
<1> SUFFICES ASSUME NEW k \in Tasks, status'[k] = "stopped"
             PROVE  Cardinality(Senders(k)') <= grace'[k]
  BY DEF StopSilences
<1>0. /\ UNCHANGED <<status, local>> /\ WorkerType /\ t \in Threads
      /\ grace \in [Tasks -> Int] /\ AtStep(t, "send")
  BY DEF SendSignal, dbVars, TypeInv, TypeOK, Threads
<1>1. /\ \A u \in Threads \ {t} : worker'[u] = worker[u]
      /\ worker'[t].stage = "finish"
  BY <1>0, GotoFrame DEF SendSignal, W!HandlerReturns
<1>2. Senders(k)' = Senders(k) \ {t}
  BY <1>0, <1>1 DEF Senders, AtStep, JobTask, Threads
<1>3. Cardinality(Senders(k)) <= grace[k]
  BY <1>0 DEF StopSilences
<1>4. CASE JobTask(t) = k
  <2>1. grace'[k] = grace[k] - 1
    BY <1>0, <1>4 DEF SendSignal
  <2>2. t \in Senders(k)
    BY <1>0, <1>4 DEF Senders
  <2>3. Cardinality(Senders(k)') = Cardinality(Senders(k)) - 1
    BY <1>2, <2>2, SendersFinite, FS_RemoveElement
  <2> QED
    BY <1>0, <1>3, <2>1, <2>3, SendersFinite
<1>5. CASE JobTask(t) # k
  <2>1. grace'[k] = grace[k]
    BY <1>0, <1>5 DEF SendSignal
  <2>2. Senders(k)' \subseteq Senders(k)
    BY <1>2
  <2> QED
    BY <1>0, <1>3, <2>1, <2>2, FewerSenders, SendersFinite
<1> QED
  BY <1>4, <1>5

(* A stop allows those that are about to signal now. *)
LEMMA StatusSilent ==
    ASSUME TypeInv, StopSilences, NEW ks, NEW st, SetStatus(ks, st)
    PROVE  StopSilences'
<1> SUFFICES ASSUME NEW k \in Tasks, status'[k] = "stopped"
             PROVE  Cardinality(Senders(k)') <= grace'[k]
  BY DEF StopSilences
<1>1. Senders(k)' = Senders(k)
  BY DEF SetStatus, runnerVars, Senders, AtStep, JobTask
<1>2. CASE status[k] = "active"
  <2>1. grace'[k] = Cardinality(Senders(k))
    BY <1>2 DEF SetStatus
  <2> QED
    BY <1>1, <2>1, SendersFinite
<1>3. CASE status[k] # "active"
  <2>1. grace'[k] = grace[k] /\ status[k] = "stopped"
    BY <1>3 DEF SetStatus, TypeInv, TypeOK
  <2> QED
    BY <1>1, <2>1 DEF StopSilences
<1> QED
  BY <1>2, <1>3

(* A restart takes the senders of its process away. *)
LEMMA CrashNoSender ==
    ASSUME TypeInv, NEW p \in Procs, Crash(p)
    PROVE  NoNewSender
<1>1. UNCHANGED <<status, grace>>
  BY DEF Crash, dbVars, history
<1>2. \A u \in Threads : \/ worker'[u] = worker[u] /\ local'[u] = local[u]
                         \/ worker'[u].stage = "idle"
  BY DEF Crash, W!Restart, W!Idle
<1> QED
  BY <1>1, <1>2 DEF NoNewSender, AtStep, JobTask, Threads

(* Every step keeps the bound on signals.                                  *)
LEMMA SilentStep ==
    ASSUME TypeInv, StopSilences, [Next]_vars
    PROVE  StopSilences'
<1>1. ASSUME NEW t \in Threads, (t \in Robots /\ RobotHandler(t)) \/ CommandHandler(t)
      PROVE  StopSilences'
  <2>1. CASE RecheckActive(t) \/ SendSignal(t)
    <3>1. CASE t \in Robots
      BY <2>1, <3>1, RecheckSilent, SignalSilent
    <3>2. CASE CommandHandler(t)
      <4>1. local[t].step = "start"
        BY <3>2 DEF CommandHandler, AiRuns, AiFails, AtStep
      <4> QED
        BY <2>1, <4>1 DEF RecheckActive, SendSignal, AtStep
    <3> QED
      BY <1>1, <3>1, <3>2
  <2> QED
    BY <1>1, <2>1, HandlerNoSender, NoNewSenderStep
<1>2. CASE Clock \/ LoseSession \/ UNCHANGED vars
  <2>1. NoNewSender
    BY <1>2 DEF Clock, LoseSession, vars, NoNewSender, AtStep, JobTask, runnerVars, dbVars,
       history
  <2> QED
    BY <2>1, NoNewSenderStep
<1> QED
  BY <1>1, <1>2, CallerNoSender, RunnerNoSender, CrashNoSender, NoNewSenderStep, StatusSilent
     DEF Next, Threads, StartTask, StopTask, StopTasksType, StopAllTasks

(* At the start no task is stopped.                                        *)
LEMMA SilentInit == Init => StopSilences
BY DEF Init, StopSilences

(* A stopped task sends no more signals than it had workers that were past *)
(* their re-check when it was stopped, whatever is stopped, started,       *)
(* retried or recovered in the meantime.                                   *)
THEOREM StopSilencesHolds == Spec => []StopSilences
<1>1. TypeInv /\ StopSilences /\ [Next]_vars => StopSilences'
  BY SilentStep
<1> QED
  BY SilentInit, <1>1, TypeInvariant, PTL DEF Spec

-----------------------------------------------------------------------------
(* Attempts beyond the policy *)

Most == IF MaxRetries = 0 THEN 1 ELSE MaxRetries

(* What may still start a run again: its row, if it waits for a retry; the *)
(* workers whose failure may get one from the policy, for shouldRetry      *)
(* refuses it from attempt Most on; and the attempts up to Most that have  *)
(* not begun.                                                              *)
Waiting(row)  == IF row.status \in FailedStatus /\ row.retryAt # Null THEN 1 ELSE 0
Retryable(r)  == {t \in Threads : Live(t) /\ RunOf(t) = r /\ local[t].attempt < Most}
NotBegun(n)   == IF n < Most THEN Most - 1 - n ELSE 0

Budget(r) == runs[r].attempts + Waiting(runs[r]) + Cardinality(Retryable(r))
             + NotBegun(runs[r].attempts)

(* A worker reads its row's attempts after it was counted in them.         *)
SeenInv == \A t \in Threads : worker[t].stage = "mark" => local[t].attempt <= local[t].seen

LimitInv == \A r \in RunIds : runs[r] # NoRow => Budget(r) <= timeouts[r] + Most

(* MaxRetries is a natural number, and so are the parts of a budget.       *)
LEMMA MostType == Most \in Nat /\ Most >= 1 /\ \A n \in Nat : NotBegun(n) \in Nat
BY MaxRetriesAssumption DEF Most, NotBegun

LEMMA RetryableFinite ==
    \A r : IsFiniteSet(Retryable(r)) /\ Cardinality(Retryable(r)) \in Nat
<1>1. ASSUME NEW r PROVE IsFiniteSet(Retryable(r))
  BY FS_Subset, ThreadsAssumption DEF Retryable
<1> QED
  BY <1>1, FS_CardinalityType

-----------------------------------------------------------------------------
(* What a worker has seen *)

(* A worker that is about to mark its run failed was so before, or has     *)
(* just read the attempts.                                                 *)
Reads == \A u \in Threads :
            worker'[u].stage = "mark" =>
               \/ worker[u].stage = "mark" /\ local'[u].attempt = local[u].attempt
                  /\ local'[u].seen = local[u].seen
               \/ ReadsAttempts(u)

(* A step of runOnce. *)
LEMMA RunnerReads ==
    ASSUME TypeInv, NEW t \in Threads, RunnerStep(t)
    PROVE  Reads
<1>0. WorkerType /\ local \in [Threads -> Locals]
  BY DEF TypeInv, TypeOK, Locals
<1>1. \A u \in Threads \ {t} : worker'[u] = worker[u] /\ local'[u] = local[u]
  <2>1. \A u \in Threads \ {t} : local'[u] = local[u]
    BY <1>0 DEF RunnerStep, GateStartsRun, GateSkipsRun, GateFails, FinishesRun,
       FinishFails, ReadsAttempts, MarksFailed, CatchFails, FailsItem
  <2> QED
    BY <1>0, <2>1, RunnerMoves
<1>2. CASE GateSkipsRun(t) \/ FinishesRun(t) \/ FailsItem(t)
  <2>1. worker'[t].stage = "idle"
    BY <1>0, <1>2, LeaveFrame DEF GateSkipsRun, FinishesRun, FailsItem, W!GateSkips,
       W!FinishWritten, W!Fail
  <2> QED
    BY <1>1, <2>1 DEF Reads
<1>3. CASE GateStartsRun(t) \/ GateFails(t) \/ FinishFails(t) \/ MarksFailed(t) \/ CatchFails(t)
  <2>1. worker'[t].stage \in {"handler", "fail", "attempts"}
    BY <1>0, <1>3, GotoFrame DEF GateStartsRun, GateFails, FinishFails, MarksFailed,
       CatchFails, W!GateOpens, W!GateThrows, W!FinishThrows, W!MarkWritten, W!CatchThrows
  <2> QED
    BY <1>1, <2>1 DEF Reads
<1>4. CASE ReadsAttempts(t)
  BY <1>1, <1>4 DEF Reads
<1> QED
  BY <1>2, <1>3, <1>4 DEF RunnerStep

(* A step of a handler. *)
LEMMA HandlerReads ==
    ASSUME TypeInv, NEW t \in Threads, RobotHandler(t) \/ CommandHandler(t)
    PROVE  Reads
<1>0. WorkerType /\ local \in [Threads -> Locals]
  BY DEF TypeInv, TypeOK, Locals
<1>1. local' = local \/ \E st \in {"recheck", "send"} : local' = [local EXCEPT ![t].step = st]
  BY DEF RobotHandler, CommandHandler, RobotIgnoresJob, PriceNotChecked, PriceForcedToFail,
     PriceChecked, RecheckActive, RecheckNotActive, SendSignal, SendFindsNoChat, SendFails,
     AiRuns, AiFails
<1>2. \A u \in Threads : /\ local'[u].attempt = local[u].attempt
                         /\ local'[u].seen = local[u].seen
  BY <1>0, <1>1 DEF Locals
<1>3. \A u \in Threads : worker'[u].stage = "mark" => worker[u].stage = "mark"
  <2>1. CASE W!HandlerReturns(t)
    BY <1>0, <2>1, GotoFrame DEF W!HandlerReturns
  <2>2. CASE W!HandlerThrows(t)
    BY <1>0, <2>2, GotoFrame DEF W!HandlerThrows
  <2>3. CASE UNCHANGED runnerVars
    BY <2>3 DEF runnerVars
  <2> QED
    BY <2>1, <2>2, <2>3, HandlerWorker
<1> QED
  BY <1>2, <1>3 DEF Reads

(* Every step of the system. *)
LEMMA AllReads ==
    ASSUME TypeInv, [Next]_vars
    PROVE  Reads
<1>1. ASSUME Arrives, UNCHANGED local PROVE Reads
  BY <1>1 DEF Arrives, Reads
<1>2. CASE UNCHANGED <<worker, local>>
  BY <1>2 DEF Reads
<1>3. ASSUME NEW t \in Robots, TickStart(t) \/ TickGoesOn(t) PROVE Reads
  <2>1. UNCHANGED local
    BY <1>3 DEF TickStart, TickGoesOn, RecoverStuckTaskRuns, PickDueRetries, RunRetry,
       RetriesDone, ListTasks, VisitTask, ReleaseRobotLock
  <2> QED
    BY <1>1, <1>3, <2>1, TickArrives DEF TypeInv
<1>4. ASSUME NEW t \in Commands, CommandStep(t) PROVE Reads
  <2>1. UNCHANGED local
    BY <1>4 DEF CommandStep, RunCommandSubmits, RunCommandReturns
  <2> QED
    BY <1>1, <1>4, <2>1, CommandArrives DEF TypeInv
<1>5. ASSUME NEW t \in Commands, NEW k \in Tasks, RunCommand(t, k) PROVE Reads
  BY <1>2, <1>5 DEF RunCommand, runnerVars
<1>6. ASSUME NEW ks, NEW st, SetStatus(ks, st) PROVE Reads
  BY <1>2, <1>6 DEF SetStatus, runnerVars
<1>7. CASE Clock \/ LoseSession \/ UNCHANGED vars
  BY <1>2, <1>7 DEF Clock, LoseSession, vars, runnerVars
<1>8. ASSUME NEW p \in Procs, Crash(p) PROVE Reads
  BY <1>8 DEF Crash, W!Restart, W!Idle, Reads
<1> QED
  BY <1>3, <1>4, <1>5, <1>6, <1>7, <1>8, RunnerReads, HandlerReads
     DEF Next, Threads, StartTask, StopTask, StopTasksType, StopAllTasks

(* What a worker has seen of its run is no less than its own attempt.      *)
LEMMA SeenStep ==
    ASSUME TypeInv, AttemptsInv, SeenInv, [Next]_vars
    PROVE  SeenInv'
<1> SUFFICES ASSUME NEW t \in Threads, worker'[t].stage = "mark"
             PROVE  local'[t].attempt <= local'[t].seen
  BY DEF SeenInv
<1>1. CASE ReadsAttempts(t)
  <2>1. Live(t)
    BY <1>1 DEF ReadsAttempts, W!AttemptsRead, W!Goto, Live
  <2>2. /\ local'[t].attempt = local[t].attempt
        /\ local'[t].seen = AttemptsOf(runs[RunOf(t)])
    <3>1. local \in [Threads -> Locals]
      BY DEF TypeInv, TypeOK, Locals
    <3> QED
      BY <1>1, <3>1 DEF ReadsAttempts, Locals
  <2> QED
    BY <2>1, <2>2 DEF AttemptsInv, AttemptsOf
<1>2. CASE ~ReadsAttempts(t)
  BY <1>2, AllReads DEF Reads, SeenInv
<1> QED
  BY <1>1, <1>2

-----------------------------------------------------------------------------
(* The budget *)

(* What the statements make of a row's waiting for a retry.                *)
LEMMA WaitingRows ==
    ASSUME NEW row \in Rows, NEW time \in Nat, NEW at \in Nat \cup {Null}
    PROVE  /\ Waiting(row) \in {0, 1}
           /\ Waiting(Started(row, time)) = 0 /\ Waiting(Started(NoRow, time)) = 0
           /\ MayStart(row, time) => Waiting(row) = 1
           /\ Waiting(Completed(row)) = 0
           /\ Waiting(MarkedFailed(row, at)) \in {0, 1}
           /\ at = Null => Waiting(MarkedFailed(row, at)) = 0
           /\ ~Stuck(row, time) => Recovered(row, time) = row
           /\ Stuck(row, time) => Waiting(row) = 0 /\ Waiting(Recovered(row, time)) \in {0, 1}
<1>0. row # NoRow
  BY NoRowAssumption
<1>1. Waiting(row) \in {0, 1} /\ (MayStart(row, time) => Waiting(row) = 1)
  BY <1>0 DEF Waiting, MayStart, RetryDue
<1>2. Waiting(Started(row, time)) = 0 /\ Waiting(Started(NoRow, time)) = 0
  BY DEF Waiting, Started
<1>3. Waiting(Completed(row)) = 0
  BY <1>0 DEF Waiting, Completed, Rows, FailedStatus
<1>4. /\ Waiting(MarkedFailed(row, at)) \in {0, 1}
      /\ at = Null => Waiting(MarkedFailed(row, at)) = 0
  BY <1>0 DEF Waiting, MarkedFailed, Rows, FailedStatus
<1>5. /\ ~Stuck(row, time) => Recovered(row, time) = row
      /\ Stuck(row, time) => Waiting(row) = 0 /\ Waiting(Recovered(row, time)) \in {0, 1}
  BY DEF Waiting, Recovered, Stuck, FailedStatus
<1> QED
  BY <1>1, <1>2, <1>3, <1>4, <1>5

(* Fewer workers whose failure may get a retry.                            *)
LEMMA FewerRetryable ==
    ASSUME NEW r, NEW S, S \subseteq Retryable(r)
    PROVE  /\ IsFiniteSet(S) /\ Cardinality(S) \in Nat
           /\ Cardinality(S) <= Cardinality(Retryable(r))
BY RetryableFinite, FS_Subset, FS_CardinalityType

(* A row that is rewritten and waits no more than before, beside workers   *)
(* that are no more than before, stays within its budget.                  *)
LEMMA WithinBudget ==
    ASSUME TypeInv, LimitInv, NEW r \in RunIds, runs[r] \in Rows,
           runs'[r].attempts = runs[r].attempts,
           Retryable(r)' \subseteq Retryable(r),
           Waiting(runs'[r]) \in {0, 1}, Waiting(runs'[r]) <= Waiting(runs[r]),
           timeouts'[r] = timeouts[r]
    PROVE  Budget(r)' <= timeouts'[r] + Most
<1>1. Budget(r) <= timeouts[r] + Most /\ runs[r].attempts \in Nat /\ timeouts[r] \in Nat
  BY NoRowAssumption DEF LimitInv, TypeInv, TypeOK, Rows
<1>2. Waiting(runs[r]) \in {0, 1}
  BY WaitingRows
<1>3. /\ Cardinality(Retryable(r)') \in Nat /\ Cardinality(Retryable(r)) \in Nat
      /\ Cardinality(Retryable(r)') <= Cardinality(Retryable(r))
  BY FewerRetryable, RetryableFinite
<1>4. NotBegun(runs'[r].attempts) = NotBegun(runs[r].attempts) /\ NotBegun(runs[r].attempts) \in Nat
  BY <1>1, MostType
<1>5. Budget(r)' = runs[r].attempts + Waiting(runs'[r]) + Cardinality(Retryable(r)')
                   + NotBegun(runs[r].attempts)
  BY <1>4 DEF Budget
<1> QED
  BY <1>1, <1>2, <1>3, <1>4, <1>5, MostType DEF Budget

(* A row that is left alone.                                               *)
LEMMA SameBudget ==
    ASSUME TypeInv, LimitInv, NEW r \in RunIds, runs'[r] = runs[r], runs[r] # NoRow,
           Retryable(r)' \subseteq Retryable(r), timeouts'[r] = timeouts[r]
    PROVE  Budget(r)' <= timeouts'[r] + Most
<1>1. runs[r] \in Rows
  BY LiveTypes
<1>2. Waiting(runs[r]) \in {0, 1}
  BY <1>1, WaitingRows
<1> QED
  BY <1>1, <1>2, WithinBudget

(* Workers whose failure may get a retry come only through the gate.       *)
LEMMA NoNewRetryable ==
    ASSUME NEW t \in Threads, NEW r, Alone(t),
           Live(t)' => /\ Live(t) /\ RunOf(t)' = RunOf(t)
                       /\ local'[t].attempt = local[t].attempt
    PROVE  Retryable(r)' \subseteq Retryable(r)
BY DEF Alone, Retryable, Live, RunOf

(* tryStartTaskRun: the attempt it begins was waited for, or not begun.    *)
LEMMA StartWithin ==
    ASSUME TypeInv, AttemptsInv, LimitInv, NEW t \in Threads, W!Busy(t), NEW r \in RunIds,
           RunOf(t) = r, MayStart(runs[r], now), Alone(t), timeouts'[r] = timeouts[r],
           runs'[r] = Started(runs[r], now),
           Live(t)' => local'[t].attempt = Started(runs[r], now).attempts
    PROVE  Budget(r)' <= timeouts'[r] + Most
<1> DEFINE a == Started(runs[r], now).attempts
<1>0. /\ runs[r] \in Rows \cup {NoRow} /\ now \in Nat /\ timeouts[r] \in Nat
      /\ \A u \in Threads : Live(u) /\ RunOf(u) = r => runs[r] # NoRow
  BY LiveTypes DEF TypeInv, TypeOK, AttemptsInv
<1>1. a \in Nat /\ a >= 1 /\ (runs[r] = NoRow => a = 1)
      /\ (runs[r] # NoRow => a = runs[r].attempts + 1 /\ runs[r].attempts \in Nat)
  BY <1>0 DEF Started, Rows
<1>2. Waiting(runs'[r]) = 0
  BY DEF Waiting, Started, FailedStatus
<1>3. Retryable(r)' \subseteq Retryable(r) \cup {t}
  BY DEF Alone, Retryable, Live, RunOf
<1>4. /\ Cardinality(Retryable(r)') \in Nat
      /\ Cardinality(Retryable(r)') <= Cardinality(Retryable(r)) + (IF a < Most THEN 1 ELSE 0)
  <2>1. /\ IsFiniteSet(Retryable(r) \cup {t}) /\ Cardinality(Retryable(r) \cup {t}) \in Nat
        /\ Cardinality(Retryable(r) \cup {t}) <= Cardinality(Retryable(r)) + 1
    <3>1. /\ IsFiniteSet(Retryable(r) \cup {t})
          /\ \/ Cardinality(Retryable(r) \cup {t}) = Cardinality(Retryable(r))
             \/ Cardinality(Retryable(r) \cup {t}) = Cardinality(Retryable(r)) + 1
      BY RetryableFinite, FS_AddElement
    <3> QED
      BY <3>1, RetryableFinite
  <2>2. CASE a < Most
    <3>1. /\ Cardinality(Retryable(r)') \in Nat
          /\ Cardinality(Retryable(r)') <= Cardinality(Retryable(r) \cup {t})
      BY <1>3, <2>1, FS_Subset, FS_CardinalityType
    <3> QED
      BY <2>1, <2>2, <3>1, RetryableFinite
  <2>3. CASE ~(a < Most)
    <3>1. t \notin Retryable(r)'
      BY <2>3 DEF Retryable
    <3>2. Retryable(r)' \subseteq Retryable(r)
      BY <1>3, <3>1
    <3> QED
      BY <2>3, <3>2, FewerRetryable, RetryableFinite
  <2> QED
    BY <2>2, <2>3
<1>5. Budget(r)' = a + Cardinality(Retryable(r)') + NotBegun(a)
  BY <1>1, <1>2, <1>4, MostType DEF Budget
<1>6. CASE runs[r] = NoRow
  <2>1. Retryable(r) = {}
    BY <1>0, <1>6 DEF Retryable
  <2>2. Cardinality(Retryable(r)) = 0
    BY <2>1, FS_EmptySet
  <2> QED
    BY <1>0, <1>1, <1>4, <1>5, <1>6, <2>2, MostType DEF NotBegun
<1>7. CASE runs[r] # NoRow
  <2>1. Waiting(runs[r]) = 1
    BY <1>0, <1>7, WaitingRows
  <2>2. Budget(r) <= timeouts[r] + Most
    BY <1>7 DEF LimitInv
  <2>3. Budget(r) = runs[r].attempts + 1 + Cardinality(Retryable(r)) + NotBegun(runs[r].attempts)
    BY <2>1 DEF Budget
  <2> DEFINE n == runs[r].attempts
             c == Cardinality(Retryable(r))
             d == Cardinality(Retryable(r)')
  <2>4. /\ n \in Nat /\ c \in Nat /\ d \in Nat /\ a = n + 1
        /\ d <= c + (IF a < Most THEN 1 ELSE 0)
        /\ NotBegun(n) = (IF n < Most THEN Most - 1 - n ELSE 0)
        /\ NotBegun(a) = (IF a < Most THEN Most - 1 - a ELSE 0)
    BY <1>1, <1>4, <1>7, RetryableFinite DEF NotBegun
  <2>5. n + 1 + c + NotBegun(n) <= timeouts[r] + Most
    BY <2>2, <2>3
  <2> HIDE DEF n, c, d, a
  <2>6. a + d + NotBegun(a) <= n + 1 + c + NotBegun(n)
    BY <2>4, MostType
  <2>7. a + d + NotBegun(a) \in Nat /\ n + 1 + c + NotBegun(n) \in Nat
    BY <2>4, MostType
  <2>8. a + d + NotBegun(a) <= timeouts[r] + Most
    BY <1>0, <2>5, <2>6, <2>7, MostType
  <2> QED
    BY <1>5, <2>8 DEF d, a
<1> QED
  BY <1>6, <1>7

(* markTaskRunFailed: a retry is granted only to a worker that was counted *)
(* as one whose failure may get one.                                       *)
LEMMA MarkWithin ==
    ASSUME TypeInv, AttemptsInv, SeenInv, LimitInv, NEW t \in Threads, Marks(t),
           NEW r \in RunIds, RunOf(t) = r, timeouts'[r] = timeouts[r]
    PROVE  Budget(r)' <= timeouts'[r] + Most
<1>0. /\ runs[r] \in Rows /\ runs[r] # NoRow /\ now \in Nat /\ timeouts[r] \in Nat
      /\ runs \in [RunIds -> Rows \cup {NoRow}]
  BY LiveTypes DEF TypeInv, TypeOK, AttemptsInv, Marks
<1>1. PICK at \in Nat \cup {Null} : /\ at \in RetryTimes(local[t].seen, now)
                                    /\ runs'[r] = MarkedFailed(runs[r], at)
  BY <1>0 DEF Marks
<1>2. runs'[r].attempts = runs[r].attempts /\ runs[r].attempts \in Nat
  BY <1>0, <1>1, RowEffects
<1>3. /\ Waiting(runs'[r]) \in {0, 1} /\ Waiting(runs[r]) \in {0, 1}
      /\ at = Null => Waiting(runs'[r]) = 0
  <2>1. /\ Waiting(MarkedFailed(runs[r], at)) \in {0, 1} /\ Waiting(runs[r]) \in {0, 1}
        /\ at = Null => Waiting(MarkedFailed(runs[r], at)) = 0
    BY <1>0, WaitingRows
  <2> QED
    BY <1>1, <2>1
<1>4. Retryable(r)' \subseteq Retryable(r) \ {t}
  BY DEF Marks, Alone, Retryable, Live, RunOf
<1>5. CASE at = Null
  BY <1>0, <1>2, <1>3, <1>4, <1>5, WithinBudget
<1>6. CASE at # Null
  <2>1. local[t].seen < MaxRetries
    BY <1>1, <1>6 DEF RetryTimes, ShouldRetry
  <2>2. local[t].attempt <= local[t].seen /\ local[t].attempt \in Nat /\ local[t].seen \in Nat
    BY DEF SeenInv, Marks, TypeInv, TypeOK
  <2>3. local[t].attempt < Most
    BY <2>1, <2>2, MaxRetriesAssumption DEF Most
  <2>4. t \in Retryable(r)
    BY <2>3 DEF Retryable, Marks
  <2> DEFINE c == Cardinality(Retryable(r))
             d == Cardinality(Retryable(r)')
             n == runs[r].attempts
             w == Waiting(runs[r])
             v == Waiting(runs'[r])
  <2>5. d <= c - 1 /\ c \in Nat /\ d \in Nat
    <3>1. IsFiniteSet(Retryable(r) \ {t}) /\ Cardinality(Retryable(r) \ {t}) = c - 1
      BY <2>4, RetryableFinite, FS_RemoveElement
    <3> QED
      BY <1>4, <3>1, RetryableFinite, FS_Subset, FS_CardinalityType
  <2>6. n + w + c + NotBegun(n) <= timeouts[r] + Most
    BY <1>0 DEF LimitInv, Budget
  <2>7. Budget(r)' = n + v + d + NotBegun(n)
    BY <1>2 DEF Budget, NotBegun
  <2>8. /\ n \in Nat /\ v \in {0, 1} /\ w \in {0, 1} /\ NotBegun(n) \in Nat
        /\ Most \in Nat
    BY <1>2, <1>3, MostType
  <2> HIDE DEF c, d, n, w, v
  <2>9. n + v + d + NotBegun(n) <= timeouts[r] + Most
    BY <1>0, <2>5, <2>6, <2>8
  <2> QED
    BY <2>7, <2>9 
<1> QED
  BY <1>5, <1>6

(* recoverStuckTaskRuns: the row waits for a retry, and a timeout is       *)
(* counted for it.                                                         *)
LEMMA RecoverWithin ==
    ASSUME TypeInv, LimitInv, Recovers, NEW r \in RunIds, runs[r] # NoRow
    PROVE  Budget(r)' <= timeouts'[r] + Most
<1>0. /\ runs[r] \in Rows /\ now \in Nat /\ timeouts[r] \in Nat
      /\ runs'[r] = Recovered(runs[r], now)
      /\ timeouts'[r] = timeouts[r] + IF Stuck(runs[r], now) THEN 1 ELSE 0
  BY LiveTypes DEF TypeInv, TypeOK, Recovers
<1>1. Retryable(r)' = Retryable(r)
  BY DEF Recovers, Retryable, Live, RunOf
<1>2. CASE ~Stuck(runs[r], now)
  <2>1. runs'[r] = runs[r] /\ timeouts'[r] = timeouts[r]
    BY <1>0, <1>2, WaitingRows
  <2> QED
    BY <1>1, <2>1, SameBudget
<1>3. CASE Stuck(runs[r], now)
  <2> DEFINE c == Cardinality(Retryable(r))
             n == runs[r].attempts
             v == Waiting(runs'[r])
  <2>1. Waiting(runs[r]) = 0 /\ v \in {0, 1} /\ timeouts'[r] = timeouts[r] + 1
    BY <1>0, <1>3, WaitingRows
  <2>2. runs'[r].attempts = n /\ n \in Nat
    BY <1>0, RowEffects
  <2>3. Budget(r)' = n + v + c + NotBegun(n)
    BY <1>1, <2>2 DEF Budget, NotBegun
  <2>4. n + 0 + c + NotBegun(n) <= timeouts[r] + Most
    BY <2>1 DEF LimitInv, Budget
  <2>5. c \in Nat /\ NotBegun(n) \in Nat /\ Most \in Nat
    BY <2>2, MostType, RetryableFinite
  <2> HIDE DEF c, n, v
  <2>6. n + v + c + NotBegun(n) <= (timeouts[r] + 1) + Most
    BY <1>0, <2>1, <2>2, <2>4, <2>5
  <2> QED
    BY <2>1, <2>3, <2>6
<1> QED
  BY <1>2, <1>3

(* Every effect keeps every run within its budget.                         *)
LEMMA LimitStep ==
    ASSUME TypeInv, AttemptsInv, SeenInv, LimitInv, Effect
    PROVE  LimitInv'
<1> SUFFICES ASSUME NEW r \in RunIds, runs'[r] # NoRow
             PROVE  Budget(r)' <= timeouts'[r] + Most
  BY DEF LimitInv
<1>0. runs \in [RunIds -> Rows \cup {NoRow}] /\ now \in Nat
      /\ \A t \in Threads : W!Busy(t) => RunOf(t) \in RunIds
  BY LiveTypes
<1>1. CASE Quiet \/ Clock
  <2>1. /\ runs'[r] = runs[r] /\ timeouts'[r] = timeouts[r]
        /\ Retryable(r)' \subseteq Retryable(r)
    BY <1>1 DEF Quiet, Clock, dbVars, history, runnerVars, Retryable, Live, RunOf
  <2> QED
    BY <2>1, SameBudget
<1>2. CASE Recovers
  <2>1. runs[r] # NoRow
    BY <1>2 DEF Recovers, Recovered, Stuck
  <2> QED
    BY <1>2, <2>1, RecoverWithin
<1>3. ASSUME NEW t \in Threads, W!Busy(t), WritesRow(t), UNCHANGED <<now, timeouts>>
      PROVE  Budget(r)' <= timeouts'[r] + Most
  <2>1. CASE RunOf(t) # r
    <3>1. runs'[r] = runs[r]
      BY <1>0, <1>3, <2>1
         DEF WritesRow, Opens, OpensUnnoticed, Finishes, FinishesUnnoticed, Marks
    <3>2. Retryable(r)' \subseteq Retryable(r)
      BY <1>3, <2>1 DEF WritesRow, Opens, OpensUnnoticed, Finishes, FinishesUnnoticed, Marks,
         Alone, Retryable, Live, RunOf
    <3> QED
      BY <1>3, <3>1, <3>2, SameBudget
  <2>2. CASE RunOf(t) = r /\ (Opens(t) \/ OpensUnnoticed(t))
    <3>1. /\ MayStart(runs[r], now) /\ Alone(t) /\ runs'[r] = Started(runs[r], now)
          /\ Live(t)' => local'[t].attempt = Started(runs[r], now).attempts
      BY <1>0, <2>2 DEF Opens, OpensUnnoticed
    <3> QED
      BY <1>3, <2>2, <3>1, StartWithin
  <2>3. CASE RunOf(t) = r /\ (Finishes(t) \/ FinishesUnnoticed(t))
    <3>1. Live(t) /\ runs[r] # NoRow /\ runs[r] \in Rows /\ runs'[r] = Completed(runs[r])
      BY <1>0, <2>3 DEF Finishes, FinishesUnnoticed, AttemptsInv
    <3>2. /\ runs'[r].attempts = runs[r].attempts
          /\ Waiting(runs'[r]) = 0 /\ Waiting(runs[r]) \in {0, 1}
      BY <1>0, <3>1, RowEffects, WaitingRows
    <3>3. Retryable(r)' \subseteq Retryable(r)
      BY <2>3, NoNewRetryable DEF Finishes, FinishesUnnoticed
    <3> QED
      BY <1>3, <3>1, <3>2, <3>3, WithinBudget
  <2>4. CASE RunOf(t) = r /\ Marks(t)
    BY <1>3, <2>4, MarkWithin
  <2> QED
    BY <1>3, <2>1, <2>2, <2>3, <2>4 DEF WritesRow
<1> QED
  BY <1>1, <1>2, <1>3 DEF Effect

(* Before the first step no run has a row.                                 *)
LEMMA LimitInit == Init => AttemptsInv /\ SeenInv /\ LimitInv
<1>1. Init => AttemptsInv /\ LimitInv
  BY InitLive DEF Init, AttemptsInv, LimitInv
<1>2. Init => SeenInv
  BY DEF Init, W!Init, W!Idle, SeenInv
<1> QED
  BY <1>1, <1>2

(* However workers hang, fail and run side by side, a run is attempted no  *)
(* more often than the policy allows and the recovery adds: each worker    *)
(* can win at most one retry for its run, and only if its own attempt was  *)
(* below the limit.                                                        *)
THEOREM AttemptsBoundedHolds == Spec => []AttemptsBounded
<1> DEFINE Inv == AttemptsInv /\ SeenInv /\ LimitInv
<1>1. TypeInv /\ TypeInv' /\ Inv /\ [Next]_vars => Inv'
  BY Effects, AttemptsStep, SeenStep, LimitStep
<1>2. TypeInv /\ Inv => AttemptsBounded
  <2> SUFFICES ASSUME TypeInv, LimitInv, NEW r \in RunIds, runs[r] # NoRow
               PROVE  runs[r].attempts <= timeouts[r] + Most
    BY DEF AttemptsBounded, Most
  <2>1. Budget(r) <= timeouts[r] + Most /\ timeouts[r] \in Nat /\ runs[r] \in Rows
    BY LiveTypes DEF LimitInv, TypeInv, TypeOK
  <2>2. runs[r].attempts \in Nat /\ Waiting(runs[r]) \in {0, 1}
    BY <2>1 DEF Rows, Waiting
  <2> QED
    BY <2>1, <2>2, MostType, RetryableFinite DEF Budget
<1> QED
  BY LimitInit, <1>1, <1>2, TypeInvariant, PTL DEF Spec
=============================================================================
