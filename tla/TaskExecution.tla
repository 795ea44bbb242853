--------------------------- MODULE TaskExecution ---------------------------
(***************************************************************************)
(* How a task gets executed: the robot ticks and the /run commands of      *)
(* several server processes, each process with its JobRunner, over one     *)
(* database holding tasks, task_runs and the robot's advisory lock.        *)
(*                                                                         *)
(* Sources: src/robot/robotMock.js, src/jobs/jobRunner.js (its actions are *)
(* those of module JobRunner, here W!...), src/db/taskRunsRepo.js (module  *)
(* TaskRuns), src/bot/dispatchers/dispatchTaskCommands.js (/run) and       *)
(* src/bot/handlers/ (stop and start).                                     *)
(*                                                                         *)
(* A thread is one asynchronous call chain: a robot tick or a /run.  An    *)
(* action is what a thread does between two awaits on I/O.                 *)
(***************************************************************************)
EXTENDS TaskRuns, Sequences, FiniteSets

CONSTANTS
    Procs, Robots, Commands,   \* processes; tick threads; /run threads
    Home,                      \* the process of each thread
    Tasks, TypeOf,             \* task ids (numbers) and their types
    ForcedFail,                \* payload.force_fail under ROBOT_ALLOW_FORCE_FAIL
    MayRun,                    \* tasks assertTaskAccess lets their owner run
    Interval,                  \* interval_minutes
    RetryLimit,                \* LIMIT of pickAndRunDueRetries
    Faults,                    \* the kinds of fault that may happen
    MayHang,                   \* may a live run outlast StuckAfter?
    NoTask, NoThread, NoKey, NoItem, Unset,
    MaxTime, MaxInstant, MaxFaults, MaxQueue   \* bounds

ASSUME TasksAssumption    == Tasks \subseteq Nat
ASSUME IntervalAssumption == Interval \in Nat \ {0}
ASSUME BoundsAssumption   == {MaxTime, MaxInstant, MaxFaults, MaxQueue} \subseteq Nat
ASSUME MayRunAssumption   == MayRun \subseteq Tasks
ASSUME MayHangAssumption  == MayHang \in BOOLEAN

Threads == Robots \cup Commands
ASSUME ThreadsAssumption == IsFiniteSet(Threads) /\ NoThread \notin Threads
ASSUME HomeAssumption    == Home \in [Threads -> Procs]

(* A run is a task and a run_key.  The robot's key names the window of the *)
(* schedule, the key of a /run the millisecond of the command.             *)
RunIds == [task : Tasks, src : {"window"}, at : 0 .. MaxTime \div Interval]
          \cup [task : Tasks, src : {"manual"}, at : 0 .. MaxInstant]

Window(k, time)   == [task |-> k, src |-> "window", at |-> time \div Interval]
Manual(k, moment) == [task |-> k, src |-> "manual", at |-> moment]

(* job.task is absent from a job that /run submits. *)
Jobs == [run : RunIds, task : Tasks \cup {NoTask}]
Keys == [of : {"run", "retry"}, run : RunIds]

RobotTypes == {"price_monitor", "news_monitor"}
Monitors   == {k \in Tasks : TypeOf[k] = "price_monitor"}

VARIABLES
    queue, keys, running, worker, dlq,   \* see JobRunner
    runs,     \* task_runs
    status,   \* tasks.status
    lock,     \* the tick whose session holds the advisory lock
    tick,     \* per tick thread: its await and the rows it has read
    price,    \* mockPriceState, per process: lastCheck of a task
    cmd,      \* per /run thread: its await and the task it has read
    instant,  \* the millisecond of the latest /run
    local,    \* per thread inside runOnce: the locals of its handler
    now, faults,
    \* history, read by no guard
    served,   \* pairs of a run and the task executed in its name
    timeouts, \* times a run was recovered as stuck
    grace     \* signals that may still be sent for a stopped task

W == INSTANCE JobRunner WITH DlqEnabled <- FALSE

runnerVars == <<queue, keys, running, worker, dlq>>
dbVars     == <<runs, status>>
robotVars  == <<lock, tick, price>>
cmdVars    == <<cmd, instant>>
envVars    == <<now, faults>>
history    == <<served, timeouts, grace>>
vars == <<runnerVars, dbVars, robotVars, cmdVars, local, envVars, history>>

IdleTick  == [at |-> "idle", retries |-> {}, tasks |-> {}]
IdleCmd   == [at |-> "idle", task |-> NoTask]
NoLocal   == [step |-> "none", attempt |-> 0, seen |-> 0]

TypeOK ==
    /\ W!TypeOK
    /\ runs   \in [RunIds -> Rows \cup {NoRow}]
    /\ status \in [Tasks -> {"active", "stopped"}]
    /\ lock   \in Robots \cup {NoThread}
    /\ tick   \in [Robots ->
                     [at : {"idle", "recover", "pick", "retries", "list", "tasks"},
                      retries : SUBSET [run : RunIds, due : Nat],
                      tasks   : SUBSET Tasks]]
    /\ price   \in [Procs -> [Tasks -> Nat \cup {Unset}]]
    /\ cmd     \in [Commands -> [at : {"idle", "ready", "running"},
                                 task : Tasks \cup {NoTask}]]
    /\ instant \in 0 .. MaxInstant
    /\ local   \in [Threads -> [step : {"none", "start", "recheck", "send"},
                                attempt : Nat, seen : Nat]]
    /\ now    \in 0 .. MaxTime
    /\ faults \in 0 .. MaxFaults
    /\ served   \subseteq [run : RunIds, task : Tasks]
    /\ timeouts \in [RunIds -> Nat]
    /\ grace    \in [Tasks -> Int]

Init ==
    /\ W!Init
    /\ runs     = [r \in RunIds |-> NoRow]
    /\ status   = [k \in Tasks |-> "active"]
    /\ lock     = NoThread
    /\ tick     = [t \in Robots |-> IdleTick]
    /\ price    = [p \in Procs |-> [k \in Tasks |-> Unset]]
    /\ cmd      = [t \in Commands |-> IdleCmd]
    /\ instant  = 0
    /\ local    = [t \in Threads |-> NoLocal]
    /\ now = 0 /\ faults = 0
    /\ served   = {}
    /\ timeouts = [r \in RunIds |-> 0]
    /\ grace    = [k \in Tasks |-> 0]

(* One more fault of this kind.  "db": a query fails; "answer": a query is *)
(* executed and its answer is lost; "send": the handler's I/O fails;       *)
(* "session": the lock's connection is lost; "crash": a process exits.     *)
Fault(kind) == kind \in Faults /\ faults < MaxFaults /\ faults' = faults + 1

-----------------------------------------------------------------------------
(* robotTick *)

Advance(t, from, to) ==
    /\ tick[t].at = from
    /\ ~W!Busy(t)
    /\ tick' = [tick EXCEPT ![t].at = to]

(* Mutant: the answer of pg_try_advisory_lock is not looked at. *)
TickStartUnlocked(t) ==
    /\ Advance(t, "idle", "recover")
    /\ lock' = t
    /\ UNCHANGED <<runnerVars, dbVars, price, cmdVars, local, envVars, history>>

(* tryAcquireRobotLock succeeds; otherwise the tick ends where it began. *)
TickStart(t) ==
    /\ lock = NoThread
    /\ Advance(t, "idle", "recover")
    /\ lock' = t
    /\ UNCHANGED <<runnerVars, dbVars, price, cmdVars, local, envVars, history>>

RecoverStuckTaskRuns(t) ==
    /\ Advance(t, "recover", "pick")
    /\ \/ /\ runs' = [r \in RunIds |-> Recovered(runs[r], now)]
          /\ timeouts' = [r \in RunIds |->
                            timeouts[r] + IF Stuck(runs[r], now) THEN 1 ELSE 0]
          /\ UNCHANGED faults
       \/ Fault("db") /\ UNCHANGED <<runs, timeouts>>
    /\ UNCHANGED <<runnerVars, status, lock, price, cmdVars, local, now, served, grace>>

(* Mutant: status = 'failed' for status LIKE 'failed%'. *)
DueRunsFailedOnly == {r \in RunIds : /\ RetryDue(runs[r], now)
                                     /\ runs[r].status = "failed"
                                     /\ status[r.task] = "active"
                                     /\ TypeOf[r.task] \in RobotTypes}

DueRuns == {r \in RunIds : /\ RetryDue(runs[r], now)
                           /\ status[r.task] = "active"
                           /\ TypeOf[r.task] \in RobotTypes}

(* pickAndRunDueRetries: ORDER BY retry_at ASC LIMIT RetryLimit. *)
PickDueRetries(t) ==
    /\ tick[t].at = "pick"
    /\ \/ \E picked \in SUBSET DueRuns :
             /\ \/ picked = DueRuns /\ Cardinality(picked) <= RetryLimit
                \/ Cardinality(picked) = RetryLimit
             /\ \A r \in picked, o \in DueRuns \ picked :
                   runs[r].retryAt <= runs[o].retryAt
             /\ tick' = [tick EXCEPT ![t].at = "retries",
                           ![t].retries = {[run |-> r, due |-> runs[r].retryAt] : r \in picked}]
          /\ UNCHANGED faults
       \/ Fault("db") /\ tick' = [tick EXCEPT ![t].at = "list"]
    /\ UNCHANGED <<runnerVars, dbVars, lock, price, cmdVars, local, now, history>>

(* const enq = enqueue(...); if (!enq.accepted) skip; await runOnce(...) *)
RobotSubmit(t, job, key) ==
    /\ Len(queue[Home[t]]) < MaxQueue
    /\ \/ W!SubmitRun(t, job, key)
       \/ W!SubmitQueued(t, job, key)
       \/ W!SubmitRejected(t, key)

RunRetry(t) ==
    /\ tick[t].at = "retries"
    /\ \E x \in tick[t].retries :
          /\ \A y \in tick[t].retries : x.due <= y.due
          /\ RobotSubmit(t, [run |-> x.run, task |-> x.run.task],
                            [of |-> "retry", run |-> x.run])
          /\ tick' = [tick EXCEPT ![t].retries = @ \ {x}]
    /\ UNCHANGED <<dbVars, lock, price, cmdVars, local, envVars, history>>

RetriesDone(t) ==
    /\ tick[t].retries = {}
    /\ Advance(t, "retries", "list")
    /\ UNCHANGED <<runnerVars, dbVars, lock, price, cmdVars, local, envVars, history>>

(* getActiveRobotTasks.  When it fails, no task is visited. *)
ListTasks(t) ==
    /\ tick[t].at = "list"
    /\ ~W!Busy(t)
    /\ \/ /\ tick' = [tick EXCEPT ![t].at = "tasks",
                        ![t].tasks = {k \in Tasks : status[k] = "active"
                                                    /\ TypeOf[k] \in RobotTypes}]
          /\ UNCHANGED faults
       \/ Fault("db") /\ tick' = [tick EXCEPT ![t].at = "tasks"]
    /\ UNCHANGED <<runnerVars, dbVars, lock, price, cmdVars, local, now, history>>

IsDue(p, k) == price[p][k] # Unset /\ now - price[p][k] >= Interval

(* One turn of the loop over tasks, ORDER BY id: handlePriceMonitorTask.   *)
VisitTask(t) ==
    LET p == Home[t] IN
    /\ tick[t].at = "tasks"
    /\ ~W!Busy(t)
    /\ \E k \in tick[t].tasks :
          /\ \A j \in tick[t].tasks : k <= j
          /\ tick' = [tick EXCEPT ![t].tasks = @ \ {k}]
          /\ \/ /\ k \in Monitors /\ IsDue(p, k)
                /\ RobotSubmit(t, [run |-> Window(k, now), task |-> k],
                                  [of |-> "run", run |-> Window(k, now)])
                /\ UNCHANGED price
             \/ /\ k \in Monitors /\ price[p][k] = Unset
                /\ price' = [price EXCEPT ![p][k] = now]
                /\ UNCHANGED runnerVars
             \/ /\ k \in Monitors => price[p][k] # Unset /\ ~IsDue(p, k)
                /\ UNCHANGED <<price, runnerVars>>
    /\ UNCHANGED <<dbVars, lock, cmdVars, local, envVars, history>>

(* Mutant: the early return of an empty task list skips the unlock. *)
ReleaseRobotLockNever(t) ==
    /\ tick[t].tasks = {}
    /\ Advance(t, "tasks", "idle")
    /\ UNCHANGED <<runnerVars, dbVars, lock, price, cmdVars, local, envVars, history>>

(* The finally block.  A lock whose session is gone is not held any more. *)
ReleaseRobotLock(t) ==
    /\ tick[t].tasks = {}
    /\ Advance(t, "tasks", "idle")
    /\ lock' = IF lock = t THEN NoThread ELSE lock
    /\ UNCHANGED <<runnerVars, dbVars, price, cmdVars, local, envVars, history>>

TickGoesOn(t) ==
    \/ RecoverStuckTaskRuns(t) \/ PickDueRetries(t) \/ RunRetry(t)
    \/ RetriesDone(t) \/ ListTasks(t) \/ VisitTask(t) \/ ReleaseRobotLock(t)

-----------------------------------------------------------------------------
(* /run *)

(* getTaskById *)
RunCommand(t, k) ==
    /\ cmd[t].at = "idle"
    /\ cmd' = [cmd EXCEPT ![t] = [at |-> "ready", task |-> k]]
    /\ UNCHANGED <<runnerVars, dbVars, robotVars, instant, local, envVars, history>>

(* enqueue, its answer ignored, then runOnce. *)
RunCommandSubmits(t) ==
    /\ cmd[t].at = "ready"
    /\ Len(queue[Home[t]]) < MaxQueue
    /\ \E i \in {instant, instant + 1} \cap 0 .. MaxInstant :
          LET r == Manual(cmd[t].task, i)
              job == [run |-> r, task |-> NoTask]
              key == [of |-> "run", run |-> r] IN
          /\ instant' = i
          /\ \/ W!SubmitRun(t, job, key)
             \/ W!SubmitQueued(t, job, key)
             \/ W!RejectedThenRun(t, key)
    /\ cmd' = [cmd EXCEPT ![t].at = "running"]
    /\ UNCHANGED <<dbVars, robotVars, local, envVars, history>>

RunCommandReturns(t) ==
    /\ cmd[t].at = "running"
    /\ ~W!Busy(t)
    /\ cmd' = [cmd EXCEPT ![t] = IdleCmd]
    /\ UNCHANGED <<runnerVars, dbVars, robotVars, instant, local, envVars, history>>

CommandStep(t) == RunCommandSubmits(t) \/ RunCommandReturns(t)

-----------------------------------------------------------------------------
(* runOnce: JobRunner's actions with their effect on the database *)

RunOf(t) == worker[t].item.job.run

GateStartsRun(t) ==
    /\ W!GateOpens(t)
    /\ MayStart(runs[RunOf(t)], now)
    /\ runs' = [runs EXCEPT ![RunOf(t)] = Started(@, now)]
    /\ local' = [local EXCEPT ![t] =
                   [step |-> "start", seen |-> 0,
                    attempt |-> Started(runs[RunOf(t)], now).attempts]]
    /\ UNCHANGED <<status, robotVars, cmdVars, envVars, history>>

GateSkipsRun(t) ==
    /\ W!GateSkips(t)
    /\ ~MayStart(runs[RunOf(t)], now)
    /\ UNCHANGED <<dbVars, robotVars, cmdVars, local, envVars, history>>

GateFails(t) ==
    /\ W!GateThrows(t)
    /\ \/ Fault("db") /\ UNCHANGED runs
       \/ /\ Fault("answer")
          /\ MayStart(runs[RunOf(t)], now)
          /\ runs' = [runs EXCEPT ![RunOf(t)] = Started(@, now)]
    /\ UNCHANGED <<status, robotVars, cmdVars, local, now, history>>

FinishesRun(t) ==
    /\ W!FinishWritten(t)
    /\ runs'  = [runs EXCEPT ![RunOf(t)] = Completed(@)]
    /\ local' = [local EXCEPT ![t] = NoLocal]
    /\ UNCHANGED <<status, robotVars, cmdVars, envVars, history>>

FinishFails(t) ==
    /\ W!FinishThrows(t)
    /\ \/ Fault("db") /\ UNCHANGED runs
       \/ Fault("answer") /\ runs' = [runs EXCEPT ![RunOf(t)] = Completed(@)]
    /\ UNCHANGED <<status, robotVars, cmdVars, local, now, history>>

ReadsAttempts(t) ==
    /\ W!AttemptsRead(t)
    /\ local' = [local EXCEPT ![t].seen = AttemptsOf(runs[RunOf(t)])]
    /\ UNCHANGED <<dbVars, robotVars, cmdVars, envVars, history>>

MarksFailed(t) ==
    /\ W!MarkWritten(t)
    /\ \E at \in RetryTimes(local[t].seen, now) :
          runs' = [runs EXCEPT ![RunOf(t)] = MarkedFailed(@, at)]
    /\ UNCHANGED <<status, robotVars, cmdVars, local, envVars, history>>

CatchFails(t) ==
    /\ W!CatchThrows(t)
    /\ Fault("db")
    /\ UNCHANGED <<dbVars, robotVars, cmdVars, local, now, history>>

FailsItem(t) ==
    /\ W!Fail(t)
    /\ local' = [local EXCEPT ![t] = NoLocal]
    /\ UNCHANGED <<dbVars, robotVars, cmdVars, envVars, history>>

RunnerStep(t) ==
    \/ GateStartsRun(t) \/ GateSkipsRun(t) \/ GateFails(t)
    \/ FinishesRun(t) \/ FinishFails(t)
    \/ ReadsAttempts(t) \/ MarksFailed(t) \/ CatchFails(t) \/ FailsItem(t)

-----------------------------------------------------------------------------
(* The handlers.  A tick passes a closure that looks at the JOB's task;    *)
(* a /run passes one that runs the task of the COMMAND, whatever job it is *)
(* given.                                                                  *)

AtStep(t, step) == worker[t].stage = "handler" /\ local[t].step = step

JobTask(t) == worker[t].item.job.task

Serve(t, k) == served' = served \cup {[run |-> RunOf(t), task |-> k]}

(* Nothing to do for this job: no task, or a type without a handler. *)
RobotIgnoresJob(t) ==
    /\ AtStep(t, "start")
    /\ JobTask(t) \notin Monitors
    /\ W!HandlerReturns(t)
    /\ UNCHANGED <<dbVars, robotVars, cmdVars, local, envVars, history>>

(* handlePriceMonitorTaskDirect, first sight of the task or not yet due. *)
PriceNotChecked(t) ==
    LET p == Home[t]  k == JobTask(t) IN
    /\ AtStep(t, "start")
    /\ k \in Monitors
    /\ ~IsDue(p, k)
    /\ price' = IF price[p][k] = Unset THEN [price EXCEPT ![p][k] = now] ELSE price
    /\ W!HandlerReturns(t)
    /\ UNCHANGED <<dbVars, lock, tick, cmdVars, local, envVars, history>>

PriceForcedToFail(t) ==
    LET p == Home[t]  k == JobTask(t) IN
    /\ AtStep(t, "start")
    /\ k \in Monitors \cap ForcedFail
    /\ IsDue(p, k)
    /\ W!HandlerThrows(t)
    /\ UNCHANGED <<dbVars, robotVars, cmdVars, local, envVars, history>>

(* The price is checked; it moved beyond the threshold or it did not. *)
PriceChecked(t) ==
    LET p == Home[t]  k == JobTask(t) IN
    /\ AtStep(t, "start")
    /\ k \in Monitors \ ForcedFail
    /\ IsDue(p, k)
    /\ price' = [price EXCEPT ![p][k] = now]
    /\ \/ /\ W!HandlerReturns(t)
          /\ Serve(t, k)
          /\ UNCHANGED local
       \/ /\ local' = [local EXCEPT ![t].step = "recheck"]
          /\ UNCHANGED <<runnerVars, served>>
    /\ UNCHANGED <<dbVars, lock, tick, cmdVars, envVars, timeouts, grace>>

(* Mutant: no re-check before the signal. *)
RecheckSkipped(t) ==
    /\ AtStep(t, "recheck")
    /\ local' = [local EXCEPT ![t].step = "send"]
    /\ UNCHANGED <<runnerVars, dbVars, robotVars, cmdVars, envVars, history>>

(* isTaskStillActive; an error of the query counts as not active. *)
RecheckActive(t) ==
    /\ AtStep(t, "recheck")
    /\ status[JobTask(t)] = "active"
    /\ local' = [local EXCEPT ![t].step = "send"]
    /\ UNCHANGED <<runnerVars, dbVars, robotVars, cmdVars, envVars, history>>

RecheckNotActive(t) ==
    /\ AtStep(t, "recheck")
    /\ \/ status[JobTask(t)] # "active" /\ Serve(t, JobTask(t)) /\ UNCHANGED faults
       \/ Fault("db") /\ UNCHANGED served
    /\ W!HandlerReturns(t)
    /\ UNCHANGED <<dbVars, robotVars, cmdVars, local, now, timeouts, grace>>

SendSignal(t) ==
    LET k == JobTask(t) IN
    /\ AtStep(t, "send")
    /\ W!HandlerReturns(t)
    /\ Serve(t, k)
    /\ grace' = IF status[k] = "active" THEN grace ELSE [grace EXCEPT ![k] = @ - 1]
    /\ UNCHANGED <<dbVars, robotVars, cmdVars, local, envVars, timeouts>>

(* resolveChatIdByGlobalUserId swallows the error of its query. *)
SendFindsNoChat(t) ==
    /\ AtStep(t, "send")
    /\ Fault("db")
    /\ W!HandlerReturns(t)
    /\ UNCHANGED <<dbVars, robotVars, cmdVars, local, now, history>>

SendFails(t) ==
    /\ AtStep(t, "send")
    /\ Fault("send")
    /\ W!HandlerThrows(t)
    /\ UNCHANGED <<dbVars, robotVars, cmdVars, local, now, history>>

(* runTaskWithAI on the command's task, or its refusal. *)
AiRuns(t) ==
    /\ AtStep(t, "start")
    /\ W!HandlerReturns(t)
    /\ IF cmd[t].task \in MayRun THEN Serve(t, cmd[t].task) ELSE UNCHANGED served
    /\ UNCHANGED <<dbVars, robotVars, cmdVars, local, envVars, timeouts, grace>>

AiFails(t) ==
    /\ AtStep(t, "start")
    /\ Fault("send")
    /\ W!HandlerThrows(t)
    /\ UNCHANGED <<dbVars, robotVars, cmdVars, local, now, history>>

RobotHandler(t) ==
    \/ RobotIgnoresJob(t) \/ PriceNotChecked(t) \/ PriceForcedToFail(t)
    \/ PriceChecked(t) \/ RecheckActive(t) \/ RecheckNotActive(t)
    \/ SendSignal(t) \/ SendFindsNoChat(t) \/ SendFails(t)

CommandHandler(t) == AiRuns(t) \/ AiFails(t)

-----------------------------------------------------------------------------
(* Users and the environment *)

(* The workers that have re-checked the task and are about to signal. *)
Senders(k) == {t \in Robots : AtStep(t, "send") /\ JobTask(t) = k}

SetStatus(ks, s) ==
    /\ status' = [k \in Tasks |-> IF k \in ks THEN s ELSE status[k]]
    /\ grace'  = [k \in Tasks |-> IF status[k] = "active" /\ status'[k] = "stopped"
                                   THEN Cardinality(Senders(k)) ELSE grace[k]]
    /\ UNCHANGED <<runnerVars, runs, robotVars, cmdVars, local, envVars, served, timeouts>>

StartTask(k)       == SetStatus({k}, "active")
StopTask(k)        == SetStatus({k}, "stopped")
StopTasksType(ty)  == SetStatus({k \in Tasks : TypeOf[k] = ty}, "stopped")
StopAllTasks       == SetStatus(Tasks, "stopped")

(* Past the gate and not yet past the last write to its row. *)
Live(t) == worker[t].stage \in {"handler", "finish", "attempts", "mark"}

Clock ==
    /\ now < MaxTime
    /\ MayHang \/ \A t \in Threads : Live(t) => ~Stuck(runs[RunOf(t)], now + 1)
    /\ now' = now + 1
    /\ UNCHANGED <<runnerVars, dbVars, robotVars, cmdVars, local, faults, history>>

LoseSession ==
    /\ Fault("session")
    /\ lock # NoThread
    /\ lock' = NoThread
    /\ UNCHANGED <<runnerVars, dbVars, tick, price, cmdVars, local, now, history>>

Crash(p) ==
    /\ Fault("crash")
    /\ W!Restart(p)
    /\ tick'  = [t \in Robots |-> IF Home[t] = p THEN IdleTick ELSE tick[t]]
    /\ cmd'   = [t \in Commands |-> IF Home[t] = p THEN IdleCmd ELSE cmd[t]]
    /\ local' = [t \in Threads |-> IF Home[t] = p THEN NoLocal ELSE local[t]]
    /\ lock'  = IF lock # NoThread /\ Home[lock] = p THEN NoThread ELSE lock
    /\ price' = [price EXCEPT ![p] = [k \in Tasks |-> Unset]]
    /\ UNCHANGED <<dbVars, instant, now, history>>

Next ==
    \/ \E t \in Robots   : TickStart(t) \/ TickGoesOn(t) \/ RobotHandler(t)
    \/ \E t \in Commands : CommandStep(t) \/ CommandHandler(t)
    \/ \E t \in Commands, k \in Tasks : RunCommand(t, k)
    \/ \E t \in Threads  : RunnerStep(t)
    \/ \E k \in Tasks    : StartTask(k) \/ StopTask(k)
    \/ \E ty \in {TypeOf[k] : k \in Tasks} : StopTasksType(ty)
    \/ StopAllTasks
    \/ Clock \/ LoseSession
    \/ \E p \in Procs : Crash(p)

Spec == Init /\ [][Next]_vars
(* Every thread that waits for an answer gets one, time passes, and when   *)
(* the robot's lock is free some process's 30-second interval fires and    *)
(* takes it: which one is not promised, pg_try_advisory_lock has no queue. *)
(* Users, faults and restarts are under no obligation.                     *)
Fairness ==
    /\ WF_vars(\E t \in Robots : TickStart(t))
    /\ \A t \in Robots   : WF_vars(TickGoesOn(t) \/ RunnerStep(t) \/ RobotHandler(t))
    /\ \A t \in Commands : WF_vars(CommandStep(t) \/ RunnerStep(t) \/ CommandHandler(t))
    /\ WF_vars(Clock)

FairSpec == Spec /\ Fairness

-----------------------------------------------------------------------------
(* No run is being executed by two workers at a time, in one process or    *)
(* in two: the gate of tryStartTaskRun admits one worker per attempt.      *)
NoOverlap ==
    \A t1, t2 \in Threads :
       t1 # t2 /\ Live(t1) /\ Live(t2) => RunOf(t1) # RunOf(t2)

(* Two workers of one run never believe to be the same attempt, and none   *)
(* is ahead of the row: true even when a run outlasts the recovery's       *)
(* timeout and is started again beside the first worker.                   *)
AttemptsDistinct ==
    \A t1, t2 \in Threads :
       Live(t1) =>
         /\ local[t1].attempt <= runs[RunOf(t1)].attempts
         /\ t1 # t2 /\ Live(t2) /\ RunOf(t1) = RunOf(t2)
               => local[t1].attempt # local[t2].attempt

(* Retries come from the policy, at most MaxRetries attempts, and beyond   *)
(* that only from the recovery, one for each time it fired.                *)
AttemptsBounded ==
    \A r \in RunIds :
       runs[r] # NoRow =>
          runs[r].attempts <= timeouts[r] + IF MaxRetries = 0 THEN 1 ELSE MaxRetries

(* Of all the ticks of all the processes one is between the acquisition    *)
(* and the release of the robot's lock.                                    *)
SingleTick ==
    \A t1, t2 \in Robots :
       tick[t1].at # "idle" /\ tick[t2].at # "idle" => t1 = t2

(* Stopping a task silences it: the only signals that may follow are those *)
(* of the workers that had re-checked its status before it was stopped.    *)
StopSilences ==
    \A k \in Tasks : status[k] = "stopped" => Cardinality(Senders(k)) <= grace[k]

(* task_runs implements the lifecycle of RunLifecycle. *)
Phase(row) ==
    IF row = NoRow THEN "new"
    ELSE IF row.status \in FailedStatus THEN "failed" ELSE row.status

LiveOn(r) == {t \in Threads : Live(t) /\ RunOf(t) = r}

Lifecycle == INSTANCE RunLifecycle WITH
    Runs     <- RunIds,
    phase    <- [r \in RunIds |-> Phase(runs[r])],
    attempts <- [r \in RunIds |-> IF runs[r] = NoRow THEN 0 ELSE runs[r].attempts],
    workers  <- [r \in RunIds |-> Cardinality(LiveOn(r))]

ImplementsLifecycle == Lifecycle!Spec

-----------------------------------------------------------------------------
(* Liveness *)

(* A tick that holds the lock always reaches its finally block. *)
LockFreed == lock # NoThread ~> lock = NoThread

(* No worker stays inside runOnce for ever. *)
RunnerFreed == \A p \in Procs : running[p] ~> ~running[p]

WaitsForRetry(r) ==
    /\ RetryDue(runs[r], now)
    /\ status[r.task] = "active"
    /\ r.task \in Monitors

(* A due retry of an active monitor is consumed, unless the user stops the *)
(* task: ticks come back, take the lock and find the row.                  *)
RetryConsumed == \A r \in RunIds : WaitsForRetry(r) ~> ~WaitsForRetry(r)

(* A run that is executing reaches a final row or waits for its retry,     *)
(* whatever happens to its worker: the recovery of stuck runs ends those   *)
(* whose worker is gone.                                                   *)
RunEnds ==
    \A r \in RunIds :
       Phase(runs[r]) = "running" /\ now + StuckAfter < MaxTime
          ~> Phase(runs[r]) # "running"

-----------------------------------------------------------------------------
(* What the repository says of task execution and the code does not do *)

(* pillars/modules/tasks/CONTRACTS.md 2.5: retry limits are respected. *)
RetryLimitRespected ==
    \A r \in RunIds : runs[r] # NoRow => runs[r].attempts <= MaxRetries

(* CONTRACTS.md 5 forbids silent execution loss: a /run that task_runs     *)
(* shows as completed has run its task.                                    *)
ManualRunExecuted ==
    \A r \in RunIds :
       r.src = "manual" /\ Phase(runs[r]) = "completed"
          => [run |-> r, task |-> r.task] \in served

(* CONTRACTS.md 2.4: success and failure stay visible; a scheduled run     *)
(* that task_runs shows as completed has checked the price and delivered   *)
(* the signal it owed.                                                     *)
ScheduledRunServed ==
    \A r \in RunIds :
       r.src = "window" /\ Phase(runs[r]) = "completed"
          => [run |-> r, task |-> r.task] \in served
=============================================================================
