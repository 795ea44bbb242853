------------------------------ MODULE JobRunner ------------------------------
(***************************************************************************)
(* The in-memory worker of src/jobs/jobRunner.js: one JobRunner object per *)
(* server process (src/jobs/jobRunnerInstance.js), called by the           *)
(* process's robot ticks and by its /run command handlers, the "threads".  *)
(*                                                                         *)
(* Node runs a thread without interruption from one await on I/O to the    *)
(* next, so one action is one such segment.  In particular                 *)
(*     const enq = jobRunner.enqueue(...); await jobRunner.runOnce(h)      *)
(* reaches its first await inside tryStartTaskRun: the submission, the     *)
(* test of _running and the removal of the head are ONE action.            *)
(*                                                                         *)
(* What the database and the handler answer is left open here: every       *)
(* outcome is an action of its own, and TaskExecution conjoins each with   *)
(* its effect on the task_runs table.                                      *)
(***************************************************************************)
EXTENDS Naturals, Sequences, FiniteSets

CONSTANTS
    Procs,       \* server processes, each with its own JobRunner object
    Threads,     \* asynchronous callers of runOnce
    Home,        \* Home[t] is the process thread t lives in
    Jobs,        \* what an item carries
    Keys,        \* idempotency keys
    NoKey,       \* the caller gave no idempotency key
    NoItem,      \* the thread holds no item
    DlqEnabled,  \* environment JOB_DLQ_ENABLED
    MaxQueue     \* bound: queue length up to which callers submit

ASSUME HomeAssumption     == Home \in [Threads -> Procs]
ASSUME NoKeyAssumption    == NoKey \notin Keys
ASSUME DlqAssumption      == DlqEnabled \in BOOLEAN
ASSUME MaxQueueAssumption == MaxQueue \in Nat

Items == [job : Jobs, key : Keys \cup {NoKey}]
ASSUME NoItemAssumption == NoItem \notin Items

VARIABLES
    queue,    \* this._queue
    keys,     \* this._keys (the domain of _keyToJobId)
    running,  \* this._running
    worker,   \* per thread: where it is inside runOnce, and its item
    dlq       \* this._dlq, as the set of the items pushed to it

runnerVars == <<queue, keys, running, worker, dlq>>

(* The awaits of runOnce.  "gate": tryStartTaskRun; "handler": the         *)
(* caller's handler; "finish": finishTaskRun; "attempts" and "mark":       *)
(* getTaskRunAttempts and markTaskRunFailed in the catch block; "fail":    *)
(* safeLogErrorEvent and the DLQ insert.                                   *)
Stages == {"idle", "gate", "handler", "finish", "attempts", "mark", "fail"}

Idle    == [stage |-> "idle", item |-> NoItem]
Busy(t) == worker[t].stage # "idle"

TypeOK ==
    /\ queue   \in [Procs -> Seq(Items)]
    /\ keys    \in [Procs -> SUBSET Keys]
    /\ running \in [Procs -> BOOLEAN]
    /\ worker  \in [Threads -> [stage : Stages, item : Items \cup {NoItem}]]
    /\ dlq     \in [Procs -> SUBSET Items]

Init ==
    /\ queue   = [p \in Procs |-> <<>>]
    /\ keys    = [p \in Procs |-> {}]
    /\ running = [p \in Procs |-> FALSE]
    /\ worker  = [t \in Threads |-> Idle]
    /\ dlq     = [p \in Procs |-> {}]

-----------------------------------------------------------------------------
(* enqueue *)

(* Plausible mistakes, each the body of a mutant; nothing else uses them:  *)
(* no duplicate test, a key added unconditionally, no release of the key,  *)
(* no test of _running, no finally block.                                  *)
AcceptsAll(p, key)   == TRUE
ReserveAny(p, key)   == keys' = [keys EXCEPT ![p] = @ \cup {key}]
ReleaseNone(p, k)    == UNCHANGED keys
TakeHeadAnyTime(t, q) ==
    /\ queue'   = [queue   EXCEPT ![Home[t]] = Tail(q)]
    /\ running' = [running EXCEPT ![Home[t]] = TRUE]
    /\ worker'  = [worker  EXCEPT ![t] = [stage |-> "gate", item |-> Head(q)]]
LeaveNoFinally(t) ==
    /\ keys'   = [keys   EXCEPT ![Home[t]] = @ \ {worker[t].item.key}]
    /\ worker' = [worker EXCEPT ![t] = Idle]
    /\ UNCHANGED <<queue, running>>

Accepts(p, key)   == key \notin keys[p]
Reserve(p, key)   == keys' = [keys EXCEPT ![p] = @ \cup ({key} \ {NoKey})]
ReleaseKey(p, k)  == keys' = [keys EXCEPT ![p] = @ \ {k}]

(* runOnce up to its first await, when the queue holds q # << >>. *)
TakeHead(t, q) ==
    /\ ~running[Home[t]]
    /\ queue'   = [queue   EXCEPT ![Home[t]] = Tail(q)]
    /\ running' = [running EXCEPT ![Home[t]] = TRUE]
    /\ worker'  = [worker  EXCEPT ![t] = [stage |-> "gate", item |-> Head(q)]]

(* enqueue accepts and runOnce starts: on the HEAD of the queue, which is  *)
(* the new item only when the queue was empty.                             *)
SubmitRun(t, job, key) ==
    /\ ~Busy(t)
    /\ Accepts(Home[t], key)
    /\ TakeHead(t, Append(queue[Home[t]], [job |-> job, key |-> key]))
    /\ Reserve(Home[t], key)
    /\ UNCHANGED dlq

(* enqueue accepts and runOnce answers already_running: the item stays. *)
SubmitQueued(t, job, key) ==
    /\ ~Busy(t)
    /\ Accepts(Home[t], key)
    /\ running[Home[t]]
    /\ queue' = [queue EXCEPT ![Home[t]] = Append(@, [job |-> job, key |-> key])]
    /\ Reserve(Home[t], key)
    /\ UNCHANGED <<running, worker, dlq>>

(* enqueue answers duplicate_idempotency_key and the caller gives up. *)
SubmitRejected(t, key) ==
    /\ ~Busy(t)
    /\ ~Accepts(Home[t], key)
    /\ UNCHANGED runnerVars

(* The same answer, to a caller that ignores it and calls runOnce. *)
RejectedThenRun(t, key) ==
    /\ ~Busy(t)
    /\ ~Accepts(Home[t], key)
    /\ \/ /\ queue[Home[t]] # <<>>
          /\ TakeHead(t, queue[Home[t]])
          /\ UNCHANGED <<keys, dlq>>
       \/ /\ running[Home[t]] \/ queue[Home[t]] = <<>>
          /\ UNCHANGED runnerVars

-----------------------------------------------------------------------------
(* runOnce, from await to await *)

Goto(t, from, to) ==
    /\ worker[t].stage = from
    /\ worker' = [worker EXCEPT ![t].stage = to]
    /\ UNCHANGED <<queue, keys, running, dlq>>

(* ack or fail, the return, and the finally block. *)
Leave(t) ==
    /\ ReleaseKey(Home[t], worker[t].item.key)
    /\ running' = [running EXCEPT ![Home[t]] = FALSE]
    /\ worker'  = [worker  EXCEPT ![t] = Idle]
    /\ UNCHANGED queue

GateOpens(t)      == Goto(t, "gate", "handler")
GateThrows(t)     == Goto(t, "gate", "fail")
HandlerReturns(t) == Goto(t, "handler", "finish")
HandlerThrows(t)  == Goto(t, "handler", "attempts")
FinishThrows(t)   == Goto(t, "finish", "attempts")
AttemptsRead(t)   == Goto(t, "attempts", "mark")
MarkWritten(t)    == Goto(t, "mark", "fail")

(* An error of the catch block's own queries is swallowed. *)
CatchThrows(t) == Goto(t, "attempts", "fail") \/ Goto(t, "mark", "fail")

(* The gate did not start the run: skipped_dedup. *)
GateSkips(t)     == worker[t].stage = "gate"   /\ Leave(t) /\ UNCHANGED dlq
FinishWritten(t) == worker[t].stage = "finish" /\ Leave(t) /\ UNCHANGED dlq

Fail(t) ==
    /\ worker[t].stage = "fail"
    /\ Leave(t)
    /\ IF DlqEnabled
         THEN dlq' = [dlq EXCEPT ![Home[t]] = @ \cup {worker[t].item}]
         ELSE UNCHANGED dlq

Progress(t) ==
    \/ GateOpens(t) \/ GateSkips(t) \/ GateThrows(t)
    \/ HandlerReturns(t) \/ HandlerThrows(t)
    \/ FinishWritten(t) \/ FinishThrows(t)
    \/ AttemptsRead(t) \/ MarkWritten(t) \/ CatchThrows(t)
    \/ Fail(t)

(* The process exits and is started again: all of this is memory. *)
Restart(p) ==
    /\ queue'   = [queue   EXCEPT ![p] = <<>>]
    /\ keys'    = [keys    EXCEPT ![p] = {}]
    /\ running' = [running EXCEPT ![p] = FALSE]
    /\ worker'  = [t \in Threads |-> IF Home[t] = p THEN Idle ELSE worker[t]]
    /\ dlq'     = [dlq     EXCEPT ![p] = {}]

Submit(t) ==
    /\ Len(queue[Home[t]]) < MaxQueue
    /\ \E job \in Jobs, key \in Keys \cup {NoKey} :
          \/ SubmitRun(t, job, key)
          \/ SubmitQueued(t, job, key)
          \/ SubmitRejected(t, key)
          \/ RejectedThenRun(t, key)

Next ==
    \/ \E t \in Threads : Submit(t) \/ Progress(t)
    \/ \E p \in Procs : Restart(p)

Spec == Init /\ [][Next]_runnerVars
-----------------------------------------------------------------------------
(* One item at a time: _running is set exactly while some thread of the    *)
(* process is between the shift of runOnce and its finally block, and two  *)
(* threads never are.  A lost reset blocks the worker for good; a second   *)
(* thread inside runs two handlers at once.                                *)
OneAtATime ==
    /\ \A t1, t2 \in Threads :
          Busy(t1) /\ Busy(t2) /\ Home[t1] = Home[t2] => t1 = t2
    /\ \A p \in Procs :
          running[p] <=> \E t \in Threads : Home[t] = p /\ Busy(t)

KeysOf(q)       == {q[i].key : i \in DOMAIN q} \ {NoKey}
DistinctKeys(q) == \A i, j \in DOMAIN q :
                      q[i].key = q[j].key /\ q[i].key # NoKey => i = j
HeldKeys(p)     == {worker[t].item.key : t \in {u \in Threads : Home[u] = p /\ Busy(u)}}
                   \ {NoKey}

(* _keys holds the keys of the queued items and of the running one and     *)
(* nothing else: a key released early lets the same work be queued twice,  *)
(* a key never released blocks that work until the process restarts.       *)
KeysMatch ==
    \A p \in Procs : keys[p] = KeysOf(queue[p]) \cup HeldKeys(p)

(* enqueue's promise to its callers: two outstanding items of a process    *)
(* never carry the same idempotency key.                                   *)
KeysDistinct ==
    \A p \in Procs :
       /\ DistinctKeys(queue[p])
       /\ KeysOf(queue[p]) \cap HeldKeys(p) = {}

(* Inside runOnce, and only there, a thread holds an item. *)
ItemHeld == \A t \in Threads : Busy(t) <=> worker[t].item # NoItem

(* The inductive invariant of the worker. *)
RunnerInv == TypeOK /\ ItemHeld /\ OneAtATime /\ KeysMatch /\ KeysDistinct
=============================================================================
