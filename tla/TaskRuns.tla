------------------------------ MODULE TaskRuns ------------------------------
(***************************************************************************)
(* One row of the table task_runs, as the statements of                    *)
(* src/db/taskRunsRepo.js and of the robot's recovery rewrite it, and the  *)
(* retry policy of src/jobs/retryPolicy.js.  (task_id, run_key) is unique, *)
(* so a run has at most one row; TaskExecution keeps the table.            *)
(*                                                                         *)
(* Time is a natural number, the database's NOW() and the processes'       *)
(* Date.now() alike.                                                       *)
(***************************************************************************)
EXTENDS Integers

CONSTANTS
    MaxRetries,   \* JOB_MAX_RETRIES
    RetryDelays,  \* the values computeBackoffDelayMs may return
    StuckAfter,   \* TIMEOUT_MINUTES of recoverStuckTaskRuns
    NoRow,        \* no row for the run
    Null          \* SQL NULL

ASSUME MaxRetriesAssumption  == MaxRetries \in Nat
ASSUME RetryDelaysAssumption == RetryDelays \subseteq Nat
ASSUME StuckAfterAssumption  == StuckAfter \in Nat
ASSUME NullAssumption        == Null \notin Nat

FailedStatus == {"failed", "failed_timeout"}

Rows == [status    : {"running", "completed"} \cup FailedStatus,
         attempts  : Nat \ {0},
         retryAt   : Nat \cup {Null},
         startedAt : Nat]

ASSUME NoRowAssumption == NoRow \notin Rows

-----------------------------------------------------------------------------
(* Plausible mistakes, each the body of a mutant: the ON CONFLICT update    *)
(* without its WHERE, attempts not incremented or left at the column's      *)
(* default, one retry too many, a recovery that ignores the status or       *)
(* compares the wrong way round.                                            *)
MayStartAny(row, now)     == TRUE
StartedSameAttempt(row, now) ==
    [status |-> "running", attempts |-> IF row = NoRow THEN 1 ELSE row.attempts,
     retryAt |-> Null, startedAt |-> now]
StartedAtZero(row, now) ==
    [status |-> "running", attempts |-> IF row = NoRow THEN 0 ELSE row.attempts + 1,
     retryAt |-> Null, startedAt |-> now]
ShouldRetryOnceMore(attempts) == attempts <= MaxRetries
StuckAnyStatus(row, now)  == row # NoRow /\ row.startedAt < now - StuckAfter
StuckSwapped(row, now) ==
    row # NoRow /\ row.status = "running" /\ row.startedAt > now - StuckAfter

(* status LIKE 'failed%' AND retry_at IS NOT NULL AND retry_at <= NOW() *)
RetryDue(row, now) ==
    /\ row # NoRow
    /\ row.status \in FailedStatus
    /\ row.retryAt # Null
    /\ row.retryAt <= now

(* tryStartTaskRun: when the INSERT ... ON CONFLICT DO UPDATE ... WHERE     *)
(* returns a row, and the row it leaves.                                   *)
MayStart(row, now) == row = NoRow \/ RetryDue(row, now)

Started(row, now) ==
    [status    |-> "running",
     attempts  |-> IF row = NoRow THEN 1 ELSE row.attempts + 1,
     retryAt   |-> Null,
     startedAt |-> now]

(* finishTaskRun: the UPDATE names the run only, neither its status nor    *)
(* the attempt the caller started.                                         *)
Completed(row) ==
    IF row = NoRow THEN NoRow ELSE [row EXCEPT !.status = "completed"]

(* markTaskRunFailed: the same. *)
MarkedFailed(row, at) ==
    IF row = NoRow THEN NoRow
    ELSE [row EXCEPT !.status = "failed", !.retryAt = at]

(* getTaskRunAttempts, with the caller's ?? 1. *)
AttemptsOf(row) == IF row = NoRow THEN 1 ELSE row.attempts

(* shouldRetry and retryAtIso *)
ShouldRetry(attempts) == attempts < MaxRetries

RetryTimes(attempts, now) ==
    IF ShouldRetry(attempts) THEN {now + d : d \in RetryDelays} ELSE {Null}

(* recoverStuckTaskRuns *)
Stuck(row, now) ==
    /\ row # NoRow
    /\ row.status = "running"
    /\ row.startedAt < now - StuckAfter

Recovered(row, now) ==
    IF Stuck(row, now)
      THEN [row EXCEPT !.status = "failed_timeout", !.retryAt = now]
      ELSE row
=============================================================================
