---------------------------- MODULE RunLifecycle ----------------------------
(***************************************************************************)
(* What task_runs promises of each run, the gate of taskRunsRepo.js being  *)
(* the only way in: a run is started, by one worker at a time, and each    *)
(* start is the next attempt; it ends completed or failed; a failed run    *)
(* may be started again and a completed one is final.  One step may move   *)
(* several runs, as one UPDATE does.                                       *)
(***************************************************************************)
EXTENDS Naturals

CONSTANT Runs

VARIABLES phase, attempts, workers

lifecycleVars == <<phase, attempts, workers>>

Init ==
    /\ phase    = [r \in Runs |-> "new"]
    /\ attempts = [r \in Runs |-> 0]
    /\ workers  = [r \in Runs |-> 0]

(* A worker passes the gate. *)
Start(r) ==
    /\ phase[r] \in {"new", "failed"}  /\ phase'[r] = "running"
    /\ attempts'[r] = attempts[r] + 1
    /\ workers[r] = 0                  /\ workers'[r] = 1

(* The run ends, by its worker or by the recovery of stuck runs. *)
End(r) ==
    /\ phase[r] = "running"            /\ phase'[r] \in {"failed", "completed"}
    /\ attempts'[r] = attempts[r]
    /\ workers'[r] = 0

(* Its worker disappears: a crash, or bookkeeping that failed. *)
Abandon(r) ==
    /\ phase'[r] = phase[r]
    /\ attempts'[r] = attempts[r]
    /\ workers'[r] = 0

Rest(r) ==
    /\ phase'[r] = phase[r]
    /\ attempts'[r] = attempts[r]
    /\ workers'[r] = workers[r]

Next == \A r \in Runs : Start(r) \/ End(r) \/ Abandon(r) \/ Rest(r)

Spec == Init /\ [][Next]_lifecycleVars
=============================================================================
