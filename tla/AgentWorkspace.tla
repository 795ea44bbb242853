--------------------------- MODULE AgentWorkspace ---------------------------
(***************************************************************************)
(* The runner of agent_workspace/COMMANDS.md                               *)
(* (src/agentWorkspace/AgentWorkspaceCommandRunner.js): an editor posts a  *)
(* command, a webhook or /agent_workspace_run calls runOnce, and runOnce   *)
(* marks the command, resets the reports, executes the action and marks    *)
(* the command again, all of it through the GitHub contents API, which     *)
(* takes a new version of a file only with the sha of the present one.     *)
(*                                                                         *)
(* A webhook may come, come late, or be replaced by the command, so        *)
(* runOnce is called at any time.  The eleven reports are three: those of  *)
(* Render, the diagnosis, which is written only when there are errors, and *)
(* the test report.  A report counts as the command's from the moment the  *)
(* command's run has reset it.                                             *)
(***************************************************************************)
EXTENDS Naturals, Sequences

CONSTANTS
    Procs,
    Runs,        \* calls of runOnce that can be under way
    Ids,         \* COMMAND_IDs
    NoId,        \* "NONE": no id
    MaxPosts,    \* bound: commands posted
    MaxFaults    \* bound: calls of a service that fail, and restarts

Posts   == 0..MaxPosts
Reports == {"render", "diagnosis", "test"}
Hand    == MaxPosts + 1  \* of /agent_workspace_render_report or _test_note

(* VERIFY_DEPLOY and the COLLECT_ actions; WRITE_TEST_NOTE;                *)
(* RUN_DIAGNOSTIC_COMMANDS; and one that is not on the list.               *)
Actions == {"collect", "note", "diagnose", "unknown"}

VARIABLES
    cmd,        \* COMMANDS.md; history: the command's number, and whether the
                \* run that marked it was `alone`
    reports,    \* of which command each report is
    lock,       \* inMemoryRunLock, by process
    completed,  \* completedCommands, by process
    current,    \* whether the process runs the commit a command may require
    run,        \* the calls of runOnce
    mishaps     \* faults so far

workVars == <<cmd, reports, lock, completed, current, run, mishaps>>

Empty == [post |-> 0, id |-> NoId, action |-> "unknown", requires |-> FALSE,
          status |-> "EMPTY", alone |-> TRUE]
Idle  == [pc |-> "idle", on |-> CHOOSE p \in Procs : TRUE, cmd |-> Empty, todo |-> << >>,
          ok |-> TRUE, seen |-> Empty, caught |-> FALSE, alone |-> TRUE]

Init == /\ cmd = Empty
        /\ reports = [f \in Reports |-> 0]
        /\ lock = [p \in Procs |-> FALSE]
        /\ completed = [p \in Procs |-> {}]
        /\ current \in [Procs -> BOOLEAN]
        /\ run = [r \in Runs |-> Idle]
        /\ mishaps = 0

-----------------------------------------------------------------------------
(* The editor and the callers.                                             *)

UnderWay(r) == run[r].pc # "idle"

(* "Only one active command is allowed at a time": the editor posts when   *)
(* the last one was marked with its end, or its run has disappeared.       *)
Post ==
    /\ cmd.post < MaxPosts
    /\ cmd.status \in {"PENDING", "RUNNING"} => \A r \in Runs : ~UnderWay(r)
    /\ \E id \in Ids \cup {NoId}, action \in Actions, requires \in BOOLEAN :
         cmd' = [post |-> cmd.post + 1, id |-> id, action |-> action, requires |-> requires,
                 status |-> "PENDING", alone |-> TRUE]
    /\ UNCHANGED <<reports, lock, completed, current, run, mishaps>>

(* Mutant: the lock is not looked at. *)
UnlockedAlways(p) == TRUE
Unlocked(p) == ~lock[p]

(* runOnce up to its first await; a caller that finds the lock taken goes  *)
(* away.  Two processes at it are not alone.                               *)
Enter(r) ==
    /\ ~UnderWay(r)
    /\ \E p \in Procs :
         LET others == {q \in Runs : UnderWay(q) /\ run[q].on # p}
         IN  /\ Unlocked(p)
             /\ lock' = [lock EXCEPT ![p] = TRUE]
             /\ run' = [q \in Runs |->
                    IF q = r THEN [Idle EXCEPT !.pc = "read", !.on = p, !.alone = others = {}]
                    ELSE [run[q] EXCEPT !.alone = @ /\ q \notin others]]
    /\ UNCHANGED <<cmd, reports, completed, current, mishaps>>

-----------------------------------------------------------------------------
(* A run.                                                                  *)

Goes(r, next) == run' = [run EXCEPT ![r] = next] /\ UNCHANGED lock

(* Return, through the finally block. *)
Leave(r) == /\ run' = [run EXCEPT ![r] = Idle]
            /\ lock' = [lock EXCEPT ![run[r].on] = FALSE]

(* markCommand: writeFile gets the sha first. *)
Marking(c, status) == [c EXCEPT !.pc = "get", !.cmd.status = status, !.seen = Empty]

(* The catch block: the command is marked FAILED, once, if it has an id.   *)
Catch(r, c) == IF c.caught \/ c.cmd.id = NoId THEN Leave(r)
               ELSE Goes(r, Marking([c EXCEPT !.caught = TRUE], "FAILED"))

Fault == mishaps < MaxFaults /\ mishaps' = mishaps + 1
NoFault == UNCHANGED mishaps

(* What runOnce makes of a pending command of which the required commit is *)
(* active.                                                                 *)
Verdict(p, c) ==
    CASE c.id = NoId            -> "FAILED"   \* Missing COMMAND_ID
      [] c.id \in completed[p]  -> "IGNORED"
      [] c.action = "unknown"   -> "FAILED"   \* Action is not allowed
      [] OTHER                  -> "RUNNING"

(* readCommand and isCommitSatisfied; the comparison of the commits may    *)
(* fail, which counts as not satisfied.                                    *)
Read(r) ==
    /\ run[r].pc = "read"
    /\ LET p == run[r].on
           c == [run[r] EXCEPT !.cmd = cmd]
       IN  \/ cmd.status # "PENDING" /\ Leave(r) /\ NoFault
           \/ /\ cmd.status = "PENDING" /\ NoFault
              /\ IF cmd.id # NoId /\ cmd.requires /\ ~current[p] THEN Leave(r)
                 ELSE Goes(r, Marking(c, Verdict(p, cmd)))
           \/ Fault /\ Leave(r)
    /\ UNCHANGED <<cmd, reports, completed, current>>

(* getCurrentFileForWrite *)
GetSha(r) ==
    /\ run[r].pc = "get"
    /\ \/ Goes(r, [run[r] EXCEPT !.pc = "put", !.seen = cmd]) /\ NoFault
       \/ Fault /\ Catch(r, run[r])
    /\ UNCHANGED <<cmd, reports, completed, current>>

(* Mutant: the diagnosis is left as it is. *)
ResetFilesFew == <<"render", "test">>
(* resetWorkspaceForCommand *)
ResetFiles == <<"render", "diagnosis", "test">>

(* The PUT.  It is refused if the file is not what it was at GetSha, and   *)
(* it may be executed and its answer be lost: then the run does not know   *)
(* that its command is marked, and is not alone with it.                   *)
Put(r) ==
    /\ run[r].pc = "put"
    /\ LET c      == run[r]
           marked == cmd' = [c.cmd EXCEPT !.alone = c.alone]
       IN  \/ /\ cmd = c.seen /\ marked /\ NoFault
              /\ IF c.cmd.status = "RUNNING"
                 THEN Goes(r, [c EXCEPT !.pc = "reset", !.todo = ResetFiles])
                 ELSE Leave(r)
           \/ cmd = c.seen /\ marked /\ Fault /\ Catch(r, [c EXCEPT !.alone = FALSE])
           \/ cmd = c.seen /\ UNCHANGED cmd /\ Fault /\ Catch(r, c)
           \/ cmd # c.seen /\ UNCHANGED cmd /\ NoFault /\ Catch(r, c)
    /\ UNCHANGED <<reports, completed, current>>

(* What an action writes, in its order: collectRenderReport writes a       *)
(* diagnosis only if there are error logs.                                 *)
Rendered == {<<"render">>, <<"render", "diagnosis">>}
Writes(action) ==
    CASE action = "collect"  -> Rendered
      [] action = "note"     -> {<<"test">>}
      [] action = "diagnose" -> {<<"test">>} \cup {Append(s, "test") : s \in Rendered}
      [] OTHER               -> {}

(* executeCommand up to its first write: Render is asked, or fails, or the *)
(* command names no deploy, service or diagnostic command.  A diagnostic   *)
(* command that fails is noted in the report.                              *)
Execute(r) ==
    /\ run[r].pc = "reset" /\ run[r].todo = << >>
    /\ LET c == run[r]
       IN  \/ \E s \in Writes(c.cmd.action), ok \in {TRUE, c.cmd.action # "diagnose"} :
                Goes(r, [c EXCEPT !.pc = "execute", !.todo = s, !.ok = ok])
           \/ c.cmd.action # "note" /\ Catch(r, c)
    /\ UNCHANGED <<cmd, reports, completed, current, mishaps>>

(* One report.  After the last one of the action, completedCommands gets   *)
(* the id, and the command its mark.                                       *)
Write(r) ==
    /\ run[r].pc \in {"reset", "execute"} /\ run[r].todo # << >>
    /\ LET c       == run[r]
           f       == Head(c.todo)
           rest    == [c EXCEPT !.todo = Tail(@)]
           written == reports' = [reports EXCEPT ![f] = c.cmd.post]
           inDiagnostic == c.pc = "execute" /\ c.cmd.action = "diagnose" /\ f # "test"
       IN  \/ /\ written /\ NoFault
              /\ IF c.pc = "execute" /\ rest.todo = << >>
                 THEN /\ completed' = [completed EXCEPT ![c.on] = @ \cup {c.cmd.id}]
                      /\ Goes(r, Marking(rest, IF c.ok THEN "DONE" ELSE "FAILED"))
                 ELSE Goes(r, rest) /\ UNCHANGED completed
           \/ /\ Fault /\ UNCHANGED completed
              /\ written \/ UNCHANGED reports
              /\ IF inDiagnostic
                 THEN Goes(r, [c EXCEPT !.todo = <<"test">>, !.ok = FALSE])
                 ELSE Catch(r, c)
    /\ UNCHANGED <<cmd, current>>

-----------------------------------------------------------------------------
(* collectRenderReport and writeTestNote, called by their commands. *)
ByHand(f) == /\ reports' = [reports EXCEPT ![f] = Hand]
             /\ UNCHANGED <<cmd, lock, completed, current, run, mishaps>>

(* A process exits, or is replaced by one with the commit. *)
Restart(p) ==
    /\ Fault
    /\ lock' = [lock EXCEPT ![p] = FALSE]
    /\ completed' = [completed EXCEPT ![p] = {}]
    /\ \E c \in {current[p], TRUE} : current' = [current EXCEPT ![p] = c]
    /\ run' = [r \in Runs |-> IF run[r].on = p THEN Idle ELSE run[r]]
    /\ UNCHANGED <<cmd, reports>>

Next ==
    \/ Post
    \/ \E r \in Runs : \/ Enter(r) \/ Read(r) \/ GetSha(r) \/ Put(r)
                       \/ Execute(r) \/ Write(r)
    \/ \E f \in Reports : ByHand(f)
    \/ \E p \in Procs : Restart(p)

Spec == Init /\ [][Next]_workVars

-----------------------------------------------------------------------------
(* What the files say is of a command that was posted. *)
FilesOK == cmd.post \in Posts /\ \A f \in Reports : reports[f] \in Posts \cup {Hand}

(* A command that waits in COMMANDS.md is replaced by the editor or marked *)
(* by its own run: a run that writes its mark late must not write it over  *)
(* the next command.  Excepted are runs that were not alone: with a run of *)
(* another process beside them, or with a mark whose answer was lost.      *)
Kept == cmd.status = "PENDING" => cmd'.post >= cmd.post \/ ~cmd'.alone
PendingKept == [][Kept]_cmd

(* When COMMANDS.md says DONE, every report is of that command, unless it  *)
(* was written by hand (agent_workspace/README.md, "resets stale reports", *)
(* "writes fresh reports"); excepted again are runs that were not alone.   *)
ReportsOfCommand ==
    cmd.status = "DONE" /\ cmd.alone => \A f \in Reports : reports[f] \in {cmd.post, Hand}
=============================================================================
