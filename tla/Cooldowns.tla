----------------------------- MODULE Cooldowns -----------------------------
(***************************************************************************)
(* Two things done at most once in a while.                                *)
(*   src/observability/AdminAlertsService.js warns the monarch of the size *)
(*   of the database: the last warning of each level is a row of           *)
(*   admin_alert_state, read before the message and written after it.      *)
(*   The purges of ChatHistoryRetentionService.js and                      *)
(*   ErrorEventsRetentionService.js, called by every tick of the robot:    *)
(*   the last one is a field, set before the statement.                    *)
(***************************************************************************)
EXTENDS Naturals, Sequences

CONSTANTS
    Checks,     \* /health commands, of one process or of several
    Procs,      \* processes, with a robot each
    Levels,     \* of the size of the database
    Cooldown,   \* ADMIN_ALERT_COOLDOWN_MIN
    PurgeCooldown, \* ..._PURGE_COOLDOWN_MIN
    MaxTime,    \* bound of the clock
    MaxSent     \* bound of the history

VARIABLES
    lastSent,   \* admin_alert_state: last_sent_at of each level, or Never
    check,      \* the checkDbUsage of each command
    lastRun,    \* _lastRunAtMs of each process, or Never
    now,
    sent        \* history: the alerts sent

cooldownVars == <<lastSent, check, lastRun, now, sent>>

Never == MaxTime + 1
None  == "none"
Idle  == [pc |-> "idle", level |-> None, alert |-> 0, after |-> {}]

Init == /\ lastSent = [l \in Levels |-> Never]
        /\ check = [c \in Checks |-> Idle]
        /\ lastRun = [p \in Procs |-> Never]
        /\ now = 0
        /\ sent = << >>

Alerts == UNCHANGED <<lastRun, now>>

(* Mutant: the row is no reason to wait. *)
CooldownIgnored(l) == TRUE
(* _cooldownPassed, on the row as it is now *)
CooldownPassed(l) == lastSent[l] = Never \/ now >= lastSent[l] + Cooldown

(* checkDbUsage: the usage has a level of its own, and the row is read; no *)
(* level, a row that is too recent or a failing query end the check.       *)
StartCheck(c) ==
    /\ check[c].pc = "idle" /\ Len(sent) < MaxSent
    /\ \E l \in Levels :
          /\ CooldownPassed(l)
          /\ check' = [check EXCEPT ![c] =
                [pc |-> "sending", level |-> l, alert |-> 0,
                 after |-> {n \in DOMAIN sent : sent[n].marked # Never}]]
    /\ Alerts /\ UNCHANGED <<lastSent, sent>>

(* _sendAlert: an error of the messenger is swallowed. *)
SendAlert(c) ==
    /\ check[c].pc = "sending" /\ Len(sent) < MaxSent
    /\ \/ /\ sent' = Append(sent, [level |-> check[c].level, at |-> now, marked |-> Never,
                                   after |-> check[c].after])
          /\ check' = [check EXCEPT ![c].pc = "marking", ![c].alert = Len(sent')]
       \/ check' = [check EXCEPT ![c].pc = "marking"] /\ UNCHANGED sent
    /\ Alerts /\ UNCHANGED lastSent

(* Mutant: an alert that is on record keeps its time. *)
MarkFirst(l) == lastSent' = [lastSent EXCEPT ![l] = IF @ = Never THEN now ELSE @]
MarkRow(l)   == lastSent' = [lastSent EXCEPT ![l] = now]

(* _markSent, which may fail *)
MarkSent(c) ==
    /\ check[c].pc = "marking"
    /\ \/ /\ MarkRow(check[c].level)
          /\ sent' = [n \in DOMAIN sent |->
                        IF n = check[c].alert THEN [sent[n] EXCEPT !.marked = now] ELSE sent[n]]
       \/ UNCHANGED <<lastSent, sent>>
    /\ check' = [check EXCEPT ![c] = Idle]
    /\ Alerts

(* maybePurge and maybePurgeRuntimeScope: the statements that delete, and  *)
(* their errors, change nothing here.                                      *)
Purges == UNCHANGED <<lastSent, check, now, sent>>

Purge(p) ==
    /\ lastRun[p] = Never \/ now >= lastRun[p] + PurgeCooldown
    /\ lastRun' = [lastRun EXCEPT ![p] = now]
    /\ Purges

(* The field lives and dies with its process. *)
Restart(p) ==
    /\ lastRun' = [lastRun EXCEPT ![p] = Never]
    /\ Purges

Tick == now < MaxTime /\ now' = now + 1 /\ UNCHANGED <<lastSent, check, lastRun, sent>>

Next == \/ \E c \in Checks : StartCheck(c) \/ SendAlert(c) \/ MarkSent(c)
        \/ \E p \in Procs : Purge(p) \/ Restart(p)
        \/ Tick

Spec == Init /\ [][Next]_cooldownVars

-----------------------------------------------------------------------------
CooldownsOK ==
    /\ \A l \in Levels : lastSent[l] \in 0..now \cup {Never}
    /\ \A c \in Checks : check[c].level \in Levels \cup {None}
    /\ \A p \in Procs : lastRun[p] \in 0..now \cup {Never}

(* A check that began when an alert of its level was on record sends none  *)
(* within ADMIN_ALERT_COOLDOWN_MIN of it, whatever other checks read,      *)
(* send and write in between; only checks under way together may repeat    *)
(* it.                                                                     *)
AlertsSpaced ==
    \A j \in DOMAIN sent : \A i \in sent[j].after :
       sent[i].level = sent[j].level => sent[j].at >= sent[i].marked + Cooldown
=============================================================================
