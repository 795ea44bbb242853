--------------------------- MODULE ServerProcess ----------------------------
(***************************************************************************)
(* The parts of a server process that share nothing but the process and    *)
(* the clock, side by side.  A behaviour uses one of them; what the others *)
(* keep is 0.                                                              *)
(***************************************************************************)
EXTENDS JobRunner

CONSTANTS
    (* the rate limiter: keys, windowMs, max                               *)
    Clients, LimitWindow, LimitCalls,
    (* the memory of seen keys                                             *)
    DedupeKeys, DedupeTtl, DedupeMax, MaxAdmissions,
    (* the alerts and the purges                                           *)
    Checks, Levels, AlertCooldown, PurgeCooldown, MaxSent,
    (* the memory of a chat                                                *)
    NumMessages, MaxDocs, ChatWindow, ContextFor, ClarifyFor, MaxTogether,
    (* a source and its cache                                              *)
    Askers, Coins, Charts, SourceTypes, LegacyColumn, RateLimit, Minute, PriceTtl, ChartTtl,
    MaxFetches,
    (* the agent workspace                                                 *)
    Workers, WorkRuns, CommandIds, NoId, MaxPosts,
    (* a section of project memory                                         *)
    Commands, Scopes, Unscoped, MaxTexts, MaxWrites,
    (* the pages of /recall                                                *)
    Recalls, Chats, PageSizes, Wordings, Ms, RecallWindow, MaxRows, MaxRecalls,
    (* bounds, by part: of the clock, of how long a call is under way, and *)
    (* of faults                                                           *)
    MaxTime, MaxFlight, MaxFaults

VARIABLES
    used, now,
    rate, granted,
    seen, admitted,
    lastSent, check, lastRun, alerts,
    kept, chats, read, file,
    type, success, cache, runs, chain, calls, faults, successes, told, answer,
    cmd, reports, lock, completed, current, run, mishaps,
    rows, texts, writes, call, failed, latest, disturbed,
    messages, store, given, pages, asked, misses, gaps, shown, lost

limiterMap  == <<rate, granted>>
memoryMap   == <<seen, admitted>>
cooldowns   == <<lastSent, check, lastRun, alerts>>
chatMaps    == <<kept, chats, read, file>>
sourceState == <<type, success, cache, runs, chain, calls, faults, successes, told, answer>>
workspace   == <<cmd, reports, lock, completed, current, run, mishaps>>
projectRows == <<rows, texts, writes, call, failed, latest, disturbed>>
recall      == <<messages, store, given, pages, asked, misses, gaps, shown, lost>>

Limiter == INSTANCE RateLimiter
    WITH Callers <- Clients, WindowMs <- LimitWindow, MaxCalls <- LimitCalls,
         MaxTime <- MaxTime["limiter"]

Memory == INSTANCE DedupeMemory
    WITH Keys <- DedupeKeys, MaxTime <- MaxTime["memory"]

Alerts == INSTANCE Cooldowns
    WITH Cooldown <- AlertCooldown, MaxTime <- MaxTime["cooldowns"], sent <- alerts

Chat == INSTANCE ChatSession
    WITH Window <- ChatWindow, MaxTime <- MaxTime["chat"], MaxFlight <- MaxFlight["chat"],
         chain <- chats, sent <- file

Source == INSTANCE Sources
    WITH Callers <- Askers, Types <- SourceTypes, MaxCalls <- MaxFetches,
         MaxTime <- MaxTime["sources"], MaxFlight <- MaxFlight["sources"],
         MaxFaults <- MaxFaults["sources"]

Work == INSTANCE AgentWorkspace
    WITH Procs <- Workers, Runs <- WorkRuns, Ids <- CommandIds,
         MaxFaults <- MaxFaults["workspace"]

Project == INSTANCE ProjectMemory
    WITH Calls <- Commands, MaxFaults <- MaxFaults["project"]

History == INSTANCE Recall
    WITH Calls <- Recalls, Limits <- PageSizes, Window <- RecallWindow, MaxCalls <- MaxRecalls,
         MaxTime <- MaxTime["recall"], MaxFaults <- MaxFaults["recall"],
         rows <- messages, calls <- pages, faults <- misses, told <- gaps

(* envIntRange keeps DEDUPE_TTL_MS and DEDUPE_MAX positive; a limiter lets *)
(* at least one call through.                                              *)
ASSUME GuardsAssumption ==
    /\ {MaxTime["limiter"], LimitWindow, DedupeTtl, DedupeMax} \subseteq Nat
    /\ LimitCalls \in Nat \ {0}

(* A message is answered within the half hour for which the session and    *)
(* the texts are kept.                                                     *)
ASSUME ChatAssumption ==
    /\ {MaxTime["chat"], MaxFlight["chat"], ChatWindow, ContextFor, ClarifyFor, MaxDocs,
        NumMessages} \subseteq Nat
    /\ MaxFlight["chat"] <= ChatWindow

(* Clocks count in natural numbers, and None is no level.                  *)
ASSUME AlertsAssumption == /\ {MaxTime["cooldowns"], AlertCooldown} \subseteq Nat
                           /\ Alerts!None \notin Levels
(* The clock of the sources, the times to live, which envIntRange keeps    *)
(* above 0, and names that are no entries.                                 *)
ASSUME SourcesAssumption ==
    /\ {MaxTime["sources"], MaxFlight["sources"], RateLimit} \subseteq Nat
    /\ {Minute, PriceTtl, ChartTtl} \subseteq Nat \ {0}
    /\ {Source!None, Source!Own} \cap Source!Entries = {}

(* A row without any of the five fields is of no scope.                    *)
ASSUME ProjectAssumption == Unscoped \notin Scopes

(* Commands are counted in natural numbers.                                *)
ASSUME WorkAssumption == MaxPosts \in Nat

(* A page has a message at least: recall.js clamps --limit to 1..20.       *)
ASSUME RecallAssumption == /\ {MaxRows, MaxTime["recall"], RecallWindow} \subseteq Nat
                           /\ PageSizes \subseteq Nat \ {0} /\ Ms \in Nat \ {0}

Parts == {"runner", "limiter", "memory", "cooldowns", "chat", "sources", "workspace", "project",
          "recall"}

ProcessInit ==
    /\ Init /\ now = 0 /\ used \in Parts
    /\ IF used = "limiter"   THEN Limiter!Init ELSE rate = 0 /\ granted = 0
    /\ IF used = "memory"    THEN Memory!Init  ELSE seen = 0 /\ admitted = 0
    /\ IF used = "cooldowns" THEN Alerts!Init
                             ELSE lastSent = 0 /\ check = 0 /\ lastRun = 0 /\ alerts = 0
    /\ IF used = "chat"      THEN Chat!Init    ELSE kept = 0 /\ chats = 0 /\ read = 0 /\ file = 0
    /\ IF used = "sources"   THEN Source!Init
                             ELSE /\ type = 0 /\ success = 0 /\ cache = 0 /\ runs = 0 /\ chain = 0
                                  /\ calls = 0 /\ faults = 0 /\ successes = 0 /\ told = 0
                                  /\ answer = 0
    /\ IF used = "workspace" THEN Work!Init
                             ELSE /\ cmd = 0 /\ reports = 0 /\ lock = 0 /\ completed = 0
                                  /\ current = 0 /\ run = 0 /\ mishaps = 0
    /\ IF used = "project" THEN Project!Init
                           ELSE /\ rows = 0 /\ texts = 0 /\ writes = 0 /\ call = 0
                                /\ failed = 0 /\ latest = 0 /\ disturbed = 0
    /\ IF used = "recall" THEN History!Init
                          ELSE /\ messages = 0 /\ store = 0 /\ given = 0 /\ pages = 0
                               /\ asked = 0 /\ misses = 0 /\ gaps = 0 /\ shown = 0 /\ lost = 0

(* Each part moves its own variables; `now` is the limiter's, the memory's, *)
(* the cooldowns', the chat's, the sources' and the recall's.              *)
Others(part) ==
    /\ part # "runner"    => UNCHANGED runnerVars
    /\ part # "limiter"   => UNCHANGED limiterMap
    /\ part # "memory"    => UNCHANGED memoryMap
    /\ part # "cooldowns" => UNCHANGED cooldowns
    /\ part # "chat"      => UNCHANGED chatMaps
    /\ part # "sources"   => UNCHANGED sourceState
    /\ part # "workspace" => UNCHANGED workspace
    /\ part # "project"   => UNCHANGED projectRows
    /\ part # "recall"    => UNCHANGED recall
    /\ part \in {"runner", "workspace", "project"} => UNCHANGED now

ProcessNext ==
    /\ \/ used = "runner"    /\ Next
       \/ used = "limiter"   /\ Limiter!Next
       \/ used = "memory"    /\ Memory!Next
       \/ used = "cooldowns" /\ Alerts!Next
       \/ used = "chat"      /\ Chat!Next
       \/ used = "sources"   /\ Source!Next
       \/ used = "workspace" /\ Work!Next
       \/ used = "project"   /\ Project!Next
       \/ used = "recall"    /\ History!Next
    /\ Others(used)
    /\ UNCHANGED used

ProcessSpec ==
    ProcessInit /\ [][ProcessNext]_<<runnerVars, used, now, limiterMap, memoryMap,
                                     cooldowns, chatMaps, sourceState, workspace, projectRows,
                                     recall>>

(* The properties of the parts, each with what its part keeps being of its *)
(* type: times in order, cooldowns and cached rows never of the future.    *)

(* RateLimiter!LimiterExact: checkRateLimit is an exact sliding window,    *)
(* and the retryAfterMs of a refusal is right.                             *)
LimiterExact == used = "limiter" => Limiter!TypeOK /\ Limiter!LimiterExact

(* DedupeMemory!AdmittedOnce: within DEDUPE_TTL_MS dedupeRemember forgets  *)
(* a key only to as many fresh ones as the memory holds.                   *)
AdmittedOnce == used = "memory" => Memory!SeenOK /\ Memory!AdmittedOnce

(* Cooldowns!AlertsSpaced: a check that began when an alert was on record  *)
(* sends none within the cooldown.                                         *)
AlertsSpaced == used = "cooldowns" => Alerts!CooldownsOK /\ Alerts!AlertsSpaced

(* ChatSession!FullTextIsNewest: the document that is exported is not an   *)
(* older one than was read when the request came in, nor another text but  *)
(* one saved for it since.                                                 *)
FullTextIsNewest == used = "chat" => Chat!TypeOK /\ Chat!FullTextIsNewest

(* ChatSession!NamesMatch: a text is kept under the name of its document.  *)
NamesMatch == used = "chat" => Chat!NamesMatch

(* Sources!RunsTold: a row of source_runs says what its starter was told.  *)
RunsTold == used = "sources" => Source!SourcesOK /\ Source!RunsTold

(* Sources!SpacedOnceCached: once something is cached, fetchFromSourceKey  *)
(* keeps to rate_limit_seconds.                                            *)
SpacedOnceCached == used = "sources" => Source!SpacedOnceCached

(* Sources!AnswersFresh: what resolveSourceContext answers is what was     *)
(* asked, and no older than its time to live.                              *)
AnswersFresh == used = "sources" => Source!AnswersFresh

(* AgentWorkspace!PendingKept: a command that waits is not overwritten by  *)
(* an earlier one's run.                                                   *)
PendingKept == [][used = "workspace" => Work!Kept]_cmd

(* AgentWorkspace!ReportsOfCommand: with DONE, the reports are of the      *)
(* command.                                                                *)
ReportsOfCommand == used = "workspace" => Work!FilesOK /\ Work!ReportsOfCommand

(* ProjectMemory!ScopedStateKept: the section state of a scope is the one  *)
(* last written for it.                                                    *)
ScopedStateKept == used = "project" => Project!RowsOK /\ Project!ScopedStateKept

(* Recall!PagesExact: the pages of a chat's messages repeat none, and lose *)
(* none but where the code does.                                           *)
PagesExact == used = "recall" => History!RecallOK /\ History!PagesExact
=============================================================================
