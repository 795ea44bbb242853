--------------------------- MODULE MessageIntake ---------------------------
(***************************************************************************)
(* How a Telegram message is taken in: the webhook, handleMessage of       *)
(* src/core, and the flows of a command and of a chat message, up to the   *)
(* point where one is carried out.  This is the path with                  *)
(* TRANSPORT_ENFORCED=true.                                                *)
(*                                                                         *)
(* Telegram delivers a message again until it has seen a 200, perhaps to   *)
(* another process.  Three guards stand against doing the work twice: the  *)
(* memory of seen keys in each process, and a unique row inserted first,   *)
(* in command_invocations for a command, in chat_messages for the rest.    *)
(* A delivery is a call chain; an action is what it does from one await on *)
(* I/O to the next.                                                        *)
(***************************************************************************)
EXTENDS Naturals, FiniteSets, SequencesExt

CONSTANTS
    Procs,                 \* processes
    Messages,              \* messages of one chat; also their dedupeKey
    KindOf,                \* what the text of each message is
    Senders, SenderOf,     \* who wrote it
    Monarchs,              \* senders that resolveUserAccess finds to be monarchs
    DedupeTtl, DedupeMax,  \* DEDUPE_TTL_MS, DEDUPE_MAX
    WindowMs, MaxCalls,    \* CMD_RL_WINDOW_MS, CMD_RL_MAX
    Faults,                \* the kinds of fault that may happen
    NoProc, NoMessage,
    MaxDeliveries, MaxTime, MaxFaults,   \* bounds
    Inboxes                              \* sets of messages that may arrive together

(* "safe" is /start or /help; "command" any other command; "unclear" text  *)
(* of which understandMeaning asks to clarify; "remember" a request to     *)
(* remember; "chat" all other text.                                        *)
Kinds == {"safe", "command", "unclear", "remember", "chat"}
FaultKinds == {"query", "probe", "answer", "handler", "crash"}

ASSUME KindsAssumption   == KindOf \in [Messages -> Kinds]
ASSUME SendersAssumption == SenderOf \in [Messages -> Senders]
ASSUME NobodyAssumption  == NoProc \notin Procs /\ NoMessage \notin Messages
ASSUME FaultsAssumption  == Faults \subseteq FaultKinds
ASSUME BoundsAssumption  ==
    {DedupeTtl, DedupeMax, WindowMs, MaxCalls, MaxDeliveries, MaxTime, MaxFaults} \subseteq Nat
ASSUME DedupeAssumption  == DedupeMax > 0

Deliveries == 1..MaxDeliveries
Safe(m) == KindOf[m] = "safe"

VARIABLES
    delivery,     \* the call chains, by number
    seen,         \* __dedupeSeen of each process: a Map, in insertion order
    rate,         \* __rlState of each process
    invocations,  \* command_invocations: (transport, chat_id, message_id)
    userRows,     \* chat_messages with role = 'user'
    remembered,   \* chat_memory: what was asked to be remembered, the chain that inserted
                  \* it, and whether the row has its metadata
    hasMeta,      \* _colCache of each process: is there a column chat_memory.metadata?
    now,          \* the clock
    faults        \* how many faults have happened

tables == <<invocations, userRows, remembered>>
vars   == <<delivery, seen, rate, tables, hasMeta, now, faults>>

Limiter == INSTANCE RateLimiter WITH Callers <- Senders, granted <- << >>
Memory  == INSTANCE DedupeMemory WITH
               Keys <- Messages, admitted <- << >>, MaxAdmissions <- 0

(* Where a call chain waits: at the end it has returned from handleMessage. *)
Awaits == {"evidence", "identity", "invoke", "log", "dispatch", "context", "lookup",
           "store", "guard", "dedupeEvent", "process", "reply"}
Drops   == {"dup_drop", "dup_command_drop", "dup_chat_drop"}
Refused == {"rate_limited", "permission_denied", "project_intent_blocked",
            "clarification_requested"}
Done    == {"start_replied", "command_handled", "unknown_command", "dispatch_error",
            "remember_saved", "remember_not_saved",
            "chat_handled", "chat_error"}
Undecided == "undecided"

(* proc is where the chain runs, until it ends or the process does.        *)
(* known: the sender's global_user_id was found.  open is history: the     *)
(* guard of the chain failed open.                                         *)
NewDelivery == [at |-> "none", msg |-> NoMessage, proc |-> NoProc, known |-> FALSE,
                result |-> Undecided, open |-> FALSE]

Init ==
    /\ delivery = [d \in Deliveries |-> NewDelivery]
    /\ seen = Memory!Nothing
    /\ rate = [p \in Procs |-> Limiter!NoCalls]
    /\ invocations = {} /\ userRows = {} /\ remembered = {}
    /\ hasMeta = [p \in Procs |-> "unasked"]
    /\ now = 0 /\ faults = 0

-----------------------------------------------------------------------------
(* Helpers *)

MsgOf(d)  == delivery[d].msg
ProcOf(d) == delivery[d].proc
IsMonarch(d) == delivery[d].known /\ SenderOf[MsgOf(d)] \in Monarchs

(* The chain waits at its await and its process lives. *)
Live(d) == delivery[d].at \in Awaits /\ ProcOf(d) # NoProc
Waits(d, a) == Live(d) /\ delivery[d].at = a

Goes(d, a)      == delivery' = [delivery EXCEPT ![d].at = a]
GoesOpen(d, a)  == delivery' = [delivery EXCEPT ![d].at = a, ![d].open = TRUE]
Settles(d, a, r) == delivery' = [delivery EXCEPT ![d].at = a, ![d].result = r]
(* The end of handleMessage. *)
Ends(d)         == delivery' = [delivery EXCEPT ![d].at = "end", ![d].proc = NoProc]
Returns(d, r)   == delivery' = [delivery EXCEPT ![d].at = "end", ![d].proc = NoProc,
                                                ![d].result = r]
(* replyAndLog: the message to the user, whose failure is swallowed. *)
Replies(d, r)   == Settles(d, "reply", r)

Fault(kind) == kind \in Faults /\ faults < MaxFaults /\ faults' = faults + 1
NoFault == UNCHANGED faults

-----------------------------------------------------------------------------
(* The webhook and handleMessage *)

(* An update arrives and its handler starts.  Telegram delivers it again   *)
(* when it has not seen the 200.  How often is left to MaxDeliveries, which *)
(* messages arrive together to Inboxes.                                    *)
Deliver(d, m, p) ==
    /\ delivery[d].at = "none"
    /\ \A e \in Deliveries : delivery[e].at = "none" => d <= e
    /\ \E inbox \in Inboxes : {MsgOf(e) : e \in 1 .. d - 1} \cup {m} \subseteq inbox
    /\ delivery' = [delivery EXCEPT ![d] = [NewDelivery EXCEPT !.at = "evidence",
                                                               !.msg = m, !.proc = p]]
    /\ UNCHANGED <<seen, rate, tables, hasMeta, now, faults>>

(* The in-memory guard: test and remember with no await between them. *)
DropsDuplicate(d) ==
    /\ Waits(d, "evidence")
    /\ ~Safe(MsgOf(d)) /\ Memory!Fresh(ProcOf(d), MsgOf(d))
    /\ Returns(d, "dup_drop")
    /\ UNCHANGED <<seen, rate, tables, hasMeta, now, faults>>

Admits(d) ==
    /\ Waits(d, "evidence")
    /\ \/ Safe(MsgOf(d)) /\ UNCHANGED seen
       \/ /\ ~Safe(MsgOf(d)) /\ ~Memory!Fresh(ProcOf(d), MsgOf(d))
          /\ Memory!LetIn(ProcOf(d), MsgOf(d))
    /\ Goes(d, "identity")
    /\ UNCHANGED <<rate, tables, hasMeta, now, faults>>

(* After the identity is known: where the message goes. *)
Route(m) ==
    CASE KindOf[m] = "safe"    -> "log"
      [] KindOf[m] = "command" -> "invoke"
      [] KindOf[m] = "unclear" -> "reply"
      [] OTHER                 -> "context"

(* resolveIdentityAndAccess; when it fails the sender counts as a guest. *)
ResolveIdentity(d) ==
    LET m == MsgOf(d) IN
    /\ Waits(d, "identity")
    /\ \E known \in BOOLEAN :
          /\ IF known THEN NoFault ELSE Fault("query")
          /\ delivery' = [delivery EXCEPT
                ![d].at = Route(m), ![d].known = known,
                ![d].result = IF KindOf[m] = "unclear" THEN "clarification_requested" ELSE @]
    /\ UNCHANGED <<seen, rate, tables, hasMeta, now>>

-----------------------------------------------------------------------------
(* A command *)

(* Mutant: a failure of the guard drops the command. *)
EnsureInvocationClosed(d) ==
    /\ Waits(d, "invoke")
    /\ \/ /\ MsgOf(d) \notin invocations
          /\ invocations' = invocations \cup {MsgOf(d)}
          /\ Goes(d, "log") /\ NoFault
       \/ /\ MsgOf(d) \in invocations
          /\ UNCHANGED invocations
          /\ Returns(d, "dup_command_drop") /\ NoFault
       \/ /\ Fault("query") /\ UNCHANGED invocations /\ Returns(d, "dup_command_drop")
    /\ UNCHANGED <<seen, rate, userRows, remembered, hasMeta, now>>

(* ensureCommandInvocation: insert first, and go on if the row is new or   *)
(* the statement failed, perhaps after it was executed.                    *)
EnsureInvocation(d) ==
    /\ Waits(d, "invoke")
    /\ \/ /\ MsgOf(d) \notin invocations
          /\ invocations' = invocations \cup {MsgOf(d)}
          /\ Goes(d, "log") /\ NoFault
       \/ /\ MsgOf(d) \in invocations
          /\ UNCHANGED invocations
          /\ Returns(d, "dup_command_drop") /\ NoFault
       \/ /\ Fault("query") /\ UNCHANGED invocations /\ GoesOpen(d, "log")
       \/ /\ Fault("answer") /\ invocations' = invocations \cup {MsgOf(d)}
          /\ GoesOpen(d, "log")
    /\ UNCHANGED <<seen, rate, userRows, remembered, hasMeta, now>>

(* Mutant: safe commands are limited like any other. *)
LimitedAll(d) == ~IsMonarch(d)
Limited(d) == ~IsMonarch(d) /\ ~Safe(MsgOf(d))

(* The row of the command is in chat_messages, or the insert failed and    *)
(* was swallowed; then, with no await between, the limiter, the permission *)
(* and the built-in commands.                                              *)
CommandGuards(d) ==
    LET p == ProcOf(d)  s == SenderOf[MsgOf(d)] IN
    /\ Waits(d, "log")
    /\ \/ userRows' = userRows \cup {MsgOf(d)} /\ NoFault
       \/ UNCHANGED userRows /\ Fault("query")
    /\ IF Limited(d) THEN Limiter!Count(p, s) ELSE UNCHANGED rate
    /\ \/ /\ Limited(d) /\ ~Limiter!Allowed(p, s)
          /\ Replies(d, "rate_limited")
       \/ /\ Limited(d) => Limiter!Allowed(p, s)
          /\ \/ Safe(MsgOf(d)) /\ Replies(d, "start_replied")
             \/ ~Safe(MsgOf(d)) /\ ~IsMonarch(d) /\ Replies(d, "permission_denied")
             \/ ~Safe(MsgOf(d)) /\ Goes(d, "dispatch")
    /\ UNCHANGED <<seen, invocations, remembered, hasMeta, now>>

(* The diagnostics and dispatchCommand: the command is carried out. *)
Dispatch(d) ==
    /\ Waits(d, "dispatch")
    /\ \/ Returns(d, "command_handled") /\ NoFault
       \/ Returns(d, "unknown_command") /\ NoFault
       \/ Replies(d, "dispatch_error") /\ Fault("handler")
    /\ UNCHANGED <<seen, rate, tables, hasMeta, now>>

-----------------------------------------------------------------------------
(* A chat message *)

(* The follow-up contexts are read from chat_memory, with failures         *)
(* swallowed; on them depends whether requireProjectIntentAccess blocks.   *)
(* The first read of a process asks which columns the table has, and the   *)
(* answer, or that there was none, is kept for its life (_columnExists).   *)
ReadContext(d) ==
    LET p == ProcOf(d) IN
    /\ Waits(d, "context")
    /\ IF hasMeta[p] # "unasked" THEN NoFault /\ UNCHANGED hasMeta ELSE
          \/ hasMeta' = [hasMeta EXCEPT ![p] = "yes"] /\ NoFault
          \/ hasMeta' = [hasMeta EXCEPT ![p] = "no"] /\ Fault("probe")
    /\ \/ Replies(d, "project_intent_blocked")
       \/ Goes(d, IF KindOf[MsgOf(d)] = "remember" THEN "lookup" ELSE "guard")
    /\ UNCHANGED <<seen, rate, tables, now>>

(* What the chain finds in chat_memory of its own message: rows are looked *)
(* for by their metadata, and by the user's id if the chain knows it.      *)
Finds(d) == \E row \in remembered : /\ MsgOf(row.by) = MsgOf(d) /\ row.meta
                                    /\ delivery[d].known => delivery[row.by].known

(* memory.remember first reads what is already confirmed under the key.    *)
LookUp(d) ==
    /\ Waits(d, "lookup")
    /\ \/ Finds(d) /\ NoFault /\ Replies(d, "remember_not_saved")
       \/ ~Finds(d) /\ NoFault /\ Goes(d, "store")
       \/ Fault("query") /\ Replies(d, "remember_not_saved")
    /\ UNCHANGED <<seen, rate, tables, hasMeta, now>>

(* Mutant: the insert without the look that the lock protects. *)
AlreadyStoredNever(d) == FALSE
(* saveMessage looks for the row of the same message under a transaction   *)
(* lock, if the process believes that the column metadata exists; if not,  *)
(* it inserts a row without.                                               *)
HasMeta(d) == hasMeta[ProcOf(d)] = "yes"
AlreadyStored(d) == HasMeta(d) /\ Finds(d)

(* Then it inserts, unless the row is there: both answer that it is saved. *)
Store(d) ==
    LET stored == IF AlreadyStored(d) THEN remembered
                  ELSE remembered \cup {[by |-> d, meta |-> HasMeta(d)]} IN
    /\ Waits(d, "store")
    /\ \/ remembered' = stored /\ NoFault /\ Replies(d, "remember_saved")
       \/ UNCHANGED remembered /\ Fault("query") /\ Replies(d, "remember_not_saved")
       \/ remembered' = stored /\ Fault("answer") /\ Replies(d, "remember_not_saved")
    /\ UNCHANGED <<seen, rate, invocations, userRows, hasMeta, now>>

(* Mutant: the row is looked for but not inserted. *)
GuardIncomingBlind(d) ==
    /\ Waits(d, "guard")
    /\ \/ MsgOf(d) \notin userRows /\ Goes(d, "process") /\ NoFault
       \/ MsgOf(d) \in userRows /\ Settles(d, "dedupeEvent", "dup_chat_drop") /\ NoFault
    /\ UNCHANGED <<seen, rate, tables, hasMeta, now>>

(* guardIncomingChatMessage: insert first, and go on if the row is new or  *)
(* the statement failed, perhaps after it was executed.                    *)
GuardIncoming(d) ==
    /\ Waits(d, "guard")
    /\ \/ /\ MsgOf(d) \notin userRows
          /\ userRows' = userRows \cup {MsgOf(d)}
          /\ Goes(d, "process") /\ NoFault
       \/ /\ MsgOf(d) \in userRows
          /\ UNCHANGED userRows
          /\ Settles(d, "dedupeEvent", "dup_chat_drop") /\ NoFault
       \/ /\ Fault("query") /\ UNCHANGED userRows /\ GoesOpen(d, "process")
       \/ /\ Fault("answer") /\ userRows' = userRows \cup {MsgOf(d)}
          /\ GoesOpen(d, "process")
    /\ UNCHANGED <<seen, rate, invocations, remembered, hasMeta, now>>

(* insertWebhookDedupeEvent and touchChatMeta; failures are swallowed. *)
RecordDuplicate(d) ==
    /\ Waits(d, "dedupeEvent")
    /\ Ends(d)
    /\ UNCHANGED <<seen, rate, tables, hasMeta, now, faults>>

(* The conversation flow and handleChatMessage: the message is carried     *)
(* out.  An error ends the chain without an answer.                        *)
Process(d) ==
    /\ Waits(d, "process")
    /\ \/ Returns(d, "chat_handled") /\ NoFault
       \/ Returns(d, "chat_error") /\ Fault("handler")
    /\ UNCHANGED <<seen, rate, tables, hasMeta, now>>

Reply(d) ==
    /\ Waits(d, "reply")
    /\ Ends(d)
    /\ UNCHANGED <<seen, rate, tables, hasMeta, now, faults>>

-----------------------------------------------------------------------------
(* The process exits: its chains die, its Maps are empty in the next. *)
Crash(p) ==
    /\ Fault("crash")
    /\ delivery' = [d \in Deliveries |->
                      IF ProcOf(d) = p THEN [delivery[d] EXCEPT !.proc = NoProc]
                                       ELSE delivery[d]]
    /\ hasMeta' = [hasMeta EXCEPT ![p] = "unasked"]
    /\ Limiter!Forget(p) /\ Memory!Forget(p)
    /\ UNCHANGED <<tables, now>>

Clock ==
    /\ now < MaxTime
    /\ now' = now + 1
    /\ UNCHANGED <<delivery, seen, rate, tables, hasMeta, faults>>

Step(d) ==
    \/ DropsDuplicate(d) \/ Admits(d) \/ ResolveIdentity(d)
    \/ EnsureInvocation(d) \/ CommandGuards(d) \/ Dispatch(d)
    \/ ReadContext(d) \/ LookUp(d) \/ Store(d)
    \/ GuardIncoming(d) \/ RecordDuplicate(d) \/ Process(d) \/ Reply(d)

Next ==
    \/ \E d \in Deliveries : Step(d) \/ \E m \in Messages, p \in Procs : Deliver(d, m, p)
    \/ \E p \in Procs : Crash(p)
    \/ Clock

Spec == Init /\ [][Next]_vars

-----------------------------------------------------------------------------
(* Properties *)

TypeOK ==
    /\ delivery \in [Deliveries ->
         [at : Awaits \cup {"none", "end"}, msg : Messages \cup {NoMessage},
          proc : Procs \cup {NoProc}, known : BOOLEAN,
          result : Drops \cup Refused \cup Done \cup {Undecided},
          open : BOOLEAN]]
    /\ Memory!SeenOK
    /\ rate \in [Procs -> [Senders -> Seq(0..MaxTime)]]
    /\ invocations \subseteq Messages /\ userRows \subseteq Messages
    /\ remembered \subseteq [by : Deliveries, meta : BOOLEAN]
    /\ hasMeta \in [Procs -> {"unasked", "yes", "no"}]
    /\ now \in 0..MaxTime /\ faults \in 0..MaxFaults

(* The message of the chain is being or has been carried out. *)
CarriedOut(d) == delivery[d].at \in {"dispatch", "process"} \/ delivery[d].result \in Done

(* Insert-first makes a command or a chat message processed once across    *)
(* processes, redeliveries and restarts; only a guard that failed open may *)
(* let a second delivery through (ensureCommandInvocation,                 *)
(* guardIncomingChatMessage).                                              *)
GuardedOnce ==
    \A d, e \in Deliveries :
       /\ d # e /\ MsgOf(d) = MsgOf(e) /\ MsgOf(d) # NoMessage
       /\ KindOf[MsgOf(d)] \in {"command", "chat"}
       /\ CarriedOut(d) /\ CarriedOut(e)
       => delivery[d].open \/ delivery[e].open

(* No message is dropped as a duplicate unless another delivery of it was  *)
(* let in: the guards never drop every copy (handleMessage stage 8D and    *)
(* the two insert-first guards together).                                  *)
DropsHaveOwner ==
    \A d \in Deliveries :
       delivery[d].result \in Drops =>
          \E e \in Deliveries :
             /\ MsgOf(e) = MsgOf(d) /\ delivery[e].at # "evidence"
             /\ delivery[e].result \notin Drops

(* "SAFE COMMANDS - MUST ALWAYS REPLY": no guard on the way of a /start or *)
(* /help ends it without its answer, whatever was delivered before, or     *)
(* counted by the limiter (IDEMPOTENCY_BYPASS and the bypasses behind it). *)
SafeAnswered ==
    \A d \in Deliveries :
       delivery[d].at \in {"reply", "end"} /\ Safe(MsgOf(d))
          => delivery[d].result = "start_replied"

(* At most one row per message for its user, and one for chains that do    *)
(* not know the user.                                                      *)
StoredOnce(rows) ==
    \A row, other \in rows :
       /\ MsgOf(row.by) = MsgOf(other.by)
       /\ delivery[row.by].known = delivery[other.by].known
       => row = other

(* What a message asks to remember is stored once by all the processes     *)
(* that know of the column metadata, although memory.remember looks before *)
(* it inserts and stands before the insert-first guard                     *)
(* (ChatMemoryAdapter.saveMessage).                                        *)
RememberedOnce == StoredOnce({row \in remembered : row.meta})

-----------------------------------------------------------------------------
(* What a comment says and the code does not do                            *)

(* "Strong anti-dup only if messageId exists AND metadata column exists"   *)
(* (chatMemoryAdapter.js): both exist here, so a message to remember is    *)
(* stored once.                                                            *)
StrongAntiDup == StoredOnce(remembered)
=============================================================================
