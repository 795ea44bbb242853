# SG / GARYA: a verification of its stateful core

SG (repository `garya-bot`) is a Node.js Telegram bot over PostgreSQL that may run
in several processes at once. This directory holds TLA+ models of its stateful
parts, the TLC configurations that check them, and TLAPS proofs about them: how a task
gets executed (the robot's ticks, `/run`, the in-memory worker, the table `task_runs`),
how a message is taken in once although Telegram delivers it several times, who its sender
is, and the state that a process or a table keeps beside these - requests for access, what
the chat handler remembers of a chat, data sources and their cache, alerts, the agent
workspace, project memory, and the pages of `/recall`.

## 1. The system

| Component | State it keeps | Operations | What makes it correct | Module |
|---|---|---|---|---|
| JobRunner `src/jobs/jobRunner.js` | per process: `_queue`, `_keys`, `_running`, `_dlq` | `enqueue`, `runOnce`, `ack`, `fail` | one item at a time, keys exact, the worker always freed | `JobRunner` |
| Retry policy `src/jobs/retryPolicy.js` | none | `shouldRetry`, `computeBackoffDelayMs` | attempts stay within `JOB_MAX_RETRIES` | `TaskRuns` |
| task_runs repository `src/db/taskRunsRepo.js` | rows `(task_id, run_key)` | `tryStartTaskRun`, `finishTaskRun`, `markTaskRunFailed`, `getTaskRunAttempts` | one worker per attempt, attempts count up, completed is final | `TaskRuns`, `RunLifecycle` |
| Robot `src/robot/robotMock.js` | advisory lock, `mockPriceState` per process | tick: recover, retry, visit tasks | one tick at a time, due retries consumed, stopped tasks silent | `TaskExecution` |
| `/run` `src/bot/dispatchers/dispatchTaskCommands.js` | none between commands | enqueue + runOnce | the task asked for is run once | `TaskExecution` |
| Stop and start `src/bot/handlers/{stop,start}*.js` | `tasks.status` | set the status of one, a type, or all tasks | no signal follows a stop | `TaskExecution` |
| Message intake `src/core/handleMessage*`, `services/chatMemory` | `chat_messages`, `command_invocations` | in-memory dedupe, insert-first guard, explicit remember | carried out once, never dropped in every copy | `MessageIntake` |
| Memory of seen keys `src/core/handleMessage/dedupeMemory.js` | key -> time, in insertion order | `dedupeSeenHasFresh`, `dedupeRemember` | a fresh key is forgotten only when too many are fresh | `DedupeMemory` |
| Rate limiter `src/bot/rateLimiter.js` | timestamps per key | `checkRateLimit` | at most `max` per window, and a right `retryAfterMs` | `RateLimiter` |
| Users, identity, roles `src/users/` | `users`, `user_identities`, `user_links`, `identity_link_codes` | first contact, link codes, upgrade, backfill, grant | an id is one user's, a code links once, no role without a grant | `Identity` |
| Access requests `src/users/accessRequests.js` | `access_requests` | file, approve, deny | decided once, told what was decided | `AccessRequests` |
| Chat session caches `src/bot/handlers/chat/`, `src/media/` | in-memory maps with expiry, per chat | keep, read, export, ask back | "the document" is the newest, a text carries its document's name | `ChatSession` |
| Sources `src/sources/` | `sources`, `source_runs`, `source_cache` | `fetchFromSourceKey`, `resolveSourceContext` | limits kept, answers fresh, a run says how it ended | `Sources` |
| Admin alerts, retention `src/observability/`, `src/core/` | `admin_alert_state`; `_lastRunAtMs` per process | check and alert; purge | one alert per cooldown | `Cooldowns` |
| Agent workspace `src/agentWorkspace/` | `COMMANDS.md` and reports on GitHub; lock and completed ids per process | `runOnce` | a waiting command is not lost, reports are of the command | `AgentWorkspace` |
| Project memory `src/projectMemory/` | rows of `project_memory` | upsert a section, append, update by id, seed | the state of a scope is the one last written for it | `ProjectMemory` |
| Recall `src/bot/handlers/recall.js`, `src/core/RecallEngine.js` | the user's cursor, per process | `/recall`, `/recall_more` | pages repeat and lose nothing | `Recall` |
| Pending project actions | in-memory maps with expiry | save; nothing calls confirm | - | not modelled |
| Text decisions, vision, files, remote integrations, logging, HTTP | none, or written only | pure functions and I/O | - | not modelled |

The components interact as follows. Each process starts `startRobotLoop`, whose interval
calls `robotTick`; a tick takes a session-level advisory lock in PostgreSQL, marks stuck
runs failed, reads the due retries and then the active tasks, and submits an item to the
process's `JobRunner` for each, calling `runOnce` at once. A Telegram command `/run` does
the same from its own call chain. `runOnce` asks the database whether it may start the run
(`tryStartTaskRun`), calls the handler its CALLER passed, and records the end of the run.
So three kinds of interleaving meet: call chains of one process over one `_running` flag
and one queue; processes over one table; and all of them with users, time and crashes.

A message comes in over the webhook of whichever process Telegram reaches. `handleMessage`
drops it if the process has seen its key; then a command inserts a row into
`command_invocations`, a chat message one into `chat_messages`, and only who inserted the row
goes on. Every guard fails open. The rate limiter, the memory of seen keys and the cache of
column probes are Maps of one process; the tables are shared.

On the way, `ensureUserProfile` gives a new sender a global id in two tables and
`resolveUserAccess` reads the role; a command that the role does not allow files an access
request, which the monarch decides in another message. A chat message then goes to the chat
handler, whose flows are tried in a fixed order and pass on what they found in six small
caches, while the AI is asked; `resolveSourceContext` may add an answer of a data source,
cached in the table that `/source` and `/price` use too. These parts share the database and
the process but no row or field, so each has a module and an invariant of its own.

The behaviours that are hard here, with the lines where they bite, are the `hazards` of
`PROJECT.json`.

## 2. Modules

A component has a module; `MC...` modules give the instances for TLC; `..._proofs` modules hold
proofs. The modules without the constants' values and without proofs are:

**`JobRunner`** is the in-memory worker. Node runs a call chain without interruption from
one await on I/O to the next, so an action is one such segment: `enqueue`, the test of
`_running` and the shift of the head happen in one step (`SubmitRun`, `SubmitQueued`,
`SubmitRejected`, and `RejectedThenRun` for the caller that ignores the rejection). The
`await` of the synchronous `enqueue` in `/run` yields to no I/O. After that a thread is at
one of the awaits of `runOnce` (`Stages`), and every answer of the database and of the
handler is an action. `ack`, `fail` and the `finally` block are the single operator
`Leave`: no I/O await lies between them, except the DLQ insert, whose waiting is part of
the stage "fail".

**`TaskRuns`** has the SQL of `task_runs` as operators on one row.

**`RunLifecycle`** is the abstract specification: what the table promises of one run.

**`TaskExecution`** composes them. `W == INSTANCE JobRunner` gives the worker's actions;
each is conjoined with what it does to the database and to its caller. Variables and code:

| Variable | Code |
|---|---|
| `queue`, `keys`, `running`, `dlq` | fields of `JobRunner` |
| `worker[t]` | where thread `t` is in `runOnce`, and the item it shifted |
| `runs` | `task_runs`: `status`, `attempts`, `retry_at`, `started_at` |
| `status` | `tasks.status` |
| `lock` | who holds `pg_try_advisory_lock` |
| `tick[t]` | the await a tick is at and the rows it has read |
| `price[p][k]` | `mockPriceState`: `lastCheck`, or unset |
| `cmd[t]`, `instant` | the await a `/run` is at; the clock in milliseconds, as far as it tells two commands apart |
| `local[t]` | the handler's own progress and the locals of the catch block |
| `now`, `faults` | time in units of the schedule; the budget of faults |
| `served`, `timeouts`, `grace` | history for the properties; no guard reads them |

In `TaskExecution`, `Fault(kind)` is a query that fails, a query that is executed and whose answer is lost, a
message that is not delivered, the loss of the lock's connection, or a crash of a process;
the constant `Faults` says which kinds a configuration has. `MayHang` says whether a handler
may take longer than the recovery's timeout. Time is one clock for the database and the
processes.

**`RateLimiter`** is `checkRateLimit` with the history an exact sliding window would keep, and
**`DedupeMemory`** the memory of seen keys with the history of what it let in: two Maps of a process.
The clock does not run backwards. Alone they are checked with the other parts of a process; in
`MessageIntake` they work together.

**`MessageIntake`** is the way of a message with `TRANSPORT_ENFORCED=true`. A delivery is a call
chain; `delivery[d].at` is the await it is at:

| `at` | Code |
|---|---|
| `evidence` | `handleMessage` before the in-memory guard |
| `identity` | `resolveIdentityAndAccess` |
| `invoke`, `log`, `dispatch` | `ensureCommandInvocation`, `logInboundCommandMessage`, diagnostics and `dispatchCommandBridge` |
| `context`, `lookup`, `store` | the follow-up contexts; `memory.remember`; `ChatMemoryAdapter.saveMessage` |
| `guard`, `dedupeEvent`, `process` | `guardIncomingChatMessage`, `insertWebhookDedupeEvent`, the answer |
| `reply` | `replyAndLog` |

`seen[p]` is `__dedupeSeen`, a sequence because eviction goes by insertion order, and `rate` is
`__rlState`; both move by the operators of their modules; `invocations`, `userRows` and `remembered`
are rows of `command_invocations`, `chat_messages` and `chat_memory`; `hasMeta[p]` is `_colCache`
for the column `metadata` (the probes of the other columns do not fail in the model). The text of a
message is its kind. Faults: a query fails, a probe of a column fails, a statement is executed and
its answer lost, a handler throws, the process exits. The number of deliveries of a message is
bounded and otherwise free, so the 200 that ends them needs no state. `Inboxes` says which messages
may arrive in one behaviour. Left open are what
permissions say of a command that is not the monarch's, and whether a project request is blocked.
Different messages to remember have different keys.

**`Identity`** is who the sender is. A chain is the handling of one message, or of one command of the
monarch; `chains[c].at` is the query it is at, and a transaction (the confirmation of a code, the
upgrade of a legacy id) is one action from its last lock to its COMMIT, with the row lock of
`SELECT ... FOR UPDATE` held in between (`Locked`, `Holds`). `profile`, `mapping`, `links` and `codes`
are the rows of `users`, `user_identities`, `user_links` and `identity_link_codes`; the legacy id
`tg:<user>` is the user's name itself. Three functions look an id up alike (the mapping, then the legacy
row): they share `ReadMapping` and `ReadLegacy`, and `goal` says whom the answer is for. A failing
query is `Fails`, with what each caller makes of it. `drawn`, `granted` and `overtaken` are history.

**`AccessRequests`** is the queue of access requests: a refused command looks for a pending request
and inserts one in two statements (`Find`, `Insert`), a decision is one conditional UPDATE (`Decide`).

**`ChatSession`** is what the chat handler keeps about one chat. `kept` has an entry for each of its caches,
with the document the text is `of` and the document whose `name` it carries; `chain[m]` is a message on
its way through the flows of `chat.js`, in the order in which they are tried (`Waits`, `PassOver`). What the
AI makes of a message is any outcome its prompt allows. A file whose text cannot be read (`ReadNothing`) is of
no document, even with a caption, and its answer is saved all the same (`Answer`): under the session's document
if there is one, with the message's own words for the document if there is none (`chatPostAiPersistenceFlow.js:157`).

**`Sources`** has the two ways to a source of data and the table they share. `chain[c].pc` is the await of
`fetchFromSourceKey` (`Load`, `Gate`, `ReadCache`, `Request`, `ReadAgain`, `Save`, `MarkSuccess`,
`MarkError`, `Finish`) or of `resolveSourceContext` (`Seek`, `Fetch`, `Keep`). `LegacyColumn` says
whether `source_cache` has the NOT NULL column of the first migration, which only one of the two ways
fills. A failed probe for a column is remembered for the life of the process (`sources.js:224-227`) and
without that column hides the cache from later calls (`Blinded`).

**`Cooldowns`** has the alerts, whose last time is a row read before the message and written after it,
and the purges, whose last time is a field set before the statement.

**`AgentWorkspace`** is `runOnce` of the command runner, from its lock to its last mark, with the contents
API of GitHub: a file is read, and written with the sha that was read. A sha is compared as what it
stands for, the content of the file. Resets and reports are written one by one, and any call may fail,
lose its answer, or be the last of its process. The eleven reports are three, by what resets and
writes them.

**`ProjectMemory`** is one section of `project_memory`: `upsertSectionState` looks for the active row and
then inserts or updates it, an update by id reads the row and writes all of it back, and no index or
transaction joins the two statements.

**`Recall`** is paging: `searchPage` below a cursor, `limit + 1` rows at a time, the cursor given to the
user and the one kept for the user. Time has fractions of a millisecond, which a cursor has not, and a
cursor keeps 120 characters of the keyword (`Cut`). As in both handlers, the stored cursor is set or
cleared first (`Keep`) and the page sent then (`Send`), which may fail (`SendFails`): the handler answers
with an error and leaves the stored cursor where it is. Messages come in the order of their ids.

**`ServerProcess`** puts the parts that share nothing but the process side by side, one in each behaviour, and
**`MCUsers`** does so with `Identity` and `AccessRequests`: a run has one initial state, or a few, for each
part, so that one run of TLC explores all of them. `MCProcess` gives the bounds of `ServerProcess` their values.

Names ending in `Any`, `Never`, `Skipped` and the like, under the comments "Mutant" and
"Plausible mistakes", are wrong versions of the definition that follows them. `Next` does
not use them; they serve to confirm that each property notices the mistake.

## 3. Properties and runs

| Run | What it asks | Bounds |
|---|---|---|
| `process` | the runner: `OneAtATime`, `KeysMatch`, `KeysDistinct` | 1 process, 3 threads, 2 keys or none, queue of 3 |
| | `LimiterExact` | 2 callers, 2 calls in 3 instants, 7 instants, restarts |
| | `AdmittedOnce` | 3 keys, room for 2, 6 admissions, 5 instants, restarts |
| | `AlertsSpaced` | 2 commands, 3 alerts, a cooldown of 2, 4 instants |
| | `FullTextIsNewest`, `NamesMatch` | 3 messages, 2 documents, 2 messages together, windows of 0, 1 and 2, 3 instants |
| | `RunsTold`, `SpacedOnceCached`, `AnswersFresh` | 2 callers, 3 calls, 2 types, 3 entries, 1 fault, 3 instants |
| | `PendingKept`, `ReportsOfCommand` | 2 commands posted, 2 calls of `runOnce`, 2 faults with restarts |
| | `ScopedStateKept` | 2 commands together, 2 scopes or none, 4 writes, 1 fault |
| | `PagesExact` | 2 chats, 2 messages, pages of 1, a keyword that is cut and one that is not, 2 fractions to a millisecond, 2 instants, a window of 0, 3 commands, 2 of them together, 1 fault or restart |
| `task_robots` | `NoOverlap`, `StopSilences`, `ImplementsLifecycle` | 2 processes with a tick each, 1 monitor, 2 faults of 4 kinds, 3 instants of time |
| `task_commands` | `AttemptsDistinct`, `AttemptsBounded` | a tick and a `/run` in one process, a `/run` in another, handlers that hang, a monitor forced to fail, 2 faults of 3 kinds |
| `task_liveness` | `SingleTick`; `LockFreed`, `RunnerFreed`, `RetryConsumed`, `RunEnds` under `FairSpec` | 2 processes, 1 fault, no `/run` |
| `users` | `IdsSeparate`, `CodeLinksOnce`, `LinksMatch`, `RoleFromGrant`, `AgreementKept` | a user and the monarch, 2 chains, 3 new ids, 1 code, 4 messages or failures together, any tables from before |
| | `OneVerdict`, `PendingBounded` | 2 refusals and 2 decisions together, 3 requests |
| `intake` | `GuardedOnce`, `DropsHaveOwner`, `SafeAnswered`, `RememberedOnce` | 2 processes, 3 deliveries, 4 pairs of messages of the 5 kinds, 1 fault of 5 kinds, memory of 1 key, 1 call per window, 2 instants |

### Task execution

`NoOverlap` says no run is executed by two workers; `SingleTick` that one tick is between
lock and unlock (it is not claimed with lost sessions: `NoOverlap` is what must then still
hold, and `task_robots` has them). `StopSilences` says that after a stop only workers that
had already re-checked the status may still signal. `AttemptsDistinct` is what remains
when a run overlaps with itself. `AttemptsBounded` says every attempt beyond the policy was
caused by a recovery. That the lock is a lock and the worker is freed is `LockFreed` and `RunnerFreed`:
each path out of a tick, or out of `runOnce`, must lead there.

Two processes and two or three threads suffice for the races: each property speaks of two
workers, two ticks or one row, and the code treats threads, processes and tasks alike. The
time bound leaves room for a run, its recovery and its retry. `RetryLimit` (5 in the code) is 1, so
that a tick leaves due retries for the next.

### Messages

`GuardedOnce`: two chains carry out one command or chat message only if a guard of theirs failed
open. `DropsHaveOwner`: the guards stand one behind the other and each drops; still some copy is let
through. `AdmittedOnce` is the exact strength of the in-memory guard: within the time to live a
message passes twice only if as many others as the memory holds came between. Five admissions are
the fewest in which a key is refreshed, an older one expires, and the two compete for the last
place. `RememberedOnce` counts the rows of a user and the rows of nobody apart: when the identity
cannot be read the row has no owner, and a later look under the owner's id does not find it.
`SafeAnswered` quotes "SAFE COMMANDS - MUST ALWAYS REPLY" (`src/core/handleMessage/shared.js:17`).
That a chain which died leaves its message unanswered is what insert-first means
(`handleChatFlow.js:336`), and no property says otherwise.

Three deliveries to two processes are the first copy, its redelivery and a third that meets what the
two left behind. Messages interact only through the limiter, which counts the commands of a sender,
and by pushing each other out of the memory of seen keys; the four pairs are those in which they do.

### Users

`IdsSeparate`: no global id is of two users, in any table or in the hand of any message, whatever first
contacts, codes, backfills and upgrades do together. `CodeLinksOnce` is the row lock's purpose.
`LinksMatch` relates the two tables that a confirmation and an upgrade write; `RoleFromGrant` says that
the id `/grant` looked up is still of nobody else when the role is written. `AgreementKept` is an action
property: with `LINKING_V2` and no failed look-up, once the row and the mapping of a user agree they do for
ever. It excepts the monarch, who alone can upgrade. `OneVerdict`: a requester hears one verdict and it is
the table's; `PendingBounded`: a refusal may miss another's row only while both are under way.

One user beside the monarch is enough for a second owner of an id; two chains are enough for every
race, each being of two messages.

### The parts of a process

`FullTextIsNewest` and `NamesMatch` are about answers that come late: a summary of the first document
may arrive when the second is the active one. `FullTextIsNewest` lets a file of "the document" be of none,
never of an older one, when the session went and an answer about a file without text was saved while the
request was under way: the code saves that message for the document then. `RunsTold`: calls of one minute share a row of
`source_runs`, and who did not start the run must not end it. `SpacedOnceCached` is what is left of the
limit (see `rate_limit_broken`): once something is in the cache, it is kept. `AnswersFresh` is about
answers that another call fetched. `AlertsSpaced` speaks of checks that began when an alert was on record;
two that overlap may both send. `PendingKept` and `ReportsOfCommand` except runs that were not `alone`:
beside a run of another process, or after a mark whose answer was lost, a mark may go over the next
command, and the model shows that it does. `ScopedStateKept` excepts scopes on whose row an update by id
or an unscoped write got hold, and overlapping writes. `PagesExact` excepts what the code does lose: a page that
could not be sent, or died with its process, after its cursor was stored; what follows the first page of a keyword
that the cursor cuts; rows in the millisecond of the end of a page; failed queries; and another chat's cursor. A page
still on its way counts as shown, since its answer is awaited beside the next command. Each exception is a history
variable, or a part of a cursor or a chain, set by the step that causes it. Two messages on pages of
one, a window of no instant and two fractions are the least that has two pages, a message too old and a tie in one
millisecond; the two commands of `/recall` are alike and may change places (`Alike`). A virtual source, of which
nothing is requested, is left to the proofs.

`MaxQueue`, `MaxInstant`, `MaxTime`, `MaxFaults`, `MaxEvents`, `MaxRequests`, `MaxSent`, `MaxFlight`,
`MaxTogether`, `NumMessages`, `MaxDocs`, `MaxCalls` of `Sources` and `Recall`, `MaxPosts`, `MaxTexts`,
`MaxWrites`, `MaxRows`, `MaxAdmissions` and `MaxDeliveries` are bounds of the models; the other constants
are the program's parameters, made small, keeping the order of windows and times to live.

Deadlock is checked in the runs of `TaskExecution` and none occurs: a user may always start or stop a task.
It is not checked in `process`, `users` and `intake`, which stop when the messages, the clock or the
budget of faults are used up.

Fairness (`FairSpec`). Every await is answered eventually: weak fairness of each thread's
next step (node-postgres answers or throws; so does the Telegram client). Time passes. While
the lock is free, some tick takes it: intervals fire in every process, and which process wins
is left open, since `pg_try_advisory_lock` has no queue. No fairness for users, faults and
restarts. `RunEnds` looks only at runs that become stuck before `MaxTime`, where the model's
clock stops. Of the other modules only safety is checked: a message whose process exits is never
answered, and nothing in the code retries it.

### What the documents say and the code does not do

Four runs each have one property taken from `pillars/modules/tasks/CONTRACTS.md`, two a property
taken from a comment, and TLC finds a behaviour of the code that violates it.

- `limit_exceeded`: the recovery sets `retry_at` without looking at `attempts`, so a run whose
  process exits in each attempt exceeds `JOB_MAX_RETRIES`.
- `live_run_recovered`: the recovery judges by age; a run still executing is started again beside
  itself.
- `manual_run_lost`: `runOnce` executes the head of the queue with the caller's handler. A `/run`
  item taken by a robot is completed without having run.
- `signal_lost`: `lastCheck` is advanced before the message is sent, so the retry after a failed
  send does nothing and completes.
- `remembered_twice`: when the first probe for the column `metadata` fails, the process believes for its
  life that there is none; it then stores without the guard against duplicates, and the row it writes is
  one that no later look finds.
- `rate_limit_broken`: the cache row of `fetchFromSourceKey` cannot be inserted, because the statement leaves out a
  column that the first migration declares NOT NULL; without a cached answer the code asks the source
  again within its limit.

### What the models show besides

Behaviours met while modelling that contradict no property above, at their lines:

- *Identity.* A confirmation repoints the mapping to the id in the code, which may be the legacy id that no
  row of `users` has any more; two first contacts can leave an identity that points to an id without a row;
  `UpsertProfile` sets the role back to the default at each message (`userProfile.js:83`), a grant
  lasting until then.
- *Requests.* Two refusals together file two requests (`accessRequests.js:79`).
- *Chat.* The question of `document_part_summary_request` is never stored, `normalizeKind` not knowing the
  kind; the answer about a captioned document that could not be read is kept under the name of the document
  before, and when that is past its half hour, the caption becomes the document that is exported
  (`chatPostAiPersistenceFlow.js:157`); the getters renew a window by looking at it; an export without a named target always takes the
  document, which is made active again by each message, although `activeExportSourceCache.js:5` says "keep last
  active export source" and names the reply as one.
- *Sources.* An answer given because of the limit ignores what was asked for and may be the row of another coin;
  the run key of a minute prevents no second request.
- *Alerts.* A failed message starts the cooldown all the same.
- *Agent workspace.* A diagnosis that FAILED is remembered as completed, and its repetition is ignored; completed
  ids are forgotten at a restart; a webhook that finds the lock taken answers 500 and is not repeated; a command
  that needs a newer commit, skipped by the old process, waits for another trigger.
- *Project memory.* A write without scope takes the newest row of any scope and clears its scope; two patches
  together overwrite each other's columns and can revive an archived row; the seed at a start looks first
  and writes later, so that a text written in between is overwritten although "no overwrite" is its rule
  (`ProjectMemorySourceSync.js:7`).
- *Recall.* The cursor is stored before the page is sent (`recall.js:658`, `:881`): when `sendMessage` rejects, as
  it does for a text over Telegram's 4096 characters, the user gets an error and `/recall_more` goes on behind the page
  nobody saw. A cursor has milliseconds: older rows of the same millisecond are passed over. It cuts a keyword at 120
  characters and appends an ellipsis (`:140`, `:105`), so the next page of a longer one searches something else. A
  failed query is told as the end; the stored cursor is the user's, in whatever chat.

## 4. Proofs

Each theorem is for every value of the constants. The `process`, `users`, `task_...` and `intake` runs show the
same properties on small instances; TLC evaluates the assumptions on constants of `JobRunner`,
`TaskExecution`, `Identity`, `MessageIntake` and `ServerProcess` there (the last has one for each part it composes:
`GuardsAssumption`, `ChatAssumption`, `AlertsAssumption`, `SourcesAssumption`, `ProjectAssumption`,
`WorkAssumption`, `RecallAssumption`). The theorems about `AccessRequests`, and those about `RateLimiter` and
`DedupeMemory` alone, carry theirs in their statements. Every safety and every action property of a passing run is
stated by a theorem.

The parts of a server process are proved about in the composition that the run `process` checks: `ProcessSpec`
moves one of them, so the invariant of a part, `used = "..." => Inv`, is kept by the others at no cost, and
`UsesJobRunner` says that it moves the worker only as `JobRunner` does.

`JobRunner_proofs` proves for every set of processes, threads, jobs and keys, and every queue bound:
`TypeCorrect`, `OneAtATimeHolds`, `KeysMatchHolds`, `KeysDistinctHolds`.

None of the three invariants is inductive alone. The strengthening is `RunnerInv`: the types, the
fact that a thread holds an item exactly while it is inside `runOnce` (`ItemHeld`), and the three
together. `KeysMatch` needs `OneAtATime`: a worker that leaves releases its key, and only because no
other thread of the process holds an item is the set of held keys empty afterwards. It also needs
`KeysDistinct`: releasing a key must not take away the key of a queued item. `KeysDistinct` in turn
needs `KeysMatch`: the test of `enqueue` is on the set, not on the queue.
The proof has a lemma for each way the state moves (`SubmitQueuedInv`, `TakeHeadInv`, `GotoInv`,
`LeaveInv`, `RestartInv`), two about the keys of a longer and of a shorter queue (`AppendKeys`,
`TailKeys`), and `StepInv` puts them together for `Next`.

Assumptions: each thread has a process, `NoKey` is no key, `NoItem` is no item, `DlqEnabled` is a
Boolean, `MaxQueue` a natural number.

`TaskExecution_proofs` proves the following of task execution for any
processes, any finite set of threads, any tasks, monitors and intervals, any retry limit, and all
bounds on time and faults:

| Theorem | Property | Also assumes |
|---|---|---|
| `TypeInvariant`, `TypeCorrect` | `TypeOK` | - |
| `UsesJobRunner` | the worker is driven through `JobRunner`'s actions only: `Spec => W!Spec` | - |
| `SingleTickHolds` | `SingleTick` | no session is lost |
| `AttemptsDistinctHolds` | `AttemptsDistinct` | - |
| `OverlapInvariant`, `NoOverlapHolds` | `NoOverlap` | no handler outlasts the recovery's timeout |
| `LifecycleImplemented` | `ImplementsLifecycle` | the same, and no answer of the database is lost |
| `StopSilencesHolds` | `StopSilences` | - |
| `AttemptsBoundedHolds` | `AttemptsBounded` | - |

The extra assumptions are not conveniences: without the one about hanging handlers `NoOverlap` is
false (`live_run_recovered`), and with a lost answer a completed run is marked failed.

- **Types.** `TypeInv` adds to `TypeOK` what the shapes owe each other: a worker's item is an item
  of a monitor or of a command, a command inside `runOnce` is at the await that says so, a tick that
  works on a row works on one it has read. `UsesJobRunner` follows from the same case analysis:
  whatever `JobRunner` alone guarantees, the system inherits.
- **One tick.** `LockInv`: a tick under way is the one the lock names.
- **Effects.** The other proofs do not look at the thirty-odd actions again. The lemma `Effects`
  sorts every step into eight kinds: it writes no row and brings no worker to life; time passes; the
  recovery; a run is opened, noticed by its worker or not; finished, noticed or not; marked failed.
- **Attempts.** `AttemptsInv`: the attempt a live worker counts is at most its row's, and two of one
  run differ. A new worker gets `attempts + 1`, above all the others; no statement lowers `attempts`
  (`RowsGrow`).
- **Overlap.** `OverlapInv` adds to `NoOverlap` that the row of a live worker is `LiveRow`: running -
  or completed, when the answer to the last UPDATE was lost - and not yet stuck. Then the gate of
  `tryStartTaskRun` is shut (`LiveShut`), the recovery passes the row by, and time cannot pass
  beyond its timeout while the worker lives, which is what "no handler hangs" means.
- **Lifecycle.** Under `OverlapInv` at most one worker is live per run, so the refinement mapping is a
  function of row and workers; `TransitionStep` treats each effect.
- **Stops.** `StopSilences` is inductive: of all steps only a re-check that finds its task active adds a
  worker that is about to signal, and a signal takes one away and one off `grace` (`NoNewSender`
  treats all other steps at once).
- **Limits.** `AttemptsBounded` is not inductive; a stale worker may still mark its run for a retry after
  others have started it. `LimitInv` bounds `Budget`, the attempts of a run and all that can still begin one: its
  row, if it waits for a retry; each live worker whose own attempt is below the limit; and the attempts
  up to the limit that have not begun. A start spends a waiting row and an attempt not begun on an
  attempt and a live worker, a mark trades the worker for a waiting row; only a recovery adds to the budget, and
  it counts in `timeouts`. `SeenInv` (a worker that
  read the row saw no less than its own attempt) makes `shouldRetry` speak of the worker's own attempt.

Assumptions on the constants: `Threads` is finite, `NoThread` is not one of them, `Home` gives each
its process, `MayRun \subseteq Tasks`, tasks, time and bounds are natural numbers and `Interval` is
positive.

`MCUsers_proofs` proves, of identities, `TypeCorrect`, `CodeLinksOnceHolds`, `IdsSeparateHolds`,
`RoleFromGrantHolds`, `LinksMatchHolds` and `AgreementKeptHolds` for any users, monarchs, ids, codes and roles, any
number of messages at a time, and any number of failures (a behaviour of the run's composition is one of `Identity`:
`UsesIdentity`):

- **Types.** `TypeInv` adds what the parts of a chain owe each other (`ChainOK`: a chain that rewrites an
  id has one, one that reads the role does so for a message) and `CodeLinksOnce`, which the types need: the code a
  confirmation consumes must be one in use. Lemmas say what the chain of each action becomes
  (`...Continues`, `...Begins`, `LockCodeGoes`), and `CodesUntouched` that no other step disturbs a confirmation.
- **Ids.** `SepInv` adds to `IdsSeparate` that the legacy id of a user is of nobody else and an id not drawn yet
  is of nobody: the two reasons why an id that is written anew clashes with none. `StepOfUser` is the argument
  for every action: a step is of one user and writes only ids that are this user's or may become so (`Mine`).
  The rewrite of the upgrade goes over all rows by the id's value, and only `SepInv` makes it a step of one user.
- **Roles.** By the same fact a role written by id reaches one row (`RoleNext`).
- **Links.** `LinkInv` adds `UpgradesOK`: an upgrade that is waiting for its transaction knows the link of its
  user, or there is none, or a confirmation has overtaken it.
- **Agreement.** `AgreementKept` is about steps; `KeptInv` says of the state before them, with `LINKING_V2` and
  while no query has failed, that a chain of anyone but the monarch writes an id that it has, goes on to the access
  check and to its command only after the mapping is there, and that a code not free is for the id the mapping
  names (`ChainKept`, `CodeKept`). So every write of a mapping is of a first id or of the one that is there
  (`MappingSteps`). That the row keeps its id needs no more than `SepInv` (`ProfileSteps`). A failed look-up breaks
  `KeptInv` at once: the code is then issued for the legacy id.

Assumptions: the monarchs are users, new ids, legacy ids and the markers `NoId`, `NoCode`, `NoUser` are distinct, and
"guest" and "monarch" are no roles to grant. That at most one upgrade is under way is a bound of the model, and
`LinksMatchHolds` rests on it.

Of the queue of access requests `MCUsers_proofs` proves `OneVerdictHolds` (`VerdictInv`: a verdict about to be told is
the one in the row, a row with a verdict is not pending, and no two decisions hold one) and `PendingBoundedHolds`
(`QueueInv`: the pending requests for an action and the refusals about to insert one are together no more than the
chains, since no refusal starts to insert beside a pending request). The first assumes that `NoRequest` is
no row, the second also that the chains are finitely many. Every step of `UsersSpec` is a step of `AccessRequests` or
leaves the queue alone (`UsesRequests`).

`RateLimiter_proofs` proves `LimiterExactHolds`: the array of a caller is the end of the history of the calls let
through, and what went before has left the window (`Tells`, `LimiterInv`). Filtering an array is a recursive
definition; that an array in order loses exactly its beginning is proved by the least length at which it would
fail, which needs no induction theorem. `DedupeMemory_proofs` proves `AdmittedOnceHolds` in the same way about the Map
and its eviction: a key that was let in is still there, or has expired, or as many other fresh keys came since as
the Map has room for (`Held`, `Life`). `ServerProcess_proofs` and `MessageIntake_proofs` take both over.

`MessageIntake_proofs` proves, for any processes, deliveries, messages, kinds, faults and bounds:

- `TypeInvariant`: `PlaceOK` says which awaits and results the kind of a message allows; `TypeCorrect` and
  `SafeAnsweredHolds` follow.
- `GuardInvariant`: `GuardInv` (who passed a guard that did not fail open has its row, of two who passed one failed
  open, and a row is of somebody who passed) and `OwnerInv` (every key a process has seen and every dropped message
  has a delivery that went on). `GuardedOnceHolds` is the second conjunct, `DropsHaveOwnerHolds` the last;
  neither is inductive alone, because the next delivery is judged by the row and the key, not by the delivery that left
  them. A restart forgets keys, never rows, which is why `GuardInv` is about the guards by rows alone.
- `RememberedOnceHolds` (`RememberInv`): a stored row is of a chain that has only its reply left, so what its
  process knew of the column metadata does not change after the row is there.

`ServerProcess_proofs` proves, besides the limiter and the memory of seen keys:

- **Alerts.** `AlertsSpacedHolds`: `SpacedInv` says that the row of a level is no older than any alert on record,
  and that an alert not yet on record is of one check alone.
- **Sources.** `SourcesInvariant` is `SourceShape` with three parts. `RunsInv`: a run a call has started is running
  and of no other call, and what its starter was told is decided: `RunsToldHolds`. `FreshInv`: calls are in time
  and a cached entry is of its name and was kept no later than a call may take: `AnswersFreshHolds`.
  `LimitInv`: a call knows at its gate of every success before it, and a success that was kept has left a row in
  the cache, so that a call not in time for it does not ask: `SpacedOnceCachedHolds`.
- **Project memory.** `ScopedStateKeptHolds`: outside the disturbed scopes a scope has no active row or one, with
  the text last written, and a command between its look and its write found that row or none and is the only
  one (`ScopeKept`).
- **Agent workspace.** `WorkspaceInvariant`: a run has the lock of its process (`Locks`), runs together are not
  alone (`Apart`), and what a run that is alone has read, reset and written fits the file and the reports
  (`Fits`). `ReportsOfCommandHolds` and the action property `PendingKeptHolds` follow from it.

`Conversation_proofs` has the two longest of them:

- **Chat.** `ChatInvariant`: the session is of the document read last (`CachesOK`). The caches serve every message
  under way (`Serves`): what is kept as the document and as the active one is what they owe it (`Owed`), that is, no
  older than it found when it came in, or of no document, and the latter only if such a text was saved since (`crossed`).
  A chain that has settled on a text is about the newest document or none, or the session is younger than the chain
  (`ChainOK`); when the session has gone, nothing settled is of a document older than what any message found
  (`NewestSettled`). That answers of no document are settled too is why `Answer` has to set `crossed` on all messages
  under way, and only when the session is gone: while it is there, the document is saved again from it.
  The flows of the handler write the caches in a dozen combinations; `Keeps` says what all of them leave.
  `FullTextIsNewestHolds` and `NamesMatchHolds` follow. A message must be answered within the half hour of the session
  (`ChatAssumption`); a slower one can lose its document to expiry between two awaits.
- **Recall.** `PagesExactHolds`: a cursor given out is `Good`, that is, nothing of its pages is below it, and what was
  there and is not below it has been on a page or shares the millisecond of a page's end. Since the stored cursor is
  ahead of the page it was stored for, a second part says where those pages are: each message of a cursor's pages has
  been shown, or could not be sent, or is on its way (`HeldOK`, `CallsSeen`), and a command that sends, fails to or dies
  with its process only moves messages between these three. `FetchedNewest` is why a page can go wrong only in
  its last millisecond: the query asks for one row more than the page, so a full page knows that there is another,
  and what it leaves is older than all it has. Messages only come, with times in order (`GrowsInv`).

Model-checked only: the four liveness properties, `LockFreed`, `RunnerFreed`, `RetryConsumed` and `RunEnds`, since
fairness needs `ENABLED`, which TLAPS does not do. The safety part of `task_liveness`, `SingleTick`, is proved; of
the six violations there is nothing to prove, they are traces.

## 5. Not modelled, and the plan

The map covers less than a tenth of the implementation's lines. Most of the rest has no state of its own to model:
classification of texts (`src/core/projectIntent`, `meaningIntent`, `stageCheck`, `decision`: pure functions of
strings), formatting of replies and reports, diagnostics and their fixtures, conversions of files and
calls of remote services, and legacy copies. A model of these would repeat them word by word and show nothing.

Left out of the modelled components:

- *Tasks:* the two retention purges at the head of a tick (`Cooldowns` has their cooldown); items
  without task and run key, which no caller makes; the table `job_dlq`; creation and listing of
  tasks; the permission checks of the stop commands; reply texts. `pg_advisory_unlock` does not fail
  in the model.
- *Intake:* the legacy router of `TRANSPORT_ENFORCED=false`, which is still the default; what a
  command or an answer does when it is carried out; the pending project action and the pending intent,
  which nothing consumes; messages without chat or number, which are refused at once.
- *Users:* two upgrades by the same user at a time; providers other than Telegram, which nothing passes; the
  decision tables of permissions.
- *Chat:* the splitting of texts, the prompts, flows that keep nothing.
- *Sources:* who may call, the choice of a source by the words of a message, logs nothing reads back. Which probe of
  a column failed, and in which process, is not kept either: without `LegacyColumn`, once any query has failed a call
  may be blind to the cache or not (`Blinded`). The runs have `LegacyColumn`, where a failed probe leaves the SELECT of
  the columns of the first migration, which works.
- *Agent workspace:* what Render answers, the choice of a service, the diagnostic commands.
- *Project memory:* its readers, which rank and select text; `archiveActiveEntries`, which has no caller; and scopes
  with duplicates: `linkedAreas` and `linkedRepoScopes` are stored as given, in lower case
  (`projectMemoryScopes.js:96-106`), and compared without duplicates (`:144-154`), so that a scope naming one area twice
  in upper and lower case misses its own row and inserts another. A scope is a value here, compared by equality.
- *Recall:* what a keyword says; `buildRecallContext`; `/recall --groups`, which keeps no cursor.

What is left to do, the most important first:

1. A refinement for the parts of a server process, as `RunLifecycle` is for `task_runs`: the sliding window and
   the queue of requests as abstract specifications of their own.
2. The composition of `MessageIntake` with what a command or a chat message does when it is carried out.
3. The legacy router, if it stays the default.
