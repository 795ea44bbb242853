------------------------------ MODULE Sources ------------------------------
(***************************************************************************)
(* The two ways to a source of data and the table they share.              *)
(*   src/sources/sources.js fetchFromSourceKey, behind /source, /price and *)
(*   the diagnostics: a row of sources with the last success and a limit   *)
(*   of requests, a row of source_runs per run key, and source_cache under *)
(*   the key of the source.                                                *)
(*   src/sources/sourceService.js resolveSourceContext, behind every chat  *)
(*   message: source_cache under a key per entry asked for.                *)
(*                                                                         *)
(* A call is a chain of awaits; an action is what runs from one to the     *)
(* next.  The rights of the caller, source_logs, source_checks, the errors *)
(* and attempts written down and what the data says are left out.          *)
(***************************************************************************)
EXTENDS Naturals, Sequences, FiniteSetsExt

CONSTANTS
    Callers,       \* chains of one process or of several
    Coins,         \* what can be asked of the source, and of its entries
    Charts,        \* entries of the other source of resolveSourceContext
    Types,         \* types the source may have
    LegacyColumn,  \* source_cache has the column cached_json NOT NULL
    RateLimit,     \* rate_limit_seconds
    Minute,        \* of a run key
    PriceTtl, ChartTtl,  \* COINGECKO_..._CACHE_TTL_SEC
    MaxTime,       \* bound of the clock
    MaxCalls,      \* bound: calls in all
    MaxFlight,     \* bound: how long a call takes
    MaxFaults      \* bound: queries that fail

VARIABLES
    type,       \* the type of the source
    success,    \* last_success_at, or Never
    cache,      \* source_cache by cache_key
    runs,       \* source_runs by run_key
    chain,      \* the call of each caller
    now, calls, faults,
    successes,  \* history: the successes recorded, in order
    told,       \* history: what the starter of each run was told
    answer      \* history: the last answer of resolveSourceContext

sourcesVars == <<type, success, cache, runs, chain, now, calls, faults, successes, told, answer>>

Never   == MaxTime + 1
None    == "none"
Own     == "own"             \* the cache_key that is the source_key
Entries == Coins \cup Charts
RunKeys == Coins \X (0..(MaxTime \div Minute))

NoRow  == [there |-> FALSE, of |-> None, sampled |-> 0, at |-> 0]
Idle   == [pc |-> "idle", ask |-> None, key |-> None, since |-> 0, seen |-> Never, base |-> 0,
           asked |-> 0, started |-> FALSE, blind |-> FALSE, ok |-> FALSE, sampled |-> 0]

Init == /\ type \in Types
        /\ success = Never /\ now = 0 /\ calls = 0 /\ faults = 0
        /\ cache = [k \in {Own} \cup Entries |-> NoRow]
        /\ runs = [k \in RunKeys |-> None]
        /\ chain = [c \in Callers |-> Idle]
        /\ successes = << >>
        /\ told = [k \in RunKeys |-> None]
        /\ answer = [ask |-> None, of |-> None, sampled |-> 0, at |-> 0]

-----------------------------------------------------------------------------
(* getSourceCache: the latest of the rows with the key of the source,      *)
(* whoever wrote them.                                                     *)
RowsOfSource == {k \in {Own} \cup Coins : cache[k].there}
Latest       == {k \in RowsOfSource : \A j \in RowsOfSource : cache[j].at <= cache[k].at}

(* upsertSourceCache names no cached_json: where the column is NOT NULL    *)
(* the statement fails, and the error is swallowed.                        *)
CanSave == ~LegacyColumn

(* A query fails, or not. *)
Works == UNCHANGED faults
Faulty == faults < MaxFaults /\ faults' = faults + 1

Goes(c, pc) == chain' = [chain EXCEPT ![c].pc = pc]
Is(c, pc)   == chain[c].pc = pc

Rest     == UNCHANGED <<type, success, cache, runs, now, calls, successes, told, answer>>

-----------------------------------------------------------------------------
(* fetchFromSourceKey *)

(* The call, and getSourceByKey: the row of the source as it is now. *)
Load(c) ==
    /\ Is(c, "idle") /\ calls < MaxCalls
    /\ calls' = calls + 1
    /\ \E coin \in Coins :
         LET call == [Idle EXCEPT !.ask = coin, !.key = <<coin, now \div Minute>>, !.since = now,
                                  !.seen = success, !.base = Len(successes)]
         IN  \/ chain' = [chain EXCEPT ![c] = [call EXCEPT !.pc = "gate"]] /\ Works
             \/ chain' = [chain EXCEPT ![c] = [call EXCEPT !.pc = "failing"]] /\ Faulty
    /\ UNCHANGED <<type, success, cache, runs, now, successes, told, answer>>

(* Mutants: the limit is not looked at; only a failure is waited for. *)
LimitedNever(call) == FALSE
(* The last success, as it was read, is too recent for another request. *)
Limited(call) == call.seen # Never /\ now < call.seen + RateLimit

(* What follows the limit, by type. *)
ToSource == CASE type = "virtual"              -> "saving"
              [] type \in {"page", "coingecko"} -> "request"
              [] OTHER                          -> "failing"

(* Mutant: whoever meets the run of another takes it for its own. *)
StartsAnyRun(key) == TRUE
(* tryStartSourceRun: INSERT ... ON CONFLICT DO NOTHING. *)
StartsRun(key) == runs[key] = None

Gate(c) ==
    /\ Is(c, "gate")
    /\ \E working \in BOOLEAN :
         LET call    == chain[c]
             started == working /\ StartsRun(call.key)
         IN  /\ IF working THEN Works ELSE Faulty
             /\ chain' = [chain EXCEPT ![c].started = started,
                             ![c].asked = now,
                             ![c].pc = IF Limited(call) THEN "cached" ELSE ToSource]
             /\ runs' = IF started THEN [runs EXCEPT ![call.key] = "running"] ELSE runs
    /\ UNCHANGED <<type, success, cache, now, calls, successes, told, answer>>

Answers(c, sampled) ==
    chain' = [chain EXCEPT ![c].pc = "finishing", ![c].ok = TRUE, ![c].sampled = sampled]

(* The cache is not seen: a query fails, or a probe for a column failed    *)
(* before, which sourceCacheColumnExists remembers for the life of its     *)
(* process, and the columns of the first migration are not there to fall   *)
(* back on.                                                                *)
Blinded == Faulty \/ (~LegacyColumn /\ faults > 0 /\ Works)

(* Within the limit the cache answers; if it has nothing, the source does. *)
ReadCache(c) ==
    /\ Is(c, "cached")
    /\ \/ Latest # {} /\ Works /\ \E k \in Latest : Answers(c, cache[k].sampled)
       \/ Latest = {} /\ Works
            /\ chain' = [chain EXCEPT ![c].pc = ToSource, ![c].asked = now]
       \/ Blinded /\ chain' = [chain EXCEPT ![c].pc = ToSource, ![c].asked = now,
                                            ![c].blind = TRUE]
    /\ Rest

(* fetchWithTimeout: the data as it is now; 429, for which CoinGecko has a *)
(* way of its own; another status, or an exception.                        *)
Request(c) ==
    /\ Is(c, "request")
    /\ \/ chain' = [chain EXCEPT ![c].pc = "saving", ![c].sampled = now]
       \/ type = "coingecko" /\ Goes(c, "again")
       \/ Goes(c, "failing")
    /\ Works /\ Rest

(* 429: the cache, however old; last_success_at stays. *)
ReadAgain(c) ==
    /\ Is(c, "again")
    /\ \/ Latest # {} /\ Works /\ \E k \in Latest : Answers(c, cache[k].sampled)
       \/ Latest = {} /\ Works /\ Goes(c, "failing")
       \/ Blinded /\ Goes(c, "failing")
    /\ Rest

(* upsertSourceCache *)
Save(c) ==
    /\ Is(c, "saving") /\ Goes(c, "marking")
    /\ \/ /\ CanSave /\ Works
          /\ cache' = [cache EXCEPT ![Own] = [there |-> TRUE, of |-> chain[c].ask,
                                              sampled |-> chain[c].sampled, at |-> now]]
       \/ ~CanSave /\ Works /\ UNCHANGED cache
       \/ Blinded /\ UNCHANGED cache
    /\ UNCHANGED <<type, success, runs, now, calls, successes, told, answer>>

(* Mutant: the success is not written down. *)
RecordNothing(at) == success' = success
RecordSuccess(at) == success' = at

(* markSourceSuccess *)
MarkSuccess(c) ==
    /\ Is(c, "marking") /\ Answers(c, chain[c].sampled)
    /\ \/ /\ Works /\ RecordSuccess(now)
          /\ successes' = Append(successes, [at |-> now, asked |-> chain[c].asked,
                               base |-> chain[c].base, blind |-> chain[c].blind,
                               kept |-> RowsOfSource # {}])
       \/ Faulty /\ UNCHANGED <<success, successes>>
    /\ UNCHANGED <<type, cache, runs, now, calls, told, answer>>

(* markSourceError, in a branch or in the catch block *)
MarkError(c) ==
    /\ Is(c, "failing") /\ Goes(c, "finishing")
    /\ (Works \/ Faulty) /\ Rest

(* finishSourceRunOkSafe and finishSourceRunFailSafe: whoever started the  *)
(* run says how it ended; then the caller is answered.                     *)
Finish(c) ==
    /\ Is(c, "finishing")
    /\ LET call   == chain[c]
           status == IF call.ok THEN "ok" ELSE "fail"
           Told(how) == [told EXCEPT ![call.key] = IF @ = None THEN how ELSE @]
       IN  \/ ~call.started /\ Works /\ UNCHANGED <<runs, told>>
           \/ call.started /\ Works /\ told' = Told(status)
                /\ runs' = [runs EXCEPT ![call.key] = status]
           \/ call.started /\ Faulty /\ told' = Told("lost") /\ UNCHANGED runs
    /\ chain' = [chain EXCEPT ![c] = Idle]
    /\ UNCHANGED <<type, success, cache, now, calls, successes, answer>>

-----------------------------------------------------------------------------
(* resolveSourceContext, once a message needs a source                     *)

Ttl(e) == IF e \in Coins THEN PriceTtl ELSE ChartTtl

(* Mutant: the ids are no part of the key. *)
CacheKeyOfSource(e) == CHOOSE f \in Entries : (f \in Coins) = (e \in Coins)
(* buildSourceCacheKey *)
CacheKey(e) == e

(* Mutant: a row is good for one second more. *)
FreshToo(row, e) == row.there /\ now - row.at <= Ttl(e)
(* getSourceCacheEntry: hit and not stale. *)
FreshRow(row, e) == row.there /\ now - row.at < Ttl(e)

Reply(c, e, of, sampled) ==
    /\ chain' = [chain EXCEPT ![c] = Idle]
    /\ answer' = [ask |-> e, of |-> of, sampled |-> sampled, at |-> now]

Seek(c) ==
    /\ Is(c, "idle") /\ calls < MaxCalls
    /\ calls' = calls + 1
    /\ \E e \in Entries :
         LET row == cache[CacheKey(e)]
         IN  \/ FreshRow(row, e) /\ Works /\ Reply(c, e, row.of, row.sampled)
             \/ /\ (~FreshRow(row, e) /\ Works) \/ Faulty
                /\ chain' = [chain EXCEPT ![c] = [Idle EXCEPT !.pc = "fetching", !.ask = e,
                                                              !.since = now]]
                /\ UNCHANGED answer
    /\ UNCHANGED <<type, success, cache, runs, now, successes, told>>

(* fetchCoinGeckoSimplePrice or fetchCoinGeckoMarketChart; a failure is    *)
(* answered and not kept.                                                  *)
Fetch(c) ==
    /\ Is(c, "fetching")
    /\ \/ chain' = [chain EXCEPT ![c].pc = "keeping", ![c].sampled = now]
       \/ chain' = [chain EXCEPT ![c] = Idle]
    /\ Works /\ Rest

(* upsertSourceCacheEntry writes payload and cached_json; the answer is    *)
(* what was fetched, kept or not.                                          *)
Keep(c) ==
    /\ Is(c, "keeping")
    /\ LET call == chain[c]
       IN  /\ Reply(c, call.ask, call.ask, call.sampled)
           /\ \/ /\ LegacyColumn /\ Works
                 /\ cache' = [cache EXCEPT ![CacheKey(call.ask)] =
                        [there |-> TRUE, of |-> call.ask, sampled |-> call.sampled, at |-> now]]
              \/ ~LegacyColumn /\ Works /\ UNCHANGED cache
              \/ Faulty /\ UNCHANGED cache
    /\ UNCHANGED <<type, success, runs, now, calls, successes, told>>

(* The process of a caller exits. *)
Crash(c) ==
    /\ ~Is(c, "idle") /\ Faulty
    /\ chain' = [chain EXCEPT ![c] = Idle]
    /\ told' = [k \in RunKeys |-> IF chain[c].started /\ k = chain[c].key /\ told[k] = None
                                  THEN "lost" ELSE told[k]]
    /\ UNCHANGED <<type, success, cache, runs, now, calls, successes, answer>>

Tick == /\ now < MaxTime
        /\ \A c \in Callers : ~Is(c, "idle") => now - chain[c].since < MaxFlight
        /\ now' = now + 1
        /\ UNCHANGED <<type, success, cache, runs, chain, calls, faults, successes, told, answer>>

Next == \/ \E c \in Callers :
             \/ Load(c) \/ Gate(c) \/ ReadCache(c) \/ Request(c) \/ ReadAgain(c) \/ Save(c)
             \/ MarkSuccess(c) \/ MarkError(c) \/ Finish(c)
             \/ Seek(c) \/ Fetch(c) \/ Keep(c) \/ Crash(c)
        \/ Tick

Spec == Init /\ [][Next]_sourcesVars

-----------------------------------------------------------------------------
Rows == [there : BOOLEAN, of : Entries \cup {None}, sampled : 0..MaxTime, at : 0..MaxTime]

SourcesOK ==
    /\ type \in Types /\ success \in 0..now \cup {Never}
    /\ cache \in [{Own} \cup Entries -> Rows]
    /\ runs \in [RunKeys -> {None, "running", "ok", "fail"}]
    /\ \A k \in DOMAIN cache : cache[k].sampled <= cache[k].at /\ cache[k].at <= now

(* A row of source_runs says what the call that started it was told, and   *)
(* is "running" only while that call is under way or when its last query,  *)
(* or its process, failed: the calls of the same minute that find the row  *)
(* there leave it alone, though they ask the source as well.               *)
RunsTold ==
    \A k \in RunKeys :
       /\ told[k] \in {"ok", "fail"} => runs[k] = told[k]
       /\ runs[k] = "running" =>
             told[k] = "lost" \/ \E c \in Callers : chain[c].started /\ chain[c].key = k

(* A call that began when a success had been recorded asks the source no   *)
(* sooner than rate_limit_seconds after it, if anything of the source was  *)
(* in the cache: no failed, late or doubled call in between, and no answer *)
(* from the cache, resets the limit.                                       *)
SpacedOnceCached ==
    \A j \in DOMAIN successes : \A i \in 1..successes[j].base :
       successes[i].kept /\ ~successes[j].blind /\ type # "virtual" =>
          successes[j].asked >= successes[i].at + RateLimit

(* What resolveSourceContext answers is what was asked, and was fetched    *)
(* less than the time to live before, give or take the time a call takes:  *)
(* also when the row was written by another call, or the fetch of a call   *)
(* that began earlier ends later.                                          *)
AnswersFresh ==
    answer.ask # None =>
       /\ answer.of = answer.ask
       /\ answer.at - answer.sampled < Ttl(answer.ask) + MaxFlight

(* sources.js:463 says of testSource that "by default it must not break    *)
(* through the rate limit": so no call asks the source within the limit of *)
(* a success that it saw.                                                  *)
RateLimitKept ==
    \A j \in DOMAIN successes : \A i \in 1..successes[j].base :
       successes[j].asked >= successes[i].at + RateLimit
=============================================================================
