---------------------------- MODULE DedupeMemory ----------------------------
(***************************************************************************)
(* The memory of seen keys of src/core/handleMessage/dedupeMemory.js: per  *)
(* process a Map from dedupeKey to the time it was last let in, of at most *)
(* DEDUPE_MAX keys.  MessageIntake uses its operators; here it runs alone, *)
(* beside the history of what it let in.                                   *)
(***************************************************************************)
EXTENDS Naturals, SequencesExt

CONSTANTS
    Procs,                  \* processes, each with a __dedupeSeen of its own
    Keys,                   \* dedupeKeys
    DedupeTtl, DedupeMax,   \* DEDUPE_TTL_MS, DEDUPE_MAX
    MaxTime, MaxAdmissions  \* bounds of the clock and of the history

VARIABLES
    seen,      \* __dedupeSeen of each process, in insertion order
    now,       \* Date.now()
    admitted   \* history: the keys let in since the start of the process

memoryVars == <<seen, now, admitted>>

Nothing == [p \in Procs |-> << >>]

Init == seen = Nothing /\ admitted = Nothing /\ now = 0

KeysOf(entries) == {entries[i].key : i \in DOMAIN entries}

(* dedupeSeenHasFresh *)
HasFresh(entries, k, t) ==
    \E i \in DOMAIN entries : entries[i].key = k /\ t <= entries[i].ts + DedupeTtl

(* Map.set: a key that is there keeps its place. *)
SetKey(entries, k, t) ==
    IF k \in KeysOf(entries)
    THEN [i \in DOMAIN entries |->
             IF entries[i].key = k THEN [key |-> k, ts |-> t] ELSE entries[i]]
    ELSE Append(entries, [key |-> k, ts |-> t])

Expired(entries, t) == {i \in DOMAIN entries : entries[i].ts + DedupeTtl < t}

(* Mutant: the first to be inserted is dropped, fresh or not. *)
EvictOldest(entries, t) == Tail(entries)
(* Mutant: what is fresh is never dropped. *)
EvictExpired(entries, t) == SelectSeq(entries, LAMBDA entry : entry.ts + DedupeTtl >= t)
(* A memory one too long loses the first expired entry, or its oldest key. *)
Evict(entries, t) ==
    LET i == IF Expired(entries, t) = {} THEN 1 ELSE Min(Expired(entries, t))
    IN  RemoveAt(entries, i)

(* dedupeRemember *)
Remember(entries, k, t) ==
    LET longer == SetKey(entries, k, t)
    IN  IF Len(longer) <= DedupeMax THEN longer ELSE Evict(longer, t)

(* The guard of handleMessage: a key that is fresh is dropped, and nothing *)
(* changes; any other is let in and remembered.                            *)
Fresh(p, k) == HasFresh(seen[p], k, now)
LetIn(p, k) == seen' = [seen EXCEPT ![p] = Remember(@, k, now)]

Receive(p, k) ==
    /\ ~Fresh(p, k) /\ Len(admitted[p]) < MaxAdmissions
    /\ LetIn(p, k)
    /\ admitted' = [admitted EXCEPT ![p] = Append(@, [key |-> k, ts |-> now])]
    /\ UNCHANGED now

(* The Map lives and dies with its process. *)
Forget(p) == seen' = [seen EXCEPT ![p] = << >>]

Restart(p) ==
    /\ Forget(p)
    /\ admitted' = [admitted EXCEPT ![p] = << >>]
    /\ UNCHANGED now

Tick == now < MaxTime /\ now' = now + 1 /\ UNCHANGED <<seen, admitted>>

Next == \/ \E p \in Procs, k \in Keys : Receive(p, k)
        \/ \E p \in Procs : Restart(p)
        \/ Tick

Spec == Init /\ [][Next]_memoryVars

-----------------------------------------------------------------------------
(* The state: past instants, each key once, never more keys than the       *)
(* memory holds.                                                           *)
SeenOK ==
    /\ seen \in [Procs -> Seq([key : Keys, ts : 0..now])]
    /\ \A p \in Procs : /\ Len(seen[p]) <= DedupeMax
                        /\ IsInjective([i \in DOMAIN seen[p] |-> seen[p][i].key])

(* Within one life of a process and DEDUPE_TTL_MS a key is let in twice    *)
(* only if DEDUPE_MAX other keys were fresh in between: a fresh key is     *)
(* never evicted while an expired one, or room, is there (dedupeRemember). *)
AdmittedOnce ==
    \A p \in Procs : \A j \in DOMAIN admitted[p] : \A i \in 1 .. j - 1 :
       LET first == admitted[p][i]  again == admitted[p][j]
           others == {f \in 1 .. j - 1 : /\ admitted[p][f].key # first.key
                                         /\ admitted[p][f].ts + DedupeTtl >= first.ts}
       IN  first.key = again.key /\ again.ts <= first.ts + DedupeTtl
              => Cardinality({admitted[p][f].key : f \in others}) >= DedupeMax
=============================================================================
