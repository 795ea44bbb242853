---------------------------- MODULE RateLimiter ----------------------------
(***************************************************************************)
(* The in-memory rate limiter of src/bot/rateLimiter.js: per process and   *)
(* caller, the times of the calls it let through, filtered at each call.   *)
(* MessageIntake uses its actions; here it runs alone, beside the history  *)
(* an exact sliding window would keep.                                     *)
(***************************************************************************)
EXTENDS Integers, Sequences, FiniteSets

CONSTANTS
    Procs,       \* processes, each with a __rlState of its own
    Callers,     \* the keys: sender and chat of a command
    WindowMs,    \* windowMs
    MaxCalls,    \* max
    MaxTime      \* bound of the clock

VARIABLES
    rate,    \* __rlState of each process: per key the array of times
    now,     \* Date.now()
    granted  \* history: the times of all calls let through since the start
             \* of the process, by process and caller

limiterVars == <<rate, now, granted>>

NoCalls == [k \in Callers |-> << >>]

Init == /\ rate = [p \in Procs |-> NoCalls]
        /\ now = 0
        /\ granted = [p \in Procs |-> NoCalls]

(* Mutant: a call exactly windowMs old still counts. *)
FreshClosed(times, at) == SelectSeq(times, LAMBDA i : at - i <= WindowMs)
(* arr.filter, as a function of the length looked at: proofs by induction  *)
(* over an array need it.                                                  *)
Fresh(times, at) ==
    LET kept[n \in 0..Len(times)] ==
          IF n = 0 THEN << >>
          ELSE IF at - times[n] < WindowMs THEN Append(kept[n - 1], times[n])
               ELSE kept[n - 1]
    IN  kept[Len(times)]

Allowed(p, k) == Len(Fresh(rate[p][k], now)) < MaxCalls

(* Mutant: one window from now, whenever the calls were. *)
RetryAfterWindow(times, at) == WindowMs
(* When an exhausted caller is told to come back: when its oldest call     *)
(* leaves the window.                                                      *)
RetryAfter(times, at) == WindowMs - (at - Head(Fresh(times, at)))

(* Mutant: a refused call is written down as well. *)
CountRefused(p, k) == rate' = [rate EXCEPT ![p][k] = Append(Fresh(@, now), now)]
(* checkRateLimit on __rlState; the caller goes on by Allowed. *)
Count(p, k) ==
    rate' = [rate EXCEPT ![p][k] = IF Allowed(p, k) THEN Append(Fresh(@, now), now)
                                                    ELSE Fresh(@, now)]

CheckRateLimit(p, k) ==
    /\ Count(p, k)
    /\ granted' = [granted EXCEPT ![p][k] = IF Allowed(p, k) THEN Append(@, now) ELSE @]
    /\ UNCHANGED now

(* The Map lives and dies with its process. *)
Forget(p) == rate' = [rate EXCEPT ![p] = NoCalls]

Restart(p) ==
    /\ Forget(p)
    /\ granted' = [granted EXCEPT ![p] = NoCalls]
    /\ UNCHANGED now

Tick == now < MaxTime /\ now' = now + 1 /\ UNCHANGED <<rate, granted>>

Next == \/ \E p \in Procs, k \in Callers : CheckRateLimit(p, k)
        \/ \E p \in Procs : Restart(p)
        \/ Tick

Spec == Init /\ [][Next]_limiterVars

-----------------------------------------------------------------------------
(* The state: arrays of past instants, in order, never longer than max. *)
InOrder(times) == \A i, j \in DOMAIN times : i < j => times[i] <= times[j]

TypeOK ==
    /\ now \in 0..MaxTime
    /\ \A p \in Procs, k \in Callers :
          /\ {rate[p][k], granted[p][k]} \subseteq Seq(0..now)
          /\ InOrder(rate[p][k]) /\ Len(rate[p][k]) <= MaxCalls
          /\ InOrder(granted[p][k])

(* The calls let through in the window of length WindowMs that ends at t. *)
GrantedBefore(p, k, t) ==
    LET times == granted[p][k]
    IN  Cardinality({i \in DOMAIN times : times[i] <= t /\ t - times[i] < WindowMs})

(* What it keeps of the past is as much as it needs, and it never lets     *)
(* more than max calls through in any window, nor refuses one that would   *)
(* be within max.                                                          *)
ExactWindow ==
    \A p \in Procs, k \in Callers :
       /\ Len(Fresh(rate[p][k], now)) = GrantedBefore(p, k, now)
       /\ GrantedBefore(p, k, now) <= MaxCalls

(* The retryAfterMs of a refusal is right to the millisecond: whoever      *)
(* waits that long, and lets nobody else of the same key go first, is let  *)
(* through; whoever waits one less is refused again.                       *)
RetryAfterExact ==
    \A p \in Procs, k \in Callers :
       ~Allowed(p, k) =>
          LET then == now + RetryAfter(rate[p][k], now) IN
             /\ then \in now + 1 .. now + WindowMs
             /\ GrantedBefore(p, k, then) < MaxCalls
             /\ GrantedBefore(p, k, then - 1) = MaxCalls

(* checkRateLimit is an exact sliding window, in what it decides and in    *)
(* what it tells.                                                          *)
LimiterExact == ExactWindow /\ RetryAfterExact
=============================================================================
