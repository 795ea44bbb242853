--------------------------- MODULE AccessRequests ---------------------------
(***************************************************************************)
(* The queue of access requests (src/users/accessRequests.js): a command   *)
(* that permGuard refuses files a request and tells the monarch, who       *)
(* approves or denies it and has the requester told.  Filing looks for a   *)
(* pending request and inserts one in two statements; a decision is one    *)
(* conditional UPDATE, from any process.  A decision grants nothing.       *)
(***************************************************************************)
EXTENDS Naturals, FiniteSets, Sequences

CONSTANTS
    Requesters, Actions,   \* who is refused what
    Askers, Deciders,      \* chains that file requests, and that decide them
    NoRequest,             \* no row
    MaxRequests            \* bound on rows

Numbers  == 1..MaxRequests
Verdicts == {"approved", "denied"}

VARIABLES
    requests,   \* access_requests, by id
    askers, deciders,
    told        \* history: the verdicts each request's requester was told

requestVars == <<requests, askers, deciders, told>>

IdleAsker   == [at |-> "idle", who |-> NoRequest, action |-> NoRequest, number |-> 0]
IdleDecider == [at |-> "idle", number |-> 0, verdict |-> "approved"]

Init ==
    /\ requests = [r \in Numbers |-> NoRequest]
    /\ askers = [a \in Askers |-> IdleAsker]
    /\ deciders = [d \in Deciders |-> IdleDecider]
    /\ told = [r \in Numbers |-> << >>]

-----------------------------------------------------------------------------
(* createAccessRequestAndNotify, as permGuard calls it *)

Refuse(a, who, action) ==
    /\ askers[a].at = "idle"
    /\ askers' = [askers EXCEPT ![a] = [IdleAsker EXCEPT !.at = "find", !.who = who,
                                                         !.action = action]]
    /\ UNCHANGED <<requests, deciders, told>>

Pending(who, action) ==
    {r \in Numbers : requests[r] = [who |-> who, action |-> action, status |-> "pending"]}

(* Mutant: what was asked before is not looked for. *)
FindPendingNever(a) == {}

(* findPendingRequest: the newest. *)
FindPending(a) == Pending(askers[a].who, askers[a].action)

Find(a) ==
    /\ askers[a].at = "find"
    /\ \/ /\ FindPending(a) = {}
          /\ askers' = [askers EXCEPT ![a].at = "insert"]
       \/ \E r \in FindPending(a) :
            /\ \A q \in FindPending(a) : q <= r
            /\ askers' = [askers EXCEPT ![a].at = "announce", ![a].number = r]
    /\ UNCHANGED <<requests, deciders, told>>

Insert(a) ==
    /\ askers[a].at = "insert"
    /\ \E r \in Numbers :
         /\ \A q \in Numbers : requests[q] = NoRequest <=> q >= r
         /\ requests' = [requests EXCEPT ![r] = [who |-> askers[a].who, status |-> "pending",
                                                 action |-> askers[a].action]]
         /\ askers' = [askers EXCEPT ![a].at = "announce", ![a].number = r]
    /\ UNCHANGED <<deciders, told>>

(* The monarch is told, or not: the failure of a message is swallowed.     *)
(* The refused command gets a reply in any case, and so it does when a     *)
(* query fails.                                                            *)
Reply(a) ==
    /\ askers[a].at # "idle"
    /\ askers' = [askers EXCEPT ![a] = IdleAsker]
    /\ UNCHANGED <<requests, deciders, told>>

-----------------------------------------------------------------------------
(* approveAndNotify and denyAndNotify *)

Decide(d, r, verdict) ==
    /\ deciders[d].at = "idle"
    /\ deciders' = [deciders EXCEPT ![d] = [at |-> "update", number |-> r, verdict |-> verdict]]
    /\ UNCHANGED <<requests, askers, told>>

IsRequest(r) == requests[r] # NoRequest

(* Mutant: UPDATE ... WHERE id = $1. *)
DecidableAlways(r) == IsRequest(r)

(* UPDATE ... WHERE id = $1 AND status = 'pending'. *)
Decidable(r) == IsRequest(r) /\ requests[r].status = "pending"

(* The answer otherwise is not_found or not_pending.                       *)
Update(d) ==
    LET r == deciders[d].number IN
    /\ deciders[d].at = "update"
    /\ IF Decidable(r)
       THEN /\ requests' = [requests EXCEPT ![r].status = deciders[d].verdict]
            /\ deciders' = [deciders EXCEPT ![d].at = "tell"]
       ELSE UNCHANGED requests /\ deciders' = [deciders EXCEPT ![d] = IdleDecider]
    /\ UNCHANGED <<askers, told>>

(* The requester is told, unless the message fails, which is swallowed; or *)
(* the UPDATE itself fails.                                                *)
Tell(d) ==
    LET r == deciders[d].number IN
    /\ deciders[d].at = "tell"
    /\ told' = [told EXCEPT ![r] = Append(@, deciders[d].verdict)]
    /\ deciders' = [deciders EXCEPT ![d] = IdleDecider]
    /\ UNCHANGED <<requests, askers>>

GiveUp(d) ==
    /\ deciders[d].at # "idle"
    /\ deciders' = [deciders EXCEPT ![d] = IdleDecider]
    /\ UNCHANGED <<requests, askers, told>>

Next ==
    \/ \E a \in Askers :
         \/ \E who \in Requesters, action \in Actions : Refuse(a, who, action)
         \/ Find(a) \/ Insert(a) \/ Reply(a)
    \/ \E d \in Deciders :
         \/ \E r \in Numbers, verdict \in Verdicts : Decide(d, r, verdict)
         \/ Update(d) \/ Tell(d) \/ GiveUp(d)

Spec == Init /\ [][Next]_requestVars

-----------------------------------------------------------------------------
(* Properties *)

(* However many commands decide a request, its requester hears one verdict *)
(* at most, and that is the one in the table ("обновляем только pending    *)
(* (чтобы не перезатирать решение)").                                      *)
OneVerdict ==
    \A r \in Numbers : told[r] # << >> => told[r] = <<requests[r].status>>

(* A requester has no more pending requests for one action than refusals   *)
(* that were handled at the same time: only those can miss each other's    *)
(* row (findPendingRequest, "Анти-дубль").                                 *)
PendingBounded ==
    \A who \in Requesters, action \in Actions :
       Cardinality(Pending(who, action)) <= Cardinality(Askers)
=============================================================================
