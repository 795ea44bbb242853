------------------------------ MODULE MCUsers ------------------------------
(* Identity and AccessRequests for TLC, two parts of src/users that share  *)
(* no table: a behaviour uses one of them.                                 *)
EXTENDS Identity, TLC

CONSTANTS Requesters, Actions, Askers, Deciders, NoRequest, MaxRequests

VARIABLES requests, askers, deciders, told, used

Requests == INSTANCE AccessRequests

queue == <<requests, askers, deciders, told>>

UsersInit ==
    /\ Init /\ Requests!Init
    /\ \/ used = "identity"
       \/ used = "requests" /\ v2 /\ \A u \in Users : profile[u].id = NoId

UsersNext ==
    /\ \/ used = "identity" /\ Next /\ UNCHANGED queue
       \/ used = "requests" /\ Requests!Next /\ UNCHANGED vars
    /\ UNCHANGED used

UsersSpec == UsersInit /\ [][UsersNext]_<<vars, queue, used>>

(* AccessRequests!OneVerdict: the requester hears one verdict at most, and *)
(* it is the one in the table (approveAccessRequest, denyAccessRequest).   *)
OneVerdict == Requests!OneVerdict

(* AccessRequests!PendingBounded: pending requests for one action are no   *)
(* more than the refusals handled together (findPendingRequest).           *)
PendingBounded == Requests!PendingBounded

Symmetric == Permutations(Chains)
=============================================================================
