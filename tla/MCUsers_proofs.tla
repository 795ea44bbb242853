--------------------------- MODULE MCUsers_proofs ---------------------------
(***************************************************************************)
(* Proofs about the users' two parts.  First the queue of access requests, *)
(* for any requesters, actions and deciders and any number of rows, in the *)
(* composition that the run checks: NoRequest is assumed to be no row, and *)
(* the chains that file requests, of which the bound counts, to be finite. *)
(* Then identities, for any users, ids, codes and roles and any number of  *)
(* messages handled at the same time.                                      *)
(***************************************************************************)
EXTENDS MCUsers, Sequences, FiniteSetTheorems, TLAPS

-----------------------------------------------------------------------------
(* The queue of access requests                                            *)

Rows == [who : Requesters, action : Actions, status : {"pending"} \cup Requests!Verdicts]

AskerStates == [at : {"idle", "find", "insert", "announce"},
                who : Requesters \cup {NoRequest}, action : Actions \cup {NoRequest},
                number : Requests!Numbers \cup {0}]

TypesOK ==
    /\ requests \in [Requests!Numbers -> Rows \cup {NoRequest}]
    /\ askers \in [Askers -> AskerStates]
    /\ \A a \in Askers : askers[a].at # "idle" =>
          askers[a].who \in Requesters /\ askers[a].action \in Actions
    /\ deciders \in [Deciders -> [at : {"idle", "update", "tell"},
                                  number : Requests!Numbers \cup {0}, verdict : Requests!Verdicts]]
    /\ \A d \in Deciders : deciders[d].at # "idle" => deciders[d].number \in Requests!Numbers
    /\ told \in [Requests!Numbers -> Seq(Requests!Verdicts)]

(* Who is about to tell a verdict is alone with it, and finds it in the    *)
(* table; what was told is in the table.                                   *)
Telling(d) == deciders[d].at = "tell"

VerdictInv ==
    /\ \A r \in Requests!Numbers : told[r] # << >> =>
          /\ requests[r] # NoRequest /\ requests[r].status \in Requests!Verdicts
          /\ told[r] = <<requests[r].status>>
    /\ \A d \in Deciders : Telling(d) =>
          /\ requests[deciders[d].number] # NoRequest
          /\ requests[deciders[d].number].status = deciders[d].verdict
          /\ told[deciders[d].number] = << >>
    /\ \A d, e \in Deciders :
          Telling(d) /\ Telling(e) /\ deciders[d].number = deciders[e].number => d = e

-----------------------------------------------------------------------------
(* The types hold at first and are kept by every step. *)
LEMMA TypeInit == Requests!Init => TypesOK
BY DEF Requests!Init, TypesOK, AskerStates, Requests!IdleAsker, Requests!IdleDecider,
       Requests!Verdicts

LEMMA TypeStep == TypesOK /\ [Requests!Next]_(Requests!requestVars) => TypesOK'
<1> SUFFICES ASSUME TypesOK, [Requests!Next]_(Requests!requestVars) PROVE TypesOK'
  OBVIOUS
<1>1. ASSUME NEW a \in Askers, NEW who \in Requesters, NEW action \in Actions,
             Requests!Refuse(a, who, action)
      PROVE  TypesOK'
  BY <1>1 DEF TypesOK, AskerStates, Requests!Refuse, Requests!IdleAsker
<1>2. ASSUME NEW a \in Askers, Requests!Find(a) PROVE TypesOK'
  <2>1. UNCHANGED <<requests, deciders, told>> /\ askers[a].at = "find"
    BY <1>2 DEF Requests!Find
  <2>2. askers[a].who \in Requesters /\ askers[a].action \in Actions
    BY <2>1 DEF TypesOK
  <2>3. CASE askers' = [askers EXCEPT ![a].at = "insert"]
    BY <2>1, <2>2, <2>3 DEF TypesOK, AskerStates
  <2>4. ASSUME NEW r \in Requests!Numbers,
               askers' = [askers EXCEPT ![a].at = "announce", ![a].number = r]
        PROVE  TypesOK'
    BY <2>1, <2>2, <2>4 DEF TypesOK, AskerStates
  <2> QED BY <1>2, <2>3, <2>4 DEF Requests!Find, Requests!FindPending, Requests!Pending
<1>3. ASSUME NEW a \in Askers, Requests!Insert(a) PROVE TypesOK'
  <2>1. PICK r \in Requests!Numbers :
           /\ requests' = [requests EXCEPT ![r] = [who |-> askers[a].who, status |-> "pending",
                                                   action |-> askers[a].action]]
           /\ askers' = [askers EXCEPT ![a].at = "announce", ![a].number = r]
    BY <1>3 DEF Requests!Insert
  <2>2. [who |-> askers[a].who, status |-> "pending", action |-> askers[a].action] \in Rows
    BY <1>3 DEF TypesOK, Requests!Insert, Rows
  <2>3. requests' \in [Requests!Numbers -> Rows \cup {NoRequest}]
    BY <2>1, <2>2 DEF TypesOK
  <2>4. /\ askers[a].who \in Requesters /\ askers[a].action \in Actions
        /\ UNCHANGED <<deciders, told>>
    BY <1>3 DEF TypesOK, Requests!Insert
  <2>5. askers' \in [Askers -> AskerStates]
    <3> DEFINE ch == [askers[a] EXCEPT !.at = "announce", !.number = r]
    <3>1. askers' = [askers EXCEPT ![a] = ch]
      BY <2>1
    <3>2. askers[a] \in AskerStates
      BY DEF TypesOK
    <3>3. ch \in AskerStates
      BY <3>2 DEF AskerStates
    <3> QED BY <3>1, <3>3 DEF TypesOK
  <2>6. \A b \in Askers : askers'[b].at # "idle" =>
           askers'[b].who \in Requesters /\ askers'[b].action \in Actions
    BY <2>1, <2>4 DEF TypesOK
  <2>7. /\ deciders' \in [Deciders -> [at : {"idle", "update", "tell"},
                                       number : Requests!Numbers \cup {0},
                                       verdict : Requests!Verdicts]]
        /\ \A d \in Deciders : deciders'[d].at # "idle" => deciders'[d].number \in Requests!Numbers
        /\ told' \in [Requests!Numbers -> Seq(Requests!Verdicts)]
    BY <2>4 DEF TypesOK
  <2> QED BY <2>3, <2>5, <2>6, <2>7 DEF TypesOK
<1>4. ASSUME NEW a \in Askers, Requests!Reply(a) PROVE TypesOK'
  BY <1>4 DEF TypesOK, AskerStates, Requests!Reply, Requests!IdleAsker
<1>5. ASSUME NEW d \in Deciders, NEW r \in Requests!Numbers, NEW verdict \in Requests!Verdicts,
             Requests!Decide(d, r, verdict)
      PROVE  TypesOK'
  BY <1>5 DEF TypesOK, Requests!Decide
<1>6. ASSUME NEW d \in Deciders, Requests!Update(d) PROVE TypesOK'
  <2> DEFINE r == deciders[d].number
  <2>1. r \in Requests!Numbers /\ deciders[d].verdict \in Requests!Verdicts
    BY <1>6 DEF TypesOK, Requests!Update
  <2>2. CASE Requests!Decidable(r)
    <3>1. requests[r] \in Rows
      BY <2>1, <2>2 DEF TypesOK, Requests!Decidable, Requests!IsRequest
    <3>2. [requests[r] EXCEPT !.status = deciders[d].verdict] \in Rows
      BY <2>1, <3>1 DEF Rows
    <3>3. requests' = [requests EXCEPT ![r] =
                         [requests[r] EXCEPT !.status = deciders[d].verdict]]
      BY <1>6, <2>2 DEF Requests!Update
    <3>4. requests' \in [Requests!Numbers -> Rows \cup {NoRequest}]
      BY <2>1, <3>2, <3>3 DEF TypesOK
    <3>5. deciders' = [deciders EXCEPT ![d].at = "tell"] /\ UNCHANGED <<askers, told>>
      BY <1>6, <2>2 DEF Requests!Update
    <3> QED BY <2>1, <3>4, <3>5 DEF TypesOK
  <2>3. CASE ~Requests!Decidable(r)
    <3>1. /\ deciders' = [deciders EXCEPT ![d] = Requests!IdleDecider]
          /\ UNCHANGED <<requests, askers, told>>
      BY <1>6, <2>3 DEF Requests!Update
    <3> QED BY <3>1 DEF TypesOK, Requests!IdleDecider, Requests!Verdicts
  <2> QED BY <2>2, <2>3
<1>7. ASSUME NEW d \in Deciders, Requests!Tell(d) PROVE TypesOK'
  <2>1. deciders[d].number \in Requests!Numbers /\ deciders[d].verdict \in Requests!Verdicts
    BY <1>7 DEF TypesOK, Requests!Tell
  <2>2. Append(told[deciders[d].number], deciders[d].verdict) \in Seq(Requests!Verdicts)
    BY <2>1 DEF TypesOK
  <2>3. told' \in [Requests!Numbers -> Seq(Requests!Verdicts)]
    BY <1>7, <2>1, <2>2 DEF TypesOK, Requests!Tell
  <2> QED BY <1>7, <2>3 DEF TypesOK, Requests!Tell, Requests!IdleDecider, Requests!Verdicts
<1>8. ASSUME NEW d \in Deciders, Requests!GiveUp(d) PROVE TypesOK'
  BY <1>8 DEF TypesOK, Requests!GiveUp, Requests!IdleDecider, Requests!Verdicts
<1>9. CASE UNCHANGED Requests!requestVars
  BY <1>9 DEF TypesOK, Requests!requestVars
<1> QED
  BY <1>1, <1>2, <1>3, <1>4, <1>5, <1>6, <1>7, <1>8, <1>9 DEF Requests!Next

(* A step of the composition is one of the queue or leaves the queue alone. *)
LEMMA UsesRequests == UsersSpec => Requests!Spec
<1>1. UsersInit => Requests!Init
  BY DEF UsersInit
<1>2. [UsersNext]_<<vars, queue, used>> => [Requests!Next]_(Requests!requestVars)
  BY DEF UsersNext, queue, Requests!requestVars
<1> QED BY <1>1, <1>2, PTL DEF UsersSpec, Requests!Spec

(* A behaviour of the composition is one of the identities, too: what is   *)
(* proved of them below holds of it.                                       *)
THEOREM UsesIdentity == UsersSpec => Spec
<1>1. UsersInit => Init
  BY DEF UsersInit
<1>2. [UsersNext]_<<vars, queue, used>> => [Next]_vars
  BY DEF UsersNext
<1> QED BY <1>1, <1>2, PTL DEF UsersSpec, Spec

LEMMA TypeInvariant == Requests!Spec => []TypesOK
BY TypeInit, TypeStep, PTL DEF Requests!Spec

-----------------------------------------------------------------------------
(* One verdict *)

LEMMA VerdictInit == Requests!Init => VerdictInv
<1> SUFFICES ASSUME Requests!Init PROVE VerdictInv
  OBVIOUS
<1>1. \A r \in Requests!Numbers : told[r] = << >>
  BY DEF Requests!Init
<1>2. \A d \in Deciders : ~Telling(d)
  BY DEF Requests!Init, Telling, Requests!IdleDecider
<1> QED BY <1>1, <1>2 DEF VerdictInv

(* A step that leaves the table and what was told alone, and brings nobody *)
(* to "tell", keeps the invariant.                                         *)
LEMMA VerdictFrame ==
  ASSUME VerdictInv, UNCHANGED <<requests, told>>,
         \A d \in Deciders : Telling(d)' => Telling(d) /\ deciders'[d] = deciders[d]
  PROVE  VerdictInv'
BY DEF VerdictInv, Telling

LEMMA VerdictStep ==
  ASSUME TypesOK, TypesOK', VerdictInv, [Requests!Next]_(Requests!requestVars),
         NoRequest \notin Rows
  PROVE  VerdictInv'
<1>1. ASSUME NEW a \in Askers, Requests!Insert(a) PROVE VerdictInv'
  <2>1. PICK r \in Requests!Numbers :
           /\ \A q \in Requests!Numbers : requests[q] = NoRequest <=> q >= r
           /\ requests' = [requests EXCEPT ![r] = [who |-> askers[a].who, status |-> "pending",
                                                   action |-> askers[a].action]]
    BY <1>1 DEF Requests!Insert
  <2> requests[r] = NoRequest
    BY <2>1 DEF Requests!Numbers
  <2>2. told[r] = << >> /\ \A d \in Deciders : Telling(d) => deciders[d].number # r
    BY <2>1 DEF VerdictInv
  <2>3. \A q \in Requests!Numbers : q # r => requests'[q] = requests[q]
    BY <2>1 DEF TypesOK
  <2>4. UNCHANGED <<deciders, told>>
    BY <1>1 DEF Requests!Insert
  <2>5. \A d \in Deciders : Telling(d) => deciders[d].number \in Requests!Numbers
    BY DEF TypesOK, Telling
  <2> QED BY <2>2, <2>3, <2>4, <2>5 DEF VerdictInv, Telling
<1>2. ASSUME NEW d \in Deciders, Requests!Update(d) PROVE VerdictInv'
  <2> DEFINE r == deciders[d].number
  <2>1. r \in Requests!Numbers /\ deciders[d].verdict \in Requests!Verdicts /\ UNCHANGED told
    BY <1>2 DEF TypesOK, Requests!Update
  <2>2. CASE Requests!Decidable(r)
    <3>1. requests[r] \in Rows /\ requests[r].status = "pending"
      BY <2>1, <2>2 DEF TypesOK, Requests!Decidable, Requests!IsRequest
    <3>2. requests' = [requests EXCEPT ![r].status = deciders[d].verdict]
          /\ deciders' = [deciders EXCEPT ![d].at = "tell"]
      BY <1>2, <2>2 DEF Requests!Update
    <3>3. requests'[r] = [requests[r] EXCEPT !.status = deciders[d].verdict]
          /\ \A q \in Requests!Numbers : q # r => requests'[q] = requests[q]
      BY <2>1, <3>2 DEF TypesOK
    <3>4. requests'[r] \in Rows /\ requests'[r].status = deciders[d].verdict
      BY <2>1, <3>1, <3>3 DEF Rows
    <3>5. told[r] = << >>
      BY <2>1, <3>1 DEF VerdictInv, Requests!Verdicts
    <3>6. ASSUME NEW e \in Deciders, Telling(e) PROVE deciders[e].number # r
      <4>1. deciders[e].verdict \in Requests!Verdicts
        BY DEF TypesOK
      <4> QED BY <3>1, <3>6, <4>1 DEF VerdictInv, Requests!Verdicts
    <3>7. /\ deciders'[d].number = r /\ deciders'[d].verdict = deciders[d].verdict
          /\ \A e \in Deciders : e # d => deciders'[e] = deciders[e]
      BY <3>2 DEF TypesOK
    <3>8. \A e \in Deciders : Telling(e) => deciders[e].number \in Requests!Numbers
      BY DEF TypesOK, Telling
    <3>9. ASSUME NEW q \in Requests!Numbers
          PROVE  told'[q] # << >> =>
                   /\ requests'[q] # NoRequest /\ requests'[q].status \in Requests!Verdicts
                   /\ told'[q] = <<requests'[q].status>>
      BY <2>1, <3>3, <3>5 DEF VerdictInv
    <3>10. ASSUME NEW e \in Deciders, Telling(e)'
           PROVE  /\ requests'[deciders'[e].number] # NoRequest
                  /\ requests'[deciders'[e].number].status = deciders'[e].verdict
                  /\ told'[deciders'[e].number] = << >>
      <4>1. CASE e = d
        BY <4>1, <2>1, <3>4, <3>5, <3>7
      <4>2. CASE e # d
        <5>1. Telling(e) /\ deciders'[e] = deciders[e]
          BY <4>2, <3>7, <3>10 DEF Telling
        <5> QED BY <5>1, <2>1, <3>3, <3>6, <3>8 DEF VerdictInv
      <4> QED BY <4>1, <4>2
    <3>11. ASSUME NEW e \in Deciders, NEW f \in Deciders, Telling(e)', Telling(f)',
                  deciders'[e].number = deciders'[f].number
           PROVE  e = f
      BY <3>11, <3>6, <3>7 DEF VerdictInv, Telling
    <3> QED BY <3>9, <3>10, <3>11 DEF VerdictInv, Telling
  <2>3. CASE ~Requests!Decidable(r)
    <3>1. UNCHANGED <<requests, told>> /\ deciders' = [deciders EXCEPT ![d] = Requests!IdleDecider]
      BY <1>2, <2>3 DEF Requests!Update
    <3> QED BY <3>1, VerdictFrame DEF TypesOK, Telling, Requests!IdleDecider
  <2> QED BY <2>2, <2>3
<1>3. ASSUME NEW d \in Deciders, Requests!Tell(d) PROVE VerdictInv'
  <2> DEFINE r == deciders[d].number
             v == deciders[d].verdict
  <2>1. /\ r \in Requests!Numbers /\ v \in Requests!Verdicts /\ Telling(d)
        /\ requests[r] # NoRequest /\ requests[r].status = v /\ told[r] = << >>
    BY <1>3 DEF TypesOK, VerdictInv, Requests!Tell, Telling
  <2>2. told'[r] = <<v>> /\ \A q \in Requests!Numbers : q # r => told'[q] = told[q]
    BY <1>3, <2>1 DEF TypesOK, Requests!Tell
  <2>3. UNCHANGED requests
        /\ \A e \in Deciders : Telling(e)' => e # d /\ Telling(e) /\ deciders'[e] = deciders[e]
    BY <1>3 DEF TypesOK, Requests!Tell, Telling, Requests!IdleDecider
  <2>4. \A e \in Deciders : Telling(e) => deciders[e].number \in Requests!Numbers
    BY DEF TypesOK, Telling
  <2> QED BY <2>1, <2>2, <2>3, <2>4 DEF VerdictInv
<1>4. ASSUME NEW d \in Deciders, Requests!GiveUp(d) PROVE VerdictInv'
  <2>1. UNCHANGED <<requests, told>> /\ deciders' = [deciders EXCEPT ![d] = Requests!IdleDecider]
    BY <1>4 DEF Requests!GiveUp
  <2> QED BY <2>1, VerdictFrame DEF TypesOK, Telling, Requests!IdleDecider
<1>5. ASSUME NEW d \in Deciders, NEW r \in Requests!Numbers, NEW verdict \in Requests!Verdicts,
             Requests!Decide(d, r, verdict)
      PROVE  VerdictInv'
  <2>1. /\ UNCHANGED <<requests, told>>
        /\ deciders' = [deciders EXCEPT ![d] =
                          [at |-> "update", number |-> r, verdict |-> verdict]]
    BY <1>5 DEF Requests!Decide
  <2> QED BY <2>1, VerdictFrame DEF TypesOK, Telling
<1>6. CASE UNCHANGED <<requests, deciders, told>>
  BY <1>6, VerdictFrame DEF Telling
<1> QED
  BY <1>1, <1>2, <1>3, <1>4, <1>5, <1>6
  DEF Requests!Next, Requests!Refuse, Requests!Find, Requests!Reply, Requests!requestVars

(* However many chains decide, the requester of a request hears one        *)
(* verdict at most, the one in the table.  The property is not inductive:  *)
(* VerdictInv adds that a chain about to tell one is alone with it.        *)
THEOREM OneVerdictHolds ==
  ASSUME NoRequest \notin Rows
  PROVE  UsersSpec => []OneVerdict
<1>1. Requests!Init => VerdictInv
  BY VerdictInit
<1>2. TypesOK /\ TypesOK' /\ VerdictInv /\ [Requests!Next]_(Requests!requestVars) => VerdictInv'
  BY VerdictStep
<1>3. VerdictInv => OneVerdict
  BY DEF VerdictInv, OneVerdict, Requests!OneVerdict
<1> QED BY <1>1, <1>2, <1>3, TypeInvariant, UsesRequests, PTL DEF Requests!Spec

-----------------------------------------------------------------------------
(* The queue *)

(* The refusals that looked, found nothing, and have not inserted.         *)
Inserting(who, action) ==
    {a \in Askers : /\ askers[a].at = "insert"
                    /\ askers[a].who = who /\ askers[a].action = action}

(* Nobody starts to insert beside a pending request, so those pending and  *)
(* those about to be inserted are together no more than the chains.        *)
QueueInv(who, action) ==
    /\ IsFiniteSet(Requests!Pending(who, action))
    /\ Cardinality(Requests!Pending(who, action)) + Cardinality(Inserting(who, action))
         <= Cardinality(Askers)

LEMMA InsertingFinite ==
  ASSUME IsFiniteSet(Askers), NEW who, NEW action
  PROVE  /\ IsFiniteSet(Inserting(who, action))
         /\ Cardinality(Inserting(who, action)) \in Nat /\ Cardinality(Askers) \in Nat
         /\ Cardinality(Inserting(who, action)) <= Cardinality(Askers)
BY FS_Subset, FS_CardinalityType DEF Inserting

(* Fewer pending, fewer inserting. *)
LEMMA QueueShrinks ==
  ASSUME IsFiniteSet(Askers), NEW who, NEW action, QueueInv(who, action),
         Requests!Pending(who, action)' \subseteq Requests!Pending(who, action),
         Inserting(who, action)' \subseteq Inserting(who, action)
  PROVE  QueueInv(who, action)'
<1>1. /\ IsFiniteSet(Requests!Pending(who, action)')
      /\ Cardinality(Requests!Pending(who, action)') <= Cardinality(Requests!Pending(who, action))
  BY FS_Subset DEF QueueInv
<1>2. /\ IsFiniteSet(Inserting(who, action)')
      /\ Cardinality(Inserting(who, action)') <= Cardinality(Inserting(who, action))
  BY FS_Subset, InsertingFinite
<1>3. /\ Cardinality(Requests!Pending(who, action)) \in Nat
      /\ Cardinality(Requests!Pending(who, action)') \in Nat
      /\ Cardinality(Inserting(who, action)) \in Nat
      /\ Cardinality(Inserting(who, action)') \in Nat
      /\ Cardinality(Askers) \in Nat
  BY <1>1, <1>2, FS_CardinalityType, InsertingFinite DEF QueueInv
<1> QED BY <1>1, <1>2, <1>3 DEF QueueInv

LEMMA QueueInit ==
  ASSUME IsFiniteSet(Askers), NoRequest \notin Rows, Requests!Init,
         NEW who \in Requesters, NEW action \in Actions
  PROVE  QueueInv(who, action)
<1>1. Requests!Pending(who, action) = {}
  <2>1. [who |-> who, action |-> action, status |-> "pending"] \in Rows
    BY DEF Rows
  <2> QED BY <2>1 DEF Requests!Pending, Requests!Init
<1>2. Inserting(who, action) = {}
  BY DEF Inserting, Requests!Init, Requests!IdleAsker
<1> QED BY <1>1, <1>2, FS_EmptySet, FS_CardinalityType DEF QueueInv

LEMMA QueueStep ==
  ASSUME IsFiniteSet(Askers), NoRequest \notin Rows, TypesOK,
         [Requests!Next]_(Requests!requestVars),
         NEW who \in Requesters, NEW action \in Actions, QueueInv(who, action)
  PROVE  QueueInv(who, action)'
<1> DEFINE row == [who |-> who, action |-> action, status |-> "pending"]
<1>1. ASSUME NEW a \in Askers, Requests!Find(a) PROVE QueueInv(who, action)'
  <2>1. UNCHANGED requests /\ askers[a].at = "find"
    BY <1>1 DEF Requests!Find
  <2>2. Requests!Pending(who, action)' = Requests!Pending(who, action)
    BY <2>1 DEF Requests!Pending
  <2>3. CASE Inserting(who, action)' \subseteq Inserting(who, action)
    BY <2>2, <2>3, QueueShrinks
  <2>4. CASE ~(Inserting(who, action)' \subseteq Inserting(who, action))
    <3>1. Requests!FindPending(a) = {} /\ askers[a].who = who /\ askers[a].action = action
      <4>1. ASSUME NEW r, askers' = [askers EXCEPT ![a].at = "announce", ![a].number = r]
            PROVE  FALSE
        BY <2>4, <4>1 DEF Inserting, TypesOK
      <4>2. Requests!FindPending(a) = {} /\ askers' = [askers EXCEPT ![a].at = "insert"]
        BY <1>1, <4>1 DEF Requests!Find
      <4> QED BY <2>4, <4>2 DEF Inserting, TypesOK
    <3>2. Requests!Pending(who, action)' = {}
      BY <2>2, <3>1 DEF Requests!FindPending
    <3>3. Cardinality(Inserting(who, action)') <= Cardinality(Askers)
          /\ Cardinality(Inserting(who, action)') \in Nat /\ Cardinality(Askers) \in Nat
      BY FS_Subset, FS_CardinalityType DEF Inserting
    <3> QED BY <3>2, <3>3, FS_EmptySet DEF QueueInv
  <2> QED BY <2>3, <2>4
<1>2. ASSUME NEW a \in Askers, Requests!Insert(a) PROVE QueueInv(who, action)'
  <2>1. PICK r \in Requests!Numbers :
           /\ \A q \in Requests!Numbers : requests[q] = NoRequest <=> q >= r
           /\ requests' = [requests EXCEPT ![r] = [who |-> askers[a].who, status |-> "pending",
                                                   action |-> askers[a].action]]
           /\ askers' = [askers EXCEPT ![a].at = "announce", ![a].number = r]
    BY <1>2 DEF Requests!Insert
  <2>2. requests[r] = NoRequest /\ askers[a].at = "insert"
    BY <1>2, <2>1 DEF Requests!Numbers, Requests!Insert
  <2>3. row # NoRequest
    BY DEF Rows
  <2>4. \A b \in Askers : b # a => askers'[b] = askers[b]
    BY <2>1 DEF TypesOK
  <2>5. askers'[a].at = "announce"
    BY <2>1 DEF TypesOK
  <2>6. Inserting(who, action)' = Inserting(who, action) \ {a}
    BY <2>4, <2>5 DEF Inserting
  <2>7. CASE askers[a].who = who /\ askers[a].action = action
    <3>1. Requests!Pending(who, action)' = Requests!Pending(who, action) \cup {r}
      BY <2>1, <2>7 DEF Requests!Pending, TypesOK
    <3>2. r \notin Requests!Pending(who, action) /\ a \in Inserting(who, action)
      BY <2>2, <2>3, <2>7 DEF Requests!Pending, Inserting
    <3>3. /\ IsFiniteSet(Requests!Pending(who, action)')
          /\ Cardinality(Requests!Pending(who, action)')
               = Cardinality(Requests!Pending(who, action)) + 1
      BY <3>1, <3>2, FS_AddElement DEF QueueInv
    <3>4. Cardinality(Inserting(who, action)') = Cardinality(Inserting(who, action)) - 1
      BY <2>6, <3>2, FS_RemoveElement, InsertingFinite
    <3>5. /\ Cardinality(Requests!Pending(who, action)) \in Nat
          /\ Cardinality(Inserting(who, action)) \in Nat /\ Cardinality(Askers) \in Nat
      BY FS_CardinalityType, InsertingFinite DEF QueueInv
    <3> QED BY <3>3, <3>4, <3>5 DEF QueueInv
  <2>8. CASE ~(askers[a].who = who /\ askers[a].action = action)
    <3>1. [who |-> askers[a].who, status |-> "pending", action |-> askers[a].action] # row
      BY <2>8
    <3>2. Requests!Pending(who, action)' \subseteq Requests!Pending(who, action)
      BY <2>1, <3>1 DEF Requests!Pending, TypesOK
    <3> QED BY <2>6, <3>2, QueueShrinks
  <2> QED BY <2>7, <2>8
<1>3. ASSUME NEW d \in Deciders, Requests!Update(d) PROVE QueueInv(who, action)'
  <2>1. UNCHANGED askers
    BY <1>3 DEF Requests!Update
  <2>2. Inserting(who, action)' = Inserting(who, action)
    BY <2>1 DEF Inserting
  <2>3. CASE Requests!Decidable(deciders[d].number)
    <3> DEFINE r == deciders[d].number
    <3>1. /\ r \in Requests!Numbers /\ deciders[d].verdict \in Requests!Verdicts
          /\ requests' = [requests EXCEPT ![r].status = deciders[d].verdict]
      BY <1>3, <2>3 DEF TypesOK, Requests!Update
    <3>2. requests[r] \in Rows
      BY <2>3, <3>1 DEF TypesOK, Requests!Decidable, Requests!IsRequest
    <3>3. requests'[r].status # "pending"
          /\ \A q \in Requests!Numbers : q # r => requests'[q] = requests[q]
      BY <3>1, <3>2 DEF TypesOK, Rows, Requests!Verdicts
    <3>4. Requests!Pending(who, action)' \subseteq Requests!Pending(who, action)
      BY <3>3 DEF Requests!Pending
    <3> QED BY <2>2, <3>4, QueueShrinks
  <2>4. CASE ~Requests!Decidable(deciders[d].number)
    <3>1. Requests!Pending(who, action)' = Requests!Pending(who, action)
      BY <1>3, <2>4 DEF Requests!Update, Requests!Pending
    <3> QED BY <2>2, <3>1, QueueShrinks
  <2> QED BY <2>3, <2>4
<1>4. ASSUME UNCHANGED requests,
             \A a \in Askers : askers'[a].at = "insert" => askers'[a] = askers[a]
      PROVE  QueueInv(who, action)'
  <2>1. Requests!Pending(who, action)' = Requests!Pending(who, action)
    BY <1>4 DEF Requests!Pending
  <2>2. Inserting(who, action)' \subseteq Inserting(who, action)
    BY <1>4 DEF Inserting
  <2> QED BY <2>1, <2>2, QueueShrinks
<1>5. ASSUME NEW a \in Askers,
             \/ Requests!Reply(a)
             \/ \E w \in Requesters, x \in Actions : Requests!Refuse(a, w, x)
      PROVE  QueueInv(who, action)'
  <2>1. UNCHANGED requests /\ \E ch : ch.at # "insert" /\ askers' = [askers EXCEPT ![a] = ch]
    BY <1>5 DEF Requests!Reply, Requests!Refuse, Requests!IdleAsker
  <2>2. \A b \in Askers : askers'[b].at = "insert" => askers'[b] = askers[b]
    BY <2>1 DEF TypesOK
  <2> QED BY <1>4, <2>1, <2>2
<1>6. CASE UNCHANGED <<requests, askers>>
  BY <1>4, <1>6
<1> QED
  BY <1>1, <1>2, <1>3, <1>5, <1>6
  DEF Requests!Next, Requests!Decide, Requests!Tell, Requests!GiveUp, Requests!requestVars

(* A requester has no more pending requests for one action than there are  *)
(* chains that file requests.                                              *)
THEOREM PendingBoundedHolds ==
  ASSUME NoRequest \notin Rows, IsFiniteSet(Askers)
  PROVE  UsersSpec => []PendingBounded
<1> DEFINE Queue == \A who \in Requesters, action \in Actions : QueueInv(who, action)
<1>1. Requests!Init => Queue
  BY QueueInit
<1>2. TypesOK /\ Queue /\ [Requests!Next]_(Requests!requestVars) => Queue'
  BY QueueStep
<1>3. Queue => PendingBounded
  <2> SUFFICES ASSUME NEW who \in Requesters, NEW action \in Actions, QueueInv(who, action)
               PROVE  Cardinality(Requests!Pending(who, action)) <= Cardinality(Askers)
    BY DEF PendingBounded, Requests!PendingBounded, Requests!Cardinality, Cardinality
  <2>1. /\ Cardinality(Requests!Pending(who, action)) \in Nat
        /\ Cardinality(Inserting(who, action)) \in Nat /\ Cardinality(Askers) \in Nat
    BY FS_CardinalityType, InsertingFinite DEF QueueInv
  <2> QED BY <2>1 DEF QueueInv
<1> QED BY <1>1, <1>2, <1>3, TypeInvariant, UsesRequests, PTL DEF Requests!Spec

-----------------------------------------------------------------------------
(* Identities                                                              *)

USE UsersAssumption, IdsAssumption, CodesAssumption, RolesAssumption, BoundAssumption

ChainStates == [at : Awaits \cup {"idle"}, user : Users \cup {NoUser}, cmd : Commands,
                goal : Goals, id : Ids \cup {NoId}, role : Roles, code : Codes \cup {NoCode}]

(* What the parts of a chain owe each other. *)
ChainOK(ch) ==
    /\ ch \in ChainStates
    /\ ch.at = "idle" => ch = NoChain
    /\ ch.at # "idle" => ch.user \in Users
    /\ ch.at \in {"rewrite", "write_role"} => ch.id # NoId
    /\ ch.at = "write_role" => ch.role \in GrantRoles \cup {"guest"}
    /\ ch.at = "link" => ch.code \in Codes
    /\ ch.at = "rewrite" => ch.goal = "upgrade"
    /\ ch.at = "role" => ch.goal = "access"
    /\ ch.goal = "upgrade" => ch.cmd = "upgrade"
    /\ ch.cmd = "upgrade" => ch.user \in Monarchs

ChainsOK ==
    /\ chains \in [Chains -> ChainStates]
    /\ \A c \in Chains : ChainOK(chains[c])
    /\ \A c, d \in Chains : chains[c].cmd = "upgrade" /\ chains[d].cmd = "upgrade" => c = d

TablesOK ==
    /\ profile \in [Users -> [id : Ids \cup {NoId}, role : Roles]]
    /\ mapping \in [Users -> Ids \cup {NoId}] /\ links \in [Users -> Ids \cup {NoId}]
    /\ codes \in [Codes -> [status : {"free", "pending", "consumed"}, user : Users \cup {NoUser},
                            id : Ids \cup {NoId}, late : BOOLEAN]]
    /\ \A k \in Codes : codes[k].status = "free" <=> codes[k].id = NoId

HistoryOK ==
    /\ v2 \in BOOLEAN /\ started \in Nat /\ faults \in Nat
    /\ drawn \subseteq NewIds /\ overtaken \subseteq Users /\ granted \in [Users -> SUBSET GrantRoles]

TypeInv == ChainsOK /\ TablesOK /\ HistoryOK /\ CodeLinksOnce

-----------------------------------------------------------------------------
(* Chains *)

LEMMA NoChainOK == ChainOK(NoChain)
BY DEF ChainOK, NoChain, ChainStates, Awaits, Commands, Goals, Ids, Roles

LEMMA MovesOK ==
  ASSUME ChainsOK, NEW c \in Chains, NEW ch, ChainOK(ch), Moves(c, ch),
         ch.cmd = "upgrade" =>
           chains[c].cmd = "upgrade" \/ \A d \in Chains : chains[d].cmd # "upgrade"
  PROVE  ChainsOK'
<1>1. chains' \in [Chains -> ChainStates] /\ ch \in ChainStates
  BY DEF ChainsOK, ChainOK, Moves
<1>2. chains'[c] = ch /\ \A d \in Chains : d # c => chains'[d] = chains[d]
  BY DEF ChainsOK, Moves
<1>3. \A d \in Chains : ChainOK(chains'[d])
  BY <1>2 DEF ChainsOK
<1> QED BY <1>1, <1>2, <1>3 DEF ChainsOK, ChainOK

(* The chain goes on as it was, but for where it is, why, its id and code. *)
GoesOn(c, ch) ==
    /\ ch.user = UserOf(c) /\ ch.cmd = chains[c].cmd
    /\ ch.at # "idle"

(* A chain that looked an id up goes on with it, or ends. *)
Resolves(c, id, ch) ==
    /\ Moves(c, ch) /\ ChainOK(ch)
    /\ ch = NoChain \/
       /\ GoesOn(c, ch) /\ ch.id = id /\ ch.goal = chains[c].goal
       /\ ch.at = CASE ch.goal = "profile" -> IF id = NoId THEN "chat" ELSE "write_profile"
                    [] ch.goal = "access"  -> "role"
                    [] ch.goal = "code"    -> "issue"
                    [] ch.goal = "upgrade" -> "rewrite"

LEMMA ResolvedOK ==
  ASSUME ChainsOK, NEW c \in Chains, ~At(c, "idle"), NEW id \in Ids \cup {NoId},
         Resolved(c, id)
  PROVE  \E ch : Resolves(c, id, ch)
<1> DEFINE at == CASE chains[c].goal = "profile" -> IF id = NoId THEN "chat" ELSE "write_profile"
                   [] chains[c].goal = "access"  -> "role"
                   [] chains[c].goal = "code"    -> "issue"
                   [] chains[c].goal = "upgrade" -> "rewrite"
           ch == [chains[c] EXCEPT !.at = at, !.id = id]
<1>1. chains[c] \in ChainStates /\ ChainOK(chains[c])
  BY DEF ChainsOK
<1>2. chains[c].goal \in Goals
  BY <1>1 DEF ChainStates
<1>3. at \in {"chat", "write_profile", "role", "issue", "rewrite"}
      /\ (at = "rewrite" <=> chains[c].goal = "upgrade")
  BY <1>2 DEF Goals
<1>4. CASE chains[c].goal = "upgrade" /\ id \notin Users
  BY <1>4, NoChainOK DEF Resolved, Ends, Resolves
<1>5. CASE ~(chains[c].goal = "upgrade" /\ id \notin Users)
  <2>1. Moves(c, ch)
    BY <1>2, <1>5 DEF Resolved, Found, Goals
  <2>2. ch \in ChainStates /\ ch.id = id /\ ch.at = at /\ ch.user = chains[c].user
        /\ ch.cmd = chains[c].cmd /\ ch.goal = chains[c].goal
    BY <1>1, <1>3 DEF ChainStates, Awaits
  <2>3. at = "rewrite" => id # NoId
    BY <1>3, <1>5
  <2>4. at = "role" => chains[c].goal = "access"
    BY <1>2 DEF Goals
  <2>5. ChainOK(ch)
    BY <1>1, <1>3, <2>2, <2>3, <2>4 DEF ChainOK, At
  <2>6. GoesOn(c, ch)
    BY <1>3, <2>2 DEF GoesOn, UserOf
  <2> QED BY <2>1, <2>2, <2>5, <2>6 DEF Resolves
<1> QED BY <1>4, <1>5

(* A chain whose sender's role is known goes on with its command.          *)
LEMMA ToCommandOK ==
  ASSUME ChainsOK, NEW c \in Chains, ~At(c, "idle"), NEW role, ToCommand(c, role),
         chains[c].goal # "upgrade"
  PROVE  \E ch : /\ Moves(c, ch) /\ ChainOK(ch)
                 /\ ch = NoChain \/
                    /\ GoesOn(c, ch) /\ ch.id = NoId
                    /\ \/ ch.at = "mapping" /\ ch.goal = "code" /\ v2
                       \/ ch.at = "mapping" /\ ch.goal = "upgrade"
                       \/ ch.at = "issue" /\ ~v2
                       \/ ch.at = "lock" /\ ch.goal = chains[c].goal
<1> DEFINE old == [chains[c] EXCEPT !.id = NoId]
<1>1. chains[c] \in ChainStates /\ ChainOK(chains[c])
  BY DEF ChainsOK
<1>2. ASSUME NEW ch \in ChainStates, ch.user = chains[c].user, ch.cmd = chains[c].cmd,
             ch.id = NoId, ch.at \in {"mapping", "issue", "lock"},
             ch.goal = "upgrade" => chains[c].cmd = "upgrade"
      PROVE  ChainOK(ch) /\ GoesOn(c, ch)
  BY <1>1, <1>2 DEF ChainOK, GoesOn, UserOf, At
<1>3. chains[c].cmd \in Commands
  BY <1>1 DEF ChainStates
<1>4. CASE chains[c].cmd = "talk"
  <2>1. old.cmd = "talk"
    BY <1>1, <1>4 DEF ChainStates
  <2> QED BY <2>1, NoChainOK DEF ToCommand, Ends
<1>5. CASE chains[c].cmd = "link_start"
  <2>1. old.cmd = "link_start"
    BY <1>1, <1>5 DEF ChainStates
  <2>2. CASE v2
    <3> DEFINE ch == [old EXCEPT !.at = "mapping", !.goal = "code"]
    <3>1. Moves(c, ch)
      BY <2>1, <2>2 DEF ToCommand
    <3>2. ch \in ChainStates /\ ch.user = chains[c].user /\ ch.cmd = chains[c].cmd
          /\ ch.id = NoId /\ ch.at = "mapping" /\ ch.goal = "code"
      BY <1>1 DEF ChainStates, Awaits, Goals
    <3> QED BY <1>2, <2>2, <3>1, <3>2
  <2>3. CASE ~v2
    <3> DEFINE ch == [old EXCEPT !.at = "issue"]
    <3>1. Moves(c, ch)
      BY <2>1, <2>3 DEF ToCommand
    <3>2. ch \in ChainStates /\ ch.user = chains[c].user /\ ch.cmd = chains[c].cmd
          /\ ch.id = NoId /\ ch.at = "issue" /\ ch.goal = chains[c].goal
      BY <1>1 DEF ChainStates, Awaits, Goals
    <3> QED BY <1>2, <2>3, <3>1, <3>2
  <2> QED BY <2>2, <2>3
<1>6. CASE chains[c].cmd = "link_confirm"
  <2> DEFINE ch == [old EXCEPT !.at = "lock"]
  <2>1. old.cmd = "link_confirm"
    BY <1>1, <1>6 DEF ChainStates
  <2>2. Moves(c, ch)
    BY <2>1 DEF ToCommand
  <2>3. ch \in ChainStates /\ ch.user = chains[c].user /\ ch.cmd = chains[c].cmd
        /\ ch.id = NoId /\ ch.at = "lock" /\ ch.goal = chains[c].goal
    BY <1>1 DEF ChainStates, Awaits, Goals
  <2> QED BY <1>2, <2>2, <2>3
<1>7. CASE chains[c].cmd = "upgrade"
  <2> DEFINE ch == [old EXCEPT !.at = "mapping", !.goal = "upgrade"]
  <2>1. old.cmd = "upgrade"
    BY <1>1, <1>7 DEF ChainStates
  <2>2. Moves(c, ch) \/ Moves(c, NoChain)
    BY <2>1 DEF ToCommand, Ends
  <2>3. ch \in ChainStates /\ ch.user = chains[c].user /\ ch.cmd = chains[c].cmd
        /\ ch.id = NoId /\ ch.at = "mapping" /\ ch.goal = "upgrade"
    BY <1>1 DEF ChainStates, Awaits, Goals
  <2> QED BY <1>2, <1>7, <2>2, <2>3, NoChainOK
<1> QED BY <1>3, <1>4, <1>5, <1>6, <1>7 DEF Commands

(* What a chain may do next, but for the two steps that start or lock.     *)
(* Its id is then one of ids, or none.                                     *)
Continues(c, ch, ids) ==
    /\ Moves(c, ch) /\ ChainOK(ch)
    /\ ch.at \notin {"link", "write_role", "backfill"}
    /\ ch = NoChain \/ GoesOn(c, ch)
    /\ ch.id \in ids \cup {NoId}

LEMMA EndsContinues ==
  ASSUME NEW c, NEW ids, Ends(c)
  PROVE  Continues(c, NoChain, ids)
BY NoChainOK DEF Continues, Ends, NoChain

LEMMA ResolvedContinues ==
  ASSUME ChainsOK, NEW c \in Chains, ~At(c, "idle"), NEW id \in Ids \cup {NoId},
         Resolved(c, id)
  PROVE  \E ch : Continues(c, ch, {id})
<1>1. PICK ch : Resolves(c, id, ch)
  BY ResolvedOK
<1>2. CASE ch = NoChain
  BY <1>1, <1>2, EndsContinues DEF Ends, Resolves
<1>3. CASE ch # NoChain
  <2>1. ch.goal \in Goals
    BY <1>1 DEF Resolves, ChainOK, ChainStates
  <2>2. ch.at \notin {"link", "write_role", "backfill"}
    BY <1>1, <1>3, <2>1 DEF Goals, Resolves
  <2> QED BY <1>1, <1>3, <2>2 DEF Continues, Resolves
<1> QED BY <1>2, <1>3

LEMMA ToCommandContinues ==
  ASSUME ChainsOK, NEW c \in Chains, ~At(c, "idle"), NEW role, ToCommand(c, role),
         chains[c].goal # "upgrade"
  PROVE  \E ch : Continues(c, ch, {})
<1>1. PICK ch : /\ Moves(c, ch) /\ ChainOK(ch)
                /\ ch = NoChain \/
                   /\ GoesOn(c, ch) /\ ch.id = NoId
                   /\ \/ ch.at = "mapping" /\ ch.goal = "code" /\ v2
                      \/ ch.at = "mapping" /\ ch.goal = "upgrade"
                      \/ ch.at = "issue" /\ ~v2
                      \/ ch.at = "lock"
  BY ToCommandOK
<1>2. CASE ch = NoChain
  BY <1>1, <1>2, EndsContinues DEF Ends
<1>3. CASE ch # NoChain
  BY <1>1, <1>3 DEF Continues
<1> QED BY <1>2, <1>3

LEMMA ToAccessContinues ==
  ASSUME ChainsOK, NEW c \in Chains, ~At(c, "idle"), ToAccess(c)
  PROVE  \E ch : Continues(c, ch, {})
<1> DEFINE ch == [chains[c] EXCEPT !.at = "mapping", !.goal = "access", !.id = NoId]
<1>1. chains[c] \in ChainStates /\ ChainOK(chains[c])
  BY DEF ChainsOK
<1>2. /\ ch \in ChainStates /\ ch.at = "mapping" /\ ch.goal = "access" /\ ch.id = NoId
      /\ ch.user = chains[c].user /\ ch.cmd = chains[c].cmd
  BY <1>1 DEF ChainStates, Awaits, Goals
<1>3. ChainOK(ch)
  BY <1>1, <1>2 DEF ChainOK, At
<1>4. Continues(c, ch, {})
  BY <1>2, <1>3 DEF Continues, ToAccess, GoesOn, UserOf
<1> QED BY <1>4

(* It waits for something else, with the same id or another. *)
LEMMA FoundContinues ==
  ASSUME ChainsOK, NEW c \in Chains, ~At(c, "idle"), NEW id \in Ids \cup {NoId},
         NEW a \in {"legacy", "write_profile", "write_mapping"},
         Found(c, a, id)
  PROVE  Continues(c, [chains[c] EXCEPT !.at = a, !.id = id], {id})
<1> DEFINE ch == [chains[c] EXCEPT !.at = a, !.id = id]
<1>1. chains[c] \in ChainStates /\ ChainOK(chains[c])
  BY DEF ChainsOK
<1>2. /\ ch \in ChainStates /\ ch.at = a /\ ch.id = id /\ ch.goal = chains[c].goal
      /\ ch.user = chains[c].user /\ ch.cmd = chains[c].cmd
  BY <1>1 DEF ChainStates, Awaits
<1>3. ChainOK(ch)
  BY <1>1, <1>2 DEF ChainOK, At
<1> QED BY <1>2, <1>3 DEF Continues, Found, GoesOn, UserOf

LEMMA GoesContinues ==
  ASSUME ChainsOK, NEW c \in Chains, ~At(c, "idle"),
         NEW a \in {"legacy", "write_profile", "write_mapping"},
         Goes(c, a)
  PROVE  Continues(c, [chains[c] EXCEPT !.at = a], {IdOf(c)})
<1> DEFINE ch == [chains[c] EXCEPT !.at = a]
<1>1. chains[c] \in ChainStates /\ ChainOK(chains[c])
  BY DEF ChainsOK
<1>2. /\ ch \in ChainStates /\ ch.at = a /\ ch.id = IdOf(c) /\ ch.goal = chains[c].goal
      /\ ch.user = chains[c].user /\ ch.cmd = chains[c].cmd
  BY <1>1 DEF ChainStates, Awaits, IdOf
<1>3. ChainOK(ch)
  BY <1>1, <1>2 DEF ChainOK, At
<1> QED BY <1>2, <1>3 DEF Continues, Goes, GoesOn, UserOf

(* A chain that continues leaves the chains well formed. *)
LEMMA ContinuesOK ==
  ASSUME ChainsOK, NEW c \in Chains, NEW ids, NEW ch, Continues(c, ch, ids)
  PROVE  ChainsOK'
<1>1. ch.cmd = "upgrade" => chains[c].cmd = "upgrade"
  BY DEF Continues, GoesOn, NoChain
<1> QED BY <1>1, MovesOK DEF Continues

-----------------------------------------------------------------------------
(* The actions, as far as they concern the chains *)

LEMMA NewIdIsNew ==
  ASSUME HistoryOK, NewIds # drawn
  PROVE  NewId \in NewIds \ drawn
BY DEF HistoryOK, NewId

LEMMA ReadMappingContinues ==
  ASSUME TypeInv, NEW c \in Chains, ReadMapping(c)
  PROVE  \E ch : Continues(c, ch, {mapping[UserOf(c)], IdOf(c)})
<1>1. ~At(c, "idle") /\ ChainsOK /\ UserOf(c) \in Users
  BY DEF ReadMapping, At, TypeInv, ChainsOK, ChainOK, UserOf
<1>2. mapping[UserOf(c)] \in Ids \cup {NoId}
  BY <1>1 DEF TypeInv, TablesOK
<1>3. CASE mapping[UserOf(c)] # NoId
  <2>1. PICK ch : Continues(c, ch, {mapping[UserOf(c)]})
    BY <1>1, <1>2, <1>3, ResolvedContinues DEF ReadMapping
  <2> QED BY <2>1 DEF Continues
<1>4. CASE mapping[UserOf(c)] = NoId
  <2>1. Continues(c, [chains[c] EXCEPT !.at = "legacy"], {IdOf(c)})
    BY <1>1, <1>4, GoesContinues DEF ReadMapping
  <2> QED BY <2>1 DEF Continues
<1> QED BY <1>3, <1>4

LEMMA ReadLegacyContinues ==
  ASSUME TypeInv, NEW c \in Chains, ReadLegacy(c)
  PROVE  \E ch : Continues(c, ch, {profile[UserOf(c)].id})
<1>1. ~At(c, "idle") /\ ChainsOK /\ UserOf(c) \in Users
  BY DEF ReadLegacy, At, TypeInv, ChainsOK, ChainOK, UserOf
<1>2. profile[UserOf(c)].id \in Ids \cup {NoId}
  BY <1>1 DEF TypeInv, TablesOK
<1> QED BY <1>1, <1>2, ResolvedContinues DEF ReadLegacy

LEMMA ReadChatContinues ==
  ASSUME TypeInv, NEW c \in Chains, ReadChat(c)
  PROVE  /\ drawn' \subseteq NewIds /\ drawn \subseteq drawn'
         /\ \E ch, id : /\ Continues(c, ch, {id})
                        /\ id = profile[UserOf(c)].id \/ id \in drawn' \ drawn
<1>1. ~At(c, "idle") /\ ChainsOK /\ UserOf(c) \in Users /\ HistoryOK
  BY DEF ReadChat, At, TypeInv, ChainsOK, ChainOK, UserOf
<1>2. profile[UserOf(c)].id \in Ids \cup {NoId}
  BY <1>1 DEF TypeInv, TablesOK
<1>3. CASE Found(c, "write_profile", profile[UserOf(c)].id) /\ UNCHANGED drawn
  <2>1. \E ch : Continues(c, ch, {profile[UserOf(c)].id})
    BY <1>1, <1>2, <1>3, FoundContinues
  <2> QED BY <1>1, <1>3, <2>1 DEF HistoryOK
<1>4. CASE NewIds # drawn /\ Found(c, "write_profile", NewId) /\ drawn' = drawn \cup {NewId}
  <2>1. NewId \in NewIds \ drawn
    BY <1>1, <1>4, NewIdIsNew
  <2>2. \E ch : Continues(c, ch, {NewId})
    BY <1>1, <1>4, <2>1, FoundContinues DEF Ids
  <2> QED BY <1>1, <1>4, <2>1, <2>2 DEF HistoryOK
<1> QED BY <1>3, <1>4 DEF ReadChat

LEMMA WriteProfileContinues ==
  ASSUME TypeInv, NEW c \in Chains, WriteProfile(c)
  PROVE  \E ch : Continues(c, ch, {IdOf(c)})
BY GoesContinues DEF WriteProfile, At, TypeInv

LEMMA WriteMappingContinues ==
  ASSUME TypeInv, NEW c \in Chains, WriteMapping(c)
  PROVE  \E ch : Continues(c, ch, {})
BY ToAccessContinues DEF WriteMapping, At, TypeInv

LEMMA ReadRoleContinues ==
  ASSUME TypeInv, NEW c \in Chains, ReadRole(c)
  PROVE  \E ch : Continues(c, ch, {})
<1>1. ChainsOK /\ ~At(c, "idle") /\ chains[c].goal # "upgrade"
  BY DEF ReadRole, At, TypeInv, ChainsOK, ChainOK
<1> QED BY <1>1, ToCommandContinues DEF ReadRole

LEMMA FailsContinues ==
  ASSUME TypeInv, NEW c \in Chains, Fails(c)
  PROVE  \E ch : Continues(c, ch, {IdOf(c)})
<1>1. ~At(c, "idle") /\ ChainsOK
  BY DEF Fails, TypeInv
<1>2. CASE ToAccess(c)
  BY <1>1, <1>2, ToAccessContinues DEF Continues
<1>3. CASE ToCommand(c, "guest") /\ chains[c].goal = "access"
  <2>1. chains[c].goal # "upgrade"
    BY <1>3
  <2> QED BY <1>1, <1>3, <2>1, ToCommandContinues DEF Continues
<1>4. CASE Goes(c, "legacy")
  BY <1>1, <1>4, GoesContinues
<1>5. CASE Resolved(c, NoId)
  BY <1>1, <1>5, ResolvedContinues DEF Continues
<1>6. CASE Ends(c)
  BY <1>6, EndsContinues
<1> QED BY <1>2, <1>3, <1>4, <1>5, <1>6 DEF Fails

(* A new chain: its user, what it holds, and where the id is from. *)
Begins(c, ch, u, ids) ==
    /\ Moves(c, ch) /\ ChainOK(ch) /\ At(c, "idle")
    /\ ch.at \notin {"idle", "link"}
    /\ ch.user = u /\ ch.id \in ids \cup {NoId}
    /\ ch.goal = "profile"
    /\ ch.cmd = "upgrade" => \A d \in Chains : chains[d].cmd # "upgrade"

LEMMA BeginsOK ==
  ASSUME ChainsOK, NEW c \in Chains, NEW ids, NEW u, NEW ch, Begins(c, ch, u, ids)
  PROVE  ChainsOK'
BY MovesOK DEF Begins

LEMMA ReceiveBegins ==
  ASSUME TypeInv, NEW c \in Chains, NEW u \in Users, NEW cmd \in Commands, Receive(c, u, cmd)
  PROVE  \E ch : Begins(c, ch, u, {})
<1> DEFINE ch == [NoChain EXCEPT !.at = "mapping", !.user = u, !.cmd = cmd]
<1>1. ch \in ChainStates /\ ch.at = "mapping" /\ ch.user = u /\ ch.cmd = cmd /\ ch.id = NoId
      /\ ch.goal = "profile"
  BY DEF NoChain, ChainStates, Awaits, Goals, Ids, Roles, Commands
<1>2. ChainOK(ch)
  BY <1>1 DEF ChainOK, Receive
<1> QED BY <1>1, <1>2 DEF Begins, Receive, Starts

LEMMA TargetOfUser ==
  ASSUME TablesOK, NEW u \in Users
  PROVE  TargetId(u) \in {mapping[u], profile[u].id} /\ TargetId(u) \in Ids \cup {NoId}
BY DEF TargetId, TablesOK

LEMMA StartGrantBegins ==
  ASSUME TypeInv, NEW c \in Chains, NEW u \in Users, NEW role \in GrantRoles \cup {"guest"},
         StartGrant(c, u, role)
  PROVE  \E ch : Begins(c, ch, u, {mapping[u], profile[u].id})
<1> DEFINE ch == [NoChain EXCEPT !.at = "write_role", !.user = u, !.id = TargetId(u), !.role = role]
<1>1. TargetId(u) \in {mapping[u], profile[u].id} /\ TargetId(u) \in Ids \cup {NoId}
  BY TargetOfUser DEF TypeInv
<1>2. ch \in ChainStates /\ ch.at = "write_role" /\ ch.user = u /\ ch.cmd = "talk"
      /\ ch.id = TargetId(u) /\ ch.goal = "profile" /\ ch.role = role
  BY <1>1 DEF NoChain, ChainStates, Awaits, Goals, Ids, Roles, Commands
<1>3. ChainOK(ch)
  BY <1>2 DEF ChainOK, StartGrant
<1> QED BY <1>1, <1>2, <1>3 DEF Begins, StartGrant, Starts

LEMMA StartBackfillBegins ==
  ASSUME TypeInv, NEW c \in Chains, NEW u \in Users, StartBackfill(c, u)
  PROVE  \E ch : Begins(c, ch, u, {profile[u].id})
<1> DEFINE ch == [NoChain EXCEPT !.at = "backfill", !.user = u, !.id = profile[u].id]
<1>1. profile[u].id \in Ids \cup {NoId}
  BY DEF TypeInv, TablesOK
<1>2. ch \in ChainStates /\ ch.at = "backfill" /\ ch.user = u /\ ch.cmd = "talk"
      /\ ch.id = profile[u].id /\ ch.goal = "profile"
  BY <1>1 DEF NoChain, ChainStates, Awaits, Goals, Ids, Roles, Commands
<1>3. ChainOK(ch)
  BY <1>2 DEF ChainOK
<1> QED BY <1>1, <1>2, <1>3 DEF Begins, StartBackfill, Starts

(* A confirmation gets the row, and goes on with its code. *)
Locks(c, k, ch) ==
    /\ Moves(c, ch) /\ ChainOK(ch)
    /\ GoesOn(c, ch)
    /\ ch.at = "link" /\ ch.code = k /\ ch.id = codes[k].id /\ ch.goal = chains[c].goal

LEMMA LockCodeGoes ==
  ASSUME TypeInv, NEW c \in Chains, NEW k \in Codes, LockCode(c, k)
  PROVE  \/ Ends(c)
         \/ Confirmable(k, UserOf(c)) /\ \E ch : Locks(c, k, ch)
<1> DEFINE ch == [chains[c] EXCEPT !.at = "link", !.code = k, !.id = codes[k].id]
<1>1. chains[c] \in ChainStates /\ ChainOK(chains[c]) /\ chains[c].at = "lock"
  BY DEF LockCode, At, TypeInv, ChainsOK
<1>2. codes[k].id \in Ids \cup {NoId}
  BY DEF TypeInv, TablesOK
<1>3. /\ ch \in ChainStates /\ ch.at = "link" /\ ch.code = k /\ ch.id = codes[k].id
      /\ ch.user = chains[c].user /\ ch.cmd = chains[c].cmd /\ ch.goal = chains[c].goal
  BY <1>1, <1>2 DEF ChainStates, Awaits
<1>4. ChainOK(ch)
  BY <1>1, <1>3 DEF ChainOK
<1>5. CASE Confirmable(k, UserOf(c))
  BY <1>1, <1>3, <1>4, <1>5 DEF LockCode, Locks, GoesOn, UserOf
<1> QED BY <1>5 DEF LockCode

LEMMA LocksOK ==
  ASSUME ChainsOK, NEW c \in Chains, NEW k, NEW ch, Locks(c, k, ch)
  PROVE  ChainsOK'
BY MovesOK DEF Locks, GoesOn

-----------------------------------------------------------------------------
(* Types *)

LEMMA InitTypeInv == Init => TypeInv
<1> SUFFICES ASSUME Init PROVE TypeInv
  OBVIOUS
<1>1. PICK old \in SUBSET Users, filled \in SUBSET Users :
        /\ profile = [u \in Users |-> Row(IF u \in old THEN u ELSE NoId, DefaultRole(u))]
        /\ mapping = [u \in Users |-> IF u \in filled THEN u ELSE NoId]
  BY DEF Init
<1>2. /\ profile \in [Users -> [id : Ids \cup {NoId}, role : Roles]]
      /\ mapping \in [Users -> Ids \cup {NoId}]
  BY <1>1 DEF Row, DefaultRole, Ids, Roles
<1>3. TablesOK
  BY <1>2 DEF Init, TablesOK, NewCode
<1>4. ChainsOK
  BY NoChainOK DEF Init, ChainsOK, ChainOK, NoChain
<1>5. HistoryOK
  BY DEF Init, HistoryOK
<1>6. CodeLinksOnce
  BY DEF Init, CodeLinksOnce, At, NoChain
<1> QED BY <1>3, <1>4, <1>5, <1>6 DEF TypeInv

(* What the steps of a message that only reads do, and of one that starts. *)
LEMMA UpsertProfileOK ==
  ASSUME TablesOK, NEW u \in Users, NEW id \in Ids \cup {NoId}, UpsertProfile(u, id)
  PROVE  /\ profile' \in [Users -> [id : Ids \cup {NoId}, role : Roles]]
         /\ \A w \in Users : w # u => profile'[w] = profile[w]
         /\ profile'[u].id \in {profile[u].id, id}
         /\ profile'[u].role = DefaultRole(u)
<1>1. profile \in [Users -> [id : Ids \cup {NoId}, role : Roles]]
  BY DEF TablesOK
<1>2. DefaultRole(u) \in Roles
  BY DEF DefaultRole, Roles
<1> QED BY <1>1, <1>2 DEF UpsertProfile, Row

LEMMA InsertMappingOK ==
  ASSUME TablesOK, NEW u \in Users, NEW id \in Ids \cup {NoId}, InsertMapping(u, id)
  PROVE  /\ mapping' \in [Users -> Ids \cup {NoId}]
         /\ \A w \in Users : w # u => mapping'[w] = mapping[w]
         /\ mapping'[u] = IF mapping[u] = NoId THEN id ELSE mapping[u]
BY DEF TablesOK, InsertMapping

(* The chain of a step, its user and its id. *)
LEMMA ChainTypes ==
  ASSUME ChainsOK, NEW c \in Chains, ~At(c, "idle")
  PROVE  /\ UserOf(c) \in Users /\ IdOf(c) \in Ids \cup {NoId}
         /\ chains[c].role \in Roles
         /\ At(c, "link") => chains[c].code \in Codes
BY DEF ChainsOK, ChainOK, ChainStates, UserOf, IdOf, At

LEMMA CodeIdOK ==
  ASSUME ChainsOK, NEW c \in Chains, At(c, "issue")
  PROVE  CodeId(c) \in Ids /\ CodeId(c) \in {UserOf(c), IdOf(c)} /\ CodeId(c) # NoId
BY ChainTypes DEF CodeId, At, Ids

IssueCode(c, k) ==
    /\ codes[k].status = "free"
    /\ codes' = [codes EXCEPT ![k] =
           [status |-> "pending", user |-> UserOf(c), id |-> CodeId(c), late |-> FALSE]]

(* No confirmation is begun, and no code it may hold is touched. *)
LEMMA CodesUntouched ==
  ASSUME TypeInv, ChainsOK', NEW c \in Chains, NEW ch, Moves(c, ch), ch.at # "link",
         \A k \in Codes : codes[k].status = "pending" =>
           codes'[k].status = "pending" \/ (At(c, "link") /\ chains[c].code = k)
  PROVE  CodeLinksOnce'
<1>1. \A d \in Chains : d # c => chains'[d] = chains[d]
  BY DEF TypeInv, ChainsOK, Moves
<1>2. chains'[c].at # "link"
  BY DEF TypeInv, ChainsOK, Moves
<1>3. ASSUME NEW d \in Chains, At(d, "link")'
      PROVE  /\ codes'[chains'[d].code].status = "pending"
             /\ \A e \in Chains : At(e, "link")' /\ chains'[e].code = chains'[d].code => e = d
  <2>1. d # c /\ chains'[d] = chains[d] /\ At(d, "link")
    BY <1>1, <1>2, <1>3 DEF At
  <2>2. chains[d].code \in Codes
    BY <2>1, ChainTypes DEF TypeInv, At
  <2>3. /\ codes[chains[d].code].status = "pending"
        /\ \A e \in Chains : At(e, "link") /\ chains[e].code = chains[d].code => e = d
    BY <2>1 DEF TypeInv, CodeLinksOnce
  <2>4. codes'[chains[d].code].status = "pending"
    BY <2>1, <2>2, <2>3
  <2> QED BY <1>1, <1>2, <2>1, <2>3, <2>4 DEF At
<1> QED BY <1>3 DEF CodeLinksOnce

LEMMA IssueOK ==
  ASSUME TypeInv, NEW c \in Chains, Issue(c)
  PROVE  TypeInv'
<1>1. ChainsOK'
  BY EndsContinues, ContinuesOK DEF Issue, TypeInv
<1>2. PICK k \in Codes : IssueCode(c, k)
  BY DEF Issue, IssueCode
<1>3. CodeId(c) \in Ids /\ CodeId(c) # NoId /\ UserOf(c) \in Users
  BY CodeIdOK, ChainTypes DEF Issue, TypeInv, At
<1>4. TablesOK'
  BY <1>2, <1>3 DEF IssueCode, TablesOK, TypeInv, Issue
<1>5. HistoryOK'
  BY DEF Issue, HistoryOK, TypeInv
<1>6. \A j \in Codes : codes[j].status = "pending" => codes'[j].status = "pending"
  BY <1>2 DEF IssueCode, TypeInv, TablesOK
<1>7. Moves(c, NoChain) /\ NoChain.at # "link"
  BY DEF Issue, Ends, NoChain
<1>8. CodeLinksOnce'
  BY <1>1, <1>6, <1>7, CodesUntouched
<1> QED BY <1>1, <1>4, <1>5, <1>8 DEF TypeInv

LEMMA LinkOK ==
  ASSUME TypeInv, NEW c \in Chains, Link(c)
  PROVE  TypeInv'
<1>1. ChainsOK'
  BY EndsContinues, ContinuesOK DEF Link, TypeInv
<1>2. UserOf(c) \in Users /\ IdOf(c) \in Ids \cup {NoId} /\ chains[c].code \in Codes
  BY ChainTypes DEF Link, TypeInv, At
<1>3. codes[chains[c].code].status = "pending"
  BY DEF Link, TypeInv, CodeLinksOnce
<1>4. TablesOK'
  <2> DEFINE spent == chains[c].code
             CodeRows == [status : {"free", "pending", "consumed"}, user : Users \cup {NoUser},
                          id : Ids \cup {NoId}, late : BOOLEAN]
  <2>1. /\ codes \in [Codes -> CodeRows] /\ spent \in Codes
        /\ codes' = [codes EXCEPT ![spent].status = "consumed"]
    BY <1>2 DEF TablesOK, TypeInv, Link
  <2>2. [codes[spent] EXCEPT !.status = "consumed"] \in CodeRows
        /\ [codes[spent] EXCEPT !.status = "consumed"].id = codes[spent].id
        /\ [codes[spent] EXCEPT !.status = "consumed"].status = "consumed"
    BY <2>1
  <2>3. codes' \in [Codes -> CodeRows]
    BY <2>1, <2>2
  <2>4. \A k \in Codes : codes'[k].status = "free" <=> codes'[k].id = NoId
    BY <1>3, <2>1, <2>2 DEF TablesOK, TypeInv
  <2>5. /\ mapping' \in [Users -> Ids \cup {NoId}] /\ links' \in [Users -> Ids \cup {NoId}]
        /\ profile' = profile
    BY <1>2 DEF TablesOK, TypeInv, Link
  <2> QED BY <2>3, <2>4, <2>5 DEF TablesOK, TypeInv
<1>5. HistoryOK'
  BY <1>2 DEF Link, HistoryOK, TypeInv
<1>6. \A j \in Codes : codes[j].status = "pending" =>
        codes'[j].status = "pending" \/ (At(c, "link") /\ chains[c].code = j)
  BY <1>2 DEF Link, TypeInv, TablesOK
<1>7. Moves(c, NoChain) /\ NoChain.at # "link"
  BY DEF Link, Ends, NoChain
<1>8. CodeLinksOnce'
  BY <1>1, <1>6, <1>7, CodesUntouched
<1> QED BY <1>1, <1>4, <1>5, <1>8 DEF TypeInv

LEMMA LockCodeOK ==
  ASSUME TypeInv, NEW c \in Chains, NEW k \in Codes, LockCode(c, k)
  PROVE  TypeInv'
<1>1. TablesOK' /\ HistoryOK' /\ codes' = codes
  BY DEF LockCode, TypeInv, TablesOK, HistoryOK, tables
<1>2. CASE Ends(c)
  <2>1. ChainsOK' /\ Moves(c, NoChain) /\ NoChain.at # "link"
    BY <1>2, EndsContinues, ContinuesOK DEF TypeInv, Ends, NoChain
  <2> QED BY <1>1, <2>1, CodesUntouched DEF TypeInv
<1>3. ASSUME Confirmable(k, UserOf(c)), NEW ch, Locks(c, k, ch) PROVE TypeInv'
  <2>1. ChainsOK'
    BY <1>3, LocksOK DEF TypeInv
  <2>2. chains'[c] = ch /\ \A d \in Chains : d # c => chains'[d] = chains[d]
    BY <1>3 DEF Locks, Moves, TypeInv, ChainsOK
  <2>3. ch.at = "link" /\ ch.code = k /\ codes[k].status = "pending"
    BY <1>3 DEF Locks, Confirmable
  <2>4. \A d \in Chains : At(d, "link") => chains[d].code # k
    BY DEF LockCode, Locked
  <2>5. CodeLinksOnce'
    BY <1>1, <2>2, <2>3, <2>4 DEF CodeLinksOnce, At, TypeInv
  <2> QED BY <1>1, <2>1, <2>5 DEF TypeInv
<1> QED BY <1>2, <1>3, LockCodeGoes

(* A step of the rest of a message: its chain, and tables of the right kind. *)
LEMMA ContinuesTypes ==
  ASSUME TypeInv, NEW c \in Chains, NEW ids, NEW ch, Continues(c, ch, ids),
         TablesOK', HistoryOK', codes' = codes
  PROVE  TypeInv'
<1>1. ChainsOK' /\ Moves(c, ch) /\ ch.at # "link"
  BY ContinuesOK DEF TypeInv, Continues
<1> QED BY <1>1, CodesUntouched DEF TypeInv

LEMMA BeginsTypes ==
  ASSUME TypeInv, NEW c \in Chains, NEW ids, NEW u, NEW ch, Begins(c, ch, u, ids),
         TablesOK', HistoryOK', codes' = codes
  PROVE  TypeInv'
<1>1. ChainsOK' /\ Moves(c, ch) /\ ch.at # "link"
  BY BeginsOK DEF TypeInv, Begins
<1> QED BY <1>1, CodesUntouched DEF TypeInv

(* A chain ends, having changed no code. *)
LEMMA EndsTypes ==
  ASSUME TypeInv, NEW c \in Chains, Ends(c), TablesOK', HistoryOK', codes' = codes
  PROVE  TypeInv'
BY EndsContinues, ContinuesTypes

LEMMA RewriteOK ==
  ASSUME TypeInv, NEW c \in Chains, Rewrite(c)
  PROVE  TypeInv'
<1> DEFINE old == IdOf(c)
           new == NewId
<1>1. ChainsOK' /\ Moves(c, NoChain) /\ NoChain.at # "link"
  BY EndsContinues, ContinuesOK DEF Rewrite, TypeInv, Ends, NoChain
<1>2. new \in NewIds \ drawn /\ old # NoId
  BY NewIdIsNew DEF Rewrite, TypeInv, At, ChainsOK, ChainOK, IdOf
<1>3. \A id \in Ids \cup {NoId} :
        Renamed(id, old, new) \in Ids \cup {NoId} /\ (Renamed(id, old, new) = NoId <=> id = NoId)
  BY <1>2 DEF Renamed, Ids
<1>4. /\ profile' = [u \in Users |-> [profile[u] EXCEPT !.id = Renamed(@, old, new)]]
      /\ mapping' = [mapping EXCEPT ![UserOf(c)] = IF @ = NoId THEN @ ELSE new]
      /\ links' = [u \in Users |-> Renamed(links[u], old, new)]
      /\ codes' = [k \in Codes |-> [codes[k] EXCEPT !.id = Renamed(@, old, new)]]
      /\ drawn' = drawn \cup {new}
  BY DEF Rewrite, RewriteLinks
<1>5. /\ profile' \in [Users -> [id : Ids \cup {NoId}, role : Roles]]
      /\ links' \in [Users -> Ids \cup {NoId}] /\ mapping' \in [Users -> Ids \cup {NoId}]
  <2>1. \A u \in Users : [profile[u] EXCEPT !.id = Renamed(profile[u].id, old, new)]
                           \in [id : Ids \cup {NoId}, role : Roles]
    <3>1. TAKE u \in Users
    <3>2. profile[u] \in [id : Ids \cup {NoId}, role : Roles]
      BY DEF TypeInv, TablesOK
    <3>3. Renamed(profile[u].id, old, new) \in Ids \cup {NoId}
      BY <1>3, <3>2
    <3> QED BY <3>2, <3>3
  <2>2. profile' \in [Users -> [id : Ids \cup {NoId}, role : Roles]]
    <3> DEFINE row(u) == [profile[u] EXCEPT !.id = Renamed(profile[u].id, old, new)]
    <3>1. profile' = [u \in Users |-> row(u)]
      BY <1>4
    <3>2. \A u \in Users : row(u) \in [id : Ids \cup {NoId}, role : Roles]
      BY <2>1
    <3> HIDE DEF row
    <3> QED BY <3>1, <3>2
  <2>3. links' \in [Users -> Ids \cup {NoId}]
    BY <1>3, <1>4 DEF TypeInv, TablesOK
  <2>4. mapping' \in [Users -> Ids \cup {NoId}]
    BY <1>2, <1>4 DEF TypeInv, TablesOK, Ids
  <2> QED BY <2>2, <2>3, <2>4
<1>6. \A k \in Codes :
        /\ codes'[k] \in [status : {"free", "pending", "consumed"}, user : Users \cup {NoUser},
                         id : Ids \cup {NoId}, late : BOOLEAN]
        /\ codes'[k].status = codes[k].status
        /\ codes'[k].status = "free" <=> codes'[k].id = NoId
  <2>1. TAKE k \in Codes
  <2>2. codes[k] \in [status : {"free", "pending", "consumed"}, user : Users \cup {NoUser},
                     id : Ids \cup {NoId}, late : BOOLEAN]
        /\ (codes[k].status = "free" <=> codes[k].id = NoId)
    BY DEF TypeInv, TablesOK
  <2>3. codes'[k] = [codes[k] EXCEPT !.id = Renamed(codes[k].id, old, new)]
    BY <1>4
  <2>4. Renamed(codes[k].id, old, new) \in Ids \cup {NoId}
        /\ (Renamed(codes[k].id, old, new) = NoId <=> codes[k].id = NoId)
    BY <1>3, <2>2
  <2>5. /\ codes'[k] \in [status : {"free", "pending", "consumed"}, user : Users \cup {NoUser},
                          id : Ids \cup {NoId}, late : BOOLEAN]
        /\ codes'[k].status = codes[k].status
        /\ codes'[k].id = Renamed(codes[k].id, old, new)
    BY <2>2, <2>3, <2>4
  <2> QED BY <2>2, <2>4, <2>5
<1>7. TablesOK'
  BY <1>4, <1>5, <1>6 DEF TablesOK
<1>8. HistoryOK'
  BY <1>2, <1>4 DEF HistoryOK, TypeInv, Rewrite
<1>9. CodeLinksOnce'
  BY <1>1, <1>6, CodesUntouched
<1> QED BY <1>1, <1>7, <1>8, <1>9 DEF TypeInv

LEMMA WriteRoleOK ==
  ASSUME TypeInv, NEW c \in Chains, WriteRole(c)
  PROVE  TypeInv'
<1>1. UserOf(c) \in Users /\ IdOf(c) \in Ids \cup {NoId}
      /\ chains[c].role \in GrantRoles \cup {"guest"}
  BY ChainTypes DEF WriteRole, TypeInv, At, ChainsOK, ChainOK
<1>2. profile' \in [Users -> [id : Ids \cup {NoId}, role : Roles]]
  BY <1>1 DEF WriteRole, TypeInv, TablesOK, Row, Roles
<1>3. TablesOK'
  BY <1>2 DEF TablesOK, TypeInv, WriteRole
<1>4. granted' \in [Users -> SUBSET GrantRoles]
  BY <1>1 DEF WriteRole, TypeInv, HistoryOK
<1>5. HistoryOK'
  BY <1>4 DEF HistoryOK, TypeInv, WriteRole
<1> QED BY <1>3, <1>5, EndsTypes DEF WriteRole

LEMMA ExpireOK ==
  ASSUME TypeInv, NEW k \in Codes, Expire(k)
  PROVE  TypeInv' /\ \A j \in Codes : codes'[j].id = codes[j].id /\ codes'[j].user = codes[j].user
<1>1. codes' = [codes EXCEPT ![k].late = TRUE]
  BY DEF Expire
<1>2. \A j \in Codes :
        /\ codes'[j] \in [status : {"free", "pending", "consumed"}, user : Users \cup {NoUser},
                         id : Ids \cup {NoId}, late : BOOLEAN]
        /\ codes'[j].status = codes[j].status /\ codes'[j].id = codes[j].id
        /\ codes'[j].user = codes[j].user
  BY <1>1 DEF TypeInv, TablesOK
<1>3. TablesOK'
  BY <1>1, <1>2 DEF TablesOK, TypeInv, Expire
<1>4. ChainsOK' /\ HistoryOK'
  BY DEF Expire, TypeInv, ChainsOK, HistoryOK
<1>5. CodeLinksOnce'
  BY <1>2, ChainTypes DEF Expire, TypeInv, CodeLinksOnce, At
<1> QED BY <1>2, <1>3, <1>4, <1>5 DEF TypeInv

LEMMA TypeInvNext == TypeInv /\ [Next]_vars => TypeInv'
<1> SUFFICES ASSUME TypeInv, [Next]_vars PROVE TypeInv'
  OBVIOUS
<1> USE DEF tables
<1>1. ASSUME NEW c \in Chains, NEW u \in Users, NEW cmd \in Commands, Receive(c, u, cmd)
      PROVE  TypeInv'
  <2>1. TablesOK' /\ HistoryOK' /\ codes' = codes
    BY <1>1 DEF Receive, Starts, TypeInv, TablesOK, HistoryOK
  <2> QED BY <1>1, <2>1, ReceiveBegins, BeginsTypes
<1>2. ASSUME NEW c \in Chains, NEW u \in Users, NEW role \in GrantRoles \cup {"guest"},
             StartGrant(c, u, role)
      PROVE  TypeInv'
  <2>1. TablesOK' /\ HistoryOK' /\ codes' = codes
    BY <1>2 DEF StartGrant, Starts, TypeInv, TablesOK, HistoryOK
  <2> QED BY <1>2, <2>1, StartGrantBegins, BeginsTypes
<1>3. ASSUME NEW c \in Chains, NEW u \in Users, StartBackfill(c, u) PROVE TypeInv'
  <2>1. TablesOK' /\ HistoryOK' /\ codes' = codes
    BY <1>3 DEF StartBackfill, Starts, TypeInv, TablesOK, HistoryOK
  <2> QED BY <1>3, <2>1, StartBackfillBegins, BeginsTypes
<1>4. ASSUME NEW c \in Chains, ReadMapping(c) PROVE TypeInv'
  BY <1>4, ReadMappingContinues, ContinuesTypes DEF ReadMapping, TypeInv, TablesOK, HistoryOK
<1>5. ASSUME NEW c \in Chains, ReadLegacy(c) PROVE TypeInv'
  BY <1>5, ReadLegacyContinues, ContinuesTypes DEF ReadLegacy, TypeInv, TablesOK, HistoryOK
<1>6. ASSUME NEW c \in Chains, ReadChat(c) PROVE TypeInv'
  BY <1>6, ReadChatContinues, ContinuesTypes DEF ReadChat, TypeInv, TablesOK, HistoryOK
<1>7. ASSUME NEW c \in Chains, WriteProfile(c) PROVE TypeInv'
  <2>1. UserOf(c) \in Users /\ IdOf(c) \in Ids \cup {NoId}
    BY <1>7, ChainTypes DEF WriteProfile, TypeInv, At
  <2>2. TablesOK' /\ HistoryOK' /\ codes' = codes
    BY <1>7, <2>1, UpsertProfileOK DEF WriteProfile, TypeInv, TablesOK, HistoryOK
  <2> QED BY <1>7, <2>2, WriteProfileContinues, ContinuesTypes
<1>8. ASSUME NEW c \in Chains, WriteMapping(c) PROVE TypeInv'
  <2>1. UserOf(c) \in Users /\ IdOf(c) \in Ids \cup {NoId}
    BY <1>8, ChainTypes DEF WriteMapping, TypeInv, At
  <2>2. TablesOK' /\ HistoryOK' /\ codes' = codes
    BY <1>8, <2>1, InsertMappingOK DEF WriteMapping, TypeInv, TablesOK, HistoryOK
  <2> QED BY <1>8, <2>2, WriteMappingContinues, ContinuesTypes
<1>9. ASSUME NEW c \in Chains, ReadRole(c) PROVE TypeInv'
  BY <1>9, ReadRoleContinues, ContinuesTypes DEF ReadRole, TypeInv, TablesOK, HistoryOK
<1>10. ASSUME NEW c \in Chains, CodeNotFound(c) PROVE TypeInv'
  BY <1>10, EndsTypes DEF CodeNotFound, TypeInv, TablesOK, HistoryOK
<1>11. ASSUME NEW c \in Chains, NEW d \in Chains, NEW victim \in Chains, Deadlock(c, d, victim)
       PROVE  TypeInv'
  BY <1>11, EndsTypes DEF Deadlock, TypeInv, TablesOK, HistoryOK
<1>12. ASSUME NEW c \in Chains, Backfill(c) PROVE TypeInv'
  <2>1. UserOf(c) \in Users /\ IdOf(c) \in Ids \cup {NoId}
    BY <1>12, ChainTypes DEF Backfill, TypeInv, At
  <2>2. TablesOK' /\ HistoryOK' /\ codes' = codes
    BY <1>12, <2>1, InsertMappingOK DEF Backfill, TypeInv, TablesOK, HistoryOK
  <2> QED BY <1>12, <2>2, EndsTypes DEF Backfill
<1>13. ASSUME NEW c \in Chains, Fails(c) PROVE TypeInv'
  <2>1. TablesOK' /\ HistoryOK' /\ codes' = codes
    BY <1>13 DEF Fails, TypeInv, TablesOK, HistoryOK
  <2> QED BY <1>13, <2>1, FailsContinues, ContinuesTypes
<1>14. CASE UNCHANGED vars
  <2>1. ChainsOK' /\ TablesOK' /\ HistoryOK' /\ CodeLinksOnce'
    BY <1>14 DEF vars, TypeInv, ChainsOK, TablesOK, HistoryOK, CodeLinksOnce, At
  <2> QED BY <2>1 DEF TypeInv
<1> QED BY <1>1, <1>2, <1>3, <1>4, <1>5, <1>6, <1>7, <1>8, <1>9, <1>10, <1>11, <1>12, <1>13,
           <1>14, IssueOK, LinkOK, LockCodeOK, RewriteOK, WriteRoleOK, ExpireOK DEF Next

LEMMA TypeInvImplies == TypeInv => TypeOK
BY DEF TypeInv, ChainsOK, ChainOK, ChainStates, TablesOK, HistoryOK, TypeOK, At, UserOf

(* Types hold, and what goes with them: a chain that is under way has a    *)
(* user, a code that is in use an id (src/users).                          *)
THEOREM TypeCorrect == Spec => []TypeOK
<1>1. Spec => []TypeInv
  BY InitTypeInv, TypeInvNext, PTL DEF Spec
<1> QED BY <1>1, TypeInvImplies, PTL

(* A code links its user once: whatever confirmations, new codes, expiries *)
(* and upgrades meet, one that got the row finds the code pending, and is  *)
(* alone with it (confirmLinkCode).                                        *)
THEOREM CodeLinksOnceHolds == Spec => []CodeLinksOnce
<1>1. Spec => []TypeInv
  BY InitTypeInv, TypeInvNext, PTL DEF Spec
<1>2. TypeInv => CodeLinksOnce
  BY DEF TypeInv
<1> QED BY <1>1, <1>2, PTL

-----------------------------------------------------------------------------
(* Ids *)

(* The user goes by this id: IdsOf, as a predicate. *)
Has(u, id) ==
    \/ profile[u].id = id \/ mapping[u] = id \/ links[u] = id
    \/ \E k \in Codes : codes[k].user = u /\ codes[k].id = id
    \/ \E c \in Chains : UserOf(c) = u /\ IdOf(c) = id

LEMMA IdsOfHas == \A u, id : id \in IdsOf(u) <=> Has(u, id)
BY DEF IdsOf, Has

(* No id is of two users; the legacy id of a user is of nobody else; an id *)
(* that has not been drawn is of nobody.  The last two are why a new id,   *)
(* or a legacy one written late, clashes with none.                        *)
SepInv ==
    /\ \A u, w \in Users : \A id \in Ids : Has(u, id) /\ Has(w, id) => u = w
    /\ \A u, id \in Users : Has(u, id) => id = u
    /\ \A u \in Users : \A id \in NewIds : Has(u, id) => id \in drawn

(* One user may gain an id, of a kind that nobody else has.                *)
Gained(u, id) == id = NoId \/ Has(u, id) \/ id = u \/ (id \in NewIds /\ id \notin drawn)

LEMMA OneGains ==
  ASSUME SepInv, NEW u \in Users, drawn \subseteq drawn',
         \A id \in Ids : Has(u, id)' => Gained(u, id) /\ (id \in NewIds => Has(u, id) \/ id \in drawn'),
         \A w \in Users \ {u} : \A id \in Ids : Has(w, id)' => Has(w, id)
  PROVE  SepInv'
<1>1. \A w, x \in Users : \A id \in Ids : Has(w, id)' /\ Has(x, id)' => w = x
  <2> SUFFICES ASSUME NEW w \in Users, w # u, NEW id \in Ids, Has(w, id)', Has(u, id)'
               PROVE  FALSE
    BY DEF SepInv
  <2>1. Has(w, id) /\ Gained(u, id)
    OBVIOUS
  <2> QED BY <2>1 DEF SepInv, Gained, Ids
<1>2. \A w, id \in Users : Has(w, id)' => id = w
  BY DEF SepInv, Gained, Ids
<1>3. \A w \in Users : \A id \in NewIds : Has(w, id)' => id \in drawn'
  BY DEF SepInv, Ids
<1> QED BY <1>1, <1>2, <1>3 DEF SepInv

(* A value that a step of u may write: nothing, or an id that u has or may *)
(* gain, drawn by now if it is a new one.                                  *)
Mine(u, id, drawnNow) == Gained(u, id) /\ (id \in NewIds => Has(u, id) \/ id \in drawnNow)

OthersKept(u) == \A w \in Users \ {u} :
    profile'[w].id = profile[w].id /\ mapping'[w] = mapping[w] /\ links'[w] = links[w]

CodesMine(u) == \A k \in Codes :
    \/ codes'[k].user = codes[k].user /\ codes'[k].id = codes[k].id
    \/ codes'[k].user = u /\ Mine(u, codes'[k].id, drawn')
    \/ codes'[k].user \notin Users

RowsMine(u) ==
    Mine(u, profile'[u].id, drawn') /\ Mine(u, mapping'[u], drawn') /\ Mine(u, links'[u], drawn')

(* A step for a user writes ids of this user only. *)
LEMMA StepOfUser ==
  ASSUME TypeInv, SepInv, NEW u \in Users, NEW c \in Chains, NEW ch, Moves(c, ch),
         ch.user \in {NoUser, u}, Mine(u, ch.id, drawn'),
         drawn \subseteq drawn',
         RowsMine(u), OthersKept(u), CodesMine(u)
  PROVE  SepInv'
<1>1. chains'[c] = ch /\ \A d \in Chains : d # c => chains'[d] = chains[d]
  BY DEF Moves, TypeInv, ChainsOK
<1>2. ASSUME NEW id \in Ids, Has(u, id)' PROVE Mine(u, id, drawn')
  <2>1. CASE profile'[u].id = id \/ mapping'[u] = id \/ links'[u] = id
    BY <2>1 DEF RowsMine
  <2>2. ASSUME NEW k \in Codes, codes'[k].user = u, codes'[k].id = id PROVE Mine(u, id, drawn')
    BY <2>2 DEF CodesMine, Has, Mine, Gained
  <2>3. ASSUME NEW d \in Chains, chains'[d].user = u, chains'[d].id = id PROVE Mine(u, id, drawn')
    BY <1>1, <2>3 DEF Has, Mine, Gained, UserOf, IdOf
  <2> QED BY <1>2, <2>1, <2>2, <2>3 DEF Has, UserOf, IdOf
<1>3. ASSUME NEW w \in Users \ {u}, NEW id \in Ids, Has(w, id)' PROVE Has(w, id)
  <2>1. CASE profile'[w].id = id \/ mapping'[w] = id \/ links'[w] = id
    BY <2>1 DEF OthersKept, Has
  <2>2. ASSUME NEW k \in Codes, codes'[k].user = w, codes'[k].id = id PROVE Has(w, id)
    BY <2>2 DEF CodesMine, Has
  <2>3. ASSUME NEW d \in Chains, chains'[d].user = w, chains'[d].id = id PROVE Has(w, id)
    <3>1. d # c
      BY <1>1, <2>3
    <3> QED BY <1>1, <2>3, <3>1 DEF Has, UserOf, IdOf
  <2> QED BY <1>3, <2>1, <2>2, <2>3 DEF Has, UserOf, IdOf
<1> QED BY <1>2, <1>3, OneGains DEF Mine

LEMMA MineNoId == \A u \in Users : \A d : Mine(u, NoId, d)
BY DEF Mine, Gained

LEMMA MineHas ==
  ASSUME NEW u, NEW id, NEW d, Has(u, id)
  PROVE  Mine(u, id, d)
BY DEF Mine, Gained

LEMMA OwnTables ==
  ASSUME NEW u, NEW d
  PROVE  Mine(u, profile[u].id, d) /\ Mine(u, mapping[u], d) /\ Mine(u, links[u], d)
BY MineHas DEF Has

LEMMA OwnChain ==
  ASSUME NEW c \in Chains, NEW d
  PROVE  Mine(UserOf(c), IdOf(c), d)
BY MineHas DEF Has

LEMMA InitSepInv == Init => SepInv
<1> SUFFICES ASSUME Init PROVE SepInv
  OBVIOUS
<1>1. PICK old \in SUBSET Users, filled \in SUBSET Users :
        /\ profile = [u \in Users |-> Row(IF u \in old THEN u ELSE NoId, DefaultRole(u))]
        /\ mapping = [u \in Users |-> IF u \in filled THEN u ELSE NoId]
  BY DEF Init
<1>2. \A u \in Users : profile[u].id \in {u, NoId} /\ mapping[u] \in {u, NoId} /\ links[u] = NoId
  BY <1>1 DEF Init, Row
<1>3. \A k \in Codes : codes[k].id = NoId
  BY DEF Init, NewCode
<1>4. \A c \in Chains : IdOf(c) = NoId
  BY DEF Init, NoChain, IdOf
<1>5. \A u \in Users : \A id \in Ids : Has(u, id) => id = u
  BY <1>2, <1>3, <1>4 DEF Has, Ids
<1> QED BY <1>5 DEF SepInv, Ids

(* A step that leaves the tables alone and goes on with an id of the user. *)
LEMMA ChainSep ==
  ASSUME TypeInv, SepInv, NEW u \in Users, NEW c \in Chains, NEW ch, Moves(c, ch),
         ch.user \in {NoUser, u}, Mine(u, ch.id, drawn'), drawn \subseteq drawn',
         UNCHANGED tables
  PROVE  SepInv'
<1>1. profile' = profile /\ mapping' = mapping /\ links' = links /\ codes' = codes
  BY DEF tables
<1>2. RowsMine(u)
  BY <1>1, OwnTables DEF RowsMine
<1>3. OthersKept(u) /\ CodesMine(u)
  BY <1>1 DEF OthersKept, CodesMine
<1> QED BY <1>2, <1>3, StepOfUser

LEMMA ContinuesSep ==
  ASSUME TypeInv, SepInv, NEW c \in Chains, NEW ch, NEW ids, ~At(c, "idle"),
         Continues(c, ch, ids), \A id \in ids : Mine(UserOf(c), id, drawn'),
         drawn \subseteq drawn', UNCHANGED tables
  PROVE  SepInv'
<1>1. UserOf(c) \in Users
  BY ChainTypes DEF TypeInv
<1>2. ch.user \in {NoUser, UserOf(c)} /\ Mine(UserOf(c), ch.id, drawn') /\ Moves(c, ch)
  BY <1>1, MineNoId DEF Continues, GoesOn, NoChain
<1> QED BY <1>1, <1>2, ChainSep

LEMMA EndsSep ==
  ASSUME TypeInv, SepInv, NEW c \in Chains, ~At(c, "idle"), Ends(c),
         drawn' = drawn, UNCHANGED tables
  PROVE  SepInv'
<1>1. Continues(c, NoChain, {})
  BY EndsContinues
<1> QED BY <1>1, ContinuesSep

LEMMA BeginsSep ==
  ASSUME TypeInv, SepInv, NEW c \in Chains, NEW ch, NEW ids, NEW u \in Users,
         Begins(c, ch, u, ids), \A id \in ids : Mine(u, id, drawn'),
         drawn' = drawn, UNCHANGED tables
  PROVE  SepInv'
<1>1. ch.user \in {NoUser, u} /\ Mine(u, ch.id, drawn') /\ Moves(c, ch)
  BY MineNoId DEF Begins
<1> QED BY <1>1, ChainSep

LEMMA ReadChatSep ==
  ASSUME TypeInv, SepInv, NEW c \in Chains, ReadChat(c)
  PROVE  SepInv'
<1>1. PICK ch, id : /\ Continues(c, ch, {id})
                    /\ id = profile[UserOf(c)].id \/ id \in drawn' \ drawn
  BY ReadChatContinues
<1>2. drawn \subseteq drawn' /\ drawn' \subseteq NewIds
  BY ReadChatContinues
<1>3. Mine(UserOf(c), id, drawn')
  BY <1>1, <1>2, OwnTables DEF Mine, Gained
<1>4. ~At(c, "idle") /\ UNCHANGED tables
  BY DEF ReadChat, At
<1> QED BY <1>1, <1>2, <1>3, <1>4, ContinuesSep

LEMMA WriteProfileSep ==
  ASSUME TypeInv, SepInv, NEW c \in Chains, WriteProfile(c)
  PROVE  SepInv'
<1> DEFINE u == UserOf(c)
<1>1. u \in Users /\ IdOf(c) \in Ids \cup {NoId} /\ ~At(c, "idle")
  BY ChainTypes DEF WriteProfile, TypeInv, At
<1>2. PICK ch : Continues(c, ch, {IdOf(c)})
  BY WriteProfileContinues
<1>3. ch.user \in {NoUser, u} /\ Mine(u, ch.id, drawn') /\ Moves(c, ch)
  BY <1>1, <1>2, MineNoId, OwnChain DEF Continues, GoesOn, NoChain
<1>4. /\ \A w \in Users \ {u} : profile'[w].id = profile[w].id
      /\ profile'[u].id \in {profile[u].id, IdOf(c)}
  BY <1>1, UpsertProfileOK DEF WriteProfile, TypeInv
<1>5. mapping' = mapping /\ links' = links /\ codes' = codes /\ drawn' = drawn
  BY DEF WriteProfile
<1>6. RowsMine(u)
  BY <1>4, <1>5, OwnTables, OwnChain DEF RowsMine
<1>7. OthersKept(u) /\ CodesMine(u) /\ drawn \subseteq drawn'
  BY <1>4, <1>5 DEF OthersKept, CodesMine
<1> QED BY <1>1, <1>3, <1>6, <1>7, StepOfUser

LEMMA MappedSep ==
  ASSUME TypeInv, SepInv, NEW c \in Chains, ~At(c, "idle"), InsertMapping(UserOf(c), IdOf(c)),
         NEW ch, Continues(c, ch, {}), UNCHANGED <<profile, links, codes, drawn>>
  PROVE  SepInv'
<1> DEFINE u == UserOf(c)
<1>1. u \in Users /\ IdOf(c) \in Ids \cup {NoId}
  BY ChainTypes DEF TypeInv
<1>2. ch.user \in {NoUser, u} /\ Mine(u, ch.id, drawn') /\ Moves(c, ch)
  BY <1>1, MineNoId DEF Continues, GoesOn, NoChain
<1>3. /\ \A w \in Users \ {u} : mapping'[w] = mapping[w]
      /\ mapping'[u] \in {mapping[u], IdOf(c)}
  BY <1>1, InsertMappingOK DEF TypeInv
<1>4. RowsMine(u)
  BY <1>3, OwnTables, OwnChain DEF RowsMine
<1>5. OthersKept(u) /\ CodesMine(u) /\ drawn \subseteq drawn'
  BY <1>3 DEF OthersKept, CodesMine
<1> QED BY <1>1, <1>2, <1>4, <1>5, StepOfUser

LEMMA IssueSep ==
  ASSUME TypeInv, SepInv, NEW c \in Chains, Issue(c)
  PROVE  SepInv'
<1> DEFINE u == UserOf(c)
<1>1. u \in Users /\ At(c, "issue") /\ ~At(c, "idle")
  BY ChainTypes DEF TypeInv, Issue, At
<1>2. PICK k \in Codes : IssueCode(c, k)
  BY DEF Issue, IssueCode
<1>3. CodeId(c) \in {u, IdOf(c)}
  BY <1>1, CodeIdOK DEF TypeInv
<1>4. Mine(u, CodeId(c), drawn')
  BY <1>1, <1>3, OwnChain DEF Mine, Gained
<1>5. /\ codes'[k].user = u /\ codes'[k].id = CodeId(c)
      /\ \A j \in Codes : j # k => codes'[j] = codes[j]
  BY <1>2 DEF IssueCode, TypeInv, TablesOK
<1>6. Moves(c, NoChain) /\ NoChain.user = NoUser /\ NoChain.id = NoId
  BY DEF Issue, Ends, NoChain
<1>7. profile' = profile /\ mapping' = mapping /\ links' = links /\ drawn' = drawn
  BY DEF Issue
<1>8. RowsMine(u) /\ Mine(u, NoChain.id, drawn')
  BY <1>1, <1>6, <1>7, OwnTables, MineNoId DEF RowsMine
<1>9. OthersKept(u) /\ CodesMine(u) /\ drawn \subseteq drawn'
  BY <1>4, <1>5, <1>7 DEF OthersKept, CodesMine
<1> QED BY <1>1, <1>6, <1>8, <1>9, StepOfUser

LEMMA LinkSep ==
  ASSUME TypeInv, SepInv, NEW c \in Chains, Link(c)
  PROVE  SepInv'
<1> DEFINE u == UserOf(c)
           spent == chains[c].code
<1>1. u \in Users /\ IdOf(c) \in Ids \cup {NoId} /\ spent \in Codes
  BY ChainTypes DEF TypeInv, Link, At
<1>2. /\ links' = [links EXCEPT ![u] = IdOf(c)] /\ mapping' = [mapping EXCEPT ![u] = IdOf(c)]
      /\ codes' = [codes EXCEPT ![spent].status = "consumed"]
      /\ profile' = profile /\ drawn' = drawn
  BY DEF Link
<1>3. links'[u] = IdOf(c) /\ mapping'[u] = IdOf(c)
  BY <1>1, <1>2 DEF TypeInv, TablesOK
<1>4. RowsMine(u)
  BY <1>2, <1>3, OwnTables, OwnChain DEF RowsMine
<1>5. OthersKept(u)
  BY <1>1, <1>2 DEF OthersKept, TypeInv, TablesOK
<1>6. \A k \in Codes : codes'[k].user = codes[k].user /\ codes'[k].id = codes[k].id
  BY <1>1, <1>2 DEF TypeInv, TablesOK
<1>7. CodesMine(u) /\ drawn \subseteq drawn'
  BY <1>2, <1>6 DEF CodesMine
<1>8. Moves(c, NoChain) /\ NoChain.user = NoUser /\ Mine(u, NoChain.id, drawn')
  BY <1>1, MineNoId DEF Link, Ends, NoChain
<1> QED BY <1>1, <1>4, <1>5, <1>7, <1>8, StepOfUser

LEMMA LockCodeSep ==
  ASSUME TypeInv, SepInv, NEW c \in Chains, NEW k \in Codes, LockCode(c, k)
  PROVE  SepInv'
<1>1. ~At(c, "idle") /\ UserOf(c) \in Users /\ drawn' = drawn /\ UNCHANGED tables
  BY ChainTypes DEF LockCode, TypeInv, At
<1>2. CASE Ends(c)
  BY <1>1, <1>2, EndsSep
<1>3. ASSUME Confirmable(k, UserOf(c)), NEW ch, Locks(c, k, ch) PROVE SepInv'
  <2>1. Has(UserOf(c), codes[k].id)
    BY <1>3 DEF Has, Confirmable
  <2>2. Mine(UserOf(c), ch.id, drawn') /\ ch.user = UserOf(c) /\ Moves(c, ch)
    BY <1>3, <2>1, MineHas DEF Locks, GoesOn
  <2> QED BY <1>1, <2>2, ChainSep
<1> QED BY <1>2, <1>3, LockCodeGoes

LEMMA RewriteSep ==
  ASSUME TypeInv, SepInv, NEW c \in Chains, Rewrite(c)
  PROVE  SepInv'
<1> DEFINE u == UserOf(c)
           old == IdOf(c)
           new == NewId
<1>1. u \in Users /\ old \in Ids /\ old # NoId /\ At(c, "rewrite")
  BY ChainTypes DEF Rewrite, TypeInv, At, ChainsOK, ChainOK, IdOf
<1>2. new \in NewIds \ drawn
  BY NewIdIsNew DEF Rewrite, TypeInv
<1>3. /\ profile' = [w \in Users |-> [profile[w] EXCEPT !.id = Renamed(@, old, new)]]
      /\ mapping' = [mapping EXCEPT ![u] = IF @ = NoId THEN @ ELSE new]
      /\ links' = [w \in Users |-> Renamed(links[w], old, new)]
      /\ codes' = [k \in Codes |-> [codes[k] EXCEPT !.id = Renamed(@, old, new)]]
      /\ drawn' = drawn \cup {new}
  BY DEF Rewrite, RewriteLinks
<1>4. Mine(u, new, drawn')
  BY <1>2, <1>3 DEF Mine, Gained
<1>5. \A w \in Users : Has(w, old) => w = u
  <2>1. Has(u, old)
    BY DEF Has
  <2> QED BY <1>1, <2>1 DEF SepInv
<1>6. \A w \in Users : /\ profile'[w].id = Renamed(profile[w].id, old, new)
                       /\ links'[w] = Renamed(links[w], old, new)
  BY <1>3 DEF TypeInv, TablesOK
<1>7. OthersKept(u)
  <2>1. \A w \in Users \ {u} : profile[w].id # old /\ links[w] # old
    BY <1>5 DEF Has
  <2>2. \A w \in Users \ {u} : mapping'[w] = mapping[w]
    BY <1>1, <1>3 DEF TypeInv, TablesOK
  <2> QED BY <1>6, <2>1, <2>2 DEF OthersKept, Renamed
<1>8. RowsMine(u)
  <2>1. mapping'[u] \in {mapping[u], new}
    BY <1>1, <1>3 DEF TypeInv, TablesOK
  <2>2. profile'[u].id \in {profile[u].id, new} /\ links'[u] \in {links[u], new}
    BY <1>1, <1>6 DEF Renamed
  <2> QED BY <1>4, <2>1, <2>2, OwnTables DEF RowsMine
<1>9. CodesMine(u)
  <2>0. \A k \in Codes : codes'[k].user = codes[k].user /\ codes'[k].id = Renamed(codes[k].id, old, new)
    BY <1>3 DEF TypeInv, TablesOK
  <2> SUFFICES ASSUME NEW k \in Codes, codes[k].user \in Users
               PROVE  \/ codes'[k].user = codes[k].user /\ codes'[k].id = codes[k].id
                      \/ codes'[k].user = u /\ Mine(u, codes'[k].id, drawn')
    BY <2>0 DEF CodesMine
  <2>1. codes'[k].user = codes[k].user /\ codes'[k].id = Renamed(codes[k].id, old, new)
    BY <2>0
  <2>2. Has(codes[k].user, codes[k].id)
    BY DEF Has
  <2>3. CASE codes[k].id = old
    BY <1>4, <1>5, <2>1, <2>2, <2>3 DEF Renamed
  <2>4. CASE codes[k].id # old
    BY <2>1, <2>4 DEF Renamed
  <2> QED BY <2>3, <2>4
<1>10. Moves(c, NoChain) /\ NoChain.user = NoUser /\ Mine(u, NoChain.id, drawn')
  BY <1>1, MineNoId DEF Rewrite, Ends, NoChain
<1>11. drawn \subseteq drawn'
  BY <1>3
<1> QED BY <1>1, <1>7, <1>8, <1>9, <1>10, <1>11, StepOfUser

LEMMA WriteRoleSep ==
  ASSUME TypeInv, SepInv, NEW c \in Chains, WriteRole(c)
  PROVE  SepInv'
<1> DEFINE u == UserOf(c)
<1>1. u \in Users
  BY ChainTypes DEF WriteRole, TypeInv, At
<1>2. \A w \in Users : profile'[w].id = profile[w].id
  BY DEF WriteRole, Row, TypeInv, TablesOK
<1>3. mapping' = mapping /\ links' = links /\ codes' = codes /\ drawn' = drawn
  BY DEF WriteRole
<1>4. RowsMine(u) /\ OthersKept(u) /\ CodesMine(u) /\ drawn \subseteq drawn'
  BY <1>1, <1>2, <1>3, OwnTables DEF RowsMine, OthersKept, CodesMine
<1>5. Moves(c, NoChain) /\ NoChain.user = NoUser /\ Mine(u, NoChain.id, drawn')
  BY <1>1, MineNoId DEF WriteRole, Ends, NoChain
<1> QED BY <1>1, <1>4, <1>5, StepOfUser

LEMMA SepNext == TypeInv /\ SepInv /\ [Next]_vars => SepInv'
<1> SUFFICES ASSUME TypeInv, SepInv, [Next]_vars PROVE SepInv'
  OBVIOUS
<1>1. ASSUME NEW c \in Chains, NEW u \in Users, NEW cmd \in Commands, Receive(c, u, cmd)
      PROVE  SepInv'
  BY <1>1, ReceiveBegins, BeginsSep DEF Receive
<1>2. ASSUME NEW c \in Chains, NEW u \in Users, NEW role \in GrantRoles \cup {"guest"},
             StartGrant(c, u, role)
      PROVE  SepInv'
  <2>1. \A id \in {mapping[u], profile[u].id} : Mine(u, id, drawn')
    BY OwnTables
  <2>2. PICK ch : Begins(c, ch, u, {mapping[u], profile[u].id})
    BY <1>2, StartGrantBegins
  <2>3. drawn' = drawn /\ UNCHANGED tables
    BY <1>2 DEF StartGrant
  <2> QED BY <2>1, <2>2, <2>3, BeginsSep
<1>3. ASSUME NEW c \in Chains, NEW u \in Users, StartBackfill(c, u) PROVE SepInv'
  <2>1. \A id \in {profile[u].id} : Mine(u, id, drawn')
    BY OwnTables
  <2>2. PICK ch : Begins(c, ch, u, {profile[u].id})
    BY <1>3, StartBackfillBegins
  <2>3. drawn' = drawn /\ UNCHANGED tables
    BY <1>3 DEF StartBackfill
  <2> QED BY <2>1, <2>2, <2>3, BeginsSep
<1>4. ASSUME NEW c \in Chains, ReadMapping(c) PROVE SepInv'
  <2>1. \A id \in {mapping[UserOf(c)], IdOf(c)} : Mine(UserOf(c), id, drawn')
    BY OwnTables, OwnChain
  <2>2. ~At(c, "idle") /\ drawn \subseteq drawn' /\ UNCHANGED tables
    BY <1>4 DEF ReadMapping, At
  <2> QED BY <1>4, <2>1, <2>2, ReadMappingContinues, ContinuesSep
<1>5. ASSUME NEW c \in Chains, ReadLegacy(c) PROVE SepInv'
  <2>1. \A id \in {profile[UserOf(c)].id} : Mine(UserOf(c), id, drawn')
    BY OwnTables
  <2>2. ~At(c, "idle") /\ drawn \subseteq drawn' /\ UNCHANGED tables
    BY <1>5 DEF ReadLegacy, At
  <2> QED BY <1>5, <2>1, <2>2, ReadLegacyContinues, ContinuesSep
<1>6. ASSUME NEW c \in Chains, WriteMapping(c) PROVE SepInv'
  BY <1>6, WriteMappingContinues, MappedSep DEF WriteMapping, At
<1>7. ASSUME NEW c \in Chains, Backfill(c) PROVE SepInv'
  BY <1>7, EndsContinues, MappedSep DEF Backfill, At
<1>8. ASSUME NEW c \in Chains, ReadRole(c) PROVE SepInv'
  <2>1. ~At(c, "idle") /\ drawn \subseteq drawn' /\ UNCHANGED tables
    BY <1>8 DEF ReadRole, At
  <2> QED BY <1>8, <2>1, ReadRoleContinues, ContinuesSep
<1>9. ASSUME NEW c \in Chains, Fails(c) PROVE SepInv'
  <2>1. \A id \in {IdOf(c)} : Mine(UserOf(c), id, drawn')
    BY OwnChain
  <2>2. ~At(c, "idle") /\ drawn \subseteq drawn' /\ UNCHANGED tables
    BY <1>9 DEF Fails, At
  <2> QED BY <1>9, <2>1, <2>2, FailsContinues, ContinuesSep
<1>10. ASSUME NEW c \in Chains, CodeNotFound(c) PROVE SepInv'
  BY <1>10, EndsSep DEF CodeNotFound, At
<1>11. ASSUME NEW c \in Chains, NEW d \in Chains, NEW victim \in Chains, Deadlock(c, d, victim)
       PROVE  SepInv'
  BY <1>11, EndsSep DEF Deadlock, Holds, At
<1>12. ASSUME NEW k \in Codes, Expire(k) PROVE SepInv'
  <2>1. \A j \in Codes : codes'[j].id = codes[j].id /\ codes'[j].user = codes[j].user
    BY <1>12, ExpireOK
  <2>2. \A u, id : Has(u, id)' => Has(u, id)
    BY <1>12, <2>1 DEF Has, Expire, UserOf, IdOf
  <2>3. drawn' = drawn
    BY <1>12 DEF Expire
  <2> QED BY <2>2, <2>3 DEF SepInv
<1>13. CASE UNCHANGED vars
  <2>1. \A u, id : Has(u, id)' => Has(u, id)
    BY <1>13 DEF vars, Has, UserOf, IdOf
  <2>2. drawn' = drawn
    BY <1>13 DEF vars
  <2> QED BY <2>1, <2>2 DEF SepInv
<1> QED BY <1>1, <1>2, <1>3, <1>4, <1>5, <1>6, <1>7, <1>8, <1>9, <1>10, <1>11, <1>12, <1>13,
           ReadChatSep, WriteProfileSep, IssueSep, LinkSep, LockCodeSep, RewriteSep, WriteRoleSep
        DEF Next

LEMMA SepImplies == TypeInv /\ SepInv => IdsSeparate
<1> SUFFICES ASSUME TypeInv, SepInv, NEW u \in Users, NEW w \in Users, u # w,
                    NEW id, id \in IdsOf(u), id \in IdsOf(w), id # NoId
             PROVE  FALSE
  BY DEF IdsSeparate
<1>1. Has(u, id) /\ Has(w, id)
  BY IdsOfHas
<1>2. id \in Ids
  BY <1>1 DEF Has, TypeInv, TablesOK, ChainsOK, ChainStates, IdOf
<1> QED BY <1>1, <1>2 DEF SepInv

LEMMA Invariants == Spec => [](TypeInv /\ SepInv)
BY InitTypeInv, InitSepInv, TypeInvNext, SepNext, PTL DEF Spec

(* No two users go by one global id, whatever first contacts, link codes,  *)
(* backfills and upgrades do at the same time (src/users, confirmLinkCode).*)
THEOREM IdsSeparateHolds == Spec => []IdsSeparate
BY Invariants, SepImplies, PTL

-----------------------------------------------------------------------------
(* Roles *)

LEMMA RoleNext == TypeInv /\ SepInv /\ RoleFromGrant /\ [Next]_vars => RoleFromGrant'
<1> SUFFICES ASSUME TypeInv, SepInv, RoleFromGrant, [Next]_vars PROVE RoleFromGrant'
  OBVIOUS
<1>1. ASSUME NEW c \in Chains, WriteProfile(c) PROVE RoleFromGrant'
  <2>1. UserOf(c) \in Users /\ IdOf(c) \in Ids \cup {NoId}
    BY <1>1, ChainTypes DEF WriteProfile, TypeInv, At
  <2>2. /\ \A w \in Users : w # UserOf(c) => profile'[w] = profile[w]
        /\ profile'[UserOf(c)].role = DefaultRole(UserOf(c))
    BY <1>1, <2>1, UpsertProfileOK DEF WriteProfile, TypeInv
  <2>3. granted' = granted
    BY <1>1 DEF WriteProfile
  <2> QED BY <2>2, <2>3 DEF RoleFromGrant
<1>2. ASSUME NEW c \in Chains, WriteRole(c) PROVE RoleFromGrant'
  <2> DEFINE u == UserOf(c)
             role == chains[c].role
  <2>1. u \in Users /\ IdOf(c) \in Ids /\ IdOf(c) # NoId /\ At(c, "write_role")
    BY <1>2, ChainTypes DEF WriteRole, TypeInv, At, ChainsOK, ChainOK, IdOf
  <2>2. \A w \in Users : profile[w].id = IdOf(c) => w = u
    BY <2>1 DEF SepInv, Has
  <2>3. granted' = [granted EXCEPT ![u] = @ \cup ({role} \ {"guest"})]
    BY <1>2 DEF WriteRole
  <2>4. granted'[u] = granted[u] \cup ({role} \ {"guest"})
        /\ \A w \in Users : w # u => granted'[w] = granted[w]
    BY <2>1, <2>3 DEF TypeInv, HistoryOK
  <2>5. \A w \in Users : profile'[w].role = IF profile[w].id = IdOf(c) THEN role ELSE profile[w].role
    BY <1>2 DEF WriteRole, Row
  <2>6. \A w \in Users : w # u => profile'[w].role = profile[w].role
    BY <2>2, <2>5
  <2>7. profile'[u].role \in {profile[u].role, role}
    BY <2>1, <2>5
  <2> QED BY <2>1, <2>4, <2>6, <2>7 DEF RoleFromGrant
<1>3. ASSUME NEW c \in Chains, Rewrite(c) PROVE RoleFromGrant'
  <2>1. \A w \in Users : profile'[w].role = profile[w].role
    BY <1>3 DEF Rewrite, TypeInv, TablesOK
  <2>2. granted' = granted
    BY <1>3 DEF Rewrite
  <2> QED BY <2>1, <2>2 DEF RoleFromGrant
<1>4. CASE UNCHANGED <<profile, granted>>
  BY <1>4 DEF RoleFromGrant
<1> QED BY <1>1, <1>2, <1>3, <1>4 DEF Next, vars, tables, Receive, StartGrant, StartBackfill, ReadMapping,
           ReadLegacy, ReadChat, WriteMapping, ReadRole, Issue, CodeNotFound, Link, LockCode, Deadlock,
           Backfill, Fails, Expire

LEMMA InitRole == Init => RoleFromGrant
BY DEF Init, RoleFromGrant, Row

(* A role above the default was granted to this very user, although /grant *)
(* looks an id up and writes the role by it later (updateRoleByGlobalUserId).*)
THEOREM RoleFromGrantHolds == Spec => []RoleFromGrant
BY Invariants, InitRole, RoleNext, PTL DEF Spec

-----------------------------------------------------------------------------
(* Links *)

(* What an upgrade under way knows of the link of its user, unless a       *)
(* confirmation has overtaken it.                                          *)
UpgradeOK(ch) == ch.goal = "upgrade" =>
    /\ ch.at = "legacy"  => ch.user \in overtaken \/ links[ch.user] = NoId
    /\ ch.at = "rewrite" => ch.user \in overtaken \/ links[ch.user] \in {NoId, ch.id}

UpgradesOK == \A c \in Chains : UpgradeOK(chains[c])

LinkInv == LinksMatch /\ UpgradesOK

LEMMA UpgradeNoChain == UpgradeOK(NoChain)
BY DEF UpgradeOK, NoChain

(* A step that changes neither the mapping nor a link. *)
LEMMA ReadsLinks ==
  ASSUME TypeInv, LinkInv, NEW c \in Chains, NEW ch, Moves(c, ch), UpgradeOK(ch),
         UNCHANGED <<mapping, links, overtaken>>
  PROVE  LinkInv'
<1>1. chains'[c] = ch /\ \A d \in Chains : d # c => chains'[d] = chains[d]
  BY DEF Moves, TypeInv, ChainsOK
<1>2. UpgradesOK'
  BY <1>1 DEF LinkInv, UpgradesOK, UpgradeOK
<1> QED BY <1>2 DEF LinkInv, LinksMatch

LEMMA ReadMappingUp ==
  ASSUME TypeInv, LinkInv, NEW c \in Chains, ReadMapping(c)
  PROVE  \E ch : Moves(c, ch) /\ UpgradeOK(ch)
<1> DEFINE u == UserOf(c)
<1>1. ~At(c, "idle") /\ ChainsOK /\ u \in Users /\ mapping[u] \in Ids \cup {NoId}
  BY ChainTypes DEF ReadMapping, At, TypeInv, TablesOK
<1>2. CASE mapping[u] # NoId
  <2>1. PICK ch : Resolves(c, mapping[u], ch)
    <3>1. Resolved(c, mapping[u])
      BY <1>2 DEF ReadMapping
    <3> QED BY <1>1, <3>1, ResolvedOK
  <2>2. CASE ch = NoChain
    BY <2>1, <2>2, UpgradeNoChain DEF Resolves
  <2>3. CASE ch # NoChain
    <3>1. ch.user = u /\ ch.id = mapping[u]
      BY <2>1, <2>3 DEF GoesOn, Resolves
    <3>2. ch.goal = "upgrade" => ch.at = "rewrite"
      BY <2>1, <2>3 DEF Resolves
    <3>3. UpgradeOK(ch)
      BY <1>1, <3>1, <3>2 DEF UpgradeOK, LinkInv, LinksMatch
    <3> QED BY <2>1, <3>3 DEF Resolves
  <2> QED BY <2>2, <2>3
<1>3. CASE mapping[u] = NoId
  <2> DEFINE ch == [chains[c] EXCEPT !.at = "legacy"]
  <2>1. Moves(c, ch)
    BY <1>3 DEF ReadMapping, Goes
  <2>2. ch.at = "legacy" /\ ch.user = u
    BY <1>1 DEF ChainsOK, ChainStates, UserOf
  <2>3. UpgradeOK(ch)
    BY <1>1, <1>3, <2>2 DEF UpgradeOK, LinkInv, LinksMatch
  <2> QED BY <2>1, <2>3
<1> QED BY <1>2, <1>3

LEMMA ReadLegacyUp ==
  ASSUME TypeInv, LinkInv, NEW c \in Chains, ReadLegacy(c)
  PROVE  \E ch : Moves(c, ch) /\ UpgradeOK(ch)
<1> DEFINE u == UserOf(c)
           id == profile[u].id
<1>1. ~At(c, "idle") /\ ChainsOK /\ u \in Users /\ id \in Ids \cup {NoId}
  BY ChainTypes DEF ReadLegacy, At, TypeInv, TablesOK
<1>2. PICK ch : Resolves(c, id, ch)
  <2>1. Resolved(c, id)
    BY DEF ReadLegacy
  <2> QED BY <1>1, <2>1, ResolvedOK
<1>3. CASE ch = NoChain
  BY <1>2, <1>3, UpgradeNoChain DEF Resolves
<1>4. CASE ch # NoChain
  <2>1. ch.user = u /\ ch.goal = chains[c].goal
    BY <1>2, <1>4 DEF GoesOn, Resolves
  <2>2. ch.goal = "upgrade" => ch.at = "rewrite"
    BY <1>2, <1>4 DEF Resolves
  <2>3. chains[c].goal = "upgrade" => u \in overtaken \/ links[u] = NoId
    BY DEF LinkInv, UpgradesOK, UpgradeOK, ReadLegacy, At, UserOf
  <2>4. UpgradeOK(ch)
    BY <2>1, <2>2, <2>3 DEF UpgradeOK
  <2> QED BY <1>2, <2>4 DEF Resolves
<1> QED BY <1>3, <1>4

LEMMA ToAccessUp ==
  ASSUME ChainsOK, NEW c \in Chains, ToAccess(c)
  PROVE  \E ch : Moves(c, ch) /\ UpgradeOK(ch)
<1> DEFINE ch == [chains[c] EXCEPT !.at = "mapping", !.goal = "access", !.id = NoId]
<1>1. ch.goal = "access"
  BY DEF ChainsOK, ChainStates
<1> QED BY <1>1 DEF ToAccess, UpgradeOK

LEMMA FoundUp ==
  ASSUME ChainsOK, NEW c \in Chains, NEW a, a \notin {"legacy", "rewrite"}, NEW id,
         Goes(c, a) \/ Found(c, a, id)
  PROVE  \E ch : Moves(c, ch) /\ UpgradeOK(ch)
<1>1. [chains[c] EXCEPT !.at = a].at = a /\ [chains[c] EXCEPT !.at = a, !.id = id].at = a
  BY DEF ChainsOK, ChainStates
<1> QED BY <1>1 DEF Goes, Found, UpgradeOK

LEMMA ToCommandUp ==
  ASSUME ChainsOK, NEW c \in Chains, ~At(c, "idle"), NEW role, ToCommand(c, role),
         chains[c].goal # "upgrade"
  PROVE  \E ch : Moves(c, ch) /\ UpgradeOK(ch)
BY ToCommandOK, UpgradeNoChain DEF UpgradeOK

LEMMA FailsUp ==
  ASSUME TypeInv, LinkInv, NEW c \in Chains, Fails(c)
  PROVE  \E ch : Moves(c, ch) /\ UpgradeOK(ch)
<1>1. ~At(c, "idle") /\ ChainsOK
  BY DEF Fails, TypeInv
<1>2. CASE ToAccess(c)
  BY <1>1, <1>2, ToAccessUp
<1>3. CASE ToCommand(c, "guest") /\ chains[c].goal = "access"
  <2>1. chains[c].goal # "upgrade"
    BY <1>3
  <2> QED BY <1>1, <1>3, <2>1, ToCommandUp
<1>4. CASE Goes(c, "legacy") /\ chains[c].goal = "code"
  <2>1. [chains[c] EXCEPT !.at = "legacy"].goal = "code"
    BY <1>1, <1>4 DEF ChainsOK, ChainStates
  <2> QED BY <1>4, <2>1 DEF Goes, UpgradeOK
<1>5. CASE Resolved(c, NoId) /\ chains[c].goal = "code"
  <2>1. Found(c, "issue", NoId)
    BY <1>5 DEF Resolved
  <2> QED BY <1>1, <2>1, FoundUp
<1>6. CASE Ends(c)
  BY <1>6, UpgradeNoChain DEF Ends
<1> QED BY <1>2, <1>3, <1>4, <1>5, <1>6 DEF Fails

(* A mapping written where there was none. *)
LEMMA MappedLinks ==
  ASSUME TypeInv, LinkInv, NEW c \in Chains, ~At(c, "idle"), NEW ch, Moves(c, ch), UpgradeOK(ch),
         InsertMapping(UserOf(c), IdOf(c)), UNCHANGED <<links, overtaken>>
  PROVE  LinkInv'
<1>1. UserOf(c) \in Users /\ IdOf(c) \in Ids \cup {NoId}
  BY ChainTypes DEF TypeInv
<1>2. \A u \in Users : mapping[u] # NoId => mapping'[u] = mapping[u]
  BY <1>1, InsertMappingOK DEF TypeInv
<1>3. LinksMatch'
  BY <1>2 DEF LinkInv, LinksMatch
<1>4. chains'[c] = ch /\ \A d \in Chains : d # c => chains'[d] = chains[d]
  BY DEF Moves, TypeInv, ChainsOK
<1>5. UpgradesOK'
  BY <1>4 DEF LinkInv, UpgradesOK, UpgradeOK
<1> QED BY <1>3, <1>5 DEF LinkInv

LEMMA LinkLinks ==
  ASSUME TypeInv, LinkInv, NEW c \in Chains, Link(c)
  PROVE  LinkInv'
<1> DEFINE u == UserOf(c)
<1>1. u \in Users
  BY ChainTypes DEF Link, TypeInv, At
<1>2. /\ links' = [links EXCEPT ![u] = IdOf(c)] /\ mapping' = [mapping EXCEPT ![u] = IdOf(c)]
      /\ Moves(c, NoChain) /\ overtaken \subseteq overtaken'
      /\ \A d \in Chains : chains[d].goal = "upgrade" /\ UserOf(d) = u => u \in overtaken'
  BY DEF Link, Ends
<1>3. /\ links'[u] = mapping'[u]
      /\ \A w \in Users : w # u => links'[w] = links[w] /\ mapping'[w] = mapping[w]
  BY <1>1, <1>2 DEF TypeInv, TablesOK
<1>4. LinksMatch'
  BY <1>2, <1>3 DEF LinkInv, LinksMatch
<1>5. chains'[c] = NoChain /\ \A d \in Chains : d # c => chains'[d] = chains[d]
  BY <1>2 DEF Moves, TypeInv, ChainsOK
<1>6. ASSUME NEW d \in Chains PROVE UpgradeOK(chains[d])'
  <2>1. CASE d = c
    BY <1>5, <2>1 DEF UpgradeOK, NoChain
  <2>2. CASE d # c /\ chains[d].user = u
    BY <1>2, <1>5, <2>2 DEF UpgradeOK, UserOf
  <2>3. CASE d # c /\ chains[d].user # u
    <3>1. chains[d].at \in {"legacy", "rewrite"} => chains[d].user \in Users
      BY DEF TypeInv, ChainsOK, ChainOK
    <3>2. UpgradeOK(chains[d])
      BY DEF LinkInv, UpgradesOK
    <3> QED BY <1>2, <1>3, <1>5, <2>3, <3>1, <3>2 DEF UpgradeOK
  <2> QED BY <2>1, <2>2, <2>3
<1> QED BY <1>4, <1>6 DEF LinkInv, UpgradesOK

LEMMA RewriteLinksOK ==
  ASSUME TypeInv, SepInv, LinkInv, NEW c \in Chains, Rewrite(c)
  PROVE  LinkInv'
<1> DEFINE u == UserOf(c)
           old == IdOf(c)
           new == NewId
<1>1. u \in Users /\ old \in Ids /\ old # NoId /\ At(c, "rewrite") /\ chains[c].goal = "upgrade"
  BY ChainTypes DEF Rewrite, TypeInv, At, ChainsOK, ChainOK, IdOf
<1>2. /\ mapping' = [mapping EXCEPT ![u] = IF @ = NoId THEN @ ELSE new]
      /\ links' = [w \in Users |-> Renamed(links[w], old, new)]
      /\ Moves(c, NoChain) /\ overtaken' = overtaken
  BY DEF Rewrite, RewriteLinks, Ends
<1>3. \A w \in Users : w # u => mapping'[w] = mapping[w] /\ links'[w] = links[w]
  <2>1. \A w \in Users : w # u => links[w] # old
    BY <1>1 DEF SepInv, Has
  <2> QED BY <1>1, <1>2, <2>1 DEF TypeInv, TablesOK, Renamed
<1>4. u \in overtaken \/ links[u] \in {NoId, old}
  BY <1>1 DEF LinkInv, UpgradesOK, UpgradeOK, At, UserOf, IdOf
<1>5. links'[u] # NoId => u \in overtaken \/ links'[u] = mapping'[u]
  <2> SUFFICES ASSUME links'[u] # NoId, u \notin overtaken PROVE links'[u] = mapping'[u]
    OBVIOUS
  <2>1. links[u] = old /\ links'[u] = new
    BY <1>1, <1>2, <1>4 DEF Renamed
  <2>2. mapping[u] = old
    BY <1>1, <2>1 DEF LinkInv, LinksMatch
  <2>3. mapping'[u] = new
    BY <1>1, <1>2, <2>2 DEF TypeInv, TablesOK
  <2> QED BY <2>1, <2>3
<1>6. LinksMatch'
  BY <1>2, <1>3, <1>5 DEF LinkInv, LinksMatch
<1>7. chains'[c] = NoChain /\ \A d \in Chains : d # c => chains'[d] = chains[d]
  BY <1>2 DEF Moves, TypeInv, ChainsOK
<1>8. \A d \in Chains : d # c => chains[d].goal # "upgrade"
  BY <1>1 DEF TypeInv, ChainsOK, ChainOK
<1>9. UpgradesOK'
  BY <1>7, <1>8 DEF UpgradesOK, UpgradeOK, NoChain
<1> QED BY <1>6, <1>9 DEF LinkInv

LEMMA LinkNext == TypeInv /\ SepInv /\ LinkInv /\ [Next]_vars => LinkInv'
<1> SUFFICES ASSUME TypeInv, SepInv, LinkInv, [Next]_vars PROVE LinkInv'
  OBVIOUS
<1>1. ASSUME NEW c \in Chains, NEW u \in Users, NEW cmd \in Commands, Receive(c, u, cmd)
      PROVE  LinkInv'
  <2>1. PICK ch : Begins(c, ch, u, {})
    BY <1>1, ReceiveBegins
  <2> QED BY <1>1, <2>1, ReadsLinks DEF Begins, UpgradeOK, Receive, tables
<1>2. ASSUME NEW c \in Chains, NEW u \in Users, NEW role \in GrantRoles \cup {"guest"},
             StartGrant(c, u, role)
      PROVE  LinkInv'
  <2>1. PICK ch : Begins(c, ch, u, {mapping[u], profile[u].id})
    BY <1>2, StartGrantBegins
  <2> QED BY <1>2, <2>1, ReadsLinks DEF Begins, UpgradeOK, StartGrant, tables
<1>3. ASSUME NEW c \in Chains, NEW u \in Users, StartBackfill(c, u) PROVE LinkInv'
  <2>1. PICK ch : Begins(c, ch, u, {profile[u].id})
    BY <1>3, StartBackfillBegins
  <2> QED BY <1>3, <2>1, ReadsLinks DEF Begins, UpgradeOK, StartBackfill, tables
<1>4. ASSUME NEW c \in Chains, ReadMapping(c) PROVE LinkInv'
  BY <1>4, ReadMappingUp, ReadsLinks DEF ReadMapping, tables
<1>5. ASSUME NEW c \in Chains, ReadLegacy(c) PROVE LinkInv'
  BY <1>5, ReadLegacyUp, ReadsLinks DEF ReadLegacy, tables
<1>6. ASSUME NEW c \in Chains, ReadChat(c) PROVE LinkInv'
  <2>1. \E ch : Moves(c, ch) /\ UpgradeOK(ch)
    BY <1>6, FoundUp DEF ReadChat, TypeInv
  <2> QED BY <1>6, <2>1, ReadsLinks DEF ReadChat, tables
<1>7. ASSUME NEW c \in Chains, WriteProfile(c) PROVE LinkInv'
  <2>1. \E ch : Moves(c, ch) /\ UpgradeOK(ch)
    BY <1>7, FoundUp DEF WriteProfile, TypeInv
  <2> QED BY <1>7, <2>1, ReadsLinks DEF WriteProfile
<1>8. ASSUME NEW c \in Chains, WriteMapping(c) PROVE LinkInv'
  <2>1. \E ch : Moves(c, ch) /\ UpgradeOK(ch)
    BY <1>8, ToAccessUp DEF WriteMapping, TypeInv
  <2> QED BY <1>8, <2>1, MappedLinks DEF WriteMapping, At
<1>9. ASSUME NEW c \in Chains, ReadRole(c) PROVE LinkInv'
  <2>1. ChainsOK /\ ~At(c, "idle") /\ chains[c].goal # "upgrade"
    BY <1>9 DEF ReadRole, At, TypeInv, ChainsOK, ChainOK
  <2>2. \E ch : Moves(c, ch) /\ UpgradeOK(ch)
    BY <1>9, <2>1, ToCommandUp DEF ReadRole
  <2> QED BY <1>9, <2>2, ReadsLinks DEF ReadRole, tables
<1>10. ASSUME NEW c \in Chains, Fails(c) PROVE LinkInv'
  BY <1>10, FailsUp, ReadsLinks DEF Fails, tables
<1>11. ASSUME NEW c \in Chains, Backfill(c) PROVE LinkInv'
  BY <1>11, UpgradeNoChain, MappedLinks DEF Backfill, At, Ends
<1>12. ASSUME NEW c \in Chains, Ends(c), UNCHANGED <<mapping, links, overtaken>> PROVE LinkInv'
  BY <1>12, UpgradeNoChain, ReadsLinks DEF Ends
<1>13. ASSUME NEW c \in Chains, NEW k \in Codes, LockCode(c, k) PROVE LinkInv'
  <2>1. UNCHANGED <<mapping, links, overtaken>>
    BY <1>13 DEF LockCode, tables
  <2>2. ASSUME NEW ch, Locks(c, k, ch) PROVE LinkInv'
    <3>1. Moves(c, ch) /\ UpgradeOK(ch)
      BY <2>2 DEF Locks, UpgradeOK
    <3> QED BY <2>1, <3>1, ReadsLinks
  <2> QED BY <1>12, <1>13, <2>1, <2>2, LockCodeGoes
<1>14. CASE UNCHANGED <<mapping, links, overtaken, chains>>
  BY <1>14 DEF LinkInv, LinksMatch, UpgradesOK, UpgradeOK
<1>15. ASSUME NEW c \in Chains, Issue(c) \/ CodeNotFound(c) \/ WriteRole(c) PROVE LinkInv'
  BY <1>12, <1>15 DEF Issue, CodeNotFound, WriteRole, tables
<1>16. ASSUME NEW c \in Chains, NEW d \in Chains, NEW victim \in Chains, Deadlock(c, d, victim)
       PROVE  LinkInv'
  BY <1>12, <1>16 DEF Deadlock, tables
<1>17. ASSUME NEW k \in Codes, Expire(k) PROVE LinkInv'
  BY <1>14, <1>17 DEF Expire
<1>18. CASE UNCHANGED vars
  BY <1>14, <1>18 DEF vars
<1> QED BY <1>1, <1>2, <1>3, <1>4, <1>5, <1>6, <1>7, <1>8, <1>9, <1>10, <1>11, <1>13,
           <1>15, <1>16, <1>17, <1>18, LinkLinks, RewriteLinksOK DEF Next

LEMMA InitLinks == Init => LinkInv
BY UpgradeNoChain DEF Init, LinkInv, LinksMatch, UpgradesOK, UpgradeOK, NoChain

(* An active link names the id that messages of its user resolve to, but   *)
(* for an upgrade that a confirmation overtook (confirmLinkCode,           *)
(* identity_upgrade_legacy).                                               *)
THEOREM LinksMatchHolds == Spec => []LinksMatch
<1>1. Spec => []LinkInv
  BY Invariants, InitLinks, LinkNext, PTL DEF Spec
<1>2. LinkInv => LinksMatch
  BY DEF LinkInv
<1> QED BY <1>1, <1>2, PTL

-----------------------------------------------------------------------------
(* Agreement *)

Sure == v2 /\ faults = 0

(* With the mapping m: a chain writes an id that it has; it reads for a    *)
(* second time, or goes on with a command, only after the mapping is       *)
(* there, and a link code is for the id that the mapping names.            *)
ChainKept(m, ch) ==
    \/ ch.at = "idle" \/ ch.user \in Monarchs
    \/ /\ ch.at \in {"write_profile", "write_mapping"} => ch.id # NoId
       /\ ch.goal # "profile" => m[ch.user] # NoId /\ ch.at # "legacy"
       /\ ch.at \in {"issue", "lock", "link"} => ch.goal # "profile"
       /\ ch.at \in {"issue", "link"} => ch.id = m[ch.user]

CodeKept(k) == codes[k].user \in Users \ Monarchs /\ codes[k].status # "free" =>
                   codes[k].id = mapping[codes[k].user]

KeptInv == Sure => /\ \A c \in Chains : ChainKept(mapping, chains[c])
                   /\ \A k \in Codes : CodeKept(k)

(* No identity of anyone but the monarch is lost or changed. *)
MappingKept == \A u \in Users \ Monarchs : mapping[u] # NoId => mapping'[u] = mapping[u]
ProfileKept == \A u \in Users \ Monarchs : profile[u].id # NoId => profile'[u].id = profile[u].id

LEMMA KeptNoChain == \A m : ChainKept(m, NoChain)
BY DEF ChainKept, NoChain

LEMMA InitKept == Init => KeptInv
BY KeptNoChain DEF Init, KeptInv, CodeKept, NewCode

LEMMA CodesKeep ==
  ASSUME TypeInv, MappingKept, UNCHANGED codes, NEW k \in Codes, CodeKept(k)
  PROVE  CodeKept(k)'
BY DEF CodeKept, MappingKept, TypeInv, TablesOK

(* One chain moves on, in a state where it may. *)
LEMMA ChainsKeep ==
  ASSUME TypeInv, KeptInv, Sure, MappingKept, \A k \in Codes : CodeKept(k)',
         NEW c \in Chains, NEW ch, Moves(c, ch), ChainKept(mapping', ch)
  PROVE  KeptInv'
<1>1. chains'[c] = ch /\ \A d \in Chains : d # c => chains'[d] = chains[d]
  BY DEF Moves, TypeInv, ChainsOK
<1>2. ASSUME NEW d \in Chains PROVE ChainKept(mapping', chains[d])
  <2>1. ChainKept(mapping, chains[d])
    BY DEF KeptInv
  <2>2. chains[d].at = "idle" \/ chains[d].user \in Users
    BY DEF TypeInv, ChainsOK, ChainOK
  <2> QED BY <2>1, <2>2 DEF ChainKept, MappingKept
<1>3. \A d \in Chains : ChainKept(mapping', chains'[d])
  BY <1>1, <1>2
<1> QED BY <1>3 DEF KeptInv

(* The same for a step that writes neither the mapping nor a code. *)
LEMMA ReadsKeep ==
  ASSUME TypeInv, KeptInv, Sure, UNCHANGED <<mapping, codes>>,
         NEW c \in Chains, NEW ch, Moves(c, ch), ChainKept(mapping, ch)
  PROVE  KeptInv'
<1>1. MappingKept
  BY DEF MappingKept
<1>2. \A k \in Codes : CodeKept(k)'
  BY <1>1, CodesKeep DEF KeptInv
<1> QED BY <1>1, <1>2, ChainsKeep

(* A look-up for a command finds the id that the mapping names. *)
LEMMA ResolvedKept ==
  ASSUME ChainsOK, NEW c \in Chains, ~At(c, "idle"), NEW id \in Ids \cup {NoId}, Resolved(c, id),
         ChainKept(mapping, chains[c]),
         UserOf(c) \in Monarchs \/ chains[c].goal = "profile" \/ id = mapping[UserOf(c)]
  PROVE  \E ch : Moves(c, ch) /\ ChainKept(mapping, ch)
<1>1. PICK ch : Resolves(c, id, ch)
  BY ResolvedOK
<1>2. CASE ch = NoChain
  BY <1>1, <1>2, KeptNoChain DEF Resolves
<1>3. CASE ch # NoChain
  <2>1. ch.user = UserOf(c) /\ ch.id = id /\ ch.goal = chains[c].goal /\ ch.goal \in Goals
    BY <1>1, <1>3 DEF Resolves, GoesOn, ChainOK, ChainStates
  <2>2. CASE ch.goal = "profile"
    <3>1. ch.at = IF id = NoId THEN "chat" ELSE "write_profile"
      BY <1>1, <1>3, <2>2 DEF Resolves
    <3>2. ChainKept(mapping, ch)
      BY <2>1, <2>2, <3>1 DEF ChainKept
    <3> QED BY <1>1, <3>2 DEF Resolves
  <2>3. CASE ch.goal # "profile"
    <3>1. ch.at \in {"role", "issue", "rewrite"}
      BY <1>1, <1>3, <2>1, <2>3 DEF Resolves, Goals
    <3>2. ch.user \in Monarchs \/ (mapping[ch.user] # NoId /\ id = mapping[ch.user])
      BY <2>1, <2>3 DEF ChainKept, At, UserOf
    <3>3. ChainKept(mapping, ch)
      BY <2>1, <2>3, <3>1, <3>2 DEF ChainKept
    <3> QED BY <1>1, <3>3 DEF Resolves
  <2> QED BY <2>2, <2>3
<1> QED BY <1>2, <1>3

(* What a step writes to the mapping: a first id, or the one that is there. *)
LEMMA MappingSteps ==
  ASSUME TypeInv, KeptInv, Sure, [Next]_vars
  PROVE  MappingKept
<1>1. ASSUME NEW c \in Chains, WriteMapping(c) \/ Backfill(c) PROVE MappingKept
  <2>1. UserOf(c) \in Users /\ IdOf(c) \in Ids \cup {NoId} /\ InsertMapping(UserOf(c), IdOf(c))
    BY <1>1, ChainTypes DEF WriteMapping, Backfill, TypeInv, At
  <2> QED BY <2>1, InsertMappingOK DEF MappingKept, TypeInv
<1>2. ASSUME NEW c \in Chains, Link(c) PROVE MappingKept
  <2>1. UserOf(c) \in Users /\ At(c, "link")
    BY <1>2, ChainTypes DEF Link, TypeInv, At
  <2>2. ChainKept(mapping, chains[c])
    BY DEF KeptInv
  <2>3. UserOf(c) \in Monarchs \/ IdOf(c) = mapping[UserOf(c)]
    BY <2>1, <2>2 DEF ChainKept, UserOf, IdOf, At
  <2> QED BY <1>2, <2>1, <2>3 DEF MappingKept, Link, TypeInv, TablesOK
<1>3. ASSUME NEW c \in Chains, Rewrite(c) PROVE MappingKept
  <2>1. UserOf(c) \in Monarchs
    BY <1>3 DEF Rewrite, At, UserOf, TypeInv, ChainsOK, ChainOK
  <2> QED BY <1>3, <2>1 DEF MappingKept, Rewrite, TypeInv, TablesOK
<1>4. CASE UNCHANGED mapping
  BY <1>4 DEF MappingKept
<1> QED BY <1>1, <1>2, <1>3, <1>4 DEF Next, vars, tables, Receive, StartGrant, StartBackfill, ReadMapping,
           ReadLegacy, ReadChat, WriteProfile, ReadRole, Issue, CodeNotFound, LockCode, Deadlock,
           WriteRole, Fails, Expire

(* The row of a user keeps its id: the upsert coalesces, a grant writes    *)
(* the id by which it found the row, an upgrade those of its own user.     *)
LEMMA ProfileSteps ==
  ASSUME TypeInv, SepInv, [Next]_vars
  PROVE  ProfileKept
<1>1. ASSUME NEW c \in Chains, WriteProfile(c) PROVE ProfileKept
  <2>1. UserOf(c) \in Users /\ UpsertProfile(UserOf(c), IdOf(c))
    BY <1>1, ChainTypes DEF WriteProfile, TypeInv, At
  <2> QED BY <2>1 DEF UpsertProfile, Row, ProfileKept, TypeInv, TablesOK
<1>2. ASSUME NEW c \in Chains, WriteRole(c) PROVE ProfileKept
  BY <1>2 DEF WriteRole, Row, ProfileKept
<1>3. ASSUME NEW c \in Chains, Rewrite(c) PROVE ProfileKept
  <2>1. UserOf(c) \in Monarchs /\ UserOf(c) \in Users
    BY <1>3 DEF Rewrite, At, UserOf, TypeInv, ChainsOK, ChainOK
  <2>2. IdOf(c) \in Ids
    BY <1>3, ChainTypes DEF Rewrite, At, IdOf, TypeInv, ChainsOK, ChainOK
  <2>3. \A u \in Users \ Monarchs : profile[u].id # IdOf(c)
    BY <2>1, <2>2 DEF SepInv, Has
  <2>4. profile' = [u \in Users |-> [profile[u] EXCEPT !.id = Renamed(@, IdOf(c), NewId)]]
    BY <1>3 DEF Rewrite
  <2> QED BY <2>3, <2>4 DEF ProfileKept, Renamed, TypeInv, TablesOK
<1>4. CASE UNCHANGED profile
  BY <1>4 DEF ProfileKept
<1> QED BY <1>1, <1>2, <1>3, <1>4 DEF Next, vars, tables, Receive, StartGrant, StartBackfill, ReadMapping,
           ReadLegacy, ReadChat, WriteMapping, ReadRole, Issue, CodeNotFound, Link, LockCode, Deadlock,
           Backfill, Fails, Expire

(* The steps of one message, up to its command. *)
LEMMA BeginsKept ==
  ASSUME TypeInv, KeptInv, Sure, UNCHANGED <<mapping, codes>>, NEW c \in Chains, NEW ch,
         Moves(c, ch), ch.at \notin {"write_profile", "write_mapping", "issue", "lock", "link"},
         ch.goal = "profile"
  PROVE  KeptInv'
BY ReadsKeep DEF ChainKept

LEMMA ReadMappingKept ==
  ASSUME TypeInv, KeptInv, Sure, NEW c \in Chains, ReadMapping(c)
  PROVE  KeptInv'
<1> DEFINE u == UserOf(c)
<1>1. /\ ~At(c, "idle") /\ ChainsOK /\ u \in Users /\ mapping[u] \in Ids \cup {NoId}
      /\ ChainKept(mapping, chains[c]) /\ chains[c] \in ChainStates
  BY ChainTypes DEF ReadMapping, At, TypeInv, TablesOK, ChainsOK, KeptInv
<1>2. UNCHANGED <<mapping, codes>>
  BY DEF ReadMapping, tables
<1>3. CASE mapping[u] # NoId
  <2>1. Resolved(c, mapping[u])
    BY <1>3 DEF ReadMapping
  <2>2. \E ch : Moves(c, ch) /\ ChainKept(mapping, ch)
    BY <1>1, <2>1, ResolvedKept
  <2> QED BY <1>2, <2>2, ReadsKeep
<1>4. CASE mapping[u] = NoId
  <2> DEFINE ch == [chains[c] EXCEPT !.at = "legacy"]
  <2>1. Moves(c, ch)
    BY <1>4 DEF ReadMapping, Goes
  <2>2. ch.at = "legacy" /\ ch.user = u /\ ch.goal = chains[c].goal
    BY <1>1 DEF ChainStates, UserOf
  <2>3. u \in Monarchs \/ chains[c].goal = "profile"
    BY <1>1, <1>4 DEF ChainKept, At, UserOf
  <2>4. ChainKept(mapping, ch)
    BY <2>2, <2>3 DEF ChainKept
  <2> QED BY <1>2, <2>1, <2>4, ReadsKeep
<1> QED BY <1>3, <1>4

LEMMA ReadLegacyKept ==
  ASSUME TypeInv, KeptInv, Sure, NEW c \in Chains, ReadLegacy(c)
  PROVE  KeptInv'
<1>1. /\ ~At(c, "idle") /\ ChainsOK /\ profile[UserOf(c)].id \in Ids \cup {NoId}
      /\ ChainKept(mapping, chains[c]) /\ At(c, "legacy") /\ Resolved(c, profile[UserOf(c)].id)
  BY ChainTypes DEF ReadLegacy, At, TypeInv, TablesOK, KeptInv
<1>2. UserOf(c) \in Monarchs \/ chains[c].goal = "profile"
  BY <1>1 DEF ChainKept, At, UserOf
<1>3. \E ch : Moves(c, ch) /\ ChainKept(mapping, ch)
  BY <1>1, <1>2, ResolvedKept
<1> QED BY <1>3, ReadsKeep DEF ReadLegacy, tables

LEMMA ReadChatKept ==
  ASSUME TypeInv, KeptInv, Sure, NEW c \in Chains, ReadChat(c)
  PROVE  KeptInv'
<1>1. /\ At(c, "chat") /\ UserOf(c) \in Users /\ chains[c] \in ChainStates
      /\ ChainKept(mapping, chains[c]) /\ UNCHANGED <<mapping, codes>>
  BY ChainTypes DEF ReadChat, At, TypeInv, ChainsOK, KeptInv, tables
<1>2. PICK id : Found(c, "write_profile", id) /\ id # NoId
  BY NewIdIsNew DEF ReadChat, TypeInv
<1> DEFINE ch == [chains[c] EXCEPT !.at = "write_profile", !.id = id]
<1>3. Moves(c, ch)
  BY <1>2 DEF Found
<1>4. ch.at = "write_profile" /\ ch.id = id /\ ch.goal = chains[c].goal /\ ch.user = chains[c].user
  BY <1>1 DEF ChainStates
<1>5. ChainKept(mapping, ch)
  BY <1>1, <1>2, <1>4 DEF ChainKept, At
<1> HIDE DEF ch
<1> QED BY <1>1, <1>3, <1>5, ReadsKeep

LEMMA WriteProfileKept ==
  ASSUME TypeInv, KeptInv, Sure, NEW c \in Chains, WriteProfile(c)
  PROVE  KeptInv'
<1> DEFINE ch == [chains[c] EXCEPT !.at = "write_mapping"]
<1>1. /\ At(c, "write_profile") /\ chains[c] \in ChainStates /\ UNCHANGED <<mapping, codes>>
      /\ ChainKept(mapping, chains[c]) /\ Moves(c, ch)
  BY DEF WriteProfile, TypeInv, ChainsOK, KeptInv, Goes
<1>2. /\ ch.at = "write_mapping" /\ ch.id = chains[c].id
      /\ ch.goal = chains[c].goal /\ ch.user = chains[c].user
  BY <1>1 DEF ChainStates
<1>3. ChainKept(mapping, ch)
  BY <1>1, <1>2 DEF ChainKept, At
<1> HIDE DEF ch
<1> QED BY <1>1, <1>3, ReadsKeep

LEMMA WriteMappingKept ==
  ASSUME TypeInv, KeptInv, Sure, MappingKept, NEW c \in Chains, WriteMapping(c)
  PROVE  KeptInv'
<1> DEFINE u  == UserOf(c)
           ch == [chains[c] EXCEPT !.at = "mapping", !.goal = "access", !.id = NoId]
<1>1. /\ u \in Users /\ IdOf(c) \in Ids \cup {NoId} /\ At(c, "write_mapping")
      /\ chains[c] \in ChainStates /\ UNCHANGED codes /\ Moves(c, ch)
      /\ ChainKept(mapping, chains[c]) /\ InsertMapping(u, IdOf(c))
  BY ChainTypes DEF WriteMapping, TypeInv, ChainsOK, KeptInv, At, ToAccess
<1>2. ch.at = "mapping" /\ ch.goal = "access" /\ ch.user = u
  BY <1>1 DEF ChainStates, UserOf
<1>3. u \in Monarchs \/ IdOf(c) # NoId
  BY <1>1 DEF ChainKept, At, UserOf, IdOf
<1>4. u \in Monarchs \/ mapping'[u] # NoId
  BY <1>1, <1>3, InsertMappingOK DEF TypeInv
<1>5. ChainKept(mapping', ch)
  BY <1>2, <1>4 DEF ChainKept
<1>6. \A k \in Codes : CodeKept(k)'
  BY <1>1, CodesKeep DEF KeptInv
<1> HIDE DEF ch
<1> QED BY <1>1, <1>5, <1>6, ChainsKeep

LEMMA ReadRoleKept ==
  ASSUME TypeInv, KeptInv, Sure, NEW c \in Chains, ReadRole(c)
  PROVE  KeptInv'
<1>1. /\ ~At(c, "idle") /\ ChainsOK /\ chains[c].goal = "access"
      /\ ChainKept(mapping, chains[c]) /\ UNCHANGED <<mapping, codes>>
  BY DEF ReadRole, At, TypeInv, ChainsOK, ChainOK, KeptInv, tables
<1>2. PICK role : ToCommand(c, role)
  BY DEF ReadRole
<1>3. PICK ch : /\ Moves(c, ch) /\ ChainOK(ch)
                /\ ch = NoChain \/
                   /\ GoesOn(c, ch) /\ ch.id = NoId
                   /\ \/ ch.at = "mapping" /\ ch.goal = "code" /\ v2
                      \/ ch.at = "mapping" /\ ch.goal = "upgrade"
                      \/ ch.at = "issue" /\ ~v2
                      \/ ch.at = "lock" /\ ch.goal = chains[c].goal
  BY <1>1, <1>2, ToCommandOK
<1>4. UserOf(c) \in Monarchs \/ mapping[UserOf(c)] # NoId
  BY <1>1 DEF ChainKept, At, UserOf
<1>5. CASE ch = NoChain
  BY <1>1, <1>3, <1>5, KeptNoChain, ReadsKeep
<1>6. CASE ch # NoChain
  <2>1. ch.user = UserOf(c) /\ ch.at \in {"mapping", "lock"} /\ (ch.at = "lock" => ch.goal = "access")
    BY <1>1, <1>3, <1>6 DEF GoesOn, Sure
  <2>2. ChainKept(mapping, ch)
    BY <1>4, <2>1 DEF ChainKept
  <2> QED BY <1>1, <1>3, <2>2, ReadsKeep
<1> QED BY <1>5, <1>6

LEMMA IssueKept ==
  ASSUME TypeInv, KeptInv, Sure, NEW c \in Chains, Issue(c)
  PROVE  KeptInv'
<1>1. /\ At(c, "issue") /\ UserOf(c) \in Users /\ ChainsOK /\ UNCHANGED mapping
      /\ ChainKept(mapping, chains[c]) /\ Moves(c, NoChain)
  BY ChainTypes DEF Issue, At, TypeInv, KeptInv, Ends
<1>2. PICK k \in Codes : IssueCode(c, k)
  BY DEF Issue, IssueCode
<1>3. UserOf(c) \in Monarchs \/ (IdOf(c) # NoId /\ IdOf(c) = mapping[UserOf(c)])
  BY <1>1 DEF ChainKept, At, UserOf, IdOf
<1>4. UserOf(c) \in Monarchs \/ CodeId(c) = mapping[UserOf(c)]
  BY <1>3 DEF CodeId
<1>5. /\ codes'[k].user = UserOf(c) /\ codes'[k].id = CodeId(c)
      /\ \A j \in Codes : j # k => codes'[j] = codes[j]
  BY <1>2 DEF IssueCode, TypeInv, TablesOK
<1>6. \A j \in Codes : CodeKept(j)'
  BY <1>1, <1>4, <1>5 DEF CodeKept, KeptInv
<1>7. MappingKept
  BY <1>1 DEF MappingKept
<1> QED BY <1>1, <1>6, <1>7, KeptNoChain, ChainsKeep

LEMMA LockCodeKept ==
  ASSUME TypeInv, KeptInv, Sure, NEW c \in Chains, NEW k \in Codes, LockCode(c, k)
  PROVE  KeptInv'
<1>1. /\ At(c, "lock") /\ UNCHANGED <<mapping, codes>> /\ ChainKept(mapping, chains[c])
      /\ CodeKept(k) /\ codes[k].status # "free" /\ UserOf(c) \in Users
  BY ChainTypes DEF LockCode, tables, KeptInv, At, TypeInv
<1>2. CASE Ends(c)
  BY <1>1, <1>2, KeptNoChain, ReadsKeep DEF Ends
<1>3. ASSUME Confirmable(k, UserOf(c)), NEW ch, Locks(c, k, ch) PROVE KeptInv'
  <2>1. Moves(c, ch) /\ ch.user = UserOf(c) /\ ch.at = "link" /\ ch.id = codes[k].id
        /\ ch.goal = chains[c].goal
    BY <1>3 DEF Locks, GoesOn
  <2>2. UserOf(c) \in Monarchs \/ (mapping[UserOf(c)] # NoId /\ chains[c].goal # "profile")
    BY <1>1 DEF ChainKept, At, UserOf
  <2>3. UserOf(c) \in Monarchs \/ codes[k].id = mapping[UserOf(c)]
    BY <1>1, <1>3 DEF Confirmable, CodeKept
  <2>4. ChainKept(mapping, ch)
    BY <2>1, <2>2, <2>3 DEF ChainKept
  <2> QED BY <1>1, <2>1, <2>4, ReadsKeep
<1> QED BY <1>2, <1>3, LockCodeGoes

LEMMA LinkKept ==
  ASSUME TypeInv, KeptInv, Sure, MappingKept, NEW c \in Chains, Link(c)
  PROVE  KeptInv'
<1>1. /\ Moves(c, NoChain) /\ chains[c].code \in Codes
      /\ codes' = [codes EXCEPT ![chains[c].code].status = "consumed"]
  BY ChainTypes DEF Link, Ends, TypeInv, At
<1>2. /\ \A k \in Codes : codes'[k].user = codes[k].user /\ codes'[k].id = codes[k].id
      /\ \A k \in Codes : k # chains[c].code => codes'[k].status = codes[k].status
      /\ codes[chains[c].code].status = "pending"
  BY <1>1 DEF TypeInv, TablesOK, Link, CodeLinksOnce
<1>3. \A k \in Codes : CodeKept(k)'
  BY <1>2 DEF CodeKept, KeptInv, MappingKept, TypeInv, TablesOK
<1> QED BY <1>1, <1>3, KeptNoChain, ChainsKeep

LEMMA RewriteKept ==
  ASSUME TypeInv, SepInv, KeptInv, Sure, MappingKept, NEW c \in Chains, Rewrite(c)
  PROVE  KeptInv'
<1>1. UserOf(c) \in Monarchs /\ IdOf(c) \in Ids /\ Moves(c, NoChain)
  BY ChainTypes DEF Rewrite, At, UserOf, IdOf, TypeInv, ChainsOK, ChainOK, Ends
<1>2. codes' = [k \in Codes |-> [codes[k] EXCEPT !.id = Renamed(@, IdOf(c), NewId)]]
  BY DEF Rewrite
<1>3. ASSUME NEW k \in Codes PROVE CodeKept(k)'
  <2>1. codes'[k].user = codes[k].user /\ codes'[k].status = codes[k].status
        /\ codes'[k].id = Renamed(codes[k].id, IdOf(c), NewId)
    BY <1>2 DEF TypeInv, TablesOK
  <2>2. codes[k].user \in Users \ Monarchs => codes[k].id # IdOf(c)
    BY <1>1 DEF SepInv, Has, UserOf, IdOf
  <2>3. CodeKept(k)
    BY DEF KeptInv
  <2>4. codes[k].status # "free" => codes[k].id # NoId
    BY DEF TypeInv, TablesOK
  <2> QED BY <2>1, <2>2, <2>3, <2>4 DEF CodeKept, Renamed, MappingKept
<1> QED BY <1>1, <1>3, KeptNoChain, ChainsKeep

LEMMA KeptNext == TypeInv /\ SepInv /\ KeptInv /\ [Next]_vars => KeptInv'
<1> SUFFICES ASSUME TypeInv, SepInv, KeptInv, [Next]_vars, Sure' PROVE KeptInv'
  BY DEF KeptInv
<1>1. ASSUME NEW c \in Chains, Fails(c) PROVE FALSE
  BY <1>1 DEF Fails, Sure, TypeInv, HistoryOK
<1>2. Sure
  BY <1>1 DEF Sure, Next, vars, tables, Receive, StartGrant, StartBackfill, ReadMapping, ReadLegacy,
     ReadChat, WriteProfile, WriteMapping, ReadRole, Issue, CodeNotFound, Link, LockCode, Rewrite,
     Deadlock, WriteRole, Backfill, Expire
<1>3. MappingKept
  BY <1>2, MappingSteps
<1>4. ASSUME NEW c \in Chains, NEW u \in Users, NEW cmd \in Commands, Receive(c, u, cmd)
      PROVE  KeptInv'
  BY <1>2, <1>4, BeginsKept DEF Receive, tables, NoChain
<1>5. ASSUME NEW c \in Chains, NEW u \in Users, NEW role \in GrantRoles \cup {"guest"},
             StartGrant(c, u, role)
      PROVE  KeptInv'
  BY <1>2, <1>5, BeginsKept DEF StartGrant, tables, NoChain
<1>6. ASSUME NEW c \in Chains, NEW u \in Users, StartBackfill(c, u) PROVE KeptInv'
  BY <1>2, <1>6, BeginsKept DEF StartBackfill, tables, NoChain
<1>7. ASSUME NEW c \in Chains, Ends(c), UNCHANGED codes PROVE KeptInv'
  <2>1. \A k \in Codes : CodeKept(k)'
    BY <1>2, <1>3, <1>7, CodesKeep DEF KeptInv
  <2> QED BY <1>2, <1>3, <1>7, <2>1, KeptNoChain, ChainsKeep DEF Ends
<1>8. ASSUME NEW c \in Chains, CodeNotFound(c) \/ WriteRole(c) \/ Backfill(c) PROVE KeptInv'
  BY <1>7, <1>8 DEF CodeNotFound, WriteRole, Backfill, tables
<1>9. ASSUME NEW c \in Chains, NEW d \in Chains, NEW victim \in Chains, Deadlock(c, d, victim)
      PROVE  KeptInv'
  BY <1>7, <1>9 DEF Deadlock, tables
<1>10. ASSUME NEW k \in Codes, Expire(k) PROVE KeptInv'
  <2>1. \A j \in Codes : /\ codes'[j].user = codes[j].user /\ codes'[j].id = codes[j].id
                         /\ codes'[j].status = codes[j].status
    BY <1>10 DEF Expire, TypeInv, TablesOK
  <2> QED BY <1>2, <1>10, <2>1 DEF Expire, KeptInv, CodeKept
<1>11. CASE UNCHANGED vars
  BY <1>2, <1>11 DEF vars, KeptInv, CodeKept
<1> QED BY <1>1, <1>2, <1>3, <1>4, <1>5, <1>6, <1>8, <1>9, <1>10, <1>11, ReadMappingKept, ReadLegacyKept,
           ReadChatKept, WriteProfileKept, WriteMappingKept, ReadRoleKept, IssueKept, LockCodeKept,
           LinkKept, RewriteKept DEF Next

(* Once mapping and row of a user agree they agree for ever, for everyone  *)
(* but the monarch, with LINKING_V2, unless a look-up failed: no message   *)
(* under way, link code, grant, backfill or upgrade takes the identity     *)
(* away (ensureUserProfile, confirmLinkCode, identity_upgrade_legacy).     *)
THEOREM AgreementKeptHolds == Spec => AgreementKept
<1> DEFINE Step == \A u \in Users \ Monarchs : v2 /\ faults = 0 /\ Agree(u) => Agree(u)'
<1>1. ASSUME TypeInv, SepInv, KeptInv, [Next]_vars PROVE Step
  <2>1. Sure => MappingKept
    BY <1>1, MappingSteps
  <2>2. ProfileKept
    BY <1>1, ProfileSteps
  <2> QED BY <2>1, <2>2 DEF Sure, MappingKept, ProfileKept, Agree
<1>2. Spec => []KeptInv
  BY Invariants, InitKept, KeptNext, PTL DEF Spec
<1> QED BY <1>1, <1>2, Invariants, PTL DEF Spec, AgreementKept
=============================================================================
