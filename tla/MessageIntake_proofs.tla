------------------------ MODULE MessageIntake_proofs ------------------------
(***************************************************************************)
(* What the guards of the intake promise, for any processes, messages and  *)
(* senders, any number of deliveries, any sizes of the memory of seen keys *)
(* and of the limiter's window, and under every fault of the model.        *)
(*                                                                         *)
(* GuardedOnce and DropsHaveOwner are not inductive: they need that        *)
(* whoever passed a guard that did not fail open has its row, and that     *)
(* every row and every key that was seen has a delivery that went on.      *)
(***************************************************************************)
EXTENDS MessageIntake, SequenceTheorems, TLAPS

-----------------------------------------------------------------------------
(* The arrays of the limiter: the lemmas of RateLimiter_proofs *)

Calls == INSTANCE RateLimiter_proofs WITH Callers <- Senders, granted <- << >>

(* The calls that checkRateLimit keeps are calls it had. *)
LEMMA FreshType ==
    ASSUME NEW S \in SUBSET Int, NEW times \in Seq(S), NEW at \in Int
    PROVE  Limiter!Fresh(times, at) \in Seq(S)
BY Calls!FreshType DEF Limiter!Fresh, Calls!Fresh

-----------------------------------------------------------------------------
(* The memory of seen keys: the lemmas of DedupeMemory_proofs *)

Seen == INSTANCE DedupeMemory_proofs WITH
           Keys <- Messages, admitted <- << >>, MaxAdmissions <- 0

LEMMA SeenIsMaps == Memory!SeenOK <=> Seen!SeenFits(seen, now)
BY Seen!SeenIsMaps DEF Memory!SeenOK, Seen!SeenOK, Memory!IsInjective, Seen!IsInjective

LEMMA SeenNext ==
    ASSUME Seen!SeenFits(seen', now')
    PROVE  Memory!SeenOK'
BY Seen!SeenNext DEF Memory!SeenOK, Seen!SeenOK, Memory!IsInjective, Seen!IsInjective

LEMMA SameMemory ==
    /\ \A entries : Memory!KeysOf(entries) = Seen!KeysOf(entries)
    /\ \A entries, k, t : Memory!Remember(entries, k, t) = Seen!Remember(entries, k, t)
BY DEF Memory!KeysOf, Seen!KeysOf, Memory!Remember, Seen!Remember, Memory!SetKey, Seen!SetKey, Memory!Evict,
   Seen!Evict, Memory!Expired, Seen!Expired, Memory!RemoveAt, Seen!RemoveAt, Memory!Min, Seen!Min

(* dedupeRemember keeps the Map what it is, and makes only its key new. *)
LEMMA RememberOK ==
    ASSUME NEW t \in Nat, NEW entries, Seen!MapOK(entries, t, DedupeMax), NEW k \in Messages
    PROVE  /\ Seen!MapOK(Memory!Remember(entries, k, t), t, DedupeMax)
           /\ Memory!KeysOf(Memory!Remember(entries, k, t))
                \subseteq Memory!KeysOf(entries) \cup {k}
<1>1. DedupeMax \in Nat
  BY BoundsAssumption
<1>2. /\ Seen!MapOK(Seen!Remember(entries, k, t), t, DedupeMax)
      /\ Seen!KeysOf(Seen!Remember(entries, k, t)) \subseteq Seen!KeysOf(entries) \cup {k}
  BY <1>1, Seen!RememberOK
<1> QED
  BY <1>2, SameMemory

-----------------------------------------------------------------------------
(* Types, and the way of each kind of message *)

Chains == [at : Awaits \cup {"none", "end"}, msg : Messages \cup {NoMessage},
           proc : Procs \cup {NoProc}, known : BOOLEAN,
           result : Drops \cup Refused \cup Done \cup {Undecided},
           open : BOOLEAN]

(* The awaits between the identity and the end. *)
Way(kind) ==
    CASE kind = "safe"     -> {"log", "reply"}
      [] kind = "command"  -> {"invoke", "log", "dispatch", "reply"}
      [] kind = "unclear"  -> {"reply"}
      [] kind = "remember" -> {"context", "lookup", "store", "reply"}
      [] kind = "chat"     -> {"context", "guard", "dedupeEvent", "process", "reply"}

(* How a message may end that passed its guard, and how else. *)
Outcomes(kind) ==
    CASE kind = "safe"    -> {"start_replied"}
      [] kind = "command" -> {"rate_limited", "permission_denied", "command_handled",
                              "unknown_command", "dispatch_error"}
      [] kind = "chat"    -> {"chat_handled", "chat_error"}
      [] OTHER            -> {}
Others(kind) ==
    CASE kind = "safe"     -> {}
      [] kind = "command"  -> {"dup_drop", "dup_command_drop"}
      [] kind = "unclear"  -> {"dup_drop", "clarification_requested"}
      [] kind = "remember" -> {"dup_drop", "project_intent_blocked", "remember_saved",
                               "remember_not_saved"}
      [] kind = "chat"     -> {"dup_drop", "project_intent_blocked", "dup_chat_drop"}

(* A chain is on the way of its message, and decided from its answer on. *)
PlaceOK(x) ==
    IF x.at = "none" THEN x = NewDelivery
    ELSE /\ x.msg \in Messages
         /\ x.at \in {"evidence", "identity", "end"} \cup Way(KindOf[x.msg])
         /\ IF x.at \in {"reply", "dedupeEvent", "end"}
            THEN x.result \in Outcomes(KindOf[x.msg]) \cup Others(KindOf[x.msg])
            ELSE x.result = Undecided

TypeInv == TypeOK /\ \A d \in Deliveries : PlaceOK(delivery[d])

(* A step of the chain d leaves the others alone. *)
Alone(d) == \A e \in Deliveries \ {d} : delivery'[e] = delivery[e]

(* Wherever a chain goes, it stays on the way of its message. *)
LEMMA StaysOnWay ==
    ASSUME TypeInv, NEW d \in Deliveries, Step(d)
    PROVE  /\ delivery' \in [Deliveries -> Chains] /\ Alone(d)
           /\ PlaceOK(delivery'[d])
           /\ delivery[d].at \notin {"none", "end"} /\ MsgOf(d)' = MsgOf(d)
<1> DEFINE Goal == /\ delivery' \in [Deliveries -> Chains] /\ Alone(d)
                   /\ PlaceOK(delivery'[d])
                   /\ delivery[d].at \notin {"none", "end"} /\ MsgOf(d)' = MsgOf(d)
<1> USE DEF Waits, Live, MsgOf, ProcOf, Awaits
<1>1. /\ delivery \in [Deliveries -> Chains] /\ PlaceOK(delivery[d])
      /\ \A m \in Messages : KindOf[m] \in Kinds
  BY KindsAssumption DEF TypeInv, TypeOK, Chains
<1>2. CASE DropsDuplicate(d) \/ Admits(d)
  BY <1>1, <1>2 DEF DropsDuplicate, Admits, Returns, Goes, PlaceOK, Alone, Chains, Safe, Kinds,
     Outcomes, Others, Way, NewDelivery, Drops
<1>3. CASE ResolveIdentity(d)
  <2>1. PICK known \in BOOLEAN : delivery' = [delivery EXCEPT
           ![d].at = Route(MsgOf(d)), ![d].known = known,
           ![d].result = IF KindOf[MsgOf(d)] = "unclear" THEN "clarification_requested" ELSE @]
    BY <1>3 DEF ResolveIdentity
  <2>2. delivery[d].at = "identity"
    BY <1>3 DEF ResolveIdentity
  <2>3. MsgOf(d) \in Messages /\ delivery[d].result = Undecided /\ KindOf[MsgOf(d)] \in Kinds
    BY <1>1, <2>2 DEF PlaceOK
  <2>4. /\ Alone(d) /\ delivery'[d].at = Route(MsgOf(d)) /\ delivery'[d].msg = MsgOf(d)
        /\ delivery'[d].result = IF KindOf[MsgOf(d)] = "unclear" THEN "clarification_requested"
                                                               ELSE Undecided
    BY <1>1, <2>1, <2>3 DEF Alone, Chains
  <2>5. Route(MsgOf(d)) \in Way(KindOf[MsgOf(d)]) \ {"none", "end", "dedupeEvent"}
    BY <2>3 DEF Route, Way, Kinds
  <2>6. Route(MsgOf(d)) = "reply" <=> KindOf[MsgOf(d)] = "unclear"
    BY <2>3 DEF Route, Kinds
  <2>7. PlaceOK(delivery'[d])
    BY <2>3, <2>4, <2>5, <2>6 DEF PlaceOK, Others, Kinds
  <2>8. Route(MsgOf(d)) \in Awaits
    BY <2>3 DEF Route, Kinds
  <2>9. delivery' \in [Deliveries -> Chains]
    <3> DEFINE r == IF KindOf[MsgOf(d)] = "unclear" THEN "clarification_requested"
                    ELSE delivery[d].result
    <3>1. delivery' = [delivery EXCEPT
             ![d] = [delivery[d] EXCEPT !.at = Route(MsgOf(d)), !.known = known, !.result = r]]
      BY <1>1, <2>1 DEF Chains
    <3>2. r \in Drops \cup Refused \cup Done \cup {Undecided}
      BY <2>3 DEF Refused
    <3> HIDE DEF r
    <3>3. delivery[d] \in Chains /\ Route(MsgOf(d)) \in Awaits \cup {"none", "end"}
      BY <1>1, <2>8
    <3>4. [delivery[d] EXCEPT !.at = Route(MsgOf(d)), !.known = known, !.result = r] \in Chains
      <4> HIDE DEF Awaits
      <4> QED
        BY <3>2, <3>3 DEF Chains
    <3> QED
      BY <1>1, <3>1, <3>4
  <2> QED
    BY <2>2, <2>4, <2>7, <2>9
<1>4. CASE EnsureInvocation(d)
  BY <1>1, <1>4 DEF EnsureInvocation, Goes, GoesOpen, Returns, PlaceOK, Alone, Chains, Kinds,
     Outcomes, Others, Way, NewDelivery, Drops
<1>5. CASE CommandGuards(d)
  BY <1>1, <1>5 DEF CommandGuards, Limited, Safe, Goes, Replies, Settles, PlaceOK, Alone, Chains,
     Kinds, Outcomes, Others, Way, NewDelivery, Refused, Done
<1>6. CASE Dispatch(d)
  BY <1>1, <1>6 DEF Dispatch, Returns, Replies, Settles, PlaceOK, Alone, Chains,
     Kinds, Outcomes, Others, Way, NewDelivery, Done
<1>7. CASE ReadContext(d)
  BY <1>1, <1>7 DEF ReadContext, Goes, Replies, Settles, PlaceOK, Alone, Chains,
     Kinds, Outcomes, Others, Way, NewDelivery, Refused
<1>8. CASE LookUp(d) \/ Store(d)
  BY <1>1, <1>8 DEF LookUp, Store, Goes, Replies, Settles, PlaceOK, Alone, Chains,
     Kinds, Outcomes, Others, Way, NewDelivery, Done
<1>9. CASE GuardIncoming(d)
  BY <1>1, <1>9 DEF GuardIncoming, Goes, GoesOpen, Settles, PlaceOK, Alone, Chains,
     Kinds, Outcomes, Others, Way, NewDelivery, Drops
<1>10. CASE RecordDuplicate(d) \/ Reply(d)
  BY <1>1, <1>10 DEF RecordDuplicate, Reply, Ends, PlaceOK, Alone, Chains,
     Kinds, Outcomes, Others, Way, NewDelivery
<1>11. CASE Process(d)
  BY <1>1, <1>11 DEF Process, Returns, PlaceOK, Alone, Chains,
     Kinds, Outcomes, Others, Way, NewDelivery, Done
<1> QED
  BY <1>2, <1>3, <1>4, <1>5, <1>6, <1>7, <1>8, <1>9, <1>10, <1>11 DEF Step

(* What a step of a chain does to the Maps of the processes and to the     *)
(* tables keeps their types.                                               *)
LEMMA StepTypes ==
    ASSUME TypeInv, NEW d \in Deliveries, Step(d)
    PROVE  /\ Memory!SeenOK'
           /\ rate' \in [Procs -> [Senders -> Seq(0..MaxTime)]]
           /\ invocations' \subseteq Messages /\ userRows' \subseteq Messages
           /\ remembered' \subseteq [by : Deliveries, meta : BOOLEAN]
           /\ hasMeta' \in [Procs -> {"unasked", "yes", "no"}]
           /\ now' \in 0..MaxTime /\ faults' \in 0..MaxFaults
<1> USE DEF TypeInv, TypeOK
<1>1. MsgOf(d) \in Messages /\ ProcOf(d) \in Procs
  BY StaysOnWay DEF MsgOf, ProcOf, PlaceOK, Step, Waits, Live, DropsDuplicate, Admits,
     ResolveIdentity, EnsureInvocation, CommandGuards, Dispatch, ReadContext, LookUp, Store,
     GuardIncoming, RecordDuplicate, Process, Reply, Chains
<1>2. now' = now /\ now \in Nat /\ faults' \in 0..MaxFaults
  <2>1. UNCHANGED now
    BY DEF Step, DropsDuplicate, Admits, ResolveIdentity, EnsureInvocation, CommandGuards,
       Dispatch, ReadContext, LookUp, Store, GuardIncoming, RecordDuplicate, Process, Reply
  <2>2. UNCHANGED faults \/ (faults < MaxFaults /\ faults' = faults + 1)
    BY DEF Step, DropsDuplicate, Admits, ResolveIdentity, EnsureInvocation, CommandGuards,
       Dispatch, ReadContext, LookUp, Store, GuardIncoming, RecordDuplicate, Process, Reply,
       Fault, NoFault
  <2>3. MaxTime \in Nat /\ MaxFaults \in Nat
    BY BoundsAssumption
  <2> QED
    BY <2>1, <2>2, <2>3
<1>3. Memory!SeenOK'
  <2>1. CASE UNCHANGED seen
    BY <1>2, <2>1, SeenIsMaps, SeenNext
  <2>2. CASE ~UNCHANGED seen
    <3>1. Memory!LetIn(ProcOf(d), MsgOf(d))
      BY <2>2 DEF Step, DropsDuplicate, Admits, ResolveIdentity, EnsureInvocation, CommandGuards,
         Dispatch, ReadContext, LookUp, Store, GuardIncoming, RecordDuplicate, Process, Reply
    <3>2. Seen!SeenFits(seen, now)
      BY SeenIsMaps
    <3>3. Seen!MapOK(Memory!Remember(seen[ProcOf(d)], MsgOf(d), now), now, DedupeMax)
      BY <1>1, <1>2, <3>2, RememberOK DEF Seen!SeenFits
    <3>4. Seen!SeenFits(seen', now)
      <4> DEFINE after == Memory!Remember(seen[ProcOf(d)], MsgOf(d), now)
      <4>1. seen' = [seen EXCEPT ![ProcOf(d)] = after]
        BY <3>1 DEF Memory!LetIn
      <4> HIDE DEF after
      <4> QED
        BY <1>1, <3>2, <3>3, <4>1 DEF Seen!SeenFits, after
    <3> QED
      BY <1>2, <3>4, SeenNext
  <2> QED
    BY <2>1, <2>2
<1>4. rate' \in [Procs -> [Senders -> Seq(0..MaxTime)]]
  <2>1. CASE UNCHANGED rate
    BY <2>1
  <2>2. CASE ~UNCHANGED rate
    <3> DEFINE s == SenderOf[MsgOf(d)]
               fresh == Limiter!Fresh(rate[ProcOf(d)][s], now)
    <3>1. Limiter!Count(ProcOf(d), s)
      BY <2>2 DEF Step, DropsDuplicate, Admits, ResolveIdentity, EnsureInvocation, CommandGuards,
         Dispatch, ReadContext, LookUp, Store, GuardIncoming, RecordDuplicate, Process, Reply
    <3>2. s \in Senders /\ now \in 0..MaxTime /\ 0..MaxTime \in SUBSET Int
      BY <1>1, SendersAssumption
    <3>3. fresh \in Seq(0..MaxTime)
      BY <1>1, <3>2, FreshType
    <3>4. Append(fresh, now) \in Seq(0..MaxTime)
      BY <3>2, <3>3, AppendProperties
    <3> HIDE DEF fresh
    <3>5. PICK new \in Seq(0..MaxTime) : rate' = [rate EXCEPT ![ProcOf(d)][s] = new]
      BY <1>1, <3>1, <3>2, <3>3, <3>4 DEF Limiter!Count, fresh
    <3>6. rate' = [rate EXCEPT ![ProcOf(d)] = [rate[ProcOf(d)] EXCEPT ![s] = new]]
      BY <1>1, <3>2, <3>5
    <3> QED
      BY <1>1, <3>2, <3>6
  <2> QED
    BY <2>1, <2>2
<1>5. /\ invocations' \subseteq Messages /\ userRows' \subseteq Messages
      /\ remembered' \subseteq [by : Deliveries, meta : BOOLEAN]
  <2>1. \/ UNCHANGED tables
        \/ invocations' = invocations \cup {MsgOf(d)} /\ UNCHANGED <<userRows, remembered>>
        \/ userRows' = userRows \cup {MsgOf(d)} /\ UNCHANGED <<invocations, remembered>>
        \/ /\ remembered' = remembered \cup {[by |-> d, meta |-> HasMeta(d)]}
           /\ UNCHANGED <<invocations, userRows>>
    BY DEF Step, DropsDuplicate, Admits, ResolveIdentity, EnsureInvocation, CommandGuards,
       Dispatch, ReadContext, LookUp, Store, GuardIncoming, RecordDuplicate, Process, Reply, tables
  <2>2. [by |-> d, meta |-> HasMeta(d)] \in [by : Deliveries, meta : BOOLEAN]
    BY DEF HasMeta
  <2> QED
    BY <1>1, <2>1, <2>2 DEF tables
<1>6. hasMeta' \in [Procs -> {"unasked", "yes", "no"}]
  BY <1>1 DEF Step, DropsDuplicate, Admits, ResolveIdentity, EnsureInvocation, CommandGuards,
     Dispatch, ReadContext, LookUp, Store, GuardIncoming, RecordDuplicate, Process, Reply, tables
<1> QED
  BY <1>2, <1>3, <1>4, <1>5, <1>6

(* The state is of its types, and stays so. *)
LEMMA TypeInit == Init => TypeInv
<1> SUFFICES ASSUME Init PROVE TypeInv
  OBVIOUS
<1>1. {DedupeMax, MaxTime, MaxFaults} \subseteq Nat
  BY BoundsAssumption
<1>2. NewDelivery \in Chains /\ PlaceOK(NewDelivery)
  BY DEF NewDelivery, Chains, PlaceOK
<1>3. Memory!SeenOK
  <2>1. Seen!SeenFits(seen, now)
    BY <1>1, EmptySeq DEF Init, Memory!Nothing, Seen!SeenFits, Seen!MapOK
  <2> QED
    BY <2>1, SeenIsMaps
<1>4. rate \in [Procs -> [Senders -> Seq(0..MaxTime)]]
  BY EmptySeq DEF Init, Limiter!NoCalls
<1> QED
  BY <1>1, <1>2, <1>3, <1>4 DEF Init, TypeInv, TypeOK, Chains

LEMMA TypeStep == TypeInv /\ [Next]_vars => TypeInv'
<1> SUFFICES ASSUME TypeInv, [Next]_vars PROVE TypeInv'
  OBVIOUS
<1>0. /\ {DedupeMax, MaxTime, MaxFaults} \subseteq Nat /\ now \in Nat
      /\ Seen!SeenFits(seen, now)
  BY BoundsAssumption, SeenIsMaps DEF TypeInv, TypeOK
<1>1. ASSUME NEW d \in Deliveries, Step(d) PROVE TypeInv'
  <2>1. \A e \in Deliveries : PlaceOK(delivery'[e])
    BY <1>1, StaysOnWay DEF TypeInv, Alone
  <2> QED
    BY <1>1, <2>1, StaysOnWay, StepTypes DEF TypeInv, TypeOK, Chains, PlaceOK
<1>2. ASSUME NEW d \in Deliveries, NEW m \in Messages, NEW p \in Procs, Deliver(d, m, p)
      PROVE  TypeInv'
  <2>1. delivery' = [delivery EXCEPT ![d] = [NewDelivery EXCEPT !.at = "evidence",
                                                                !.msg = m, !.proc = p]]
    BY <1>2 DEF Deliver
  <2>2. [NewDelivery EXCEPT !.at = "evidence", !.msg = m, !.proc = p] \in Chains
    BY DEF NewDelivery, Chains, Awaits
  <2>3. PlaceOK([NewDelivery EXCEPT !.at = "evidence", !.msg = m, !.proc = p])
    BY DEF NewDelivery, PlaceOK
  <2>4. delivery' \in [Deliveries -> Chains] /\ \A e \in Deliveries : PlaceOK(delivery'[e])
    BY <2>1, <2>2, <2>3 DEF TypeInv, TypeOK, Chains
  <2>5. Memory!SeenOK'
    BY <1>0, <1>2, SeenNext DEF Deliver
  <2> QED
    BY <1>2, <2>4, <2>5 DEF Deliver, TypeInv, TypeOK, Chains, PlaceOK, tables
<1>3. ASSUME NEW p \in Procs, Crash(p) PROVE TypeInv'
  <2>1. delivery' = [d \in Deliveries |->
                       IF delivery[d].proc = p THEN [delivery[d] EXCEPT !.proc = NoProc]
                                               ELSE delivery[d]]
    BY <1>3 DEF Crash, ProcOf
  <2>2. delivery \in [Deliveries -> Chains]
    BY DEF TypeInv, TypeOK, Chains
  <2>3. \A d \in Deliveries : delivery'[d] \in Chains /\ PlaceOK(delivery'[d])
    <3> SUFFICES ASSUME NEW d \in Deliveries
                 PROVE  delivery'[d] \in Chains /\ PlaceOK(delivery'[d])
      OBVIOUS
    <3>1. delivery[d].at = "none" => delivery[d].proc # p
      BY NobodyAssumption DEF TypeInv, PlaceOK, NewDelivery
    <3>2. CASE delivery[d].proc = p
      BY <2>1, <2>2, <3>1, <3>2 DEF TypeInv, PlaceOK, Chains
    <3> QED
      BY <2>1, <2>2, <3>2 DEF TypeInv
  <2>4. delivery' \in [Deliveries -> Chains]
    BY <2>1, <2>3
  <2>5. Memory!SeenOK'
    <3>1. Seen!SeenFits(seen', now)
      BY <1>0, <1>3, EmptySeq DEF Crash, Memory!Forget, Seen!SeenFits, Seen!MapOK
    <3> QED
      BY <1>3, <3>1, SeenNext DEF Crash
  <2>6. rate' \in [Procs -> [Senders -> Seq(0..MaxTime)]]
    BY <1>3, EmptySeq DEF Crash, Limiter!Forget, Limiter!NoCalls, TypeInv, TypeOK
  <2>7. faults' \in 0..MaxFaults
    BY <1>0, <1>3 DEF Crash, Fault, TypeInv, TypeOK
  <2> QED
    BY <1>3, <2>3, <2>4, <2>5, <2>6, <2>7 DEF Crash, TypeInv, TypeOK, Chains, PlaceOK, tables
<1>4. CASE Clock
  <2>1. Memory!SeenOK'
    <3>1. Seen!SeenFits(seen, now + 1)
      BY <1>0, Seen!MapLater DEF Seen!SeenFits
    <3> QED
      BY <1>4, <3>1, SeenNext DEF Clock
  <2> QED
    BY <1>0, <1>4, <2>1 DEF Clock, TypeInv, TypeOK, PlaceOK, tables
<1>5. CASE UNCHANGED vars
  <2>1. Memory!SeenOK'
    BY <1>0, <1>5, SeenNext DEF vars
  <2> QED
    BY <1>5, <2>1 DEF vars, tables, TypeInv, TypeOK, PlaceOK
<1> QED
  BY <1>1, <1>2, <1>3, <1>4, <1>5 DEF Next

(* The chains, the Maps and the tables are of their types, and a chain is  *)
(* on the way of its message.                                              *)
THEOREM TypeInvariant == Spec => []TypeInv
BY TypeInit, TypeStep, PTL DEF Spec

(* The Map of seen keys never holds a key twice, nor more than DEDUPE_MAX  *)
(* keys (dedupeRemember), and all else is of its type.                     *)
THEOREM TypeCorrect == Spec => []TypeOK
<1>1. TypeInv => TypeOK
  BY DEF TypeInv
<1> QED
  BY <1>1, TypeInvariant, PTL

(* Whatever was delivered, counted or crashed, a /start or /help that      *)
(* comes to an end is answered.                                            *)
THEOREM SafeAnsweredHolds == Spec => []SafeAnswered
<1>1. TypeInv => SafeAnswered
  BY DEF TypeInv, PlaceOK, SafeAnswered, Safe, MsgOf, Outcomes, Others
<1> QED
  BY <1>1, TypeInvariant, PTL

-----------------------------------------------------------------------------
(* The insert-first guards *)

(* Messages that are let through by a row of their own.                    *)
Guarded(m) == m \in Messages /\ KindOf[m] \in {"command", "chat"}
Row(m) == IF KindOf[m] = "command" THEN m \in invocations ELSE m \in userRows

(* The guard of the chain has let it through. *)
Passed(d) ==
    /\ Guarded(MsgOf(d))
    /\ \/ delivery[d].at \in {"log", "dispatch", "process"}
       \/ delivery[d].result \in Outcomes(KindOf[MsgOf(d)])

(* Who passed a guard that did not fail open has its row; of two who       *)
(* passed one failed open; and a row is of somebody who passed.            *)
GuardInv ==
    /\ \A d \in Deliveries : Passed(d) /\ ~delivery[d].open => Row(MsgOf(d))
    /\ \A d, e \in Deliveries :
          d # e /\ MsgOf(d) = MsgOf(e) /\ Passed(d) /\ Passed(e)
             => delivery[d].open \/ delivery[e].open
    /\ \A m \in Messages :
          Guarded(m) /\ Row(m) => \E d \in Deliveries : MsgOf(d) = m /\ Passed(d)

(* The chain is beyond the memory of seen keys, and not dropped. *)
Owns(d, m) == /\ MsgOf(d) = m /\ delivery[d].at \notin {"none", "evidence"}
              /\ delivery[d].result \notin Drops

(* Every key that was seen, and every message that was dropped, has an     *)
(* owner.                                                                  *)
OwnerInv ==
    /\ \A p \in Procs : \A m \in Memory!KeysOf(seen[p]) : \E d \in Deliveries : Owns(d, m)
    /\ \A d \in Deliveries :
          delivery[d].result \in Drops => \E e \in Deliveries : Owns(e, MsgOf(d))

(* What a step of a chain does to the rows: none goes, and whoever comes   *)
(* past a guard brings its row, which was not there, or failed open.       *)
LEMMA GuardEffects ==
    ASSUME TypeInv, NEW d \in Deliveries, Step(d)
    PROVE  /\ invocations \subseteq invocations' /\ userRows \subseteq userRows'
           /\ Passed(d) => Passed(d)' /\ delivery'[d].open = delivery[d].open
           /\ Passed(d)' => \/ Passed(d) \/ delivery'[d].open
                            \/ ~Row(MsgOf(d)) /\ Row(MsgOf(d))'
           /\ \A m \in Messages : Guarded(m) /\ Row(m)' => Row(m) \/ (m = MsgOf(d) /\ Passed(d)')
<1> DEFINE Goal ==
           /\ invocations \subseteq invocations' /\ userRows \subseteq userRows'
           /\ Passed(d) => Passed(d)' /\ delivery'[d].open = delivery[d].open
           /\ Passed(d)' => \/ Passed(d) \/ delivery'[d].open
                            \/ ~Row(MsgOf(d)) /\ Row(MsgOf(d))'
           /\ \A m \in Messages : Guarded(m) /\ Row(m)' => Row(m) \/ (m = MsgOf(d) /\ Passed(d)')
<1>1. /\ delivery \in [Deliveries -> Chains] /\ PlaceOK(delivery[d])
      /\ \A m \in Messages : KindOf[m] \in Kinds
  BY KindsAssumption DEF TypeInv, TypeOK, Chains
<1> USE DEF Waits, Live, MsgOf, ProcOf, Awaits, tables, Guarded, Row, Passed, Outcomes
<1>2. CASE DropsDuplicate(d) \/ Admits(d)
  BY <1>1, <1>2 DEF DropsDuplicate, Admits, Returns, Goes, PlaceOK, Chains
<1>3. CASE ResolveIdentity(d)
  <2>1. /\ delivery[d].at = "identity" /\ delivery[d].result = Undecided
        /\ MsgOf(d) \in Messages /\ MsgOf(d)' = MsgOf(d) /\ UNCHANGED tables
    BY <1>1, <1>3, StaysOnWay DEF ResolveIdentity, PlaceOK
  <2>2. PICK known \in BOOLEAN : delivery' = [delivery EXCEPT
           ![d].at = Route(MsgOf(d)), ![d].known = known,
           ![d].result = IF KindOf[MsgOf(d)] = "unclear" THEN "clarification_requested" ELSE @]
    BY <1>3 DEF ResolveIdentity
  <2>3. /\ delivery'[d].at = Route(MsgOf(d)) /\ delivery'[d].open = delivery[d].open
        /\ KindOf[MsgOf(d)] # "unclear" => delivery'[d].result = Undecided
    BY <1>1, <2>1, <2>2 DEF Chains
  <2>4. Guarded(MsgOf(d)) => Route(MsgOf(d)) \in {"invoke", "context"}
    BY DEF Route
  <2>5. ~Passed(d) /\ ~Passed(d)'
    BY <2>1, <2>3, <2>4 DEF Undecided
  <2> QED
    BY <2>1, <2>3, <2>5 DEF Undecided
<1>4. CASE EnsureInvocation(d)
  BY <1>1, <1>4 DEF EnsureInvocation, Goes, GoesOpen, Returns, PlaceOK, Chains, Way
<1>5. CASE CommandGuards(d)
  BY <1>1, <1>5 DEF CommandGuards, Safe, Goes, Replies, Settles, PlaceOK, Chains, Way
<1>6. CASE Dispatch(d)
  BY <1>1, <1>6 DEF Dispatch, Returns, Replies, Settles, PlaceOK, Chains, Way
<1>7. CASE ReadContext(d)
  BY <1>1, <1>7 DEF ReadContext, Goes, Replies, Settles, PlaceOK, Chains, Way
<1>8. CASE LookUp(d) \/ Store(d)
  BY <1>1, <1>8 DEF LookUp, Store, Goes, Replies, Settles, PlaceOK, Chains, Way
<1>9. CASE GuardIncoming(d)
  BY <1>1, <1>9 DEF GuardIncoming, Goes, GoesOpen, Settles, PlaceOK, Chains, Way
<1>10. CASE RecordDuplicate(d) \/ Reply(d)
  BY <1>1, <1>10 DEF RecordDuplicate, Reply, Ends, PlaceOK, Chains
<1>11. CASE Process(d)
  BY <1>1, <1>11 DEF Process, Returns, PlaceOK, Chains, Way
<1> QED
  BY <1>2, <1>3, <1>4, <1>5, <1>6, <1>7, <1>8, <1>9, <1>10, <1>11 DEF Step

(* What it does to owners: the chain that steps is beyond the memory       *)
(* afterwards, and if it is dropped its key was seen or its row was there. *)
LEMMA OwnerEffects ==
    ASSUME TypeInv, NEW d \in Deliveries, Step(d)
    PROVE  /\ delivery'[d].at \notin {"none", "evidence"}
           /\ delivery'[d].result \in Drops =>
                 \/ delivery[d].result \in Drops
                 \/ /\ delivery[d].at = "evidence"
                    /\ \E p \in Procs : MsgOf(d) \in Memory!KeysOf(seen[p])
                 \/ Guarded(MsgOf(d)) /\ Row(MsgOf(d)) /\ ~Passed(d)
           /\ \A p \in Procs : \A m \in Memory!KeysOf(seen'[p]) :
                 \/ m \in Memory!KeysOf(seen[p])
                 \/ m = MsgOf(d) /\ delivery'[d].result = Undecided
<1>1. /\ delivery \in [Deliveries -> Chains] /\ PlaceOK(delivery[d])
      /\ \A m \in Messages : KindOf[m] \in Kinds
      /\ now \in Nat /\ \A p \in Procs : Seen!MapOK(seen[p], now, DedupeMax)
  BY KindsAssumption, SeenIsMaps DEF TypeInv, TypeOK, Chains, Seen!SeenFits
<1> USE DEF Waits, Live, MsgOf, ProcOf, Awaits
<1>2. CASE DropsDuplicate(d)
  <2>1. MsgOf(d) \in Memory!KeysOf(seen[ProcOf(d)]) /\ ProcOf(d) \in Procs
    BY <1>1, <1>2 DEF DropsDuplicate, Memory!Fresh, Memory!HasFresh, Memory!KeysOf, Chains
  <2> QED
    BY <1>1, <1>2, <2>1 DEF DropsDuplicate, Returns, Drops
<1>3. CASE Admits(d)
  <2>1. /\ delivery'[d].at = "identity" /\ delivery'[d].result = Undecided
        /\ MsgOf(d) \in Messages /\ ProcOf(d) \in Procs
    BY <1>1, <1>3 DEF Admits, Goes, PlaceOK, Chains
  <2>2. CASE UNCHANGED seen
    BY <2>1, <2>2 DEF Drops, Undecided
  <2>3. CASE Memory!LetIn(ProcOf(d), MsgOf(d))
    <3> DEFINE p == ProcOf(d)
               after == Memory!Remember(seen[p], MsgOf(d), now)
    <3>1. Memory!KeysOf(after) \subseteq Memory!KeysOf(seen[p]) \cup {MsgOf(d)}
      BY <1>1, <2>1, RememberOK
    <3>2. seen' = [seen EXCEPT ![p] = after]
      BY <2>3 DEF Memory!LetIn
    <3> HIDE DEF after
    <3>3. \A q \in Procs : \A m \in Memory!KeysOf(seen'[q]) :
             m \in Memory!KeysOf(seen[q]) \/ m = MsgOf(d)
      <4>1. SUFFICES ASSUME NEW q \in Procs, NEW m \in Memory!KeysOf(seen'[q])
                     PROVE  m \in Memory!KeysOf(seen[q]) \/ m = MsgOf(d)
        OBVIOUS
      <4>2. CASE q = p
        <5>1. seen'[q] = after
          BY <3>2, <4>2 DEF TypeInv, TypeOK, Memory!SeenOK
        <5> QED
          BY <3>1, <4>1, <4>2, <5>1
      <4>3. CASE q # p
        BY <3>2, <4>1, <4>3 DEF TypeInv, TypeOK, Memory!SeenOK
      <4> QED
        BY <4>2, <4>3
    <3> QED
      BY <2>1, <3>3 DEF Drops, Undecided
  <2> QED
    BY <1>3, <2>2, <2>3 DEF Admits
<1>4. CASE ResolveIdentity(d)
  <2>1. MsgOf(d) \in Messages /\ delivery[d].result = Undecided /\ UNCHANGED seen
    BY <1>1, <1>4 DEF ResolveIdentity, PlaceOK
  <2>2. /\ delivery'[d].at = Route(MsgOf(d))
        /\ delivery'[d].result \in {Undecided, "clarification_requested"}
    BY <1>1, <1>4, <2>1 DEF ResolveIdentity
  <2> QED
    BY <2>1, <2>2 DEF Route, Drops, Undecided
<1> USE DEF Chains, PlaceOK, Drops, Undecided
<1>5. CASE EnsureInvocation(d)
  BY <1>1, <1>5 DEF EnsureInvocation, Goes, GoesOpen, Returns, Way, Guarded, Row, Passed, Outcomes
<1>6. CASE GuardIncoming(d)
  BY <1>1, <1>6 DEF GuardIncoming, Goes, GoesOpen, Settles, Way, Guarded, Row, Passed, Outcomes
<1>7. CASE CommandGuards(d) \/ Dispatch(d)
  BY <1>1, <1>7 DEF CommandGuards, Dispatch, Goes, Returns, Replies, Settles
<1>8. CASE ReadContext(d) \/ LookUp(d) \/ Store(d)
  BY <1>1, <1>8 DEF ReadContext, LookUp, Store, Goes, Replies, Settles
<1>9. CASE Process(d) \/ RecordDuplicate(d) \/ Reply(d)
  BY <1>1, <1>9 DEF Process, RecordDuplicate, Reply, Returns, Ends
<1> QED
  BY <1>2, <1>3, <1>4, <1>5, <1>6, <1>7, <1>8, <1>9 DEF Step

(* The steps that no chain takes carry no chain past a guard, drop none    *)
(* and write no row.                                                       *)
LEMMA QuietSteps ==
    ASSUME TypeInv,
           \/ \E d \in Deliveries, m \in Messages, p \in Procs : Deliver(d, m, p)
           \/ \E p \in Procs : Crash(p)
           \/ Clock
           \/ UNCHANGED vars
    PROVE  /\ UNCHANGED tables
           /\ \A d \in Deliveries :
                 /\ Passed(d)' = Passed(d)
                 /\ delivery'[d].open = delivery[d].open
                 /\ delivery'[d].result = delivery[d].result
                 /\ delivery[d].at # "none" => MsgOf(d)' = MsgOf(d)
                                               /\ delivery'[d].at = delivery[d].at
                                               /\ delivery'[d].known = delivery[d].known
           /\ \A p \in Procs : Memory!KeysOf(seen'[p]) \subseteq Memory!KeysOf(seen[p])
<1> USE DEF MsgOf, ProcOf, Passed, Guarded
<1>1. delivery \in [Deliveries -> Chains] /\ \A d \in Deliveries : PlaceOK(delivery[d])
  BY DEF TypeInv, TypeOK, Chains
<1>2. ASSUME NEW d \in Deliveries, NEW m \in Messages, NEW p \in Procs, Deliver(d, m, p)
      PROVE  /\ ~Passed(d) /\ ~Passed(d)' /\ delivery'[d].open = delivery[d].open
             /\ delivery'[d].result = delivery[d].result
             /\ delivery[d].at = "none" /\ \A e \in Deliveries \ {d} : delivery'[e] = delivery[e]
             /\ UNCHANGED <<tables, seen>>
  <2>1. /\ delivery' = [delivery EXCEPT ![d] = [NewDelivery EXCEPT !.at = "evidence",
                                                                   !.msg = m, !.proc = p]]
        /\ delivery[d].at = "none" /\ UNCHANGED <<tables, seen>>
    BY <1>2 DEF Deliver
  <2>2. delivery[d] = NewDelivery
    BY <1>1, <2>1 DEF PlaceOK
  <2>3. delivery'[d] = [NewDelivery EXCEPT !.at = "evidence", !.msg = m, !.proc = p]
    BY <1>1, <2>1
  <2>4. KindOf[m] \in Kinds
    BY KindsAssumption
  <2> QED
    BY <1>1, <2>1, <2>2, <2>3, <2>4, NobodyAssumption DEF NewDelivery, Outcomes, Undecided, Kinds
<1>3. ASSUME NEW p \in Procs, Crash(p)
      PROVE  /\ UNCHANGED tables
             /\ \A d \in Deliveries :
                   /\ delivery'[d].at = delivery[d].at /\ delivery'[d].msg = delivery[d].msg
                   /\ delivery'[d].open = delivery[d].open
                   /\ delivery'[d].result = delivery[d].result
                   /\ delivery'[d].known = delivery[d].known
             /\ \A q \in Procs : Memory!KeysOf(seen'[q]) \subseteq Memory!KeysOf(seen[q])
  <2>1. UNCHANGED tables
    BY <1>3 DEF Crash
  <2>2. \A d \in Deliveries :
           delivery'[d] \in {delivery[d], [delivery[d] EXCEPT !.proc = NoProc]}
    BY <1>3 DEF Crash
  <2>3. \A q \in Procs : seen'[q] \in {seen[q], << >>}
    BY <1>3 DEF Crash, Memory!Forget, TypeInv, TypeOK, Memory!SeenOK
  <2>4. Memory!KeysOf(<< >>) = {}
    BY DEF Memory!KeysOf
  <2> QED
    BY <1>1, <2>1, <2>2, <2>3, <2>4 DEF Chains
<1>4. CASE Clock \/ UNCHANGED vars
  BY <1>4 DEF Clock, vars
<1> QED
  BY <1>2, <1>3, <1>4

(* GuardInv is inductive. *)
LEMMA GuardStep == TypeInv /\ GuardInv /\ [Next]_vars => GuardInv'
<1> SUFFICES ASSUME TypeInv, GuardInv, [Next]_vars PROVE GuardInv'
  OBVIOUS
<1>1. ASSUME NEW d \in Deliveries, Step(d) PROVE GuardInv'
  <2>1. /\ \A e \in Deliveries \ {d} : delivery'[e] = delivery[e]
        /\ MsgOf(d)' = MsgOf(d)
    BY <1>1, StaysOnWay DEF Alone
  <2>2. \A e \in Deliveries : MsgOf(e)' = MsgOf(e)
    BY <2>1 DEF MsgOf
  <2>3. \A e \in Deliveries \ {d} : Passed(e)' = Passed(e)
    BY <2>1 DEF Passed, MsgOf, Guarded
  <2>4. \A m : Row(m) => Row(m)'
    BY <1>1, GuardEffects DEF Row
  <2>5. \A e \in Deliveries : Passed(e)' /\ ~delivery'[e].open => Row(MsgOf(e))'
    BY <1>1, <2>1, <2>2, <2>3, <2>4, GuardEffects DEF GuardInv
  <2>6. ASSUME NEW e \in Deliveries \ {d}, MsgOf(d) = MsgOf(e), Passed(d)', Passed(e)'
        PROVE  delivery'[d].open \/ delivery'[e].open
    BY <1>1, <2>1, <2>3, <2>6, GuardEffects DEF GuardInv
  <2>7. \A m \in Messages :
           Guarded(m) /\ Row(m)' => \E e \in Deliveries : MsgOf(e)' = m /\ Passed(e)'
    <3> SUFFICES ASSUME NEW m \in Messages, Guarded(m), Row(m)'
                 PROVE  \E e \in Deliveries : MsgOf(e)' = m /\ Passed(e)'
      OBVIOUS
    <3>1. CASE Row(m)
      <4>1. PICK e \in Deliveries : MsgOf(e) = m /\ Passed(e)
        BY <3>1 DEF GuardInv
      <4>2. Passed(e)'
        BY <1>1, <2>3, <4>1, GuardEffects
      <4> QED
        BY <2>2, <4>1, <4>2
    <3>2. CASE m = MsgOf(d) /\ Passed(d)'
      BY <2>2, <3>2
    <3> QED
      BY <1>1, <3>1, <3>2, GuardEffects
  <2> QED
    <3>1. ASSUME NEW e \in Deliveries, NEW f \in Deliveries,
                 e # f, MsgOf(e) = MsgOf(f), Passed(e)', Passed(f)'
          PROVE  delivery'[e].open \/ delivery'[f].open
      <4>1. CASE e = d \/ f = d
        BY <2>6, <3>1, <4>1
      <4>2. CASE e # d /\ f # d
        BY <2>1, <2>3, <3>1, <4>2 DEF GuardInv
      <4> QED
        BY <4>1, <4>2
    <3> QED
      BY <2>2, <2>5, <2>7, <3>1 DEF GuardInv, Guarded
<1>2. ASSUME ~\E d \in Deliveries : Step(d) PROVE GuardInv'
  <2>1. /\ UNCHANGED tables
        /\ \A d \in Deliveries : /\ Passed(d)' = Passed(d)
                                 /\ delivery'[d].open = delivery[d].open
                                 /\ delivery[d].at # "none" => MsgOf(d)' = MsgOf(d)
    BY <1>2, QuietSteps DEF Next
  <2>2. \A d \in Deliveries : Passed(d) => delivery[d].at # "none"
    BY NobodyAssumption DEF Passed, Guarded, MsgOf, TypeInv, PlaceOK, NewDelivery
  <2>3. \A m : Row(m)' = Row(m)
    BY <2>1 DEF Row, tables
  <2> QED
    BY <2>1, <2>2, <2>3 DEF GuardInv, Guarded
<1> QED
  BY <1>1, <1>2

(* OwnerInv is inductive beside it. *)
LEMMA OwnerStep == TypeInv /\ GuardInv /\ OwnerInv /\ [Next]_vars => OwnerInv'
<1> SUFFICES ASSUME TypeInv, GuardInv, OwnerInv, [Next]_vars PROVE OwnerInv'
  OBVIOUS
<1>1. ASSUME NEW d \in Deliveries, Step(d) PROVE OwnerInv'
  <2>1. /\ \A e \in Deliveries \ {d} : delivery'[e] = delivery[e]
        /\ \A e \in Deliveries : MsgOf(e)' = MsgOf(e)
        /\ delivery[d].at # "none"
    BY <1>1, StaysOnWay DEF Alone, MsgOf
  <2>2. ASSUME NEW m, NEW e \in Deliveries, Owns(e, m)
        PROVE  \E o \in Deliveries : Owns(o, m)'
    <3>1. CASE e # d
      BY <2>1, <2>2, <3>1 DEF Owns
    <3>2. CASE e = d /\ delivery'[d].result \notin Drops
      BY <1>1, <2>1, <2>2, <3>2, OwnerEffects DEF Owns
    <3>3. CASE e = d /\ delivery'[d].result \in Drops
      <4>1. Guarded(m) /\ Row(m) /\ ~Passed(d)
        BY <1>1, <2>2, <3>3, OwnerEffects DEF Owns
      <4>2. PICK o \in Deliveries : MsgOf(o) = m /\ Passed(o)
        BY <4>1 DEF GuardInv, Guarded
      <4>3. Owns(o, m)
        BY <4>2, NobodyAssumption DEF Owns, Passed, Guarded, MsgOf, TypeInv, PlaceOK, NewDelivery,
           Outcomes, Drops, Undecided
      <4> QED
        BY <2>1, <4>1, <4>2, <4>3 DEF Owns
    <3> QED
      BY <3>1, <3>2, <3>3
  <2>3. ASSUME NEW p \in Procs, NEW m \in Memory!KeysOf(seen'[p])
        PROVE  \E o \in Deliveries : Owns(o, m)'
    <3>1. CASE m \in Memory!KeysOf(seen[p])
      BY <2>2, <3>1 DEF OwnerInv
    <3>2. CASE m = MsgOf(d) /\ delivery'[d].result = Undecided
      BY <1>1, <2>1, <3>2, OwnerEffects DEF Owns, Drops, Undecided
    <3> QED
      BY <1>1, <2>3, <3>1, <3>2, OwnerEffects
  <2>4. ASSUME NEW e \in Deliveries, delivery'[e].result \in Drops
        PROVE  \E o \in Deliveries : Owns(o, MsgOf(e))'
    <3>1. CASE delivery[e].result \in Drops
      BY <2>1, <2>2, <3>1 DEF OwnerInv
    <3>2. CASE e = d /\ \E p \in Procs : MsgOf(d) \in Memory!KeysOf(seen[p])
      BY <2>1, <2>2, <3>2 DEF OwnerInv
    <3>3. CASE e = d /\ Guarded(MsgOf(d)) /\ Row(MsgOf(d))
      <4>1. PICK o \in Deliveries : MsgOf(o) = MsgOf(d) /\ Passed(o)
        BY <3>3 DEF GuardInv, Guarded
      <4>2. Owns(o, MsgOf(d))
        BY <4>1, NobodyAssumption DEF Owns, Passed, Guarded, MsgOf, TypeInv, PlaceOK, NewDelivery,
           Outcomes, Drops, Undecided
      <4> QED
        BY <2>1, <2>2, <3>3, <4>2
    <3> QED
      BY <1>1, <2>1, <2>4, <3>1, <3>2, <3>3, OwnerEffects
  <2> QED
    BY <2>3, <2>4 DEF OwnerInv, Owns
<1>2. ASSUME ~\E d \in Deliveries : Step(d) PROVE OwnerInv'
  <2>1. /\ \A d \in Deliveries : /\ delivery'[d].result = delivery[d].result
                                 /\ delivery[d].at # "none" => MsgOf(d)' = MsgOf(d)
                                                               /\ delivery'[d].at = delivery[d].at
        /\ \A p \in Procs : Memory!KeysOf(seen'[p]) \subseteq Memory!KeysOf(seen[p])
    BY <1>2, QuietSteps DEF Next
  <2>2. \A e \in Deliveries : \A m : Owns(e, m) => Owns(e, m)'
    BY <2>1 DEF Owns
  <2>3. \A d \in Deliveries : delivery[d].result \in Drops => delivery[d].at # "none"
    BY DEF TypeInv, PlaceOK, NewDelivery, Drops, Undecided
  <2>4. \A p \in Procs : \A m \in Memory!KeysOf(seen'[p]) : \E o \in Deliveries : Owns(o, m)'
    BY <2>1, <2>2 DEF OwnerInv
  <2>5. ASSUME NEW d \in Deliveries, delivery'[d].result \in Drops
        PROVE  \E o \in Deliveries : Owns(o, MsgOf(d))'
    BY <2>1, <2>2, <2>3, <2>5 DEF OwnerInv
  <2> QED
    BY <2>4, <2>5 DEF OwnerInv, Owns
<1> QED
  BY <1>1, <1>2

LEMMA GuardInit == Init => GuardInv /\ OwnerInv
<1> SUFFICES ASSUME Init PROVE GuardInv /\ OwnerInv
  OBVIOUS
<1>1. \A d \in Deliveries : ~Passed(d) /\ delivery[d].result \notin Drops
  BY NobodyAssumption DEF Init, NewDelivery, Passed, Guarded, MsgOf, Drops, Undecided
<1>2. \A p \in Procs : Memory!KeysOf(seen[p]) = {}
  BY DEF Init, Memory!Nothing, Memory!KeysOf
<1>3. \A m : ~Row(m)
  BY DEF Init, Row
<1> QED
  BY <1>1, <1>2, <1>3 DEF GuardInv, OwnerInv

(* GuardInv and OwnerInv, with the types, are an inductive invariant. *)
THEOREM GuardInvariant == Spec => [](GuardInv /\ OwnerInv)
<1>1. TypeInv /\ (GuardInv /\ OwnerInv) /\ [Next]_vars => (GuardInv /\ OwnerInv)'
  BY GuardStep, OwnerStep
<1> QED
  BY <1>1, GuardInit, TypeInvariant, PTL DEF Spec

(* Of two deliveries of a command or chat message that are both carried    *)
(* out, one came past a guard that failed open.                            *)
THEOREM GuardedOnceHolds == Spec => []GuardedOnce
<1>1. TypeInv /\ GuardInv => GuardedOnce
  <2> SUFFICES ASSUME TypeInv, GuardInv, NEW d \in Deliveries, NEW e \in Deliveries,
                      d # e, MsgOf(d) = MsgOf(e), MsgOf(d) # NoMessage,
                      KindOf[MsgOf(d)] \in {"command", "chat"}, CarriedOut(d), CarriedOut(e)
               PROVE  delivery[d].open \/ delivery[e].open
    BY DEF GuardedOnce
  <2>1. \A f \in {d, e} : Passed(f)
    BY DEF TypeInv, TypeOK, PlaceOK, NewDelivery, CarriedOut, Passed, Guarded, MsgOf, Outcomes,
       Others, Done, Undecided
  <2> QED
    BY <2>1 DEF GuardInv
<1> QED
  BY <1>1, TypeInvariant, GuardInvariant, PTL

(* No message is dropped as a duplicate, by whichever guard, unless        *)
(* another delivery of it was let in and is not dropped either.            *)
THEOREM DropsHaveOwnerHolds == Spec => []DropsHaveOwner
<1>1. OwnerInv => DropsHaveOwner
  BY DEF OwnerInv, DropsHaveOwner, Owns
<1> QED
  BY <1>1, GuardInvariant, PTL

-----------------------------------------------------------------------------
(* What is asked to be remembered *)

(* A row is of a chain that has done all but reply, so what it knows of    *)
(* its sender is settled.                                                  *)
RememberInv ==
    /\ \A row \in remembered : delivery[row.by].at \in {"reply", "end"}
    /\ RememberedOnce

(* A chain that replies only ends; and only a chain that stores, and finds *)
(* no row of its message if it can look, brings a row.                     *)
LEMMA RememberEffects ==
    ASSUME TypeInv, NEW d \in Deliveries, Step(d)
    PROVE  /\ delivery[d].at = "reply" =>
                 delivery'[d].at = "end" /\ delivery'[d].known = delivery[d].known
           /\ \/ UNCHANGED remembered
              \/ /\ delivery[d].at = "store" /\ delivery'[d].at = "reply"
                 /\ delivery'[d].known = delivery[d].known
                 /\ remembered' = remembered \cup {[by |-> d, meta |-> HasMeta(d)]}
                 /\ HasMeta(d) => ~Finds(d)
<1>1. delivery \in [Deliveries -> Chains]
  BY DEF TypeInv, TypeOK, Chains
<1> USE DEF Waits, Live, tables
<1>2. CASE Store(d)
  <2> DEFINE stored == IF AlreadyStored(d) THEN remembered
                       ELSE remembered \cup {[by |-> d, meta |-> HasMeta(d)]}
  <2>1. /\ delivery[d].at = "store"
        /\ \E r : delivery' = [delivery EXCEPT ![d].at = "reply", ![d].result = r]
        /\ remembered' \in {remembered, stored}
    BY <1>2 DEF Store, Replies, Settles
  <2>2. delivery'[d].at = "reply" /\ delivery'[d].known = delivery[d].known
    BY <1>1, <2>1 DEF Chains
  <2> QED
    BY <2>1, <2>2 DEF AlreadyStored
<1>3. CASE DropsDuplicate(d) \/ Admits(d) \/ ResolveIdentity(d) \/ EnsureInvocation(d)
  BY <1>3 DEF DropsDuplicate, Admits, ResolveIdentity, EnsureInvocation
<1>4. CASE CommandGuards(d) \/ Dispatch(d) \/ ReadContext(d) \/ LookUp(d)
  BY <1>4 DEF CommandGuards, Dispatch, ReadContext, LookUp
<1>5. CASE GuardIncoming(d) \/ RecordDuplicate(d) \/ Process(d)
  BY <1>5 DEF GuardIncoming, RecordDuplicate, Process
<1>6. CASE Reply(d)
  BY <1>1, <1>6 DEF Reply, Ends, Chains
<1> QED
  BY <1>2, <1>3, <1>4, <1>5, <1>6 DEF Step

(* RememberInv is inductive. *)
LEMMA RememberStep == TypeInv /\ RememberInv /\ [Next]_vars => RememberInv'
<1> SUFFICES ASSUME TypeInv, RememberInv, [Next]_vars PROVE RememberInv'
  OBVIOUS
<1> DEFINE Settled(e) == /\ delivery'[e].at \in {"reply", "end"} /\ MsgOf(e)' = MsgOf(e)
                         /\ delivery'[e].known = delivery[e].known
<1>1. \A row \in remembered : row.by \in Deliveries /\ row.meta \in BOOLEAN
  BY DEF TypeInv, TypeOK
<1>2. \A row, other \in remembered :
         row.meta /\ other.meta /\ MsgOf(row.by) = MsgOf(other.by)
         /\ delivery[row.by].known = delivery[other.by].known => row = other
  BY DEF RememberInv, RememberedOnce, StoredOnce
<1>3. ASSUME UNCHANGED remembered, \A row \in remembered : Settled(row.by)
      PROVE  RememberInv'
  <2>1. \A row \in remembered' : delivery'[row.by].at \in {"reply", "end"}
    BY <1>3
  <2>2. \A row, other \in remembered' :
           row.meta /\ other.meta /\ MsgOf(row.by)' = MsgOf(other.by)'
           /\ delivery'[row.by].known = delivery'[other.by].known => row = other
    BY <1>2, <1>3
  <2> QED
    BY <2>1, <2>2 DEF RememberInv, RememberedOnce, StoredOnce, MsgOf
<1>4. ASSUME NEW d \in Deliveries, Step(d) PROVE RememberInv'
  <2>1. \A row \in remembered : Settled(row.by)
    <3> SUFFICES ASSUME NEW row \in remembered PROVE Settled(row.by)
      OBVIOUS
    <3>1. delivery[row.by].at \in {"reply", "end"} /\ row.by \in Deliveries
      BY <1>1 DEF RememberInv
    <3>2. CASE row.by # d
      BY <1>4, <3>1, <3>2, StaysOnWay DEF Alone, MsgOf
    <3>3. CASE row.by = d
      <4>1. delivery[d].at = "reply"
        BY <1>4, <3>1, <3>3, StaysOnWay
      <4> QED
        BY <1>4, <3>3, <4>1, StaysOnWay, RememberEffects
    <3> QED
      BY <3>2, <3>3
  <2>2. CASE UNCHANGED remembered
    BY <1>3, <2>1, <2>2
  <2>3. CASE ~UNCHANGED remembered
    <3> DEFINE new == [by |-> d, meta |-> HasMeta(d)]
    <3>1. /\ delivery[d].at = "store" /\ delivery'[d].at = "reply" /\ MsgOf(d)' = MsgOf(d)
          /\ delivery'[d].known = delivery[d].known
          /\ remembered' = remembered \cup {new}
          /\ HasMeta(d) => ~Finds(d)
      BY <1>4, <2>3, StaysOnWay, RememberEffects
    <3>2. new.by = d /\ (new.meta <=> HasMeta(d))
      OBVIOUS
    <3>3. ASSUME NEW row \in remembered, row.meta, new.meta, MsgOf(row.by) = MsgOf(d),
                 delivery[row.by].known = delivery[d].known
          PROVE  FALSE
      BY <3>1, <3>2, <3>3 DEF Finds
    <3> HIDE DEF new
    <3>4. \A row \in remembered' : delivery'[row.by].at \in {"reply", "end"}
      BY <2>1, <3>1, <3>2
    <3>5. ASSUME NEW row \in remembered', NEW other \in remembered', row.meta, other.meta,
                 MsgOf(row.by)' = MsgOf(other.by)',
                 delivery'[row.by].known = delivery'[other.by].known
          PROVE  row = other
      <4>1. CASE row \in remembered /\ other \in remembered
        BY <1>2, <2>1, <3>5, <4>1
      <4>2. CASE row = new \/ other = new
        BY <2>1, <3>1, <3>2, <3>3, <3>5, <4>2
      <4> QED
        BY <3>1, <4>1, <4>2
    <3> QED
      BY <3>4, <3>5 DEF RememberInv, RememberedOnce, StoredOnce, MsgOf
  <2> QED
    BY <2>2, <2>3
<1>5. ASSUME ~\E d \in Deliveries : Step(d) PROVE RememberInv'
  <2>1. /\ UNCHANGED tables
        /\ \A d \in Deliveries : delivery[d].at # "none" =>
              /\ MsgOf(d)' = MsgOf(d) /\ delivery'[d].at = delivery[d].at
              /\ delivery'[d].known = delivery[d].known
    BY <1>5, QuietSteps DEF Next
  <2>2. \A row \in remembered : Settled(row.by)
    BY <1>1, <2>1 DEF RememberInv
  <2> QED
    BY <1>3, <2>1, <2>2 DEF tables
<1> QED
  BY <1>4, <1>5

(* What a message asks to remember is stored once by the processes that    *)
(* know of the column metadata (saveMessage).                              *)
THEOREM RememberedOnceHolds == Spec => []RememberedOnce
<1>1. Init => RememberInv
  BY DEF Init, RememberInv, RememberedOnce, StoredOnce
<1>2. RememberInv => RememberedOnce
  BY DEF RememberInv
<1> QED
  BY <1>1, <1>2, RememberStep, TypeInvariant, PTL DEF Spec
=============================================================================
