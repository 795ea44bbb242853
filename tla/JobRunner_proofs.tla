-------------------------- MODULE JobRunner_proofs --------------------------
(***************************************************************************)
(* RunnerInv is an invariant of the worker for every set of processes,     *)
(* threads, jobs and keys and every queue bound.  OneAtATime and           *)
(* KeysMatch are not inductive alone: that a key is released by the item   *)
(* that reserved it needs KeysDistinct, and KeysDistinct needs KeysMatch   *)
(* to know that an accepted key is neither queued nor running.             *)
(***************************************************************************)
EXTENDS JobRunner, TLAPS

(* What enqueue's push does to the keys of a queue. *)
LEMMA AppendKeys ==
    ASSUME NEW q \in Seq(Items), NEW x \in Items
    PROVE  /\ Append(q, x) \in Seq(Items)
           /\ Append(q, x) # <<>>
           /\ KeysOf(Append(q, x)) = KeysOf(q) \cup ({x.key} \ {NoKey})
           /\ DistinctKeys(q) /\ x.key \notin KeysOf(q)
                 => DistinctKeys(Append(q, x))
<1> DEFINE r == Append(q, x)
<1>1. /\ r \in Seq(Items)
      /\ Len(r) = Len(q) + 1
      /\ DOMAIN r = 1 .. Len(q) + 1
      /\ DOMAIN q = 1 .. Len(q)
      /\ Len(q) \in Nat
      /\ r[Len(q) + 1] = x
      /\ \A i \in 1 .. Len(q) : r[i] = q[i]
  OBVIOUS
<1>2. r # <<>>
  BY <1>1
<1>3. KeysOf(r) = KeysOf(q) \cup ({x.key} \ {NoKey})
  <2> HIDE DEF r
  <2>1. \A i \in DOMAIN r : i \in DOMAIN q \/ i = Len(q) + 1
    BY <1>1
  <2>2. DOMAIN q \subseteq DOMAIN r /\ Len(q) + 1 \in DOMAIN r
    BY <1>1
  <2> QED
    BY <1>1, <2>1, <2>2 DEF KeysOf
<1>4. DistinctKeys(q) /\ x.key \notin KeysOf(q) => DistinctKeys(r)
  <2> HIDE DEF r
  <2> SUFFICES ASSUME DistinctKeys(q), x.key \notin KeysOf(q),
                      NEW i \in DOMAIN r, NEW j \in DOMAIN r,
                      r[i].key = r[j].key, r[i].key # NoKey
               PROVE  i = j
    BY DEF DistinctKeys
  <2>1. CASE i \in DOMAIN q /\ j \in DOMAIN q
    BY <1>1, <2>1 DEF DistinctKeys
  <2>2. CASE i \in DOMAIN q /\ j = Len(q) + 1
    BY <1>1, <2>2 DEF KeysOf
  <2>3. CASE i = Len(q) + 1 /\ j \in DOMAIN q
    BY <1>1, <2>3 DEF KeysOf
  <2> QED
    BY <1>1, <2>1, <2>2, <2>3
<1> QED
  BY <1>1, <1>2, <1>3, <1>4

(* What runOnce's shift does to the keys of a queue. *)
LEMMA TailKeys ==
    ASSUME NEW q \in Seq(Items), q # <<>>
    PROVE  /\ Head(q) \in Items
           /\ Tail(q) \in Seq(Items)
           /\ KeysOf(q) = KeysOf(Tail(q)) \cup ({Head(q).key} \ {NoKey})
           /\ DistinctKeys(q) => /\ DistinctKeys(Tail(q))
                                 /\ Head(q).key \notin KeysOf(Tail(q))
<1> DEFINE r == Tail(q)  h == Head(q)
<1>1. /\ h \in Items
      /\ r \in Seq(Items)
      /\ Len(q) \in Nat \ {0}
      /\ DOMAIN q = 1 .. Len(q)
      /\ DOMAIN r = 1 .. Len(q) - 1
      /\ q[1] = h
      /\ \A i \in 1 .. Len(q) - 1 : r[i] = q[i + 1]
  <2>1. Len(q) \in Nat \ {0} /\ DOMAIN q = 1 .. Len(q)
    OBVIOUS
  <2>2. h \in Items /\ q[1] = h
    BY <2>1
  <2>3. r \in Seq(Items) /\ DOMAIN r = 1 .. Len(q) - 1
    BY <2>1
  <2>4. \A i \in 1 .. Len(q) - 1 : r[i] = q[i + 1]
    BY <2>1
  <2> QED
    BY <2>1, <2>2, <2>3, <2>4
<1> HIDE DEF r, h
<1>2. \A i \in DOMAIN q : i = 1 \/ (i - 1 \in DOMAIN r /\ q[i] = r[i - 1])
  BY <1>1
<1>3. 1 \in DOMAIN q /\ \A i \in DOMAIN r : i + 1 \in DOMAIN q /\ r[i] = q[i + 1]
  BY <1>1
<1>4. KeysOf(q) = KeysOf(r) \cup ({h.key} \ {NoKey})
  <2>1. ASSUME NEW k \in KeysOf(q) PROVE k \in KeysOf(r) \cup ({h.key} \ {NoKey})
    BY <1>1, <1>2, <2>1 DEF KeysOf
  <2>2. ASSUME NEW k \in KeysOf(r) \cup ({h.key} \ {NoKey}) PROVE k \in KeysOf(q)
    BY <1>1, <1>3, <2>2 DEF KeysOf
  <2> QED
    BY <2>1, <2>2
<1>5. ASSUME DistinctKeys(q)
      PROVE  DistinctKeys(r) /\ h.key \notin KeysOf(r)
  <2>1. DistinctKeys(r)
    BY <1>1, <1>3, <1>5 DEF DistinctKeys
  <2>2. ASSUME h.key \in KeysOf(r) PROVE FALSE
    <3>1. PICK i \in DOMAIN r : r[i].key = h.key /\ h.key # NoKey
      BY <2>2 DEF KeysOf
    <3> QED
      BY <1>1, <1>3, <1>5, <3>1 DEF DistinctKeys
  <2> QED
    BY <2>1, <2>2
<1> QED
  BY <1>1, <1>4, <1>5 DEF r, h
-----------------------------------------------------------------------------
(* When the worker is free no key is held by a running item. *)
LEMMA FreeHoldsNone ==
    ASSUME OneAtATime, NEW p \in Procs, ~running[p]
    PROVE  HeldKeys(p) = {}
BY DEF OneAtATime, HeldKeys

(* When a thread is inside runOnce the running item is its item. *)
LEMMA BusyHoldsOne ==
    ASSUME OneAtATime, NEW t \in Threads, Busy(t)
    PROVE  HeldKeys(Home[t]) = {worker[t].item.key} \ {NoKey}
BY DEF OneAtATime, HeldKeys

(* A new worker satisfies the invariant. *)
LEMMA InitInv == Init => RunnerInv
<1> SUFFICES ASSUME Init PROVE RunnerInv
  OBVIOUS
<1> USE DEF Init
<1>1. TypeOK
  BY DEF TypeOK, Idle, Stages
<1>2. ItemHeld /\ OneAtATime
  BY DEF ItemHeld, OneAtATime, Busy, Idle
<1>3. KeysMatch /\ KeysDistinct
  BY DEF KeysMatch, KeysDistinct, KeysOf, HeldKeys, DistinctKeys, Busy, Idle
<1> QED
  BY <1>1, <1>2, <1>3 DEF RunnerInv

(* The shift of runOnce on a queue q whose keys are the reserved ones. *)
LEMMA TakeHeadInv ==
    ASSUME RunnerInv,
           NEW t \in Threads, ~Busy(t),
           NEW q \in Seq(Items), q # <<>>, DistinctKeys(q),
           TakeHead(t, q),
           keys' = [keys EXCEPT ![Home[t]] = KeysOf(q)],
           UNCHANGED dlq
    PROVE  RunnerInv'
<1> DEFINE p == Home[t]  x == Head(q)
<1>p. p \in Procs
  BY HomeAssumption
<1>q. /\ x \in Items
      /\ Tail(q) \in Seq(Items)
      /\ KeysOf(q) = KeysOf(Tail(q)) \cup ({x.key} \ {NoKey})
      /\ DistinctKeys(Tail(q)) /\ x.key \notin KeysOf(Tail(q))
  BY TailKeys
<1>n. KeysOf(q) \subseteq Keys
  <2>1. \A i \in DOMAIN q : q[i] \in Items
    OBVIOUS
  <2> QED
    BY <2>1 DEF KeysOf, Items
<1> USE DEF RunnerInv
<1>w. /\ worker'  = [worker EXCEPT ![t] = [stage |-> "gate", item |-> x]]
      /\ running' = [running EXCEPT ![p] = TRUE]
      /\ queue'   = [queue EXCEPT ![p] = Tail(q)]
      /\ ~running[p]
  BY DEF TakeHead
<1> HIDE DEF p, x
<1>1. TypeOK'
  BY <1>p, <1>q, <1>n, <1>w DEF TypeOK, Stages, p
<1>2. /\ worker'[t] = [stage |-> "gate", item |-> x]
      /\ \A u \in Threads \ {t} : worker'[u] = worker[u]
      /\ queue'[p] = Tail(q)
      /\ keys'[p] = KeysOf(q)
      /\ running'[p] = TRUE
      /\ \A o \in Procs \ {p} : /\ queue'[o] = queue[o]
                               /\ keys'[o] = keys[o]
                               /\ running'[o] = running[o]
  BY <1>p, <1>w DEF TypeOK, p
<1>3. \A u \in Threads : Home[u] = p => ~Busy(u)
  BY <1>p, <1>w DEF OneAtATime
<1>4. /\ Busy(t)'
      /\ \A u \in Threads \ {t} : Busy(u)' <=> Busy(u)
  BY <1>2 DEF Busy
<1>5. ItemHeld'
  BY <1>2, <1>4, <1>q, NoItemAssumption DEF ItemHeld
<1>6. OneAtATime'
  BY <1>2, <1>3, <1>4 DEF OneAtATime, p
<1>7. HeldKeys(p)' = {x.key} \ {NoKey}
  BY <1>2, <1>3, <1>4 DEF HeldKeys, p
<1>8. \A o \in Procs \ {p} : HeldKeys(o)' = HeldKeys(o)
  BY <1>2, <1>4 DEF HeldKeys, p
<1>9. KeysMatch'
  <2> SUFFICES ASSUME NEW o \in Procs
               PROVE  keys'[o] = KeysOf(queue'[o]) \cup HeldKeys(o)'
    BY DEF KeysMatch, KeysOf
  <2>1. CASE o = p
    BY <2>1, <1>2, <1>7, <1>q
  <2>2. CASE o # p
    BY <2>2, <1>2, <1>8 DEF KeysMatch
  <2> QED
    BY <2>1, <2>2
<1>10. KeysDistinct'
  <2> SUFFICES ASSUME NEW o \in Procs
               PROVE  /\ DistinctKeys(queue'[o])
                      /\ KeysOf(queue'[o]) \cap HeldKeys(o)' = {}
    BY DEF KeysDistinct, KeysOf, DistinctKeys
  <2>1. CASE o = p
    BY <2>1, <1>2, <1>7, <1>q
  <2>2. CASE o # p
    BY <2>2, <1>2, <1>8 DEF KeysDistinct
  <2> QED
    BY <2>1, <2>2
<1> QED
  BY <1>1, <1>5, <1>6, <1>9, <1>10
(* A step between two awaits inside runOnce moves only the stage. *)
LEMMA GotoInv ==
    ASSUME RunnerInv, NEW t \in Threads,
           NEW from \in Stages \ {"idle"}, NEW to \in Stages \ {"idle"},
           Goto(t, from, to)
    PROVE  RunnerInv'
<1> USE DEF RunnerInv
<1>1. /\ worker[t].stage = from
      /\ worker' = [worker EXCEPT ![t].stage = to]
      /\ UNCHANGED <<queue, keys, running, dlq>>
  BY DEF Goto
<1>2. TypeOK'
  BY <1>1 DEF TypeOK
<1>3. \A u \in Threads : /\ Busy(u)' <=> Busy(u)
                         /\ worker'[u].item = worker[u].item
  BY <1>1 DEF Busy, TypeOK
<1>4. \A p \in Procs : HeldKeys(p)' = HeldKeys(p)
  BY <1>3 DEF HeldKeys
<1>5. ItemHeld' /\ OneAtATime'
  BY <1>1, <1>3 DEF ItemHeld, OneAtATime
<1>6. KeysMatch' /\ KeysDistinct'
  BY <1>1, <1>4 DEF KeysMatch, KeysDistinct, KeysOf, DistinctKeys
<1> QED
  BY <1>2, <1>5, <1>6

(* The way out of runOnce: the item's own key is released. *)
LEMMA LeaveInv ==
    ASSUME RunnerInv, NEW t \in Threads, Busy(t), Leave(t),
           dlq' \in [Procs -> SUBSET Items]
    PROVE  RunnerInv'
<1> DEFINE p == Home[t]  k == worker[t].item.key
<1> USE DEF RunnerInv
<1>p. p \in Procs
  BY HomeAssumption
<1>1. /\ keys'    = [keys EXCEPT ![p] = @ \ {k}]
      /\ running' = [running EXCEPT ![p] = FALSE]
      /\ worker'  = [worker EXCEPT ![t] = Idle]
      /\ queue'   = queue
  BY DEF Leave, ReleaseKey
<1>2. TypeOK'
  BY <1>1, <1>p DEF TypeOK, Idle, Stages
<1>3. /\ ~Busy(t)' /\ worker'[t].item = NoItem
      /\ \A u \in Threads \ {t} : /\ Busy(u)' <=> Busy(u)
                                /\ worker'[u] = worker[u]
  BY <1>1 DEF Busy, TypeOK, Idle
<1>4. \A u \in Threads : Home[u] = p => ~Busy(u)'
  BY <1>3 DEF OneAtATime
<1>5. HeldKeys(p)' = {} /\ HeldKeys(p) = {k} \ {NoKey}
  BY <1>4, BusyHoldsOne DEF HeldKeys
<1>6. \A o \in Procs \ {p} : HeldKeys(o)' = HeldKeys(o)
  BY <1>3 DEF HeldKeys
<1>7. /\ running'[p] = FALSE /\ keys'[p] = keys[p] \ {k}
      /\ \A o \in Procs \ {p} : running'[o] = running[o] /\ keys'[o] = keys[o]
  BY <1>1, <1>p DEF TypeOK
<1>8. ItemHeld'
  BY <1>3 DEF ItemHeld
<1>9. OneAtATime'
  <2>1. \A t1, t2 \in Threads :
           Busy(t1)' /\ Busy(t2)' /\ Home[t1] = Home[t2] => t1 = t2
    BY <1>3 DEF OneAtATime
  <2>2. \A o \in Procs :
           running'[o] <=> \E u \in Threads : Home[u] = o /\ Busy(u)'
    BY <1>3, <1>4, <1>7 DEF OneAtATime
  <2> QED
    BY <2>1, <2>2 DEF OneAtATime
<1> HIDE DEF p, k
<1>10. KeysMatch'
  <2> SUFFICES ASSUME NEW o \in Procs
               PROVE  keys'[o] = KeysOf(queue[o]) \cup HeldKeys(o)'
    BY <1>1 DEF KeysMatch, KeysOf
  <2>1. CASE o = p
    <3>1. keys[p] = KeysOf(queue[p]) \cup ({k} \ {NoKey})
      BY <1>5, <1>p DEF KeysMatch
    <3>2. k \notin KeysOf(queue[p])
      BY <1>5, <1>p DEF KeysDistinct, KeysOf
    <3> QED
      BY <2>1, <3>1, <3>2, <1>5, <1>7
  <2>2. CASE o # p
    BY <2>2, <1>6, <1>7 DEF KeysMatch
  <2> QED
    BY <2>1, <2>2
<1>11. KeysDistinct'
  <2> SUFFICES ASSUME NEW o \in Procs
               PROVE  /\ DistinctKeys(queue[o])
                      /\ KeysOf(queue[o]) \cap HeldKeys(o)' = {}
    BY <1>1 DEF KeysDistinct, KeysOf, DistinctKeys
  <2> QED
    BY <1>5, <1>6 DEF KeysDistinct
<1> QED
  BY <1>2, <1>8, <1>9, <1>10, <1>11

(* enqueue while another thread is inside runOnce. *)
LEMMA SubmitQueuedInv ==
    ASSUME RunnerInv, NEW t \in Threads,
           NEW job \in Jobs, NEW key \in Keys \cup {NoKey},
           SubmitQueued(t, job, key)
    PROVE  RunnerInv'
<1> DEFINE p == Home[t]  x == [job |-> job, key |-> key]
<1> USE DEF RunnerInv
<1>p. p \in Procs
  BY HomeAssumption
<1>x. x \in Items /\ x.key = key
  BY DEF Items
<1>1. /\ queue' = [queue EXCEPT ![p] = Append(@, x)]
      /\ keys'  = [keys EXCEPT ![p] = @ \cup ({key} \ {NoKey})]
      /\ UNCHANGED <<running, worker, dlq>>
      /\ key \notin keys[p]
  BY DEF SubmitQueued, Reserve, Accepts
<1> HIDE DEF p, x
<1>2. queue[p] \in Seq(Items)
  BY <1>p DEF TypeOK
<1>k. key \notin KeysOf(queue[p]) /\ key \notin HeldKeys(p)
  BY <1>1, <1>p DEF KeysMatch
<1>3. /\ Append(queue[p], x) \in Seq(Items)
      /\ KeysOf(Append(queue[p], x)) = KeysOf(queue[p]) \cup ({key} \ {NoKey})
      /\ DistinctKeys(Append(queue[p], x))
  BY <1>2, <1>p, <1>x, <1>k, AppendKeys DEF KeysDistinct
<1>4. TypeOK'
  BY <1>1, <1>p, <1>3 DEF TypeOK
<1>5. /\ queue'[p] = Append(queue[p], x)
      /\ keys'[p] = keys[p] \cup ({key} \ {NoKey})
      /\ \A o \in Procs \ {p} : queue'[o] = queue[o] /\ keys'[o] = keys[o]
  BY <1>1, <1>p DEF TypeOK
<1>6. /\ \A u \in Threads : Busy(u)' <=> Busy(u)
      /\ \A o \in Procs : HeldKeys(o)' = HeldKeys(o)
  BY <1>1 DEF Busy, HeldKeys
<1>7. ItemHeld' /\ OneAtATime'
  BY <1>1, <1>6 DEF ItemHeld, OneAtATime
<1>8. KeysMatch'
  <2> SUFFICES ASSUME NEW o \in Procs
               PROVE  keys'[o] = KeysOf(queue'[o]) \cup HeldKeys(o)'
    BY DEF KeysMatch, KeysOf
  <2>1. CASE o = p
    BY <2>1, <1>p, <1>3, <1>5, <1>6 DEF KeysMatch
  <2>2. CASE o # p
    BY <2>2, <1>5, <1>6 DEF KeysMatch
  <2> QED
    BY <2>1, <2>2
<1>9. KeysDistinct'
  <2> SUFFICES ASSUME NEW o \in Procs
               PROVE  /\ DistinctKeys(queue'[o])
                      /\ KeysOf(queue'[o]) \cap HeldKeys(o)' = {}
    BY DEF KeysDistinct, KeysOf, DistinctKeys
  <2>1. CASE o = p
    BY <2>1, <1>p, <1>3, <1>5, <1>6, <1>k DEF KeysDistinct
  <2>2. CASE o # p
    BY <2>2, <1>5, <1>6 DEF KeysDistinct
  <2> QED
    BY <2>1, <2>2
<1> QED
  BY <1>4, <1>7, <1>8, <1>9

(* A restart empties the process's worker. *)
LEMMA RestartInv ==
    ASSUME RunnerInv, NEW p \in Procs, Restart(p)
    PROVE  RunnerInv'
<1> USE DEF RunnerInv
<1>1. /\ queue'   = [queue   EXCEPT ![p] = <<>>]
      /\ keys'    = [keys    EXCEPT ![p] = {}]
      /\ running' = [running EXCEPT ![p] = FALSE]
      /\ worker'  = [t \in Threads |-> IF Home[t] = p THEN Idle ELSE worker[t]]
      /\ dlq'     = [dlq EXCEPT ![p] = {}]
  BY DEF Restart
<1>2. TypeOK'
  BY <1>1 DEF TypeOK, Idle, Stages
<1>3. \A u \in Threads :
         IF Home[u] = p THEN ~Busy(u)' /\ worker'[u].item = NoItem
                        ELSE (Busy(u)' <=> Busy(u)) /\ worker'[u] = worker[u]
  BY <1>1 DEF Busy, Idle
<1>4. /\ queue'[p] = <<>> /\ keys'[p] = {} /\ running'[p] = FALSE
      /\ \A o \in Procs \ {p} : /\ queue'[o] = queue[o]
                               /\ keys'[o] = keys[o]
                               /\ running'[o] = running[o]
  BY <1>1 DEF TypeOK
<1>5. HeldKeys(p)' = {} /\ \A o \in Procs \ {p} : HeldKeys(o)' = HeldKeys(o)
  BY <1>3 DEF HeldKeys
<1>6. ItemHeld'
  BY <1>3 DEF ItemHeld
<1>7. OneAtATime'
  BY <1>3, <1>4 DEF OneAtATime
<1>8. KeysOf(<<>>) = {} /\ DistinctKeys(<<>>)
  BY DEF KeysOf, DistinctKeys
<1>9. KeysMatch'
  <2> SUFFICES ASSUME NEW o \in Procs
               PROVE  keys'[o] = KeysOf(queue'[o]) \cup HeldKeys(o)'
    BY DEF KeysMatch, KeysOf
  <2> QED
    BY <1>4, <1>5, <1>8 DEF KeysMatch
<1>10. KeysDistinct'
  <2> SUFFICES ASSUME NEW o \in Procs
               PROVE  /\ DistinctKeys(queue'[o])
                      /\ KeysOf(queue'[o]) \cap HeldKeys(o)' = {}
    BY DEF KeysDistinct, KeysOf, DistinctKeys
  <2> QED
    BY <1>4, <1>5, <1>8 DEF KeysDistinct
<1> QED
  BY <1>2, <1>6, <1>7, <1>9, <1>10
(* A step that leaves the worker alone keeps it. *)
LEMMA StutterInv ==
    ASSUME RunnerInv, UNCHANGED runnerVars
    PROVE  RunnerInv'
<1> USE DEF RunnerInv, runnerVars
<1>1. TypeOK'
  BY DEF TypeOK
<1>2. /\ \A u \in Threads : Busy(u)' <=> Busy(u)
      /\ \A p \in Procs : HeldKeys(p)' = HeldKeys(p)
  BY DEF Busy, HeldKeys
<1>3. ItemHeld' /\ OneAtATime'
  BY <1>2 DEF ItemHeld, OneAtATime
<1>4. KeysMatch' /\ KeysDistinct'
  BY <1>2 DEF KeysMatch, KeysDistinct, KeysOf, DistinctKeys
<1> QED
  BY <1>1, <1>3, <1>4

(* enqueue accepts and runOnce starts. *)
LEMMA SubmitRunInv ==
    ASSUME RunnerInv, NEW t \in Threads,
           NEW job \in Jobs, NEW key \in Keys \cup {NoKey},
           SubmitRun(t, job, key)
    PROVE  RunnerInv'
<1> DEFINE p == Home[t]  x == [job |-> job, key |-> key]  q == queue[p]
<1>1. /\ p \in Procs /\ q \in Seq(Items) /\ x \in Items /\ x.key = key
      /\ DistinctKeys(q)
  BY HomeAssumption DEF RunnerInv, TypeOK, Items, KeysDistinct
<1>2. /\ ~Busy(t) /\ TakeHead(t, Append(q, x)) /\ UNCHANGED dlq
      /\ key \notin keys[p]
      /\ keys' = [keys EXCEPT ![p] = @ \cup ({key} \ {NoKey})]
  BY DEF SubmitRun, Accepts, Reserve
<1>3. HeldKeys(p) = {}
  BY <1>1, <1>2, FreeHoldsNone DEF RunnerInv, TakeHead
<1>4. keys[p] = KeysOf(q)
  BY <1>1, <1>3 DEF RunnerInv, KeysMatch
<1> HIDE DEF x, q
<1>5. /\ Append(q, x) \in Seq(Items) /\ Append(q, x) # <<>>
      /\ KeysOf(Append(q, x)) = KeysOf(q) \cup ({key} \ {NoKey})
      /\ DistinctKeys(Append(q, x))
  BY <1>1, <1>2, <1>4, AppendKeys
<1>6. keys' = [keys EXCEPT ![p] = KeysOf(Append(q, x))]
  BY <1>2, <1>4, <1>5
<1> QED
  BY <1>2, <1>5, <1>6, TakeHeadInv

(* enqueue rejects and the caller runs the head all the same. *)
LEMMA RejectedThenRunInv ==
    ASSUME RunnerInv, NEW t \in Threads, NEW key \in Keys \cup {NoKey},
           RejectedThenRun(t, key)
    PROVE  RunnerInv'
<1> DEFINE p == Home[t]  q == queue[p]
<1>1. p \in Procs /\ q \in Seq(Items) /\ DistinctKeys(q)
  BY HomeAssumption DEF RunnerInv, TypeOK, KeysDistinct
<1>2. CASE q # <<>> /\ TakeHead(t, q) /\ UNCHANGED <<keys, dlq>>
  <2>1. HeldKeys(p) = {}
    BY <1>1, <1>2, FreeHoldsNone DEF RunnerInv, TakeHead
  <2>2. keys[p] = KeysOf(q)
    BY <1>1, <2>1 DEF RunnerInv, KeysMatch
  <2>3. keys' = [keys EXCEPT ![p] = KeysOf(q)]
    BY <1>1, <1>2, <2>2 DEF RunnerInv, TypeOK
  <2>4. ~Busy(t)
    BY DEF RejectedThenRun
  <2> QED
    BY <1>1, <1>2, <2>3, <2>4, TakeHeadInv
<1>3. CASE UNCHANGED runnerVars
  BY <1>3, StutterInv
<1> QED
  BY <1>2, <1>3 DEF RejectedThenRun

(* Every answer that resumes runOnce keeps the invariant. *)
LEMMA ProgressInv ==
    ASSUME RunnerInv, NEW t \in Threads, Progress(t)
    PROVE  RunnerInv'
<1> USE DEF Stages
<1>1. CASE GateOpens(t)
  BY <1>1, GotoInv DEF GateOpens
<1>2. CASE GateThrows(t)
  BY <1>2, GotoInv DEF GateThrows
<1>3. CASE HandlerReturns(t)
  BY <1>3, GotoInv DEF HandlerReturns
<1>4. CASE HandlerThrows(t)
  BY <1>4, GotoInv DEF HandlerThrows
<1>5. CASE FinishThrows(t)
  BY <1>5, GotoInv DEF FinishThrows
<1>6. CASE AttemptsRead(t)
  BY <1>6, GotoInv DEF AttemptsRead
<1>7. CASE MarkWritten(t)
  BY <1>7, GotoInv DEF MarkWritten
<1>8. CASE CatchThrows(t)
  BY <1>8, GotoInv DEF CatchThrows
<1>9. dlq \in [Procs -> SUBSET Items]
  BY DEF RunnerInv, TypeOK
<1>10. CASE GateSkips(t)
  BY <1>9, <1>10, LeaveInv DEF GateSkips, Busy
<1>11. CASE FinishWritten(t)
  BY <1>9, <1>11, LeaveInv DEF FinishWritten, Busy
<1>12. CASE Fail(t)
  <2>1. Busy(t) /\ Leave(t)
    BY <1>12 DEF Fail, Busy
  <2>2. worker[t].item \in Items
    BY <2>1 DEF RunnerInv, TypeOK, ItemHeld
  <2>3. dlq' \in [Procs -> SUBSET Items]
    BY <1>9, <1>12, <2>2, HomeAssumption DEF Fail
  <2> QED
    BY <2>1, <2>3, LeaveInv
<1> QED
  BY <1>1, <1>2, <1>3, <1>4, <1>5, <1>6, <1>7, <1>8, <1>10, <1>11, <1>12
     DEF Progress

(* Every step of Next keeps the invariant. *)
LEMMA StepInv == RunnerInv /\ [Next]_runnerVars => RunnerInv'
<1> SUFFICES ASSUME RunnerInv, [Next]_runnerVars PROVE RunnerInv'
  OBVIOUS
<1>1. ASSUME UNCHANGED runnerVars PROVE RunnerInv'
  BY <1>1, StutterInv
<1>2. ASSUME NEW t \in Threads, Submit(t) PROVE RunnerInv'
  <2> PICK job \in Jobs, key \in Keys \cup {NoKey} :
         \/ SubmitRun(t, job, key)
         \/ SubmitQueued(t, job, key)
         \/ SubmitRejected(t, key)
         \/ RejectedThenRun(t, key)
    BY <1>2 DEF Submit
  <2>1. CASE SubmitRun(t, job, key)
    BY <2>1, SubmitRunInv
  <2>2. CASE SubmitQueued(t, job, key)
    BY <2>2, SubmitQueuedInv
  <2>3. CASE SubmitRejected(t, key)
    BY <2>3, <1>1 DEF SubmitRejected
  <2>4. CASE RejectedThenRun(t, key)
    BY <2>4, RejectedThenRunInv
  <2> QED
    BY <2>1, <2>2, <2>3, <2>4
<1>3. ASSUME NEW t \in Threads, Progress(t) PROVE RunnerInv'
  BY <1>3, ProgressInv
<1>4. ASSUME NEW p \in Procs, Restart(p) PROVE RunnerInv'
  BY <1>4, RestartInv
<1> QED
  BY <1>1, <1>2, <1>3, <1>4 DEF Next

(* The inductive invariant holds in every reachable state. *)
THEOREM RunnerInvariant == Spec => []RunnerInv
<1>1. Init => RunnerInv
  BY InitInv
<1>2. RunnerInv /\ [Next]_runnerVars => RunnerInv'
  BY StepInv
<1> QED
  BY <1>1, <1>2, PTL DEF Spec

(* The queue, key set, flag and thread states keep their types. *)
THEOREM TypeCorrect == Spec => []TypeOK
<1>1. RunnerInv => TypeOK
  BY DEF RunnerInv
<1> QED
  BY <1>1, RunnerInvariant, PTL

(* A process never runs two handlers at once, and _running tells exactly   *)
(* whether it runs one.                                                    *)
THEOREM OneAtATimeHolds == Spec => []OneAtATime
<1>1. RunnerInv => OneAtATime
  BY DEF RunnerInv
<1> QED
  BY <1>1, RunnerInvariant, PTL

(* The reserved keys are those of the outstanding items. *)
THEOREM KeysMatchHolds == Spec => []KeysMatch
<1>1. RunnerInv => KeysMatch
  BY DEF RunnerInv
<1> QED
  BY <1>1, RunnerInvariant, PTL

(* No two outstanding items of a process carry one key. *)
THEOREM KeysDistinctHolds == Spec => []KeysDistinct
<1>1. RunnerInv => KeysDistinct
  BY DEF RunnerInv
<1> QED
  BY <1>1, RunnerInvariant, PTL
=============================================================================
