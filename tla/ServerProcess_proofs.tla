------------------------ MODULE ServerProcess_proofs ------------------------
(***************************************************************************)
(* What is proved of the parts of a server process, for any values of      *)
(* their constants: one section for each part, which names an inductive    *)
(* invariant, proves that the steps of the part keep it, and ends with the *)
(* theorem of the run's composition, where a behaviour uses one part.      *)
(***************************************************************************)
EXTENDS ServerProcess, SequenceTheorems, TLAPS

processVars == <<runnerVars, used, now, limiterMap, memoryMap, cooldowns, chatMaps, sourceState,
                 workspace, projectRows, recall>>

(* The process moves its worker only as JobRunner does: what is proved of  *)
(* JobRunner alone (JobRunner_proofs) holds of it here.                    *)
THEOREM UsesJobRunner == ProcessSpec => Spec
<1>1. ProcessInit => Init
  BY DEF ProcessInit
<1>2. [ProcessNext]_processVars => [Next]_runnerVars
  BY DEF ProcessNext, Others, processVars
<1> QED BY <1>1, <1>2, PTL DEF ProcessSpec, processVars, Spec

-----------------------------------------------------------------------------
(* The rate limiter and the memory of seen keys: the invariants of         *)
(* RateLimiter_proofs and DedupeMemory_proofs                              *)

Calls == INSTANCE RateLimiter_proofs
    WITH Callers <- Clients, WindowMs <- LimitWindow, MaxCalls <- LimitCalls,
         MaxTime <- MaxTime["limiter"]

Seen == INSTANCE DedupeMemory_proofs
    WITH Keys <- DedupeKeys, MaxTime <- MaxTime["memory"]

LEMMA LimiterSteps ==
    /\ Limiter!Init => Calls!Init
    /\ Limiter!Next => Calls!Next
    /\ Calls!TypeOK /\ Calls!LimiterExact => Limiter!TypeOK /\ Limiter!LimiterExact
<1> USE DEF Limiter!NoCalls, Calls!NoCalls, Limiter!Fresh, Calls!Fresh, Limiter!Allowed,
            Calls!Allowed
<1>1. Limiter!Init => Calls!Init
  BY DEF Limiter!Init, Calls!Init
<1>2. Limiter!Next => Calls!Next
  BY DEF Limiter!Next, Calls!Next, Limiter!CheckRateLimit, Calls!CheckRateLimit, Limiter!Count,
     Calls!Count, Limiter!Restart, Calls!Restart, Limiter!Forget, Calls!Forget, Limiter!Tick,
     Calls!Tick
<1>3. Calls!TypeOK /\ Calls!LimiterExact => Limiter!TypeOK /\ Limiter!LimiterExact
  BY DEF Limiter!TypeOK, Calls!TypeOK, Limiter!InOrder, Calls!InOrder, Limiter!LimiterExact,
     Calls!LimiterExact, Limiter!ExactWindow, Calls!ExactWindow, Limiter!RetryAfterExact,
     Calls!RetryAfterExact, Limiter!RetryAfter, Calls!RetryAfter, Limiter!GrantedBefore,
     Calls!GrantedBefore, Limiter!Cardinality, Calls!Cardinality
<1> QED
  BY <1>1, <1>2, <1>3

(* checkRateLimit lets max calls through in any window and no more, never  *)
(* refuses one that would be within max, and tells whom it refuses the     *)
(* millisecond from which it will not.                                     *)
THEOREM LimiterExactHolds == ProcessSpec => []LimiterExact
<1> DEFINE Inv == used = "limiter" => Calls!LimiterInv
<1>0. Calls!Bounds
  BY GuardsAssumption DEF Calls!Bounds
<1>1. ProcessInit => Inv
  BY <1>0, LimiterSteps, Calls!LimiterInit DEF ProcessInit
<1>2. Inv /\ [ProcessNext]_processVars => Inv'
  <2> SUFFICES ASSUME Inv, [ProcessNext]_processVars, used' = "limiter"
               PROVE  Calls!LimiterInv'
    OBVIOUS
  <2>1. used = "limiter" /\ [Calls!Next]_(Calls!limiterVars)
    BY LimiterSteps DEF ProcessNext, processVars, limiterMap, Calls!limiterVars
  <2> QED
    BY <1>0, <2>1, Calls!LimiterStep
<1>3. Inv => LimiterExact
  BY <1>0, LimiterSteps, Calls!LimiterTells DEF LimiterExact
<1> QED
  BY <1>1, <1>2, <1>3, PTL DEF ProcessSpec, processVars

LEMMA MemorySteps ==
    /\ Memory!Init => Seen!Init
    /\ Memory!Next => Seen!Next
    /\ Seen!SeenOK /\ Seen!AdmittedOnce => Memory!SeenOK /\ Memory!AdmittedOnce
<1> USE DEF Memory!Nothing, Seen!Nothing, Memory!HasFresh, Seen!HasFresh, Memory!Fresh,
            Seen!Fresh
<1>1. Memory!Init => Seen!Init
  BY DEF Memory!Init, Seen!Init
<1>2. \A entries, k, t : Memory!Remember(entries, k, t) = Seen!Remember(entries, k, t)
  BY DEF Memory!Remember, Seen!Remember, Memory!SetKey, Seen!SetKey, Memory!KeysOf, Seen!KeysOf,
     Memory!Evict, Seen!Evict, Memory!Expired, Seen!Expired, Memory!RemoveAt, Seen!RemoveAt,
     Memory!Min, Seen!Min
<1>3. Memory!Next => Seen!Next
  <2>1. \A p, k : Memory!Receive(p, k) => Seen!Receive(p, k)
    BY <1>2 DEF Memory!Receive, Seen!Receive, Memory!LetIn, Seen!LetIn
  <2> QED
    BY <2>1 DEF Memory!Next, Seen!Next, Memory!Restart, Seen!Restart, Memory!Forget, Seen!Forget,
       Memory!Tick, Seen!Tick
<1>4. Seen!SeenOK /\ Seen!AdmittedOnce => Memory!SeenOK /\ Memory!AdmittedOnce
  BY DEF Memory!SeenOK, Seen!SeenOK, Memory!IsInjective, Seen!IsInjective, Memory!AdmittedOnce,
     Seen!AdmittedOnce, Memory!Cardinality, Seen!Cardinality
<1> QED
  BY <1>1, <1>3, <1>4

(* Within one life of a process and DEDUPE_TTL_MS a key is let in twice    *)
(* only if DEDUPE_MAX other keys were fresh in between: dedupeRemember     *)
(* forgets nothing too early while it has room.                            *)
THEOREM AdmittedOnceHolds == ProcessSpec => []AdmittedOnce
<1> DEFINE Inv == used = "memory" => Seen!MemoryInv
<1>0. DedupeTtl \in Nat /\ DedupeMax \in Nat
  BY GuardsAssumption
<1>1. ProcessInit => Inv
  BY <1>0, MemorySteps, Seen!MemoryInit DEF ProcessInit
<1>2. Inv /\ [ProcessNext]_processVars => Inv'
  <2> SUFFICES ASSUME Inv, [ProcessNext]_processVars, used' = "memory"
               PROVE  Seen!MemoryInv'
    OBVIOUS
  <2>1. used = "memory" /\ [Seen!Next]_(Seen!memoryVars)
    BY MemorySteps DEF ProcessNext, processVars, memoryMap, Seen!memoryVars
  <2> QED
    BY <1>0, <2>1, Seen!MemoryStep
<1>3. Inv => AdmittedOnce
  BY MemorySteps, Seen!MemoryTells DEF AdmittedOnce
<1> QED
  BY <1>1, <1>2, <1>3, PTL DEF ProcessSpec, processVars

-----------------------------------------------------------------------------
(* Alerts: checkDbUsage and the purges                                     *)

SentAlerts == [level : Levels, at : Nat, marked : Nat, after : SUBSET Nat]

AlertTypes ==
    /\ now \in Nat /\ now <= MaxTime["cooldowns"]
    /\ lastSent \in [Levels -> Nat]
    /\ \A l \in Levels : lastSent[l] # Alerts!Never => lastSent[l] <= now
    /\ lastRun \in [Procs -> Nat]
    /\ \A p \in Procs : lastRun[p] # Alerts!Never => lastRun[p] <= now
    /\ check \in [Checks -> [pc : {"idle", "sending", "marking"},
                             level : Levels \cup {Alerts!None}, alert : Nat, after : SUBSET Nat]]
    /\ \A c \in Checks : check[c].pc # "idle" => check[c].level \in Levels
    /\ alerts \in Seq(SentAlerts)

(* The alerts `after` of s are on record, and the cooldown of those of     *)
(* this level has passed at this time.                                     *)
Passed(s, level, after, time) ==
    \A i \in after :
       /\ i \in DOMAIN s /\ s[i].marked # Alerts!Never
       /\ s[i].level = level => time >= s[i].marked + AlertCooldown

(* The row of a level is no older than any alert on record, and an alert   *)
(* that is about to be put on record is one check's alone.                 *)
SpacedInv ==
    /\ \A n \in DOMAIN alerts : alerts[n].marked # Alerts!Never =>
          /\ lastSent[alerts[n].level] # Alerts!Never
          /\ alerts[n].marked <= lastSent[alerts[n].level]
    /\ \A c \in Checks : check[c].pc = "marking" /\ check[c].alert # 0 =>
          /\ check[c].alert \in DOMAIN alerts
          /\ alerts[check[c].alert].marked = Alerts!Never
          /\ alerts[check[c].alert].level = check[c].level
    /\ \A c, d \in Checks :
          /\ check[c].pc = "marking" /\ check[d].pc = "marking"
          /\ check[c].alert = check[d].alert /\ check[c].alert # 0
          => c = d
    /\ \A c \in Checks :
          check[c].pc = "sending" => /\ check[c].alert = 0
                                     /\ Passed(alerts, check[c].level, check[c].after, now)
    /\ \A j \in DOMAIN alerts : Passed(alerts, alerts[j].level, alerts[j].after, alerts[j].at)

-----------------------------------------------------------------------------
LEMMA AlertTypesInit == Alerts!Init => AlertTypes
BY AlertsAssumption DEF Alerts!Init, AlertTypes, Alerts!Idle, Alerts!Never

LEMMA AlertTypesStep ==
  ASSUME AlertTypes, [Alerts!Next]_(Alerts!cooldownVars)
  PROVE  AlertTypes'
<1> USE AlertsAssumption DEF Alerts!Never
<1>1. ASSUME NEW c \in Checks, Alerts!StartCheck(c) PROVE AlertTypes'
  <2>1. PICK l \in Levels : check' = [check EXCEPT ![c] =
                [pc |-> "sending", level |-> l, alert |-> 0,
                 after |-> {n \in DOMAIN alerts : alerts[n].marked # Alerts!Never}]]
    BY <1>1 DEF Alerts!StartCheck
  <2>2. {n \in DOMAIN alerts : alerts[n].marked # Alerts!Never} \in SUBSET Nat
    BY DEF AlertTypes
  <2>3. UNCHANGED <<now, lastSent, lastRun, alerts>>
    BY <1>1 DEF Alerts!StartCheck, Alerts!Alerts
  <2> QED BY <2>1, <2>2, <2>3 DEF AlertTypes
<1>2. ASSUME NEW c \in Checks, Alerts!SendAlert(c) PROVE AlertTypes'
  <2>1. /\ UNCHANGED <<now, lastSent, lastRun>> /\ check[c].pc = "sending"
        /\ check[c].level \in Levels
    BY <1>2 DEF Alerts!SendAlert, Alerts!Alerts, AlertTypes
  <2>2. CASE /\ alerts' = Append(alerts, [level |-> check[c].level, at |-> now,
                                      marked |-> Alerts!Never, after |-> check[c].after])
             /\ check' = [check EXCEPT ![c].pc = "marking", ![c].alert = Len(alerts')]
    <3>1. [level |-> check[c].level, at |-> now, marked |-> Alerts!Never, after |-> check[c].after]
             \in SentAlerts
      BY <2>1 DEF AlertTypes, SentAlerts
    <3>2. alerts' \in Seq(SentAlerts) /\ Len(alerts') \in Nat
      BY <2>2, <3>1 DEF AlertTypes
    <3> QED BY <2>1, <2>2, <3>2 DEF AlertTypes
  <2>3. CASE check' = [check EXCEPT ![c].pc = "marking"] /\ UNCHANGED alerts
    BY <2>1, <2>3 DEF AlertTypes
  <2> QED BY <1>2, <2>2, <2>3 DEF Alerts!SendAlert
<1>3. ASSUME NEW c \in Checks, Alerts!MarkSent(c) PROVE AlertTypes'
  <2>1. UNCHANGED <<now, lastRun>> /\ check' = [check EXCEPT ![c] = Alerts!Idle]
    BY <1>3 DEF Alerts!MarkSent, Alerts!Alerts
  <2>2. check' \in [Checks -> [pc : {"idle", "sending", "marking"},
                               level : Levels \cup {Alerts!None}, alert : Nat, after : SUBSET Nat]]
        /\ \A d \in Checks : check'[d].pc # "idle" => check'[d].level \in Levels
    BY <2>1 DEF AlertTypes, Alerts!Idle
  <2>3. CASE /\ Alerts!MarkRow(check[c].level)
             /\ alerts' = [n \in DOMAIN alerts |->
                           IF n = check[c].alert THEN [alerts[n] EXCEPT !.marked = now]
                           ELSE alerts[n]]
    <3>1. /\ lastSent' \in [Levels -> Nat]
          /\ \A l \in Levels : lastSent'[l] # Alerts!Never => lastSent'[l] <= now
      <4>1. lastSent' = [lastSent EXCEPT ![check[c].level] = now]
        BY <2>3 DEF Alerts!MarkRow
      <4>2. /\ now \in Nat /\ lastSent \in [Levels -> Nat]
            /\ \A l \in Levels : lastSent[l] # Alerts!Never => lastSent[l] <= now
        BY DEF AlertTypes
      <4>3. lastSent' \in [Levels -> Nat]
        BY <4>1, <4>2
      <4>4. \A l \in Levels : lastSent'[l] \in {now, lastSent[l]}
        BY <4>1, <4>2
      <4> QED BY <4>2, <4>3, <4>4
    <3>2. Len(alerts) \in Nat /\ DOMAIN alerts = 1..Len(alerts)
      BY DEF AlertTypes
    <3>3. ASSUME NEW n \in 1..Len(alerts) PROVE alerts'[n] \in SentAlerts
      <4>1. alerts[n] \in SentAlerts
        BY DEF AlertTypes
      <4>2. [alerts[n] EXCEPT !.marked = now] \in SentAlerts
        BY <4>1 DEF AlertTypes, SentAlerts
      <4> QED BY <2>3, <3>2, <4>1, <4>2
    <3>4. alerts' \in [1..Len(alerts) -> SentAlerts]
      BY <2>3, <3>2, <3>3
    <3>5. alerts' \in Seq(SentAlerts)
      BY <3>2, <3>4, SeqDef
    <3> QED BY <2>1, <2>2, <3>1, <3>5 DEF AlertTypes
  <2>4. CASE UNCHANGED <<lastSent, alerts>>
    BY <2>1, <2>2, <2>4 DEF AlertTypes
  <2> QED BY <1>3, <2>3, <2>4 DEF Alerts!MarkSent
<1>4. CASE Alerts!Tick
  BY <1>4 DEF AlertTypes, Alerts!Tick
<1>5. ASSUME NEW p \in Procs, Alerts!Purge(p) \/ Alerts!Restart(p) PROVE AlertTypes'
  <2>1. /\ UNCHANGED <<lastSent, check, now, alerts>>
        /\ \E t \in {now, Alerts!Never} : lastRun' = [lastRun EXCEPT ![p] = t]
    BY <1>5 DEF Alerts!Purge, Alerts!Restart, Alerts!Purges
  <2> QED BY <2>1 DEF AlertTypes
<1>6. CASE UNCHANGED <<lastSent, check, lastRun, now, alerts>>
  BY <1>6 DEF AlertTypes
<1> QED
  BY <1>1, <1>2, <1>3, <1>4, <1>5, <1>6 DEF Alerts!Next, Alerts!cooldownVars

-----------------------------------------------------------------------------
(* Of two histories, the later one has the alerts of the earlier as they   *)
(* were, those on record with the same time.                               *)
Recorded(s, t) ==
    \A i \in DOMAIN s :
       /\ i \in DOMAIN t /\ t[i].level = s[i].level
       /\ s[i].marked # Alerts!Never => t[i].marked = s[i].marked

LEMMA PassedStays ==
  ASSUME NEW s \in Seq(SentAlerts), NEW t, Recorded(s, t),
         NEW level, NEW after, NEW time \in Nat, NEW later \in Nat, time <= later,
         Passed(s, level, after, time)
  PROVE  Passed(t, level, after, later)
<1> SUFFICES ASSUME NEW i \in after
             PROVE  /\ i \in DOMAIN t /\ t[i].marked # Alerts!Never
                    /\ t[i].level = level => later >= t[i].marked + AlertCooldown
  BY DEF Passed
<1>1. i \in DOMAIN s /\ s[i].marked # Alerts!Never
  BY DEF Passed
<1>2. s[i] \in SentAlerts
  BY <1>1
<1> QED BY <1>1, <1>2, AlertsAssumption DEF Passed, Recorded, SentAlerts

LEMMA SpacedInit == Alerts!Init => SpacedInv
BY AlertsAssumption DEF Alerts!Init, SpacedInv, Passed, Alerts!Idle

LEMMA SpacedStep ==
  ASSUME AlertTypes, AlertTypes', SpacedInv, [Alerts!Next]_(Alerts!cooldownVars)
  PROVE  SpacedInv'
<1> USE AlertsAssumption DEF Alerts!Never
<1>1. ASSUME NEW c \in Checks, Alerts!StartCheck(c) PROVE SpacedInv'
  <2> DEFINE recorded == {n \in DOMAIN alerts : alerts[n].marked # Alerts!Never}
  <2>1. PICK l \in Levels :
           /\ Alerts!CooldownPassed(l)
           /\ check' = [check EXCEPT ![c] =
                [pc |-> "sending", level |-> l, alert |-> 0, after |-> recorded]]
    BY <1>1 DEF Alerts!StartCheck
  <2>2. UNCHANGED <<now, lastSent, lastRun, alerts>>
    BY <1>1 DEF Alerts!StartCheck, Alerts!Alerts
  <2>3. Passed(alerts, l, recorded, now)
    <3> SUFFICES ASSUME NEW i \in recorded, alerts[i].level = l
                 PROVE  now >= alerts[i].marked + AlertCooldown
      BY DEF Passed
    <3>1. alerts[i] \in SentAlerts
      BY DEF AlertTypes
    <3>2. lastSent[l] # Alerts!Never /\ alerts[i].marked <= lastSent[l]
      BY DEF SpacedInv
    <3>3. now >= lastSent[l] + AlertCooldown
      BY <2>1, <3>2 DEF Alerts!CooldownPassed
    <3> QED BY <3>1, <3>2, <3>3 DEF AlertTypes, SentAlerts
  <2>4. /\ check'[c].pc = "sending" /\ check'[c].level = l /\ check'[c].after = recorded
        /\ \A d \in Checks : d # c => check'[d] = check[d]
    BY <2>1 DEF AlertTypes
  <2>5. \A d \in Checks : check'[d].pc = "sending" =>
           check'[d].alert = 0 /\ Passed(alerts', check'[d].level, check'[d].after, now')
    BY <2>1, <2>2, <2>3, <2>4 DEF SpacedInv, AlertTypes
  <2>6. /\ check'[c].pc # "marking"
        /\ \A d \in Checks : check'[d].pc = "marking" => check'[d] = check[d]
    BY <2>4
  <2> QED BY <2>2, <2>5, <2>6 DEF SpacedInv
<1>2. ASSUME NEW c \in Checks, Alerts!SendAlert(c) PROVE SpacedInv'
  <2>1. UNCHANGED <<now, lastSent>> /\ check[c].pc = "sending" /\ check[c].level \in Levels
    BY <1>2 DEF Alerts!SendAlert, Alerts!Alerts, AlertTypes
  <2>2. CASE /\ alerts' = Append(alerts, [level |-> check[c].level, at |-> now,
                                      marked |-> Alerts!Never, after |-> check[c].after])
             /\ check' = [check EXCEPT ![c].pc = "marking", ![c].alert = Len(alerts')]
    <3> DEFINE new == Len(alerts) + 1
    <3>1. /\ Len(alerts) \in Nat /\ DOMAIN alerts = 1..Len(alerts)
          /\ Len(alerts') = new /\ DOMAIN alerts' = 1..new
          /\ \A i \in DOMAIN alerts : alerts'[i] = alerts[i]
          /\ alerts'[new] = [level |-> check[c].level, at |-> now, marked |-> Alerts!Never,
                           after |-> check[c].after]
      BY <2>2 DEF AlertTypes
    <3>2. /\ check'[c].pc = "marking" /\ check'[c].alert = new
          /\ check'[c].level = check[c].level
          /\ \A d \in Checks : d # c => check'[d] = check[d]
      BY <2>2, <3>1 DEF AlertTypes
    <3>3. Recorded(alerts, alerts')
      BY <3>1 DEF Recorded
    <3>4. \A n \in DOMAIN alerts' : alerts'[n].marked # Alerts!Never =>
             /\ lastSent'[alerts'[n].level] # Alerts!Never
             /\ alerts'[n].marked <= lastSent'[alerts'[n].level]
      BY <2>1, <3>1 DEF SpacedInv
    <3>5. \A d \in Checks : check'[d].pc = "marking" /\ check'[d].alert # 0 =>
             /\ check'[d].alert \in DOMAIN alerts'
             /\ alerts'[check'[d].alert].marked = Alerts!Never
             /\ alerts'[check'[d].alert].level = check'[d].level
      BY <3>1, <3>2 DEF SpacedInv
    <3>6. ASSUME NEW d \in Checks, NEW e \in Checks,
                 check'[d].pc = "marking", check'[e].pc = "marking",
                 check'[d].alert = check'[e].alert, check'[d].alert # 0
          PROVE  d = e
      <4>1. \A b \in Checks : b # c /\ check'[b].pc = "marking" /\ check'[b].alert # 0 =>
               check'[b].alert # new
        BY <3>1, <3>2 DEF SpacedInv
      <4> QED BY <3>2, <3>6, <4>1 DEF SpacedInv
    <3>7. ASSUME NEW d \in Checks, check'[d].pc = "sending"
          PROVE  check'[d].alert = 0 /\ Passed(alerts', check'[d].level, check'[d].after, now')
      <4>1. /\ check'[d] = check[d] /\ check[d].alert = 0
            /\ Passed(alerts, check[d].level, check[d].after, now)
        BY <3>2, <3>7 DEF SpacedInv
      <4> QED BY <2>1, <3>3, <4>1, PassedStays DEF AlertTypes
    <3>8. ASSUME NEW j \in DOMAIN alerts'
          PROVE  Passed(alerts', alerts'[j].level, alerts'[j].after, alerts'[j].at)
      <4>1. CASE j = new
        <5>1. Passed(alerts, check[c].level, check[c].after, now)
          BY <2>1 DEF SpacedInv
        <5>2. Passed(alerts', check[c].level, check[c].after, now)
          BY <3>3, <5>1, PassedStays DEF AlertTypes
        <5> QED BY <3>1, <4>1, <5>2
      <4>2. CASE j \in DOMAIN alerts
        <5>1. /\ alerts'[j] = alerts[j]
              /\ Passed(alerts, alerts[j].level, alerts[j].after, alerts[j].at)
          BY <3>1, <4>2 DEF SpacedInv
        <5>2. alerts[j] \in SentAlerts
          BY <4>2 DEF AlertTypes
        <5>3. alerts[j].at \in Nat
          BY <5>2 DEF SentAlerts
        <5> QED BY <3>3, <5>1, <5>3, PassedStays DEF AlertTypes
      <4> QED BY <3>1, <4>1, <4>2
    <3> QED BY <3>4, <3>5, <3>6, <3>7, <3>8 DEF SpacedInv
  <2>3. CASE check' = [check EXCEPT ![c].pc = "marking"] /\ UNCHANGED alerts
    <3>1. /\ check'[c].pc = "marking" /\ check'[c].alert = 0
          /\ \A d \in Checks : d # c => check'[d] = check[d]
      BY <2>1, <2>3 DEF AlertTypes, SpacedInv
    <3> QED BY <2>1, <2>3, <3>1 DEF SpacedInv
  <2> QED BY <1>2, <2>2, <2>3 DEF Alerts!SendAlert
<1>3. ASSUME NEW c \in Checks, Alerts!MarkSent(c) PROVE SpacedInv'
  <2> DEFINE level == check[c].level
             mine  == check[c].alert
  <2>1. /\ UNCHANGED now /\ check[c].pc = "marking" /\ level \in Levels
        /\ check' = [check EXCEPT ![c] = Alerts!Idle]
    BY <1>3 DEF Alerts!MarkSent, Alerts!Alerts, AlertTypes
  <2>2. /\ check'[c].pc = "idle"
        /\ \A d \in Checks : d # c => check'[d] = check[d]
    BY <2>1 DEF AlertTypes, Alerts!Idle
  <2>3. CASE UNCHANGED <<lastSent, alerts>>
    BY <2>1, <2>2, <2>3 DEF SpacedInv
  <2>4. CASE /\ Alerts!MarkRow(level)
             /\ alerts' = [n \in DOMAIN alerts |->
                           IF n = mine THEN [alerts[n] EXCEPT !.marked = now] ELSE alerts[n]]
    <3>1. /\ DOMAIN alerts' = DOMAIN alerts
          /\ \A n \in DOMAIN alerts : alerts[n] \in SentAlerts
          /\ \A n \in DOMAIN alerts : n # mine => alerts'[n] = alerts[n]
      BY <2>4 DEF AlertTypes
    <3>2. mine \in DOMAIN alerts =>
             /\ alerts'[mine].marked = now /\ alerts'[mine].level = alerts[mine].level
             /\ alerts'[mine].at = alerts[mine].at /\ alerts'[mine].after = alerts[mine].after
      BY <2>4, <3>1 DEF SentAlerts
    <3>3. mine \in DOMAIN alerts => alerts[mine].marked = Alerts!Never /\ alerts[mine].level = level
      <4>1. mine \in DOMAIN alerts => mine # 0
        BY DEF AlertTypes
      <4> QED BY <2>1, <4>1 DEF SpacedInv
    <3>4. lastSent'[level] = now /\ \A l \in Levels : l # level => lastSent'[l] = lastSent[l]
      BY <2>4 DEF AlertTypes, Alerts!MarkRow
    <3>5. Recorded(alerts, alerts')
      BY <3>1, <3>2, <3>3 DEF Recorded
    <3>6. now # Alerts!Never /\ now \in Nat
      BY DEF AlertTypes
    <3>7. ASSUME NEW n \in DOMAIN alerts', alerts'[n].marked # Alerts!Never
          PROVE  /\ lastSent'[alerts'[n].level] # Alerts!Never
                 /\ alerts'[n].marked <= lastSent'[alerts'[n].level]
      <4>1. CASE n = mine
        BY <3>1, <3>2, <3>3, <3>4, <3>6, <4>1
      <4>2. CASE n # mine
        <5>1. /\ alerts'[n] = alerts[n] /\ alerts[n].level \in Levels /\ alerts[n].marked \in Nat
              /\ lastSent[alerts[n].level] # Alerts!Never /\ lastSent[alerts[n].level] <= now
              /\ lastSent[alerts[n].level] \in Nat
              /\ alerts[n].marked <= lastSent[alerts[n].level]
          BY <3>1, <3>7, <4>2 DEF SpacedInv, AlertTypes, SentAlerts
        <5> QED BY <3>4, <3>6, <5>1
      <4> QED BY <4>1, <4>2
    <3>8. ASSUME NEW d \in Checks, check'[d].pc = "marking", check'[d].alert # 0
          PROVE  /\ check'[d].alert \in DOMAIN alerts'
                 /\ alerts'[check'[d].alert].marked = Alerts!Never
                 /\ alerts'[check'[d].alert].level = check'[d].level
      <4>1. d # c /\ check'[d] = check[d]
        BY <2>2, <3>8
      <4>2. check[d].alert # mine
        BY <2>1, <3>8, <4>1 DEF SpacedInv
      <4> QED BY <3>1, <3>8, <4>1, <4>2 DEF SpacedInv
    <3>9. \A d, e \in Checks :
             /\ check'[d].pc = "marking" /\ check'[e].pc = "marking"
             /\ check'[d].alert = check'[e].alert /\ check'[d].alert # 0
             => d = e
      BY <2>2 DEF SpacedInv
    <3>10. ASSUME NEW d \in Checks, check'[d].pc = "sending"
           PROVE  check'[d].alert = 0 /\ Passed(alerts', check'[d].level, check'[d].after, now')
      <4>1. /\ check'[d] = check[d] /\ check[d].alert = 0
            /\ Passed(alerts, check[d].level, check[d].after, now)
        BY <2>2, <3>10 DEF SpacedInv
      <4> QED BY <2>1, <3>5, <4>1, PassedStays DEF AlertTypes
    <3>11. ASSUME NEW j \in DOMAIN alerts'
           PROVE  Passed(alerts', alerts'[j].level, alerts'[j].after, alerts'[j].at)
      <4>1. /\ alerts'[j].level = alerts[j].level /\ alerts'[j].at = alerts[j].at
            /\ alerts'[j].after = alerts[j].after /\ alerts[j].at \in Nat
        BY <3>1, <3>2 DEF SentAlerts
      <4>2. Passed(alerts, alerts[j].level, alerts[j].after, alerts[j].at)
        BY <3>1 DEF SpacedInv
      <4> QED BY <3>5, <4>1, <4>2, PassedStays DEF AlertTypes
    <3> QED BY <3>7, <3>8, <3>9, <3>10, <3>11 DEF SpacedInv
  <2> QED BY <1>3, <2>3, <2>4 DEF Alerts!MarkSent
<1>4. CASE Alerts!Tick
  <2>1. UNCHANGED <<lastSent, check, alerts>> /\ now' = now + 1
    BY <1>4 DEF Alerts!Tick
  <2>2. ASSUME NEW d \in Checks, check[d].pc = "sending"
        PROVE  Passed(alerts, check[d].level, check[d].after, now')
    <3>1. Passed(alerts, check[d].level, check[d].after, now)
      BY <2>2 DEF SpacedInv
    <3>2. Recorded(alerts, alerts) /\ now <= now' /\ now' \in Nat /\ now \in Nat
      BY <2>1 DEF Recorded, AlertTypes
    <3> QED BY <3>1, <3>2, PassedStays DEF AlertTypes
  <2> QED BY <2>1, <2>2 DEF SpacedInv
<1>5. CASE UNCHANGED <<lastSent, check, now, alerts>>
  BY <1>5 DEF SpacedInv
<1> QED
  BY <1>1, <1>2, <1>3, <1>4, <1>5 DEF Alerts!Next, Alerts!Purge, Alerts!Restart,
     Alerts!Purges, Alerts!cooldownVars

(* Whatever other checks read, send and write in between, a check that     *)
(* began when an alert of its level was on record sends none within the    *)
(* cooldown (AdminAlertsService.checkDbUsage).                             *)
THEOREM AlertsSpacedHolds == ProcessSpec => []AlertsSpaced
<1> DEFINE Inv == used = "cooldowns" => AlertTypes /\ SpacedInv
<1>1. ProcessInit => Inv
  BY AlertTypesInit, SpacedInit DEF ProcessInit
<1>2. Inv /\ [ProcessNext]_processVars => Inv'
  <2> SUFFICES ASSUME Inv, [ProcessNext]_processVars, used' = "cooldowns"
               PROVE  AlertTypes' /\ SpacedInv'
    OBVIOUS
  <2>1. used = "cooldowns" /\ [Alerts!Next]_(Alerts!cooldownVars)
    BY DEF ProcessNext, processVars, cooldowns, Alerts!cooldownVars
  <2> QED
    BY <2>1, AlertTypesStep, SpacedStep
<1>3. Inv => AlertsSpaced
  BY AlertsAssumption DEF AlertsSpaced, AlertTypes, SpacedInv, Passed, Alerts!CooldownsOK,
     Alerts!AlertsSpaced, Alerts!Never
<1> QED
  BY <1>1, <1>2, <1>3, PTL DEF ProcessSpec, processVars

-----------------------------------------------------------------------------
(* Sources: fetchFromSourceKey, resolveSourceContext and their table       *)

SourceAwaits == {"idle", "gate", "cached", "request", "again", "saving", "marking", "failing",
                 "finishing", "fetching", "keeping"}
SourceCalls == [pc : SourceAwaits, ask : Source!Entries \cup {Source!None},
                key : (Coins \X Nat) \cup {Source!None}, since : Nat, seen : Nat, base : Nat,
                asked : Nat, started : BOOLEAN, blind : BOOLEAN, ok : BOOLEAN, sampled : Nat]
SourceRows == [there : BOOLEAN, of : Source!Entries \cup {Source!None}, sampled : Nat, at : Nat]
Successes  == [at : Nat, asked : Nat, base : Nat, blind : BOOLEAN, kept : BOOLEAN]

SourceShape ==
    /\ now \in Nat /\ now <= MaxTime["sources"]
    /\ type \in SourceTypes
    /\ success \in Nat /\ (success <= now \/ success = Source!Never)
    /\ cache \in [{Source!Own} \cup Source!Entries -> SourceRows]
    /\ \A k \in DOMAIN cache : cache[k].sampled <= cache[k].at /\ cache[k].at <= now
    /\ runs \in [Source!RunKeys -> {Source!None, "running", "ok", "fail"}]
    /\ told \in [Source!RunKeys -> {Source!None, "ok", "fail", "lost"}]
    /\ chain \in [Askers -> SourceCalls]
    /\ \A c \in Askers : chain[c].sampled <= now
    /\ successes \in Seq(Successes)

LEMMA SourceShapeInit == Source!Init => SourceShape
BY SourcesAssumption DEF Source!Init, SourceShape, Source!Idle, Source!NoRow, SourceCalls,
   SourceRows, SourceAwaits, Source!Never, Source!Entries, Source!RunKeys

(* The chain of a call is one of the calls.                                *)
LEMMA SourceChains ==
    ASSUME SourceShape, NEW c \in Askers, NEW x \in SourceCalls,
           chain' = [chain EXCEPT ![c] = x]
    PROVE  /\ chain' \in [Askers -> SourceCalls] /\ chain'[c] = x
           /\ \A d \in Askers \ {c} : chain'[d] = chain[d]
BY DEF SourceShape

LEMMA SourceGoes ==
    ASSUME chain \in [Askers -> SourceCalls], NEW c \in Askers, NEW pc \in SourceAwaits,
           Source!Goes(c, pc)
    PROVE  \E x \in SourceCalls : /\ chain' = [chain EXCEPT ![c] = x]
                                  /\ x = [chain[c] EXCEPT !.pc = pc]
                                  /\ x.sampled = chain[c].sampled
<1> DEFINE x == [chain[c] EXCEPT !.pc = pc]
<1>1. x \in SourceCalls /\ chain' = [chain EXCEPT ![c] = x] /\ x.sampled = chain[c].sampled
  BY DEF Source!Goes, SourceCalls
<1> QED
  BY <1>1

LEMMA SourceGoesOn ==
    ASSUME now \in Nat, chain \in [Askers -> SourceCalls], NEW c \in Askers,
           chain[c].sampled <= now, NEW pc \in SourceAwaits, Source!Goes(c, pc)
    PROVE  \E x \in SourceCalls : chain' = [chain EXCEPT ![c] = x] /\ x.sampled <= now
<1>1. PICK x \in SourceCalls : /\ chain' = [chain EXCEPT ![c] = x]
                               /\ x.sampled = chain[c].sampled
  BY SourceGoes
<1> QED
  BY <1>1

LEMMA SourceIdle ==
    /\ Source!Idle \in SourceCalls /\ Source!Idle.sampled = 0
    /\ ~Source!Idle.started /\ Source!Idle.pc = "idle"
BY SourcesAssumption DEF Source!Idle, SourceCalls, SourceAwaits, Source!Never

LEMMA SourceEnds ==
    ASSUME now \in Nat, NEW c \in Askers, chain' = [chain EXCEPT ![c] = Source!Idle]
    PROVE  \E x \in SourceCalls : chain' = [chain EXCEPT ![c] = x] /\ x.sampled <= now
<1>1. Source!Idle \in SourceCalls /\ Source!Idle.sampled <= now
  BY SourceIdle
<1> QED
  BY <1>1, Zenon

(* A row that is written fits. *)
LEMMA SourceKeeps ==
    ASSUME SourceShape, NEW c \in Askers, NEW k,
           cache' = [cache EXCEPT ![k] = [there |-> TRUE, of |-> chain[c].ask,
                                          sampled |-> chain[c].sampled, at |-> now]]
    PROVE  /\ cache' \in [{Source!Own} \cup Source!Entries -> SourceRows]
           /\ \A j \in DOMAIN cache' : cache'[j].sampled <= cache'[j].at /\ cache'[j].at <= now
<1> DEFINE row == [there |-> TRUE, of |-> chain[c].ask, sampled |-> chain[c].sampled, at |-> now]
<1>1. row \in SourceRows /\ row.sampled <= row.at /\ row.at = now /\ now \in Nat
  BY DEF SourceShape, SourceRows, SourceCalls
<1> HIDE DEF row
<1>2. cache' = [cache EXCEPT ![k] = row]
  BY DEF row
<1>3. /\ cache \in [{Source!Own} \cup Source!Entries -> SourceRows]
      /\ \A j \in DOMAIN cache : cache[j].sampled <= cache[j].at /\ cache[j].at <= now
  BY DEF SourceShape
<1>4. cache' \in [{Source!Own} \cup Source!Entries -> SourceRows]
  BY <1>1, <1>2, <1>3
<1>5. ASSUME NEW j \in DOMAIN cache'
      PROVE  cache'[j].sampled <= cache'[j].at /\ cache'[j].at <= now
  <2>1. cache'[j] = row \/ (j \in DOMAIN cache /\ cache'[j] = cache[j])
    BY <1>2, <1>3
  <2> QED
    BY <1>1, <1>3, <2>1
<1> QED
  BY <1>4, <1>5

LEMMA SourceShapeStep == SourceShape /\ [Source!Next]_(Source!sourcesVars) => SourceShape'
<1> SUFFICES ASSUME SourceShape, [Source!Next]_(Source!sourcesVars) PROVE SourceShape'
  OBVIOUS
<1> USE SourcesAssumption DEF Source!Never
<1>0. /\ now \in Nat
      /\ \A c \in Askers : /\ chain \in [Askers -> SourceCalls] /\ chain[c] \in SourceCalls
                           /\ chain[c].sampled <= now
  BY DEF SourceShape
<1>1. ASSUME NEW c \in Askers, Source!Load(c) PROVE SourceShape'
  <2> DEFINE new(coin) == [Source!Idle EXCEPT !.ask = coin, !.key = <<coin, now \div Minute>>,
                             !.since = now, !.seen = success, !.base = Len(successes)]
  <2>1. PICK coin \in Coins, pc \in {"gate", "failing"} :
           chain' = [chain EXCEPT ![c] = [new(coin) EXCEPT !.pc = pc]]
    BY <1>1 DEF Source!Load
  <2>2. now \in Nat /\ success \in Nat /\ Len(successes) \in Nat /\ Minute \in Nat \ {0}
    BY LenProperties DEF SourceShape
  <2>3. now \div Minute \in Nat
    BY <2>2
  <2>4. /\ [new(coin) EXCEPT !.pc = pc] \in SourceCalls
        /\ [new(coin) EXCEPT !.pc = pc].sampled = 0
    BY <2>2, <2>3 DEF Source!Idle, SourceCalls, SourceAwaits, Source!Entries
  <2> HIDE DEF new
  <2>6. UNCHANGED <<type, success, cache, runs, now, successes, told>>
    BY <1>1 DEF Source!Load
  <2> QED
    BY <2>1, <2>4, <2>6, SourceChains DEF SourceShape
<1>2. ASSUME NEW c \in Askers, Source!Gate(c) PROVE SourceShape'
  <2>1. PICK begun \in BOOLEAN, pc \in {"cached", "saving", "request", "failing"} :
           /\ chain' = [chain EXCEPT ![c].started = begun, ![c].asked = now, ![c].pc = pc]
           /\ runs' \in {runs, [runs EXCEPT ![chain[c].key] = "running"]}
    BY <1>2 DEF Source!Gate, Source!ToSource
  <2> DEFINE new == [chain[c] EXCEPT !.started = begun, !.asked = now, !.pc = pc]
  <2>2. chain' = [chain EXCEPT ![c] = new]
    BY <2>1 DEF SourceShape, SourceCalls
  <2>3. new \in SourceCalls /\ new.sampled <= now
    BY <1>0 DEF SourceCalls, SourceAwaits
  <2> HIDE DEF new
  <2> QED
    BY <1>2, <2>1, <2>2, <2>3, SourceChains DEF Source!Gate, SourceShape
<1>3. ASSUME NEW c \in Askers, Source!ReadCache(c) \/ Source!ReadAgain(c) PROVE SourceShape'
  <2>1. \E x \in SourceCalls : chain' = [chain EXCEPT ![c] = x] /\ x.sampled <= now
    <3>1. CASE \E k \in Source!Latest : Source!Answers(c, cache[k].sampled)
      <4>1. PICK k \in DOMAIN cache : Source!Answers(c, cache[k].sampled)
        BY <3>1 DEF Source!Latest, Source!RowsOfSource, Source!Entries, SourceShape
      <4>2. cache[k].sampled \in Nat /\ cache[k].sampled <= now
        BY DEF SourceShape, SourceRows
      <4> DEFINE x == [chain[c] EXCEPT !.pc = "finishing", !.ok = TRUE,
                                       !.sampled = cache[k].sampled]
      <4>3. chain' = [chain EXCEPT ![c] = x]
        BY <1>0, <4>1 DEF Source!Answers, SourceCalls
      <4>4. x \in SourceCalls /\ x.sampled <= now
        BY <1>0, <4>2 DEF SourceCalls, SourceAwaits
      <4> QED
        BY <4>3, <4>4
    <3>2. CASE \E pc \in SourceAwaits :
                  chain' = [chain EXCEPT ![c].pc = pc, ![c].asked = now]
      <4>1. PICK pc \in SourceAwaits : chain' = [chain EXCEPT ![c].pc = pc, ![c].asked = now]
        BY <3>2
      <4> DEFINE x == [chain[c] EXCEPT !.pc = pc, !.asked = now]
      <4>2. chain' = [chain EXCEPT ![c] = x] /\ x \in SourceCalls /\ x.sampled <= now
        BY <1>0, <4>1 DEF SourceCalls
      <4> QED
        BY <4>2
    <3>3. CASE \E pc \in SourceAwaits :
                  chain' = [chain EXCEPT ![c].pc = pc, ![c].asked = now, ![c].blind = TRUE]
      <4>1. PICK pc \in SourceAwaits :
               chain' = [chain EXCEPT ![c].pc = pc, ![c].asked = now, ![c].blind = TRUE]
        BY <3>3
      <4> DEFINE x == [chain[c] EXCEPT !.pc = pc, !.asked = now, !.blind = TRUE]
      <4>2. chain' = [chain EXCEPT ![c] = x] /\ x \in SourceCalls /\ x.sampled <= now
        BY <1>0, <4>1 DEF SourceCalls
      <4> QED
        BY <4>2
    <3>4. CASE Source!Goes(c, "failing")
      <4>1. "failing" \in SourceAwaits
        BY DEF SourceAwaits
      <4> QED
        BY <1>0, <3>4, <4>1, SourceGoesOn
    <3> QED
      BY <1>3, <3>1, <3>2, <3>3, <3>4
      DEF Source!ReadCache, Source!ReadAgain, Source!ToSource, SourceAwaits
  <2>2. UNCHANGED <<type, success, cache, runs, now, successes, told>>
    BY <1>3 DEF Source!ReadCache, Source!ReadAgain, Source!Rest
  <2> QED
    BY <2>1, <2>2, SourceChains DEF SourceShape
<1>4. ASSUME NEW c \in Askers, Source!Request(c) \/ Source!Fetch(c) PROVE SourceShape'
  <2>1. \E x \in SourceCalls : chain' = [chain EXCEPT ![c] = x] /\ x.sampled <= now
    <3>1. CASE \E pc \in SourceAwaits : chain' = [chain EXCEPT ![c].pc = pc, ![c].sampled = now]
      <4>1. PICK pc \in SourceAwaits : chain' = [chain EXCEPT ![c].pc = pc, ![c].sampled = now]
        BY <3>1
      <4> DEFINE x == [chain[c] EXCEPT !.pc = pc, !.sampled = now]
      <4>2. x \in SourceCalls /\ x.sampled = now
        BY <1>0, <4>1 DEF SourceCalls
      <4>3. chain' = [chain EXCEPT ![c] = x]
        BY <1>0, <4>1 DEF SourceCalls
      <4>4. x.sampled <= now
        BY <1>0, <4>2
      <4> QED
        BY <4>2, <4>3, <4>4
    <3>2. CASE Source!Goes(c, "again") \/ Source!Goes(c, "failing")
      <4>1. "again" \in SourceAwaits /\ "failing" \in SourceAwaits
        BY DEF SourceAwaits
      <4> QED
        BY <1>0, <3>2, <4>1, SourceGoesOn
    <3>3. CASE chain' = [chain EXCEPT ![c] = Source!Idle]
      BY <1>0, <3>3, SourceEnds
    <3> QED
      BY <1>4, <3>1, <3>2, <3>3 DEF Source!Request, Source!Fetch, SourceAwaits
  <2>2. UNCHANGED <<type, success, cache, runs, now, successes, told>>
    BY <1>4 DEF Source!Request, Source!Fetch, Source!Rest
  <2> QED
    BY <2>1, <2>2, SourceChains DEF SourceShape
<1>5. ASSUME NEW c \in Askers, Source!Save(c) PROVE SourceShape'
  <2>1. Source!Goes(c, "marking") /\ UNCHANGED <<type, success, runs, now, successes, told>>
    BY <1>5 DEF Source!Save
  <2>2. PICK x \in SourceCalls : chain' = [chain EXCEPT ![c] = x] /\ x.sampled <= now
    <3>1. "marking" \in SourceAwaits
      BY DEF SourceAwaits
    <3> QED
      BY <1>0, <2>1, <3>1, SourceGoesOn
  <2>3. \/ UNCHANGED cache
        \/ cache' = [cache EXCEPT ![Source!Own] = [there |-> TRUE, of |-> chain[c].ask,
                                              sampled |-> chain[c].sampled, at |-> now]]
    BY <1>5 DEF Source!Save
  <2> QED
    BY <1>0, <2>1, <2>2, <2>3, SourceChains, SourceKeeps DEF SourceShape
<1>6. ASSUME NEW c \in Askers, Source!MarkSuccess(c) PROVE SourceShape'
  <2> DEFINE x == [chain[c] EXCEPT !.pc = "finishing", !.ok = TRUE,
                                   !.sampled = chain[c].sampled]
             new == [at |-> now, asked |-> chain[c].asked, base |-> chain[c].base,
                     blind |-> chain[c].blind, kept |-> Source!RowsOfSource # {}]
  <2>1. chain' = [chain EXCEPT ![c] = x] /\ x \in SourceCalls /\ x.sampled <= now
    BY <1>0, <1>6 DEF Source!MarkSuccess, Source!Answers, SourceCalls, SourceAwaits
  <2>2. new \in Successes
    BY <1>0 DEF SourceCalls, Successes
  <2>3. \/ success' = now /\ successes' = Append(successes, new)
        \/ UNCHANGED <<success, successes>>
    BY <1>6 DEF Source!MarkSuccess, Source!RecordSuccess
  <2>4. UNCHANGED <<type, cache, runs, now, told>>
    BY <1>6 DEF Source!MarkSuccess
  <2> HIDE DEF x, new
  <2>5. successes' \in Seq(Successes)
    <3>1. successes \in Seq(Successes)
      BY <1>0 DEF SourceShape
    <3>2. Append(successes, new) \in Seq(Successes)
      BY <2>2, <3>1, AppendProperties
    <3> QED
      BY <2>3, <3>1, <3>2
  <2> QED
    BY <1>0, <2>1, <2>3, <2>4, <2>5, SourceChains DEF SourceShape
<1>7. ASSUME NEW c \in Askers, Source!MarkError(c) PROVE SourceShape'
  <2>1. Source!Goes(c, "finishing")
    BY <1>7 DEF Source!MarkError
  <2>2. PICK x \in SourceCalls : chain' = [chain EXCEPT ![c] = x] /\ x.sampled <= now
    <3>1. "finishing" \in SourceAwaits
      BY DEF SourceAwaits
    <3> QED
      BY <1>0, <2>1, <3>1, SourceGoesOn
  <2> QED
    BY <1>7, <2>2, SourceChains DEF Source!MarkError, Source!Rest, SourceShape
<1>8. ASSUME NEW c \in Askers, Source!Finish(c) PROVE SourceShape'
  <2>1. PICK x \in SourceCalls : chain' = [chain EXCEPT ![c] = x] /\ x.sampled <= now
    BY <1>0, <1>8, SourceEnds DEF Source!Finish
  <2>2. \/ UNCHANGED <<runs, told>>
        \/ \E how \in {"ok", "fail", "lost"} :
              told' = [told EXCEPT ![chain[c].key] = IF @ = Source!None THEN how ELSE @]
              /\ runs' \in {runs, [runs EXCEPT ![chain[c].key] = "ok"],
                                  [runs EXCEPT ![chain[c].key] = "fail"]}
    BY <1>8 DEF Source!Finish
  <2>3. /\ runs' \in [Source!RunKeys -> {Source!None, "running", "ok", "fail"}]
        /\ told' \in [Source!RunKeys -> {Source!None, "ok", "fail", "lost"}]
    BY <2>2 DEF SourceShape
  <2> QED
    BY <1>8, <2>1, <2>3, SourceChains DEF Source!Finish, SourceShape
<1>9. ASSUME NEW c \in Askers, Source!Seek(c) PROVE SourceShape'
  <2>1. \E x \in SourceCalls : chain' = [chain EXCEPT ![c] = x] /\ x.sampled <= now
    <3>1. CASE chain' = [chain EXCEPT ![c] = Source!Idle]
      BY <1>0, <3>1, SourceEnds
    <3>2. CASE \E e \in Source!Entries : chain' = [chain EXCEPT
                  ![c] = [Source!Idle EXCEPT !.pc = "fetching", !.ask = e, !.since = now]]
      <4>1. PICK e \in Source!Entries : chain' = [chain EXCEPT
                  ![c] = [Source!Idle EXCEPT !.pc = "fetching", !.ask = e, !.since = now]]
        BY <3>2
      <4> DEFINE x == [Source!Idle EXCEPT !.pc = "fetching", !.ask = e, !.since = now]
      <4>2. Source!Idle \in SourceCalls /\ Source!Idle.sampled = 0
        BY SourceIdle
      <4>3. x \in SourceCalls /\ x.sampled = 0
        BY <1>0, <4>2 DEF SourceCalls, SourceAwaits
      <4> HIDE DEF x
      <4>4. x.sampled <= now
        BY <1>0, <4>3
      <4>5. chain' = [chain EXCEPT ![c] = x]
        BY <4>1 DEF x
      <4> QED
        BY <4>3, <4>4, <4>5, Zenon
    <3> QED
      BY <1>9, <3>1, <3>2 DEF Source!Seek, Source!Reply
  <2> QED
    BY <1>9, <2>1, SourceChains DEF Source!Seek, SourceShape
<1>10. ASSUME NEW c \in Askers, Source!Keep(c) PROVE SourceShape'
  <2>1. PICK x \in SourceCalls : chain' = [chain EXCEPT ![c] = x] /\ x.sampled <= now
    BY <1>0, <1>10, SourceEnds DEF Source!Keep, Source!Reply
  <2>2. \/ UNCHANGED cache
        \/ cache' = [cache EXCEPT ![chain[c].ask] = [there |-> TRUE, of |-> chain[c].ask,
                                              sampled |-> chain[c].sampled, at |-> now]]
    BY <1>10 DEF Source!Keep, Source!CacheKey
  <2> QED
    BY <1>0, <1>10, <2>1, <2>2, SourceChains, SourceKeeps DEF Source!Keep, SourceShape
<1>11. ASSUME NEW c \in Askers, Source!Crash(c) PROVE SourceShape'
  <2>1. PICK x \in SourceCalls : chain' = [chain EXCEPT ![c] = x] /\ x.sampled <= now
    BY <1>0, <1>11, SourceEnds DEF Source!Crash
  <2>2. told' \in [Source!RunKeys -> {Source!None, "ok", "fail", "lost"}]
    BY <1>11 DEF Source!Crash, SourceShape
  <2> QED
    BY <1>11, <2>1, <2>2, SourceChains DEF Source!Crash, SourceShape
<1>12. CASE Source!Tick
  <2>1. /\ now' = now + 1 /\ now < MaxTime["sources"]
        /\ UNCHANGED <<type, success, cache, runs, chain, successes, told>>
    BY <1>12 DEF Source!Tick
  <2>2. now' \in Nat /\ now' <= MaxTime["sources"] /\ now <= now'
    BY <1>0, <2>1
  <2>3. \A k \in DOMAIN cache : cache[k].at \in Nat
    BY DEF SourceShape, SourceRows
  <2>4. \A k \in DOMAIN cache : cache[k].at <= now'
    BY <1>0, <2>2, <2>3 DEF SourceShape
  <2>5. \A c \in Askers : chain[c].sampled <= now'
    BY <1>0, <2>2 DEF SourceCalls
  <2>6. success <= now' \/ success = Source!Never
    BY <1>0, <2>2 DEF SourceShape
  <2> QED
    BY <2>1, <2>2, <2>4, <2>5, <2>6 DEF SourceShape
<1>13. CASE UNCHANGED Source!sourcesVars
  BY <1>13 DEF Source!sourcesVars, SourceShape
<1> QED
  BY <1>1, <1>2, <1>3, <1>4, <1>5, <1>6, <1>7, <1>8, <1>9, <1>10, <1>11, <1>12, <1>13
  DEF Source!Next

-----------------------------------------------------------------------------
(* A run that a call has started is running and of no other call, and what *)
(* its starter was told is decided.                                        *)
Unstarted == {"idle", "gate", "fetching", "keeping"}
RunsInv ==
    /\ \A k \in Source!RunKeys :
          /\ told[k] \in {"ok", "fail"} => runs[k] = told[k]
          /\ runs[k] = Source!None => told[k] = Source!None
          /\ runs[k] = "running" =>
                told[k] = "lost" \/ \E c \in Askers : chain[c].started /\ chain[c].key = k
    /\ \A c \in Askers : chain[c].started =>
          /\ chain[c].pc \notin Unstarted
          /\ chain[c].key \in Source!RunKeys =>
                runs[chain[c].key] = "running" /\ told[chain[c].key] = Source!None
    /\ \A c, d \in Askers :
          chain[c].started /\ chain[d].started /\ chain[c].key = chain[d].key
             /\ chain[c].key \in Source!RunKeys => c = d

LEMMA RunsInvInit == Source!Init => RunsInv
BY DEF Source!Init, RunsInv, Source!Idle, Source!None

Acts(c) == \/ Source!Load(c) \/ Source!Gate(c) \/ Source!ReadCache(c) \/ Source!Request(c)
           \/ Source!ReadAgain(c) \/ Source!Save(c) \/ Source!MarkSuccess(c)
           \/ Source!MarkError(c) \/ Source!Finish(c) \/ Source!Seek(c) \/ Source!Fetch(c)
           \/ Source!Keep(c) \/ Source!Crash(c)

LEMMA SourceOthers ==
    ASSUME SourceShape, NEW c \in Askers, Acts(c)
    PROVE  \A d \in Askers \ {c} : chain'[d] = chain[d]
<1> USE DEF SourceShape
<1>1. CASE Source!Load(c)
  BY <1>1 DEF Source!Load
<1>2. CASE Source!Gate(c)
  BY <1>2 DEF Source!Gate
<1>3. CASE Source!ReadCache(c)
  BY <1>3 DEF Source!ReadCache, Source!Answers
<1>4. CASE Source!Request(c)
  BY <1>4 DEF Source!Request, Source!Goes
<1>5. CASE Source!ReadAgain(c)
  BY <1>5 DEF Source!ReadAgain, Source!Goes, Source!Answers
<1>6. CASE Source!Save(c) \/ Source!MarkSuccess(c) \/ Source!MarkError(c)
  BY <1>6 DEF Source!Save, Source!MarkSuccess, Source!MarkError, Source!Goes, Source!Answers
<1>7. CASE Source!Finish(c) \/ Source!Seek(c) \/ Source!Fetch(c)
  BY <1>7 DEF Source!Finish, Source!Seek, Source!Fetch, Source!Reply
<1>8. CASE Source!Keep(c) \/ Source!Crash(c)
  BY <1>8 DEF Source!Keep, Source!Crash, Source!Reply
<1> QED
  BY <1>1, <1>2, <1>3, <1>4, <1>5, <1>6, <1>7, <1>8 DEF Acts

LEMMA RunsStay ==
    ASSUME RunsInv, UNCHANGED <<runs, told>>, NEW c \in Askers,
           \A d \in Askers \ {c} : chain'[d] = chain[d],
           \/ /\ chain'[c].started = chain[c].started /\ chain'[c].key = chain[c].key
              /\ chain[c].started => chain'[c].pc \notin Unstarted
           \/ ~chain'[c].started /\ ~chain[c].started
    PROVE  RunsInv'
<1>1. ASSUME NEW d \in Askers
      PROVE  /\ chain'[d].started => chain[d].started /\ chain'[d].key = chain[d].key
             /\ chain[d].started => chain'[d].started /\ chain'[d].key = chain[d].key
             /\ chain'[d].started => chain'[d].pc \notin Unstarted
  BY DEF RunsInv
<1> QED
  BY <1>1 DEF RunsInv

(* The run a call has started is no longer under way: its row says how it  *)
(* ended, or nobody will.                                                  *)
LEMMA RunsEnd ==
    ASSUME SourceShape, RunsInv, NEW c \in Askers, chain[c].started, ~chain'[c].started,
           \A d \in Askers \ {c} : chain'[d] = chain[d],
           NEW status \in {"ok", "fail"}, NEW how \in {status, "lost"},
           told' = [told EXCEPT ![chain[c].key] = how],
           runs' = IF how = "lost" THEN runs ELSE [runs EXCEPT ![chain[c].key] = status]
    PROVE  RunsInv'
<1> DEFINE key == chain[c].key
<1>0. /\ runs \in [Source!RunKeys -> {Source!None, "running", "ok", "fail"}]
      /\ told \in [Source!RunKeys -> {Source!None, "ok", "fail", "lost"}]
  BY DEF SourceShape
<1>1. ASSUME NEW d \in Askers, chain'[d].started
      PROVE  /\ chain[d].started /\ chain'[d] = chain[d] /\ d # c
             /\ chain[d].key \in Source!RunKeys => chain[d].key # key
  BY <1>1 DEF RunsInv
<1>2. ASSUME NEW k \in Source!RunKeys, k # key
      PROVE  runs'[k] = runs[k] /\ told'[k] = told[k]
  BY <1>0, <1>2
<1>3. ASSUME NEW k \in Source!RunKeys, k = key
      PROVE  \/ runs[k] = "running" /\ runs'[k] = "running" /\ told'[k] = "lost"
             \/ runs'[k] = status /\ told'[k] = status
  BY <1>0, <1>3 DEF RunsInv
<1>4. ASSUME NEW k \in Source!RunKeys
      PROVE  /\ told'[k] \in {"ok", "fail"} => runs'[k] = told'[k]
             /\ runs'[k] = Source!None => told'[k] = Source!None
             /\ runs'[k] = "running" =>
                   told'[k] = "lost" \/ \E d \in Askers : chain'[d].started /\ chain'[d].key = k
  <2>1. CASE k = key
    BY <1>3, <2>1 DEF Source!None
  <2>2. CASE k # key
    <3>1. \A d \in Askers : chain[d].started /\ chain[d].key = k => chain'[d] = chain[d]
      BY <2>2
    <3> QED
      BY <1>2, <2>2, <3>1 DEF RunsInv
  <2> QED
    BY <2>1, <2>2
<1> HIDE DEF key
<1> QED
  BY <1>1, <1>2, <1>4 DEF RunsInv

LEMMA RunsInvStep ==
    SourceShape /\ RunsInv /\ [Source!Next]_(Source!sourcesVars) => RunsInv'
<1> SUFFICES ASSUME SourceShape, RunsInv, [Source!Next]_(Source!sourcesVars) PROVE RunsInv'
  OBVIOUS
<1>0. ASSUME NEW c \in Askers
      PROVE  /\ chain \in [Askers -> SourceCalls] /\ chain[c] \in SourceCalls
             /\ chain[c].started => chain[c].pc \notin Unstarted
  BY DEF SourceShape, RunsInv
<1>1. ASSUME NEW c \in Askers, Source!Load(c) \/ Source!Seek(c) \/ Source!Keep(c)
      PROVE  RunsInv'
  <2>1. ~chain[c].started /\ UNCHANGED <<runs, told>>
    BY <1>0, <1>1 DEF Source!Load, Source!Seek, Source!Keep, Source!Is, Unstarted
  <2>2. ~chain'[c].started
    <3>0. chain \in [Askers -> SourceCalls]
      BY <1>0
    <3>1. CASE Source!Load(c)
      <4> DEFINE new(coin, pc) ==
            [[Source!Idle EXCEPT !.ask = coin, !.key = <<coin, now \div Minute>>, !.since = now,
                                 !.seen = success, !.base = Len(successes)] EXCEPT !.pc = pc]
      <4>1. PICK coin \in Coins, pc \in {"gate", "failing"} :
               chain' = [chain EXCEPT ![c] = new(coin, pc)]
        BY <3>1 DEF Source!Load
      <4>2. ~new(coin, pc).started
        BY DEF Source!Idle
      <4> HIDE DEF new
      <4>3. chain'[c] = new(coin, pc)
        BY <3>0, <4>1
      <4> QED
        BY <4>2, <4>3
    <3>2. CASE Source!Seek(c)
      <4>1. \/ chain' = [chain EXCEPT ![c] = Source!Idle]
            \/ \E e \in Source!Entries : chain' = [chain EXCEPT
                  ![c] = [Source!Idle EXCEPT !.pc = "fetching", !.ask = e, !.since = now]]
        BY <3>2 DEF Source!Seek, Source!Reply
      <4>2. CASE chain' = [chain EXCEPT ![c] = Source!Idle]
        BY <3>0, <4>2, SourceIdle
      <4>3. CASE \E e \in Source!Entries : chain' = [chain EXCEPT
                  ![c] = [Source!Idle EXCEPT !.pc = "fetching", !.ask = e, !.since = now]]
        <5> DEFINE new(e) == [Source!Idle EXCEPT !.pc = "fetching", !.ask = e, !.since = now]
        <5>1. PICK e \in Source!Entries : chain' = [chain EXCEPT ![c] = new(e)]
          BY <4>3
        <5>2. ~new(e).started
          BY DEF Source!Idle
        <5> HIDE DEF new
        <5> QED
          BY <3>0, <5>1, <5>2
      <4> QED
        BY <4>1, <4>2, <4>3
    <3>3. CASE Source!Keep(c)
      BY <3>0, <3>3 DEF Source!Keep, Source!Reply, Source!Idle
    <3> QED
      BY <1>1, <3>1, <3>2, <3>3
  <2> QED
    BY <1>1, <2>1, <2>2, RunsStay, SourceOthers DEF Acts
<1>2. ASSUME NEW c \in Askers, Source!Gate(c) PROVE RunsInv'
  <2> DEFINE key == chain[c].key
  <2>1. /\ ~chain[c].started /\ told' = told
        /\ \A d \in Askers \ {c} : chain'[d] = chain[d]
    BY <1>0, <1>2, SourceOthers DEF Source!Gate, Source!Is, Unstarted, Acts
  <2>2. /\ chain'[c].key = key /\ chain'[c].pc \notin Unstarted
        /\ \/ ~chain'[c].started /\ runs' = runs
           \/ chain'[c].started /\ runs[key] = Source!None
                /\ runs' = [runs EXCEPT ![key] = "running"]
    <3>1. PICK working \in BOOLEAN, pc \in {"cached", "saving", "request", "failing"} :
             LET started == working /\ Source!StartsRun(key)
             IN  /\ chain' = [chain EXCEPT ![c].started = started, ![c].asked = now,
                                           ![c].pc = pc]
                 /\ runs' = IF started THEN [runs EXCEPT ![key] = "running"] ELSE runs
      BY <1>2 DEF Source!Gate, Source!ToSource
    <3>2. /\ chain'[c].key = key /\ chain'[c].pc = pc
          /\ chain'[c].started = (working /\ Source!StartsRun(key))
      BY <1>0, <3>1 DEF SourceCalls
    <3> QED
      BY <3>1, <3>2 DEF Source!StartsRun, Unstarted
  <2>3. CASE ~chain'[c].started
    BY <2>1, <2>2, <2>3, RunsStay
  <2>4. CASE chain'[c].started
    <3>0. runs[key] = Source!None /\ runs' = [runs EXCEPT ![key] = "running"]
      BY <2>2, <2>4
    <3>1. ASSUME NEW d \in Askers, chain'[d].started
          PROVE  /\ chain'[d].pc \notin Unstarted
                 /\ chain'[d].key \in Source!RunKeys =>
                       (chain'[d].key = key <=> d = c)
                 /\ d # c => chain[d].started /\ chain'[d] = chain[d]
      BY <2>1, <2>2, <3>0, <3>1 DEF RunsInv, Source!None
    <3>2. ASSUME NEW k \in Source!RunKeys
          PROVE  k # key => runs'[k] = runs[k]
      BY <3>0 DEF SourceShape
    <3>3. key \in Source!RunKeys => runs'[key] = "running" /\ told'[key] = Source!None
      BY <2>1, <3>0 DEF SourceShape, RunsInv
    <3>4. ASSUME NEW k \in Source!RunKeys
          PROVE  /\ told'[k] \in {"ok", "fail"} => runs'[k] = told'[k]
                 /\ runs'[k] = Source!None => told'[k] = Source!None
                 /\ runs'[k] = "running" =>
                     told'[k] = "lost" \/ \E d \in Askers : chain'[d].started /\ chain'[d].key = k
      <4>1. CASE k = key
        BY <2>2, <2>4, <3>3, <4>1 DEF Source!None
      <4>2. CASE k # key
        <5>1. \A d \in Askers : chain[d].started => chain'[d] = chain[d]
          BY <2>1
        <5> QED
          BY <2>1, <3>2, <4>2, <5>1 DEF RunsInv
      <4> QED
        BY <4>1, <4>2
    <3> HIDE DEF key
    <3>5. ASSUME NEW d \in Askers, chain'[d].started, chain'[d].key \in Source!RunKeys
          PROVE  runs'[chain'[d].key] = "running" /\ told'[chain'[d].key] = Source!None
      <4>1. CASE d = c
        BY <2>2, <3>3, <3>5, <4>1
      <4>2. CASE d # c
        BY <2>1, <3>1, <3>2, <3>5, <4>2 DEF RunsInv
      <4> QED
        BY <4>1, <4>2
    <3>6. ASSUME NEW d \in Askers, NEW e \in Askers, chain'[d].started, chain'[e].started,
                 chain'[d].key = chain'[e].key, chain'[d].key \in Source!RunKeys
          PROVE  d = e
      BY <3>1, <3>6 DEF RunsInv
    <3> QED
      BY <3>1, <3>4, <3>5, <3>6 DEF RunsInv
  <2> QED
    BY <2>3, <2>4
<1>3. ASSUME NEW c \in Askers,
             \/ Source!ReadCache(c) \/ Source!Request(c) \/ Source!ReadAgain(c)
             \/ Source!Save(c) \/ Source!MarkSuccess(c) \/ Source!MarkError(c)
      PROVE  RunsInv'
  <2>1. /\ chain'[c].started = chain[c].started /\ chain'[c].key = chain[c].key
        /\ chain'[c].pc \notin Unstarted /\ UNCHANGED <<runs, told>>
    BY <1>0, <1>3
    DEF Source!ReadCache, Source!Request, Source!ReadAgain, Source!Save, Source!MarkSuccess,
        Source!MarkError, Source!Answers, Source!Goes, Source!ToSource, Source!Rest,
        SourceCalls, Unstarted
  <2> QED
    BY <1>3, <2>1, RunsStay, SourceOthers DEF Acts
<1>4. ASSUME NEW c \in Askers, Source!Fetch(c) PROVE RunsInv'
  <2>1. ~chain[c].started /\ UNCHANGED <<runs, told>>
    BY <1>0, <1>4 DEF Source!Fetch, Source!Is, Source!Rest, Unstarted
  <2>2. ~chain'[c].started
    BY <1>0, <1>4, <2>1, SourceIdle DEF Source!Fetch, SourceCalls
  <2> QED
    BY <1>4, <2>1, <2>2, RunsStay, SourceOthers DEF Acts
<1>5. ASSUME NEW c \in Askers, Source!Finish(c) \/ Source!Crash(c) PROVE RunsInv'
  <2>1. ~chain'[c].started /\ \A d \in Askers \ {c} : chain'[d] = chain[d]
    BY <1>0, <1>5, SourceIdle, SourceOthers DEF Source!Finish, Source!Crash, Acts
  <2>2. CASE ~chain[c].started
    <3>1. UNCHANGED <<runs, told>>
      BY <1>5, <2>2 DEF Source!Finish, Source!Crash, SourceShape
    <3> QED
      BY <2>1, <2>2, <3>1, RunsStay
  <2>3. CASE chain[c].started
    <3>1. chain[c].key \in Source!RunKeys => told[chain[c].key] = Source!None
      BY <2>3 DEF RunsInv
    <3>2. \E status \in {"ok", "fail"} : \E how \in {status, "lost"} :
             /\ told' = [told EXCEPT ![chain[c].key] = how]
             /\ runs' = IF how = "lost" THEN runs ELSE [runs EXCEPT ![chain[c].key] = status]
      <4>1. CASE Source!Finish(c)
        BY <2>3, <3>1, <4>1 DEF Source!Finish, SourceShape
      <4>2. CASE Source!Crash(c)
        BY <2>3, <3>1, <4>2 DEF Source!Crash, SourceShape
      <4> QED
        BY <1>5, <4>1, <4>2
    <3> QED
      BY <2>1, <2>3, <3>2, RunsEnd
  <2> QED
    BY <2>2, <2>3
<1>6. CASE UNCHANGED <<runs, told, chain>>
  BY <1>6 DEF RunsInv
<1> QED
  BY <1>1, <1>2, <1>3, <1>4, <1>5, <1>6 DEF Source!Next, Source!Tick, Source!sourcesVars

-----------------------------------------------------------------------------
(* A call takes no longer than MaxFlight, so an entry is not written later *)
(* than that after it was fetched, and not under the key of another.       *)
InTime(c) ==
    /\ chain[c].pc # "idle" => /\ chain[c].since <= now
                               /\ now <= chain[c].since + MaxFlight["sources"]
    /\ chain[c].pc \in {"fetching", "keeping"} => chain[c].ask \in Source!Entries
    /\ chain[c].pc = "keeping" => chain[c].since <= chain[c].sampled
EntryFits(e) ==
    cache[e].there => /\ cache[e].of = e
                      /\ cache[e].at <= cache[e].sampled + MaxFlight["sources"]
FreshInv ==
    /\ \A c \in Askers : InTime(c)
    /\ \A e \in Source!Entries : EntryFits(e)
    /\ Source!AnswersFresh

LEMMA FreshInvInit == Source!Init => FreshInv
BY DEF Source!Init, FreshInv, InTime, EntryFits, Source!AnswersFresh, Source!Idle, Source!NoRow,
   Source!None

(* A call that goes on without a look at the clock is still in time.       *)
LEMMA InTimeStays ==
    ASSUME SourceShape, FreshInv, NEW c \in Askers, now' = now,
           \A d \in Askers \ {c} : chain'[d] = chain[d],
           InTime(c)'
    PROVE  \A d \in Askers : InTime(d)'
<1>1. ASSUME NEW d \in Askers, d # c
      PROVE  InTime(d)'
  <2>1. InTime(d) /\ chain'[d] = chain[d]
    BY <1>1 DEF FreshInv
  <2> QED
    BY <2>1 DEF InTime
<1> QED
  BY <1>1

LEMMA FreshInvStep ==
    SourceShape /\ FreshInv /\ [Source!Next]_(Source!sourcesVars) => FreshInv'
<1> SUFFICES ASSUME SourceShape, FreshInv, [Source!Next]_(Source!sourcesVars) PROVE FreshInv'
  OBVIOUS
<1> DEFINE flight == MaxFlight["sources"]
<1>0. /\ now \in Nat /\ flight \in Nat
      /\ chain \in [Askers -> SourceCalls]
      /\ cache \in [{Source!Own} \cup Source!Entries -> SourceRows]
      /\ Source!Own \notin Source!Entries
      /\ \A e \in Source!Entries : Source!Ttl(e) \in Nat /\ Source!Ttl(e) > 0
  BY SourcesAssumption DEF SourceShape, Source!Ttl
<1>1. ASSUME NEW c \in Askers, Source!Load(c) PROVE FreshInv'
  <2> DEFINE new(coin, pc) ==
            [[Source!Idle EXCEPT !.ask = coin, !.key = <<coin, now \div Minute>>, !.since = now,
                                 !.seen = success, !.base = Len(successes)] EXCEPT !.pc = pc]
  <2>1. PICK coin \in Coins, pc \in {"gate", "failing"} :
               chain' = [chain EXCEPT ![c] = new(coin, pc)]
    BY <1>1 DEF Source!Load
  <2>2. new(coin, pc).since = now /\ new(coin, pc).pc = pc
    BY DEF Source!Idle
  <2>3. UNCHANGED <<now, cache, answer>>
    BY <1>1 DEF Source!Load
  <2> HIDE DEF new
  <2>4. chain'[c] = new(coin, pc)
    BY <1>0, <2>1
  <2>5. InTime(c)'
    BY <1>0, <2>2, <2>3, <2>4 DEF InTime
  <2>6. \A d \in Askers : InTime(d)'
    BY <1>1, <2>3, <2>5, InTimeStays, SourceOthers DEF Acts
  <2> QED
    BY <2>3, <2>6 DEF FreshInv, EntryFits, Source!AnswersFresh
<1>2. ASSUME NEW c \in Askers,
             \/ Source!Gate(c) \/ Source!ReadCache(c) \/ Source!Request(c) \/ Source!ReadAgain(c)
             \/ Source!Save(c) \/ Source!MarkSuccess(c) \/ Source!MarkError(c)
      PROVE  FreshInv'
  <2>1. /\ chain[c].pc # "idle" /\ chain'[c].pc \notin {"idle", "fetching", "keeping"}
        /\ chain'[c].since = chain[c].since /\ UNCHANGED <<now, answer>>
    <3>1. CASE Source!Gate(c)
      <4>1. PICK begun \in BOOLEAN, pc \in {"cached", "saving", "request", "failing"} :
               chain' = [chain EXCEPT ![c].started = begun, ![c].asked = now, ![c].pc = pc]
        BY <3>1 DEF Source!Gate, Source!ToSource
      <4>2. chain'[c].pc = pc /\ chain'[c].since = chain[c].since
        BY <1>0, <4>1 DEF SourceCalls
      <4> QED
        BY <3>1, <4>2 DEF Source!Gate, Source!Is
    <3>2. CASE \/ Source!ReadCache(c) \/ Source!Request(c) \/ Source!ReadAgain(c)
               \/ Source!Save(c) \/ Source!MarkSuccess(c) \/ Source!MarkError(c)
      BY <1>0, <3>2
      DEF Source!ReadCache, Source!Request, Source!ReadAgain, Source!Save,
          Source!MarkSuccess, Source!MarkError, Source!Answers, Source!Goes, Source!Is,
          Source!ToSource, Source!Rest, SourceCalls
    <3> QED
      BY <1>2, <3>1, <3>2
  <2>2. InTime(c)'
    BY <2>1 DEF FreshInv, InTime
  <2>3. \A d \in Askers : InTime(d)'
    BY <1>2, <2>1, <2>2, InTimeStays, SourceOthers DEF Acts
  <2>4. \A e \in Source!Entries : cache'[e] = cache[e]
    BY <1>0, <1>2
    DEF Source!Gate, Source!ReadCache, Source!Request, Source!ReadAgain, Source!Save,
        Source!MarkSuccess, Source!MarkError, Source!Rest
  <2> QED
    BY <2>1, <2>3, <2>4 DEF FreshInv, EntryFits, Source!AnswersFresh
<1>3. ASSUME NEW c \in Askers, Source!Fetch(c) PROVE FreshInv'
  <2>1. UNCHANGED <<now, answer, cache>> /\ chain[c].pc = "fetching"
    BY <1>3 DEF Source!Fetch, Source!Rest, Source!Is
  <2>2. InTime(c)'
    <3>1. CASE chain' = [chain EXCEPT ![c] = Source!Idle]
      BY <1>0, <3>1, SourceIdle DEF InTime
    <3>2. CASE chain' = [chain EXCEPT ![c].pc = "keeping", ![c].sampled = now]
      <4>1. /\ chain'[c].pc = "keeping" /\ chain'[c].sampled = now
            /\ chain'[c].since = chain[c].since /\ chain'[c].ask = chain[c].ask
        BY <1>0, <3>2 DEF SourceCalls
      <4> QED
        BY <2>1, <4>1 DEF FreshInv, InTime
    <3> QED
      BY <1>3, <3>1, <3>2 DEF Source!Fetch
  <2>3. \A d \in Askers : InTime(d)'
    BY <1>3, <2>1, <2>2, InTimeStays, SourceOthers DEF Acts
  <2> QED
    BY <2>1, <2>3 DEF FreshInv, EntryFits, Source!AnswersFresh
<1>4. ASSUME NEW c \in Askers, Source!Finish(c) \/ Source!Crash(c) PROVE FreshInv'
  <2>1. UNCHANGED <<now, answer, cache>> /\ chain'[c].pc = "idle"
    BY <1>0, <1>4, SourceIdle DEF Source!Finish, Source!Crash
  <2>2. InTime(c)'
    BY <2>1 DEF InTime
  <2>3. \A d \in Askers : InTime(d)'
    BY <1>4, <2>1, <2>2, InTimeStays, SourceOthers DEF Acts
  <2> QED
    BY <2>1, <2>3 DEF FreshInv, EntryFits, Source!AnswersFresh
<1>5. ASSUME NEW c \in Askers, Source!Seek(c) PROVE FreshInv'
  <2>1. UNCHANGED <<now, cache>>
    BY <1>5 DEF Source!Seek
  <2>2. PICK e \in Source!Entries :
           \/ /\ Source!FreshRow(cache[e], e)
              /\ Source!Reply(c, e, cache[e].of, cache[e].sampled)
           \/ /\ UNCHANGED answer
              /\ chain' = [chain EXCEPT ![c] = [Source!Idle EXCEPT !.pc = "fetching", !.ask = e,
                                                                   !.since = now]]
    BY <1>5 DEF Source!Seek, Source!CacheKey
  <2> DEFINE new == [Source!Idle EXCEPT !.pc = "fetching", !.ask = e, !.since = now]
  <2>3. new.pc = "fetching" /\ new.ask = e /\ new.since = now
    BY DEF Source!Idle
  <2> HIDE DEF new
  <2>4. InTime(c)'
    <3>1. CASE chain' = [chain EXCEPT ![c] = new]
      <4>1. chain'[c] = new
        BY <1>0, <3>1
      <4> QED
        BY <1>0, <2>1, <2>3, <4>1 DEF InTime
    <3>2. CASE chain' = [chain EXCEPT ![c] = Source!Idle]
      BY <1>0, <3>2, SourceIdle DEF InTime
    <3> QED
      BY <2>2, <3>1, <3>2 DEF Source!Reply, new
  <2>5. \A d \in Askers : InTime(d)'
    BY <1>5, <2>1, <2>4, InTimeStays, SourceOthers DEF Acts
  <2>6. Source!AnswersFresh'
    <3>1. CASE UNCHANGED answer
      BY <3>1 DEF FreshInv, Source!AnswersFresh
    <3>2. CASE Source!FreshRow(cache[e], e) /\ Source!Reply(c, e, cache[e].of, cache[e].sampled)
      <4>1. /\ answer' = [ask |-> e, of |-> cache[e].of, sampled |-> cache[e].sampled, at |-> now]
            /\ cache[e].there /\ now - cache[e].at < Source!Ttl(e)
        BY <3>2 DEF Source!Reply, Source!FreshRow
      <4>2. /\ cache[e].of = e /\ cache[e].at <= cache[e].sampled + flight
            /\ cache[e].at \in Nat /\ cache[e].sampled \in Nat
        BY <1>0, <4>1 DEF FreshInv, EntryFits, SourceRows
      <4>3. now - cache[e].sampled < Source!Ttl(e) + flight
        BY <1>0, <4>1, <4>2
      <4> QED
        BY <4>1, <4>2, <4>3 DEF Source!AnswersFresh
    <3> QED
      BY <2>2, <3>1, <3>2
  <2> QED
    BY <2>1, <2>5, <2>6 DEF FreshInv, EntryFits
<1>6. ASSUME NEW c \in Askers, Source!Keep(c) PROVE FreshInv'
  <2> DEFINE ask == chain[c].ask
             sampled == chain[c].sampled
  <2>1. /\ UNCHANGED now /\ chain[c].pc = "keeping"
        /\ chain' = [chain EXCEPT ![c] = Source!Idle]
        /\ answer' = [ask |-> ask, of |-> ask, sampled |-> sampled, at |-> now]
        /\ \/ UNCHANGED cache
           \/ cache' = [cache EXCEPT ![ask] = [there |-> TRUE, of |-> ask,
                                               sampled |-> sampled, at |-> now]]
    BY <1>6 DEF Source!Keep, Source!Reply, Source!CacheKey, Source!Is
  <2>2. /\ ask \in Source!Entries /\ sampled \in Nat /\ now <= sampled + flight
    <3>1. InTime(c) /\ chain[c].since \in Nat /\ sampled \in Nat
      BY <1>0 DEF FreshInv, SourceCalls
    <3> QED
      BY <1>0, <2>1, <3>1 DEF InTime
  <2>3. InTime(c)'
    BY <1>0, <2>1, SourceIdle DEF InTime
  <2>4. \A d \in Askers : InTime(d)'
    BY <1>6, <2>1, <2>3, InTimeStays, SourceOthers DEF Acts
  <2>5. ASSUME NEW e \in Source!Entries
        PROVE  EntryFits(e)'
    <3>1. EntryFits(e)
      BY DEF FreshInv
    <3>2. \/ cache'[e] = cache[e]
          \/ e = ask /\ cache'[e] = [there |-> TRUE, of |-> ask, sampled |-> sampled, at |-> now]
      BY <1>0, <2>1
    <3> QED
      BY <2>2, <3>1, <3>2 DEF EntryFits
  <2>6. now - sampled < Source!Ttl(ask) + flight
    BY <1>0, <2>2
  <2>7. Source!AnswersFresh'
    BY <2>1, <2>6 DEF Source!AnswersFresh
  <2> QED
    BY <2>4, <2>5, <2>7 DEF FreshInv
<1>7. CASE Source!Tick
  <2>1. UNCHANGED <<chain, cache, answer>> /\ now' = now + 1
    BY <1>7 DEF Source!Tick
  <2>2. ASSUME NEW c \in Askers, chain[c].pc # "idle"
        PROVE  chain[c].since <= now + 1 /\ now + 1 <= chain[c].since + flight
    <3>1. chain[c].since \in Nat /\ chain[c].since <= now /\ now - chain[c].since < flight
      BY <1>0, <1>7, <2>2 DEF Source!Tick, Source!Is, FreshInv, InTime, SourceCalls
    <3> QED
      BY <1>0, <3>1
  <2>3. ASSUME NEW c \in Askers
        PROVE  InTime(c)'
    BY <2>1, <2>2 DEF FreshInv, InTime
  <2> QED
    BY <2>1, <2>3 DEF FreshInv, EntryFits, Source!AnswersFresh
<1>8. CASE UNCHANGED Source!sourcesVars
  BY <1>8 DEF Source!sourcesVars, FreshInv, InTime, EntryFits, Source!AnswersFresh
<1> QED
  BY <1>1, <1>2, <1>3, <1>4, <1>5, <1>6, <1>7, <1>8 DEF Source!Next

-----------------------------------------------------------------------------
(* A call heeds the successes it can have seen: each is no later than the  *)
(* one it read, and it asks the source later than the limit after each     *)
(* that left something in the cache.                                       *)
Asking == {"request", "saving", "marking"}
Heeds(c) ==
    /\ chain[c].base <= Len(successes)
    /\ \A i \in 1..chain[c].base :
          /\ chain[c].seen # Source!Never /\ successes[i].at <= chain[c].seen
          /\ successes[i].kept /\ ~chain[c].blind /\ type # "virtual" /\ chain[c].pc \in Asking =>
                chain[c].asked >= successes[i].at + RateLimit
LimitInv ==
    /\ \A i \in 1..Len(successes) :
          /\ success # Source!Never /\ successes[i].at <= success
          /\ successes[i].base <= Len(successes)
          /\ successes[i].kept => Source!RowsOfSource # {}
    /\ \A c \in Askers : Heeds(c)
    /\ Source!SpacedOnceCached

LEMMA LimitInvInit == Source!Init => LimitInv
<1> SUFFICES ASSUME Source!Init PROVE LimitInv
  OBVIOUS
<1>1. successes = << >> /\ Len(successes) = 0 /\ \A c \in Askers : chain[c] = Source!Idle
  BY DEF Source!Init
<1>2. ASSUME NEW c \in Askers
      PROVE  Heeds(c)
  BY <1>1 DEF Heeds, Source!Idle
<1> QED
  BY <1>1, <1>2 DEF LimitInv, Source!SpacedOnceCached

(* Rows of the source have a latest one. *)
LEMMA LatestExists ==
    ASSUME SourceShape, Source!RowsOfSource # {}
    PROVE  Source!Latest # {}
<1> DEFINE T == {now - cache[k].at : k \in Source!RowsOfSource}
<1>1. \A k \in Source!RowsOfSource : cache[k].at \in Nat /\ cache[k].at <= now /\ now \in Nat
  BY DEF SourceShape, SourceRows, Source!RowsOfSource, Source!Entries
<1>2. T \in SUBSET Nat /\ T # {}
  BY <1>1
<1>3. PICK m \in T : \A n \in T : m <= n
  BY <1>2, Calls!Least
<1>4. PICK k \in Source!RowsOfSource : m = now - cache[k].at
  BY DEF T
<1>5. ASSUME NEW j \in Source!RowsOfSource
      PROVE  cache[j].at <= cache[k].at
  <2>1. now - cache[k].at <= now - cache[j].at
    BY <1>3, <1>4
  <2> QED
    BY <1>1, <2>1
<1> QED
  BY <1>5 DEF Source!Latest

(* A row of the source stays one. *)
LEMMA RowsStay ==
    ASSUME SourceShape, [Source!Next]_(Source!sourcesVars), Source!RowsOfSource # {}
    PROVE  Source!RowsOfSource' # {}
<1>1. PICK k \in {Source!Own} \cup Coins : cache[k].there
  BY DEF Source!RowsOfSource
<1>2. /\ cache \in [{Source!Own} \cup Source!Entries -> SourceRows]
      /\ k \in {Source!Own} \cup Source!Entries
  BY DEF SourceShape, Source!Entries
<1>3. \/ UNCHANGED cache
      \/ \E j, of, sampled :
            cache' = [cache EXCEPT ![j] = [there |-> TRUE, of |-> of, sampled |-> sampled,
                                           at |-> now]]
  BY Zenon
  DEF Source!Next, Source!Load, Source!Gate, Source!ReadCache, Source!Request, Source!ReadAgain,
      Source!Save, Source!MarkSuccess, Source!MarkError, Source!Finish, Source!Seek,
      Source!Fetch, Source!Keep, Source!Crash, Source!Tick, Source!Rest, Source!sourcesVars
<1>4. cache'[k].there
  BY <1>1, <1>2, <1>3
<1> QED
  BY <1>4 DEF Source!RowsOfSource

(* Whoever else is under way heeds what it did. *)
LEMMA LimitOthers ==
    ASSUME SourceShape, LimitInv, NEW c \in Askers, \A d \in Askers \ {c} : chain'[d] = chain[d],
           type' = type, Len(successes') \in Nat, Len(successes) <= Len(successes'),
           \A i \in 1..Len(successes) : successes'[i] = successes[i],
           Heeds(c)'
    PROVE  \A d \in Askers : Heeds(d)'
<1>1. ASSUME NEW d \in Askers, d # c
      PROVE  Heeds(d)'
  <2>1. Heeds(d) /\ chain'[d] = chain[d] /\ chain[d].base \in Nat /\ Len(successes) \in Nat
    BY <1>1, LenProperties DEF LimitInv, SourceShape, SourceCalls
  <2>2. chain'[d].base <= Len(successes')
    BY <2>1 DEF Heeds
  <2>3. ASSUME NEW i \in 1..chain'[d].base
        PROVE  i \in 1..chain[d].base /\ successes'[i] = successes[i]
    BY <2>1 DEF Heeds
  <2> QED
    BY <2>1, <2>2, <2>3 DEF Heeds
<1> QED
  BY <1>1

LEMMA LimitStays ==
    ASSUME SourceShape, LimitInv, [Source!Next]_(Source!sourcesVars),
           NEW c \in Askers, \A d \in Askers \ {c} : chain'[d] = chain[d],
           UNCHANGED <<type, success, successes>>, Heeds(c)'
    PROVE  LimitInv'
<1>1. Len(successes) \in Nat
  BY LenProperties DEF SourceShape
<1>2. \A d \in Askers : Heeds(d)'
  BY <1>1, LimitOthers
<1>3. Source!RowsOfSource # {} => Source!RowsOfSource' # {}
  BY RowsStay
<1>4. Source!SpacedOnceCached'
  BY DEF LimitInv, Source!SpacedOnceCached
<1> QED
  BY <1>2, <1>3, <1>4 DEF LimitInv

LEMMA HeedsOn ==
    ASSUME LimitInv, NEW c \in Askers, UNCHANGED <<type, successes>>,
           chain'[c].base = chain[c].base, chain'[c].seen = chain[c].seen,
           chain'[c].asked = chain[c].asked, chain'[c].blind = chain[c].blind,
           chain'[c].pc \in Asking => chain[c].pc \in Asking
    PROVE  Heeds(c)'
<1>1. Heeds(c)
  BY DEF LimitInv
<1> QED
  BY <1>1 DEF Heeds

LEMMA HeedsNone ==
    ASSUME SourceShape, NEW c \in Askers, chain'[c].base = 0, UNCHANGED successes
    PROVE  Heeds(c)'
<1>1. Len(successes) \in Nat
  BY LenProperties DEF SourceShape
<1> QED
  BY <1>1 DEF Heeds

LEMMA LimitInvStep ==
    SourceShape /\ LimitInv /\ [Source!Next]_(Source!sourcesVars) => LimitInv'
<1> SUFFICES ASSUME SourceShape, LimitInv, [Source!Next]_(Source!sourcesVars) PROVE LimitInv'
  OBVIOUS
<1>0. /\ now \in Nat /\ RateLimit \in Nat /\ Len(successes) \in Nat
      /\ chain \in [Askers -> SourceCalls]
      /\ \A i \in 1..Len(successes) : successes[i] \in Successes
      /\ \A c \in Askers : Heeds(c)
  BY SourcesAssumption, LenProperties, ElementOfSeq DEF SourceShape, LimitInv
<1>1. ASSUME NEW c \in Askers, Source!Load(c) PROVE LimitInv'
  <2> DEFINE new(coin, pc) ==
            [[Source!Idle EXCEPT !.ask = coin, !.key = <<coin, now \div Minute>>, !.since = now,
                                 !.seen = success, !.base = Len(successes)] EXCEPT !.pc = pc]
  <2>1. PICK coin \in Coins, pc \in {"gate", "failing"} :
               chain' = [chain EXCEPT ![c] = new(coin, pc)]
    BY <1>1 DEF Source!Load
  <2>2. /\ new(coin, pc).base = Len(successes) /\ new(coin, pc).seen = success
        /\ new(coin, pc).pc = pc
    BY DEF Source!Idle
  <2>3. UNCHANGED <<type, success, successes>>
    BY <1>1 DEF Source!Load
  <2> HIDE DEF new
  <2>4. chain'[c] = new(coin, pc)
    BY <1>0, <2>1
  <2>5. Heeds(c)'
    BY <1>0, <2>2, <2>3, <2>4 DEF Heeds, Asking, LimitInv
  <2> QED
    BY <1>1, <2>3, <2>5, LimitStays, SourceOthers DEF Acts
<1>2. ASSUME NEW c \in Askers, Source!Gate(c) PROVE LimitInv'
  <2>1. PICK begun \in BOOLEAN, pc \in {"cached", "saving", "request", "failing"} :
           /\ chain' = [chain EXCEPT ![c].started = begun, ![c].asked = now, ![c].pc = pc]
           /\ pc \in {"saving", "request"} /\ type # "virtual" => ~Source!Limited(chain[c])
    BY <1>2 DEF Source!Gate, Source!ToSource
  <2>2. /\ chain'[c].pc = pc /\ chain'[c].asked = now /\ chain'[c].seen = chain[c].seen
        /\ chain'[c].base = chain[c].base
    BY <1>0, <2>1 DEF SourceCalls
  <2>3. UNCHANGED <<type, success, successes>>
    BY <1>2 DEF Source!Gate
  <2>4. chain'[c].base <= Len(successes')
    BY <1>0, <2>2, <2>3 DEF Heeds
  <2>5. ASSUME NEW i \in 1..chain'[c].base
        PROVE  /\ chain'[c].seen # Source!Never /\ successes'[i].at <= chain'[c].seen
               /\ type' # "virtual" /\ chain'[c].pc \in Asking =>
                     chain'[c].asked >= successes'[i].at + RateLimit
    <3>1. chain[c].seen # Source!Never /\ successes[i].at <= chain[c].seen
      BY <1>0, <2>2 DEF Heeds
    <3>2. successes[i].at \in Nat /\ chain[c].seen \in Nat
      <4>1. chain[c].base \in Nat /\ chain[c].base <= Len(successes) /\ chain[c].seen \in Nat
        BY <1>0 DEF Heeds, SourceCalls
      <4>2. i \in 1..Len(successes)
        BY <1>0, <2>2, <4>1
      <4> QED
        BY <1>0, <4>1, <4>2 DEF Successes
    <3>3. CASE type # "virtual" /\ pc \in Asking
      <4>1. now >= chain[c].seen + RateLimit
        BY <1>0, <2>1, <3>1, <3>2, <3>3 DEF Source!Limited, Asking
      <4> QED
        BY <1>0, <2>2, <2>3, <3>1, <3>2, <4>1
    <3>4. CASE ~(type # "virtual" /\ pc \in Asking)
      BY <2>2, <2>3, <3>1, <3>4
    <3> QED
      BY <3>3, <3>4
  <2>6. Heeds(c)'
    BY <2>4, <2>5 DEF Heeds
  <2> QED
    BY <1>2, <2>3, <2>6, LimitStays, SourceOthers DEF Acts
<1>3. ASSUME NEW c \in Askers, Source!ReadCache(c) PROVE LimitInv'
  <2>1. UNCHANGED <<type, success, successes>>
    BY <1>3 DEF Source!ReadCache, Source!Rest
  <2>2. CASE \E k \in Source!Latest : Source!Answers(c, cache[k].sampled)
    <3>1. /\ chain'[c].pc = "finishing" /\ chain'[c].base = chain[c].base
          /\ chain'[c].seen = chain[c].seen /\ chain'[c].asked = chain[c].asked
          /\ chain'[c].blind = chain[c].blind
      BY <1>0, <2>2 DEF Source!Answers, SourceCalls
    <3>2. Heeds(c)'
      BY <2>1, <3>1, HeedsOn DEF Asking
    <3> QED
      BY <1>3, <2>1, <3>2, LimitStays, SourceOthers DEF Acts
  <2>3. CASE Source!Latest = {} /\ chain'[c].base = chain[c].base
                                /\ chain'[c].seen = chain[c].seen
    <3>1. \A i \in 1..Len(successes) : ~successes[i].kept
      BY <2>3, LatestExists DEF LimitInv
    <3>2. chain[c].base \in Nat /\ chain[c].base <= Len(successes)
      BY <1>0 DEF Heeds, SourceCalls
    <3>3. \A i \in 1..chain[c].base : ~successes[i].kept
      BY <1>0, <3>1, <3>2
    <3>4. Heeds(c)'
      BY <1>0, <2>1, <2>3, <3>3 DEF Heeds
    <3> QED
      BY <1>3, <2>1, <3>4, LimitStays, SourceOthers DEF Acts
  <2>4. CASE chain'[c].blind /\ chain'[c].base = chain[c].base
                             /\ chain'[c].seen = chain[c].seen
    <3>1. Heeds(c)'
      BY <1>0, <2>1, <2>4 DEF Heeds
    <3> QED
      BY <1>3, <2>1, <3>1, LimitStays, SourceOthers DEF Acts
  <2> QED
    <3>2. CASE chain' = [chain EXCEPT ![c].pc = Source!ToSource, ![c].asked = now,
                                      ![c].blind = TRUE]
      BY <1>0, <2>4, <3>2 DEF SourceCalls
    <3>3. CASE Source!Latest = {} /\ chain' = [chain EXCEPT ![c].pc = Source!ToSource,
                                                            ![c].asked = now]
      BY <1>0, <2>3, <3>3 DEF SourceCalls
    <3> QED
      BY <1>3, <2>2, <3>2, <3>3 DEF Source!ReadCache
<1>4. ASSUME NEW c \in Askers,
             Source!Request(c) \/ Source!ReadAgain(c) \/ Source!Save(c) \/ Source!MarkError(c)
      PROVE  LimitInv'
  <2>1. /\ chain'[c].base = chain[c].base /\ chain'[c].seen = chain[c].seen
        /\ chain'[c].asked = chain[c].asked /\ chain'[c].blind = chain[c].blind
        /\ chain'[c].pc \in Asking => chain[c].pc \in Asking
    BY <1>0, <1>4
    DEF Source!Request, Source!ReadAgain, Source!Save, Source!MarkError, Source!Answers,
        Source!Goes, Source!Is, SourceCalls, Asking
  <2>2. UNCHANGED <<type, success, successes>>
    BY <1>4 DEF Source!Request, Source!ReadAgain, Source!Save, Source!MarkError, Source!Rest
  <2> QED
    BY <1>4, <2>1, <2>2, HeedsOn, LimitStays, SourceOthers DEF Acts
<1>5. ASSUME NEW c \in Askers, Source!MarkSuccess(c) PROVE LimitInv'
  <2>1. /\ chain[c].pc = "marking" /\ chain'[c].pc = "finishing"
        /\ chain'[c].base = chain[c].base /\ chain'[c].seen = chain[c].seen
        /\ type' = type /\ cache' = cache /\ \A d \in Askers \ {c} : chain'[d] = chain[d]
    BY <1>0, <1>5, SourceOthers
    DEF Source!MarkSuccess, Source!Is, Source!Answers, SourceCalls, Acts
  <2>2. CASE UNCHANGED <<success, successes>>
    <3>1. Heeds(c)'
      BY <1>0, <2>1, <2>2 DEF Heeds, Asking
    <3> QED
      BY <2>1, <2>2, <3>1, LimitStays
  <2>3. CASE success' = now /\ successes' = Append(successes,
                [at |-> now, asked |-> chain[c].asked, base |-> chain[c].base,
                 blind |-> chain[c].blind, kept |-> Source!RowsOfSource # {}])
    <3> DEFINE new == [at |-> now, asked |-> chain[c].asked, base |-> chain[c].base,
                       blind |-> chain[c].blind, kept |-> Source!RowsOfSource # {}]
               n == Len(successes)
    <3>1. /\ new \in Successes /\ chain[c].base \in Nat /\ chain[c].base <= n /\ n \in Nat
          /\ new.at = now /\ new.base = chain[c].base /\ new.asked = chain[c].asked
          /\ new.blind = chain[c].blind /\ new.kept = (Source!RowsOfSource # {})
      BY <1>0 DEF SourceCalls, Successes, Heeds
    <3> HIDE DEF new
    <3>2. /\ Len(successes') = n + 1 /\ successes'[n + 1] = new
          /\ \A i \in 1..n : successes'[i] = successes[i]
      BY <2>3, <3>1, AppendProperties DEF new, SourceShape
    <3>3. /\ now # Source!Never
          /\ \A i \in 1..n : successes[i].at <= now /\ successes[i].base <= n
                /\ (successes[i].kept => Source!RowsOfSource # {})
      <4>1. now # Source!Never
        BY SourcesAssumption DEF SourceShape, Source!Never
      <4>2. ASSUME NEW i \in 1..n
            PROVE  /\ successes[i].at <= now /\ successes[i].base <= n
                   /\ successes[i].kept => Source!RowsOfSource # {}
        <5>1. /\ success # Source!Never /\ successes[i].at <= success
              /\ successes[i].base <= n
              /\ successes[i].kept => Source!RowsOfSource # {}
          BY DEF LimitInv
        <5>2. success \in Nat /\ success <= now /\ successes[i].at \in Nat
          BY <1>0, <5>1 DEF SourceShape, Successes
        <5> QED
          BY <1>0, <5>1, <5>2
      <4> QED
        BY <4>1, <4>2
    <3>4. \A i \in 1..Len(successes') :
             /\ success' # Source!Never /\ successes'[i].at <= success'
             /\ successes'[i].base <= Len(successes')
             /\ successes'[i].kept => Source!RowsOfSource' # {}
      <4>1. Source!RowsOfSource' = Source!RowsOfSource
        BY <2>1 DEF Source!RowsOfSource
      <4>2. ASSUME NEW i \in 1..n + 1
            PROVE  /\ success' # Source!Never /\ successes'[i].at <= success'
                   /\ successes'[i].base <= n + 1
                   /\ successes'[i].kept => Source!RowsOfSource # {}
        <5>1. CASE i = n + 1
          <6>1. successes'[i] = new /\ success' = now
            BY <2>3, <3>2, <5>1
          <6>2. now <= now /\ chain[c].base <= n + 1
            BY <1>0, <3>1
          <6> QED
            BY <3>1, <3>3, <6>1, <6>2
        <5>2. CASE i \in 1..n
          BY <1>0, <2>3, <3>1, <3>2, <3>3, <5>2 DEF Successes
        <5> QED
          BY <3>1, <5>1, <5>2
      <4> HIDE DEF n
      <4> QED
        BY <3>2, <4>1, <4>2
    <3>5. Heeds(c)'
      BY <1>0, <2>1, <3>1, <3>2 DEF Heeds, Asking
    <3>6. \A d \in Askers : Heeds(d)'
      BY <2>1, <3>1, <3>2, <3>5, LimitOthers
    <3>7. Source!SpacedOnceCached'
      <4>1. ASSUME NEW j \in 1..n + 1, NEW i \in 1..successes'[j].base,
                   successes'[i].kept /\ ~successes'[j].blind /\ type # "virtual"
            PROVE  successes'[j].asked >= successes'[i].at + RateLimit
        <5>1. CASE j = n + 1
          <6>1. i \in 1..chain[c].base /\ successes'[i] = successes[i]
            BY <3>1, <3>2, <5>1
          <6> QED
            BY <1>0, <2>1, <3>1, <3>2, <4>1, <5>1, <6>1 DEF Heeds, Asking
        <5>2. CASE j \in 1..n
          <6>1. successes[j].base \in Nat /\ successes[j].base <= n /\ successes'[j] = successes[j]
            BY <1>0, <3>2, <3>3, <5>2 DEF Successes
          <6>2. i \in 1..successes[j].base /\ successes'[i] = successes[i]
            BY <3>1, <3>2, <6>1
          <6>3. j \in DOMAIN successes
            BY <5>2 DEF SourceShape
          <6> QED
            BY <4>1, <6>1, <6>2, <6>3 DEF LimitInv, Source!SpacedOnceCached
        <5> QED
          BY <3>1, <5>1, <5>2
      <4>2. DOMAIN successes' = 1..n + 1
        BY <2>3, <3>1, <3>2, AppendProperties DEF new, SourceShape
      <4> QED
        BY <2>1, <4>1, <4>2 DEF Source!SpacedOnceCached
    <3> QED
      BY <3>4, <3>6, <3>7 DEF LimitInv
  <2> QED
    BY <1>5, <2>2, <2>3 DEF Source!MarkSuccess, Source!RecordSuccess
<1>6. ASSUME NEW c \in Askers,
             Source!Finish(c) \/ Source!Seek(c) \/ Source!Fetch(c) \/ Source!Keep(c)
                \/ Source!Crash(c)
      PROVE  LimitInv'
  <2>1. UNCHANGED <<type, success, successes>>
    BY <1>6 DEF Source!Finish, Source!Seek, Source!Fetch, Source!Keep, Source!Crash, Source!Rest
  <2>2. Source!Idle.base = 0
    BY DEF Source!Idle
  <2>3. CASE chain' = [chain EXCEPT ![c] = Source!Idle]
    <3>1. chain'[c].base = 0
      BY <1>0, <2>2, <2>3
    <3> QED
      BY <1>6, <2>1, <3>1, HeedsNone, LimitStays, SourceOthers DEF Acts
  <2>4. CASE \E e \in Source!Entries : chain' = [chain EXCEPT
                  ![c] = [Source!Idle EXCEPT !.pc = "fetching", !.ask = e, !.since = now]]
    <3> DEFINE new(e) == [Source!Idle EXCEPT !.pc = "fetching", !.ask = e, !.since = now]
    <3>1. PICK e \in Source!Entries : chain' = [chain EXCEPT ![c] = new(e)]
      BY <2>4
    <3>2. new(e).base = 0
      BY DEF Source!Idle
    <3> HIDE DEF new
    <3>3. chain'[c].base = 0
      BY <1>0, <3>1, <3>2
    <3> QED
      BY <1>6, <2>1, <3>3, HeedsNone, LimitStays, SourceOthers DEF Acts
  <2>5. CASE chain' = [chain EXCEPT ![c].pc = "keeping", ![c].sampled = now]
    <3>1. /\ chain'[c].base = chain[c].base /\ chain'[c].seen = chain[c].seen
          /\ chain'[c].asked = chain[c].asked /\ chain'[c].blind = chain[c].blind
          /\ chain'[c].pc \notin Asking
      BY <1>0, <2>5 DEF SourceCalls, Asking
    <3> QED
      BY <1>6, <2>1, <3>1, HeedsOn, LimitStays, SourceOthers DEF Acts
  <2> QED
    BY <1>6, <2>3, <2>4, <2>5
    DEF Source!Finish, Source!Seek, Source!Fetch, Source!Keep, Source!Crash, Source!Reply
<1>7. CASE UNCHANGED <<type, success, successes, chain, cache>>
  BY <1>7 DEF LimitInv, Heeds, Source!SpacedOnceCached, Source!RowsOfSource
<1> QED
  BY <1>1, <1>2, <1>3, <1>4, <1>5, <1>6, <1>7
  DEF Source!Next, Source!Tick, Source!sourcesVars

-----------------------------------------------------------------------------
LEMMA SourcesOKHolds == SourceShape => Source!SourcesOK
<1> SUFFICES ASSUME SourceShape PROVE Source!SourcesOK
  OBVIOUS
<1>1. success \in 0..now \cup {Source!Never}
  BY DEF SourceShape
<1>2. ASSUME NEW k \in {Source!Own} \cup Source!Entries
      PROVE  cache[k] \in Source!Rows
  <2>1. /\ cache[k] \in SourceRows /\ cache[k].sampled <= cache[k].at /\ cache[k].at <= now
        /\ now <= MaxTime["sources"] /\ now \in Nat /\ MaxTime["sources"] \in Nat
    BY SourcesAssumption DEF SourceShape
  <2>2. cache[k].sampled \in 0..MaxTime["sources"] /\ cache[k].at \in 0..MaxTime["sources"]
    BY <2>1 DEF SourceRows
  <2> QED
    BY <2>1, <2>2 DEF SourceRows, Source!Rows
<1>3. cache \in [{Source!Own} \cup Source!Entries -> Source!Rows]
  BY <1>2 DEF SourceShape
<1> QED
  BY <1>1, <1>3 DEF SourceShape, Source!SourcesOK

(* What the sources keep is of its type, and the three invariants hold of  *)
(* every behaviour in which they are used.                                 *)
THEOREM SourcesInvariant ==
    ProcessSpec => [](used = "sources" => SourceShape /\ RunsInv /\ FreshInv /\ LimitInv)
<1> DEFINE Inv == used = "sources" => SourceShape /\ RunsInv /\ FreshInv /\ LimitInv
<1>1. ProcessInit => Inv
  BY SourceShapeInit, RunsInvInit, FreshInvInit, LimitInvInit DEF ProcessInit
<1>2. Inv /\ [ProcessNext]_processVars => Inv'
  <2> SUFFICES ASSUME Inv, [ProcessNext]_processVars, used' = "sources"
               PROVE  (SourceShape /\ RunsInv /\ FreshInv /\ LimitInv)'
    OBVIOUS
  <2>1. used = "sources" /\ [Source!Next]_(Source!sourcesVars)
    BY DEF ProcessNext, processVars, sourceState, Source!sourcesVars
  <2> QED
    BY <2>1, SourceShapeStep, RunsInvStep, FreshInvStep, LimitInvStep
<1> QED
  BY <1>1, <1>2, PTL DEF ProcessSpec, processVars

(* A row of source_runs says what the call that started it was told,       *)
(* whoever else meets the row (tryStartSourceRun, finishSourceRunOkSafe    *)
(* and finishSourceRunFailSafe).                                           *)
THEOREM RunsToldHolds == ProcessSpec => []RunsTold
<1>1. (used = "sources" => SourceShape /\ RunsInv /\ FreshInv /\ LimitInv) => RunsTold
  BY SourcesOKHolds DEF RunsTold, RunsInv, Source!RunsTold
<1> QED
  BY <1>1, SourcesInvariant, PTL

(* What resolveSourceContext answers is of what was asked, and no older    *)
(* than the time to live and the time a call takes.                        *)
THEOREM AnswersFreshHolds == ProcessSpec => []AnswersFresh
<1>1. (used = "sources" => SourceShape /\ RunsInv /\ FreshInv /\ LimitInv) => AnswersFresh
  BY DEF AnswersFresh, FreshInv
<1> QED
  BY <1>1, SourcesInvariant, PTL

(* Once something of a source is cached, fetchFromSourceKey asks it no     *)
(* sooner than rate_limit_seconds after a success it could have seen.      *)
THEOREM SpacedOnceCachedHolds == ProcessSpec => []SpacedOnceCached
<1>1. (used = "sources" => SourceShape /\ RunsInv /\ FreshInv /\ LimitInv) => SpacedOnceCached
  BY DEF SpacedOnceCached, LimitInv
<1> QED
  BY <1>1, SourcesInvariant, PTL

-----------------------------------------------------------------------------
(* Project memory: the commands that write a section and its rows          *)

AllScopes   == Scopes \cup {Unscoped}
MemoryRows  == [type : Project!Types, scope : AllScopes, active : BOOLEAN, text : Nat, at : Nat]
MemoryCalls == [pc : {"idle", "seed", "upsert", "update"}, row : MemoryRows, id : Nat]

ProjectShape ==
    /\ rows \in Seq(MemoryRows) /\ texts \in Nat /\ writes \in Nat
    /\ call \in [Commands -> MemoryCalls]
    /\ latest \in [Scopes -> Nat]
    /\ Project!RowsOK

(* What a command holds is a row it may write: a state for an upsert, a    *)
(* row of the type it has in the table for an update by id.                *)
Holds(c) ==
    /\ call[c].pc # "idle" => call[c].row.text \in 1..texts
    /\ call[c].pc \in {"seed", "upsert"} =>
          call[c].row.type = "section_state" /\ call[c].row.active
    /\ call[c].pc = "upsert" /\ call[c].id # 0 =>
          call[c].id \in DOMAIN rows /\ rows[call[c].id].type = "section_state"
    /\ call[c].pc = "update" =>
          call[c].id \in DOMAIN rows /\ rows[call[c].id].type = call[c].row.type

(* While nothing disturbs a scope, it has the state that was last written  *)
(* for it and no other, and the one command that is about to write another *)
(* has found it.                                                           *)
StatesOf(s) == {i \in Project!ActiveStates : rows[i].scope = s}
Upserting(c, s) == call[c].pc = "upsert" /\ call[c].row.scope = s
Found(c, s) == StatesOf(s) = IF call[c].id = 0 THEN {} ELSE {call[c].id}
ScopeKept(s) ==
    /\ latest[s] = 0 => StatesOf(s) = {}
    /\ latest[s] # 0 => \E i \in StatesOf(s) : StatesOf(s) = {i} /\ rows[i].text = latest[s]
    /\ \A c \in Commands : Upserting(c, s) => Found(c, s)
    /\ \A c, d \in Commands : Upserting(c, s) /\ Upserting(d, s) => c = d

ProjectInv ==
    /\ ProjectShape
    /\ \A c \in Commands : Holds(c)
    /\ \A s \in Scopes \ disturbed : ScopeKept(s)

LEMMA ProjectInvInit == Project!Init => ProjectInv
<1> SUFFICES ASSUME Project!Init PROVE ProjectInv
  OBVIOUS
<1>1. /\ rows = << >> /\ texts = 0 /\ writes = 0 /\ \A s \in Scopes : latest[s] = 0
      /\ \A c \in Commands : call[c] = Project!Idle
  BY DEF Project!Init
<1>2. DOMAIN rows = {} /\ Project!Idle.pc = "idle"
  BY <1>1 DEF Project!Idle
<1>3. ProjectShape
  <2>1. Project!NoRow \in MemoryRows
    BY DEF Project!NoRow, MemoryRows, AllScopes, Project!Types
  <2>2. Project!Idle \in MemoryCalls
    BY <2>1 DEF Project!Idle, MemoryCalls
  <2> QED
    BY <1>1, <1>2, <2>2 DEF Project!Init, ProjectShape, Project!RowsOK
<1>4. ASSUME NEW s \in Scopes
      PROVE  ScopeKept(s)
  BY <1>1, <1>2 DEF ScopeKept, StatesOf, Project!ActiveStates, Upserting
<1>5. \A c \in Commands : Holds(c)
  BY <1>1, <1>2 DEF Holds
<1> QED
  BY <1>3, <1>4, <1>5 DEF ProjectInv

(* The newest of some rows is one of them. *)
LEMMA NewestIsOne ==
    ASSUME ProjectShape, NEW ids \in SUBSET DOMAIN rows, ids # {}
    PROVE  Project!Newest(ids) \in ids
<1> DEFINE T == {writes - rows[i].at : i \in ids}
<1>1. /\ \A i \in ids : rows[i].at \in Nat /\ rows[i].at <= writes
      /\ writes \in Nat
  BY DEF ProjectShape, Project!RowsOK
<1>2. T \in SUBSET Nat /\ T # {}
  BY <1>1
<1>3. PICK m \in T : \A n \in T : m <= n
  BY <1>2, Calls!Least
<1>4. PICK i \in ids : m = writes - rows[i].at
  BY DEF T
<1>5. ASSUME NEW j \in ids
      PROVE  rows[j].at <= rows[i].at
  <2>1. writes - rows[i].at <= writes - rows[j].at
    BY <1>3, <1>4
  <2> QED
    BY <1>1, <2>1
<1> QED
  BY <1>5 DEF Project!Newest

(* What a lookup finds: for a scope that is not disturbed, its state.      *)
LEMMA LookupFinds ==
    ASSUME ProjectInv, NEW scope \in AllScopes
    PROVE  /\ Project!Lookup(scope) \in Nat
           /\ Project!Lookup(scope) # 0 => Project!Lookup(scope) \in Project!ActiveStates
           /\ scope \in Scopes \ disturbed =>
                 StatesOf(scope) = IF Project!Lookup(scope) = 0 THEN {} ELSE {Project!Lookup(scope)}
<1> DEFINE ids == IF scope = Unscoped THEN Project!ActiveStates ELSE StatesOf(scope)
<1>1. Project!Lookup(scope) = Project!Newest(ids)
  BY DEF Project!Lookup, StatesOf
<1>2. DOMAIN rows \subseteq Nat \ {0}
  BY DEF ProjectInv, ProjectShape
<1>3. ids \subseteq Project!ActiveStates /\ Project!ActiveStates \subseteq DOMAIN rows
  BY DEF StatesOf, Project!ActiveStates
<1>4. ids # {} => Project!Newest(ids) \in ids
  BY <1>3, NewestIsOne DEF ProjectInv
<1>5. ids = {} => Project!Newest(ids) = 0
  BY DEF Project!Newest
<1> HIDE DEF ids
<1>6. scope \in Scopes => ids = StatesOf(scope)
  BY ProjectAssumption DEF ids
<1>7. scope \in Scopes \ disturbed =>
         ids = {} \/ \E i \in ids : ids = {i}
  BY <1>6 DEF ProjectInv, ScopeKept, ProjectShape
<1> QED
  BY <1>1, <1>2, <1>3, <1>4, <1>5, <1>6, <1>7

(* INSERT and UPDATE: one row changes. *)
Place(id) == IF id = 0 THEN Len(rows) + 1 ELSE id
LEMMA StoredRows ==
    ASSUME ProjectShape, NEW id \in {0} \cup DOMAIN rows, NEW row \in MemoryRows,
           rows' = Project!Stored(id, row)
    PROVE  /\ rows' \in Seq(MemoryRows) /\ DOMAIN rows' = DOMAIN rows \cup {Place(id)}
           /\ rows'[Place(id)] = [row EXCEPT !.at = writes + 1]
           /\ \A i \in DOMAIN rows \ {Place(id)} : rows'[i] = rows[i]
           /\ id = 0 => Place(id) \notin DOMAIN rows
<1> DEFINE new == [row EXCEPT !.at = writes + 1]
<1>0. writes + 1 \in Nat
  BY DEF ProjectShape
<1>1. new \in MemoryRows
  BY <1>0 DEF MemoryRows
<1>2. rows \in Seq(MemoryRows)
  BY DEF ProjectShape
<1>3. rows' = IF id = 0 THEN Append(rows, new) ELSE [rows EXCEPT ![id] = new]
  BY DEF Project!Stored
<1> HIDE DEF new
<1>4. CASE id = 0
  <2>1. rows' = Append(rows, new)
    BY <1>3, <1>4
  <2>2. /\ rows' \in Seq(MemoryRows) /\ Len(rows') = Len(rows) + 1
        /\ \A i \in 1..Len(rows) : rows'[i] = rows[i]
        /\ rows'[Len(rows) + 1] = new /\ Len(rows) \in Nat
    BY <1>1, <1>2, <2>1, AppendProperties, LenProperties
  <2>3. DOMAIN rows' = 1..Len(rows) + 1 /\ DOMAIN rows = 1..Len(rows)
    BY <1>2, <2>2
  <2>4. /\ Place(id) = Len(rows) + 1 /\ Len(rows) + 1 \notin 1..Len(rows)
        /\ 1..Len(rows) + 1 = 1..Len(rows) \cup {Len(rows) + 1}
    BY <1>4, <2>2 DEF Place
  <2>5. rows'[Place(id)] = new
    BY <2>2, <2>4
  <2>6. new = [row EXCEPT !.at = writes + 1]
    BY DEF new
  <2>7. \A i \in DOMAIN rows : rows'[i] = rows[i]
    BY <2>2, <2>3
  <2> QED
    BY <2>2, <2>3, <2>4, <2>5, <2>6, <2>7
<1>5. CASE id # 0
  <2>1. rows' = [rows EXCEPT ![id] = new] /\ id \in DOMAIN rows
    BY <1>3, <1>5
  <2>2. rows' \in Seq(MemoryRows) /\ DOMAIN rows' = DOMAIN rows
    BY <1>1, <1>2, <2>1, ExceptSeq
  <2> QED
    BY <1>2, <1>5, <2>1, <2>2 DEF Place, new
<1> QED
  BY <1>4, <1>5

(* A write leaves the states of a scope alone that it does not touch.      *)
LEMMA StatesStay ==
    ASSUME ProjectShape, NEW id \in {0} \cup DOMAIN rows, NEW row \in MemoryRows,
           rows' = Project!Stored(id, row), NEW s \in Scopes,
           \/ row.type # "section_state" /\ (id # 0 => rows[id].type # "section_state")
           \/ s \notin Project!Touched(id, row)
    PROVE  StatesOf(s)' = StatesOf(s) /\ \A i \in StatesOf(s) : rows'[i] = rows[i]
<1> DEFINE n == Place(id)
<1>1. /\ DOMAIN rows' = DOMAIN rows \cup {n}
      /\ rows'[n].type = row.type /\ rows'[n].scope = row.scope
      /\ \A i \in DOMAIN rows \ {n} : rows'[i] = rows[i]
      /\ id = 0 => n \notin DOMAIN rows
  <2>1. /\ DOMAIN rows' = DOMAIN rows \cup {n}
        /\ rows'[n] = [row EXCEPT !.at = writes + 1]
        /\ \A i \in DOMAIN rows \ {n} : rows'[i] = rows[i]
        /\ id = 0 => n \notin DOMAIN rows
    BY StoredRows
  <2>2. /\ [row EXCEPT !.at = writes + 1].type = row.type
        /\ [row EXCEPT !.at = writes + 1].scope = row.scope
    BY DEF MemoryRows
  <2> QED
    BY <2>1, <2>2
<1>2. n \notin StatesOf(s)
  <2>1. CASE id = 0
    BY <1>1, <2>1 DEF StatesOf, Project!ActiveStates
  <2>2. CASE id # 0
    BY <2>2 DEF Place, StatesOf, Project!ActiveStates, Project!Touched
  <2> QED
    BY <2>1, <2>2
<1>3. ~(rows'[n].type = "section_state" /\ rows'[n].scope = s)
  BY <1>1 DEF Project!Touched
<1> HIDE DEF n
<1>4. ASSUME NEW i
      PROVE  i \in StatesOf(s)' <=> i \in StatesOf(s)
  BY <1>1, <1>2, <1>3 DEF StatesOf, Project!ActiveStates
<1>5. \A i \in StatesOf(s) : i \in DOMAIN rows
  BY DEF StatesOf, Project!ActiveStates
<1> QED
  BY <1>1, <1>2, <1>4, <1>5

(* What other commands hold stays what they may write.                     *)
LEMMA HoldsOn ==
    ASSUME ProjectInv, NEW d \in Commands, call'[d] = call[d],
           texts' \in Nat, texts <= texts',
           \A i \in DOMAIN rows : i \in DOMAIN rows' /\ rows'[i].type = rows[i].type
    PROVE  Holds(d)'
<1>1. Holds(d) /\ texts \in Nat
  BY DEF ProjectInv, ProjectShape
<1> QED
  BY <1>1 DEF Holds

LEMMA KeptOn ==
    ASSUME ProjectInv, NEW s \in Scopes \ disturbed, latest'[s] = latest[s],
           StatesOf(s)' = StatesOf(s), \A i \in StatesOf(s) : rows'[i] = rows[i],
           \A d \in Commands : Upserting(d, s)' => Upserting(d, s) /\ call'[d].id = call[d].id
    PROVE  ScopeKept(s)'
<1>1. ScopeKept(s)
  BY DEF ProjectInv
<1>2. ASSUME NEW d \in Commands, Upserting(d, s)'
      PROVE  Found(d, s)'
  <2>1. Found(d, s) /\ call'[d].id = call[d].id
    BY <1>1, <1>2 DEF ScopeKept
  <2> QED
    BY <2>1 DEF Found
<1>3. \A c, d \in Commands : Upserting(c, s)' /\ Upserting(d, s)' => c = d
  BY <1>1 DEF ScopeKept
<1>4. latest'[s] # 0 => \E i \in StatesOf(s)' : StatesOf(s)' = {i} /\ rows'[i].text = latest'[s]
  BY <1>1 DEF ScopeKept
<1>5. latest'[s] = 0 => StatesOf(s)' = {}
  BY <1>1 DEF ScopeKept
<1> QED
  BY <1>2, <1>3, <1>4, <1>5 DEF ScopeKept

(* The first statement of an upsert *)
LEMMA LookKeeps ==
    ASSUME ProjectInv, NEW c \in Commands, call[c].pc # "upsert", NEW row \in MemoryRows,
           row.type = "section_state", row.active, texts' \in Nat, texts <= texts',
           row.text \in 1..texts', Project!Look(c, row), UNCHANGED <<rows, writes, latest>>
    PROVE  ProjectInv'
<1> DEFINE found == Project!Lookup(row.scope)
           new   == [pc |-> "upsert", row |-> row, id |-> found]
<1>0. row.scope \in AllScopes
  BY DEF MemoryRows
<1>1. /\ found \in Nat
      /\ found # 0 => found \in Project!ActiveStates
      /\ row.scope \in Scopes \ disturbed =>
            StatesOf(row.scope) = IF found = 0 THEN {} ELSE {found}
  BY <1>0, LookupFinds
<1> HIDE DEF found
<1>2. call' = [call EXCEPT ![c] = new] /\ new \in MemoryCalls
  BY <1>1 DEF Project!Look, MemoryCalls, found
<1>3. call'[c] = new /\ call' \in [Commands -> MemoryCalls]
      /\ \A d \in Commands \ {c} : call'[d] = call[d]
  BY <1>2 DEF ProjectInv, ProjectShape
<1>4. new.pc = "upsert" /\ new.row = row /\ new.id = found
  OBVIOUS
<1> HIDE DEF new
<1>5. ProjectShape'
  <2>1. \A i \in DOMAIN rows : rows[i].text \in 1..texts'
    BY DEF ProjectInv, ProjectShape, Project!RowsOK
  <2>2. Project!RowsOK'
    BY <2>1 DEF ProjectInv, ProjectShape, Project!RowsOK
  <2> QED
    BY <1>3, <2>2 DEF ProjectInv, ProjectShape
<1>6. ASSUME NEW d \in Commands
      PROVE  Holds(d)'
  <2>1. CASE d = c
    BY <1>1, <1>3, <1>4, <2>1 DEF Holds, Project!ActiveStates
  <2>2. CASE d # c
    BY <1>3, <2>2, HoldsOn
  <2> QED
    BY <2>1, <2>2
<1>7. ASSUME NEW s \in Scopes \ disturbed'
      PROVE  ScopeKept(s)'
  <2>1. s \in Scopes \ disturbed
    BY DEF Project!Look
  <2>2. StatesOf(s)' = StatesOf(s) /\ latest' = latest
    BY DEF StatesOf, Project!ActiveStates
  <2>3. CASE row.scope # s
    <3>1. \A d \in Commands : Upserting(d, s)' => Upserting(d, s) /\ call'[d].id = call[d].id
      BY <1>3, <1>4, <2>3 DEF Upserting
    <3> QED
      BY <2>1, <2>2, <3>1, KeptOn
  <2>4. CASE row.scope = s
    <3>1. \A d \in Commands : ~Upserting(d, s)
      BY <2>4 DEF Upserting, Project!Look
    <3>2. \A d \in Commands : Upserting(d, s)' => d = c
      BY <1>3, <3>1 DEF Upserting
    <3>3. Found(c, s)'
      BY <1>1, <1>3, <1>4, <2>1, <2>2, <2>4 DEF Found
    <3>4. ScopeKept(s)
      BY <2>1 DEF ProjectInv
    <3> QED
      BY <2>2, <3>2, <3>3, <3>4 DEF ScopeKept
  <2> QED
    BY <2>3, <2>4
<1> QED
  BY <1>5, <1>6, <1>7 DEF ProjectInv

(* A write that leaves every row of the right type, and of its own time.   *)
LEMMA WriteKeeps ==
    ASSUME ProjectInv, NEW id \in {0} \cup DOMAIN rows, NEW row \in MemoryRows,
           id # 0 => rows[id].type = row.type,
           rows' = Project!Stored(id, row), writes' = writes + 1,
           texts' \in Nat, texts <= texts', row.text \in 1..texts',
           call' \in [Commands -> MemoryCalls], latest' \in [Scopes -> Nat]
    PROVE  /\ ProjectShape'
           /\ \A i \in DOMAIN rows : i \in DOMAIN rows' /\ rows'[i].type = rows[i].type
<1>1. /\ rows' \in Seq(MemoryRows) /\ DOMAIN rows' = DOMAIN rows \cup {Place(id)}
      /\ rows'[Place(id)] = [row EXCEPT !.at = writes + 1]
      /\ \A i \in DOMAIN rows \ {Place(id)} : rows'[i] = rows[i]
      /\ id = 0 => Place(id) \notin DOMAIN rows
  BY StoredRows DEF ProjectInv
<1>2. /\ rows'[Place(id)].at = writes + 1 /\ rows'[Place(id)].text = row.text
      /\ rows'[Place(id)].type = row.type
  BY <1>1 DEF MemoryRows
<1>3. /\ writes \in Nat /\ texts \in Nat
      /\ \A i \in DOMAIN rows : rows[i].at \in 1..writes /\ rows[i].text \in 1..texts
      /\ \A i, j \in DOMAIN rows : i # j => rows[i].at # rows[j].at
  BY DEF ProjectInv, ProjectShape, Project!RowsOK
<1>4. ASSUME NEW i \in DOMAIN rows'
      PROVE  rows'[i].at \in 1..writes' /\ rows'[i].text \in 1..texts'
  <2>1. CASE i = Place(id)
    <3>1. writes + 1 \in 1..writes + 1
      BY <1>3
    <3> QED
      BY <1>2, <2>1, <3>1
  <2>2. CASE i \in DOMAIN rows \ {Place(id)}
    BY <1>1, <1>3, <2>2
  <2> QED
    BY <1>1, <2>1, <2>2
<1>5. ASSUME NEW i \in DOMAIN rows', NEW j \in DOMAIN rows', i # j
      PROVE  rows'[i].at # rows'[j].at
  <2>1. ASSUME NEW k \in DOMAIN rows \ {Place(id)}
        PROVE  rows'[k].at # rows'[Place(id)].at
    BY <1>1, <1>2, <1>3
  <2>2. CASE i # Place(id) /\ j # Place(id)
    BY <1>1, <1>3, <1>5, <2>2
  <2> QED
    BY <1>1, <1>5, <2>1, <2>2
<1>6. \A i \in DOMAIN rows : i \in DOMAIN rows' /\ rows'[i].type = rows[i].type
  BY <1>1, <1>2 DEF Place
<1>7. Project!RowsOK'
  BY <1>4, <1>5 DEF Project!RowsOK
<1>8. writes' \in Nat
  BY <1>3
<1> QED
  BY <1>1, <1>6, <1>7, <1>8 DEF ProjectShape

LEMMA ProjectInvStep == ProjectInv /\ [Project!Next]_(Project!pmVars) => ProjectInv'
<1> SUFFICES ASSUME ProjectInv, [Project!Next]_(Project!pmVars) PROVE ProjectInv'
  OBVIOUS
<1>0. /\ texts \in Nat /\ writes \in Nat /\ latest \in [Scopes -> Nat]
      /\ call \in [Commands -> MemoryCalls]
      /\ \A c \in Commands : /\ call[c].row \in MemoryRows /\ call[c].id \in Nat
                             /\ Holds(c)
      /\ \A i \in DOMAIN rows : rows[i] \in MemoryRows /\ i \in Nat /\ i # 0
                                /\ rows[i].text \in 1..texts
      /\ Project!Idle \in MemoryCalls /\ Project!Idle.pc = "idle"
  <2>1. Project!NoRow \in MemoryRows
    BY DEF Project!NoRow, MemoryRows, AllScopes, Project!Types
  <2>2. Project!Idle \in MemoryCalls /\ Project!Idle.pc = "idle"
    BY <2>1 DEF Project!Idle, MemoryCalls
  <2>3. \A i \in DOMAIN rows : rows[i] \in MemoryRows /\ i \in Nat /\ i # 0
    BY ElementOfSeq DEF ProjectInv, ProjectShape
  <2>4. \A c \in Commands : call[c].row \in MemoryRows /\ call[c].id \in Nat
    BY DEF ProjectInv, ProjectShape, MemoryCalls
  <2> QED
    BY <2>2, <2>3, <2>4 DEF ProjectInv, ProjectShape, Project!RowsOK
<1>1. ASSUME NEW c \in Commands, Project!Find(c) PROVE ProjectInv'
  <2>1. /\ call[c].pc = "idle" /\ texts' = texts + 1
        /\ UNCHANGED <<rows, writes, latest>>
    BY <1>1 DEF Project!Find, Project!NextText
  <2>2. PICK s \in AllScopes : Project!Look(c, Project!State(s, texts + 1))
    BY <1>1 DEF Project!Find, AllScopes
  <2> DEFINE row == Project!State(s, texts + 1)
  <2>3. /\ row \in MemoryRows /\ row.type = "section_state" /\ row.active
        /\ row.text = texts + 1
    BY <1>0 DEF Project!State, MemoryRows, Project!Types
  <2> HIDE DEF row
  <2>4. texts' \in Nat /\ texts <= texts' /\ row.text \in 1..texts'
    BY <1>0, <2>1, <2>3
  <2>5. Project!Look(c, row)
    BY <2>2 DEF row
  <2> QED
    BY <2>1, <2>3, <2>4, <2>5, LookKeeps
<1>2. ASSUME NEW c \in Commands, Project!SeedFind(c) PROVE ProjectInv'
  <2>1. /\ call[c].pc = "seed" /\ UNCHANGED <<rows, texts, writes, latest>>
        /\ Project!Look(c, call[c].row)
    BY <1>2 DEF Project!SeedFind
  <2>2. /\ call[c].row.type = "section_state" /\ call[c].row.active
        /\ call[c].row.text \in 1..texts
    BY <1>0, <2>1 DEF Holds
  <2> QED
    BY <1>0, <2>1, <2>2, LookKeeps
<1>3. ASSUME NEW c \in Commands,
             Project!Seed(c) \/ Project!Fetch(c) \/ Project!Fails(c)
      PROVE  ProjectInv'
  <2>1. /\ UNCHANGED <<rows, writes, latest, disturbed>>
        /\ texts' \in Nat /\ texts <= texts'
    <3>1. UNCHANGED <<rows, writes, latest, disturbed>>
      BY <1>3 DEF Project!Seed, Project!Fetch, Project!Fails
    <3>2. texts' = texts \/ texts' = texts + 1
      BY <1>3 DEF Project!Seed, Project!Fetch, Project!Fails, Project!NextText
    <3> QED
      BY <1>0, <3>1, <3>2
  <2>2. \E new \in MemoryCalls :
           /\ call' = [call EXCEPT ![c] = new] /\ new.pc # "upsert"
           /\ new.pc # "idle" => new.row.text \in 1..texts'
           /\ new.pc = "seed" => new.row.type = "section_state" /\ new.row.active
           /\ new.pc = "update" => /\ new.id \in DOMAIN rows
                                   /\ new.row.type = rows[new.id].type
    <3>1. CASE Project!Seed(c)
      <4> DEFINE row == Project!State(Unscoped, texts + 1)
                 new == [pc |-> "seed", row |-> row, id |-> 0]
      <4>1. /\ row \in MemoryRows /\ row.type = "section_state" /\ row.active
            /\ row.text = texts + 1
        BY <1>0 DEF Project!State, MemoryRows, AllScopes, Project!Types
      <4>2. call' = [call EXCEPT ![c] = new] /\ texts' = texts + 1
        BY <3>1 DEF Project!Seed, Project!NextText
      <4> HIDE DEF row
      <4>3. new \in MemoryCalls /\ new.pc = "seed" /\ new.row = row
        BY <4>1 DEF MemoryCalls
      <4>4. row.text \in 1..texts'
        BY <1>0, <4>1, <4>2
      <4> HIDE DEF new
      <4> QED
        BY <4>1, <4>2, <4>3, <4>4
    <3>2. CASE Project!Fetch(c)
      <4>1. texts' = texts + 1
        BY <3>2 DEF Project!Fetch, Project!NextText
      <4>a. PICK i \in DOMAIN rows, active \in BOOLEAN :
              \E s \in Scopes \cup {rows[i].scope}, text \in {texts + 1, rows[i].text} :
               call' = [call EXCEPT ![c] =
                          [pc |-> "update", id |-> i,
                           row |-> [rows[i] EXCEPT !.scope = s, !.active = active,
                                                   !.text = text]]]
        BY <3>2, Zenon DEF Project!Fetch
      <4>2. PICK s \in Scopes \cup {rows[i].scope}, text \in {texts + 1, rows[i].text} :
               call' = [call EXCEPT ![c] =
                          [pc |-> "update", id |-> i,
                           row |-> [rows[i] EXCEPT !.scope = s, !.active = active,
                                                   !.text = text]]]
        BY <4>a, Zenon
      <4> DEFINE row == [rows[i] EXCEPT !.scope = s, !.active = active, !.text = text]
                 new == [pc |-> "update", id |-> i, row |-> row]
      <4>3. text \in 1..texts' /\ text \in Nat
        BY <1>0, <4>1
      <4>4. s \in AllScopes
        BY <1>0 DEF AllScopes, MemoryRows
      <4>5. row \in MemoryRows /\ row.type = rows[i].type /\ row.text = text
        BY <1>0, <4>3, <4>4 DEF MemoryRows
      <4>6. call' = [call EXCEPT ![c] = new]
        BY <4>2
      <4> HIDE DEF row
      <4>7. new \in MemoryCalls /\ new.pc = "update" /\ new.row = row /\ new.id = i
        BY <1>0, <4>5 DEF MemoryCalls
      <4> HIDE DEF new
      <4> QED
        BY <4>3, <4>5, <4>6, <4>7
    <3>3. CASE Project!Fails(c)
      BY <1>0, <3>3, Zenon DEF Project!Fails, Project!Done
    <3> QED
      BY <1>3, <3>1, <3>2, <3>3
  <2>3. PICK new \in MemoryCalls :
           /\ call' = [call EXCEPT ![c] = new] /\ new.pc # "upsert"
           /\ new.pc # "idle" => new.row.text \in 1..texts'
           /\ new.pc = "seed" => new.row.type = "section_state" /\ new.row.active
           /\ new.pc = "update" => /\ new.id \in DOMAIN rows
                                   /\ new.row.type = rows[new.id].type
    BY <2>2
  <2>4. /\ call'[c] = new /\ call' \in [Commands -> MemoryCalls]
        /\ \A d \in Commands \ {c} : call'[d] = call[d]
    BY <1>0, <2>3
  <2>5. ProjectShape'
    <3>1. \A i \in DOMAIN rows : rows[i].text \in 1..texts'
      BY <1>0, <2>1
    <3>2. Project!RowsOK'
      BY <2>1, <3>1 DEF ProjectInv, ProjectShape, Project!RowsOK
    <3> QED
      BY <2>1, <2>4, <3>2 DEF ProjectInv, ProjectShape
  <2>6. ASSUME NEW d \in Commands
        PROVE  Holds(d)'
    <3>1. CASE d = c
      BY <2>1, <2>3, <2>4, <3>1 DEF Holds
    <3>2. CASE d # c
      BY <2>1, <2>4, <3>2, HoldsOn
    <3> QED
      BY <3>1, <3>2
  <2>7. ASSUME NEW s \in Scopes \ disturbed'
        PROVE  ScopeKept(s)'
    <3>1. s \in Scopes \ disturbed /\ StatesOf(s)' = StatesOf(s) /\ latest' = latest
      BY <2>1 DEF StatesOf, Project!ActiveStates
    <3>2. \A d \in Commands : Upserting(d, s)' => Upserting(d, s) /\ call'[d].id = call[d].id
      BY <2>3, <2>4 DEF Upserting
    <3> QED
      BY <2>1, <3>1, <3>2, KeptOn
  <2> QED
    BY <2>5, <2>6, <2>7 DEF ProjectInv
<1>4. ASSUME NEW c \in Commands, Project!Upsert(c) PROVE ProjectInv'
  <2> DEFINE row == call[c].row
             id  == call[c].id
             n   == Place(id)
  <2>1. /\ call[c].pc = "upsert" /\ writes' = writes + 1 /\ texts' = texts
        /\ rows' = Project!Stored(id, row)
        /\ latest' = IF row.scope \in Scopes THEN [latest EXCEPT ![row.scope] = row.text]
                                             ELSE latest
        /\ disturbed' = disturbed \cup (Project!Touched(id, row) \ {row.scope})
        /\ call' = [call EXCEPT ![c] = Project!Idle]
    BY <1>4 DEF Project!Upsert, Project!Done
  <2>2. /\ row \in MemoryRows /\ id \in {0} \cup DOMAIN rows
        /\ id # 0 => rows[id].type = row.type
        /\ row.type = "section_state" /\ row.active /\ row.text \in 1..texts
    BY <1>0, <2>1 DEF Holds
  <2>3. /\ call' \in [Commands -> MemoryCalls] /\ call'[c] = Project!Idle
        /\ \A d \in Commands \ {c} : call'[d] = call[d]
    BY <1>0, <2>1
  <2>4. /\ latest' \in [Scopes -> Nat]
        /\ \A s \in Scopes : latest'[s] = IF s = row.scope THEN row.text ELSE latest[s]
    BY <1>0, <2>1, <2>2 DEF MemoryRows
  <2>5. /\ ProjectShape'
        /\ \A i \in DOMAIN rows : i \in DOMAIN rows' /\ rows'[i].type = rows[i].type
    BY <1>0, <2>1, <2>2, <2>3, <2>4, WriteKeeps
  <2>6. ASSUME NEW d \in Commands
        PROVE  Holds(d)'
    <3>1. CASE d = c
      BY <1>0, <2>3, <3>1 DEF Holds
    <3>2. CASE d # c
      BY <1>0, <2>1, <2>3, <2>5, <3>2, HoldsOn
    <3> QED
      BY <3>1, <3>2
  <2>7. ASSUME NEW s \in Scopes \ disturbed'
        PROVE  ScopeKept(s)'
    <3>0. s \in Scopes \ disturbed /\ ScopeKept(s)
      BY <2>1 DEF ProjectInv
    <3>1. CASE s = row.scope
      <4>1. Upserting(c, s) /\ Found(c, s) /\ \A d \in Commands : Upserting(d, s) => d = c
        BY <2>1, <3>0, <3>1 DEF Upserting, ScopeKept
      <4>2. \A d \in Commands : ~Upserting(d, s)'
        BY <1>0, <2>3, <4>1 DEF Upserting
      <4>3. /\ DOMAIN rows' = DOMAIN rows \cup {n}
            /\ rows'[n] = [row EXCEPT !.at = writes + 1]
            /\ \A i \in DOMAIN rows \ {n} : rows'[i] = rows[i]
            /\ id = 0 => n \notin DOMAIN rows
        BY <2>1, <2>2, StoredRows DEF ProjectInv
      <4>4. /\ rows'[n].type = "section_state" /\ rows'[n].active /\ rows'[n].scope = s
            /\ rows'[n].text = row.text
        BY <2>2, <3>1, <4>3 DEF MemoryRows
      <4>5. StatesOf(s) \subseteq {n}
        BY <4>1 DEF Found, Place
      <4>6. ASSUME NEW i
            PROVE  i \in StatesOf(s)' <=> i = n
        BY <4>3, <4>4, <4>5 DEF StatesOf, Project!ActiveStates
      <4>7. StatesOf(s)' = {n}
        BY <4>6
      <4>8. latest'[s] = row.text /\ row.text # 0
        BY <1>0, <2>2, <2>4, <3>0, <3>1
      <4> HIDE DEF n, row, id
      <4> QED
        BY <4>2, <4>4, <4>7, <4>8 DEF ScopeKept
    <3>2. CASE s # row.scope
      <4>1. s \notin Project!Touched(id, row)
        BY <2>1, <3>2
      <4>2. StatesOf(s)' = StatesOf(s) /\ \A i \in StatesOf(s) : rows'[i] = rows[i]
        BY <2>1, <2>2, <4>1, StatesStay DEF ProjectInv
      <4>3. latest'[s] = latest[s]
        BY <2>4, <3>2
      <4>4. \A d \in Commands : Upserting(d, s)' => Upserting(d, s) /\ call'[d].id = call[d].id
        BY <1>0, <2>3 DEF Upserting
      <4> QED
        BY <3>0, <4>2, <4>3, <4>4, KeptOn
    <3> QED
      BY <3>1, <3>2
  <2> QED
    BY <2>5, <2>6, <2>7 DEF ProjectInv
<1>5. ASSUME NEW c \in Commands, Project!WriteBack(c) PROVE ProjectInv'
  <2> DEFINE row == call[c].row
             id  == call[c].id
  <2>1. /\ call[c].pc = "update" /\ writes' = writes + 1 /\ UNCHANGED <<texts, latest>>
        /\ rows' = Project!Stored(id, row)
        /\ disturbed' = IF row.type = "section_state"
                        THEN disturbed \cup Project!Touched(id, row) ELSE disturbed
        /\ call' = [call EXCEPT ![c] = Project!Idle]
    BY <1>5 DEF Project!WriteBack, Project!Done
  <2>2. /\ row \in MemoryRows /\ id \in {0} \cup DOMAIN rows
        /\ id # 0 => rows[id].type = row.type
        /\ row.text \in 1..texts
    BY <1>0, <2>1 DEF Holds
  <2>3. /\ call' \in [Commands -> MemoryCalls] /\ call'[c] = Project!Idle
        /\ \A d \in Commands \ {c} : call'[d] = call[d]
    BY <1>0, <2>1
  <2>5. /\ ProjectShape'
        /\ \A i \in DOMAIN rows : i \in DOMAIN rows' /\ rows'[i].type = rows[i].type
    BY <1>0, <2>1, <2>2, <2>3, WriteKeeps
  <2>6. ASSUME NEW d \in Commands
        PROVE  Holds(d)'
    <3>1. CASE d = c
      BY <1>0, <2>3, <3>1 DEF Holds
    <3>2. CASE d # c
      BY <1>0, <2>1, <2>3, <2>5, <3>2, HoldsOn
    <3> QED
      BY <3>1, <3>2
  <2>7. ASSUME NEW s \in Scopes \ disturbed'
        PROVE  ScopeKept(s)'
    <3>0. /\ s \in Scopes \ disturbed
          /\ row.type = "section_state" => s \notin Project!Touched(id, row)
      BY <2>1
    <3>1. StatesOf(s)' = StatesOf(s) /\ \A i \in StatesOf(s) : rows'[i] = rows[i]
      BY <2>1, <2>2, <3>0, StatesStay DEF ProjectInv
    <3>2. \A d \in Commands : Upserting(d, s)' => Upserting(d, s) /\ call'[d].id = call[d].id
      BY <1>0, <2>3 DEF Upserting
    <3> QED
      BY <2>1, <3>0, <3>1, <3>2, KeptOn
  <2> QED
    BY <2>5, <2>6, <2>7 DEF ProjectInv
<1>6. CASE Project!AppendEntry
  <2>1. /\ writes' = writes + 1 /\ texts' = texts + 1 /\ UNCHANGED <<call, latest, disturbed>>
    BY <1>6 DEF Project!AppendEntry, Project!NextText
  <2>2. PICK s \in AllScopes :
           rows' = Project!Stored(0, [type |-> "entry", scope |-> s, active |-> TRUE,
                                      text |-> texts + 1, at |-> 0])
    BY <1>6 DEF Project!AppendEntry, AllScopes
  <2> DEFINE row == [type |-> "entry", scope |-> s, active |-> TRUE, text |-> texts + 1,
                     at |-> 0]
  <2>3. row \in MemoryRows /\ row.type = "entry" /\ row.text = texts + 1
    BY <1>0 DEF MemoryRows, Project!Types
  <2>4. rows' = Project!Stored(0, row)
    BY <2>2
  <2> HIDE DEF row
  <2>5. row.text \in 1..texts' /\ texts' \in Nat /\ texts <= texts'
    BY <1>0, <2>1, <2>3
  <2>6. /\ ProjectShape'
        /\ \A i \in DOMAIN rows : i \in DOMAIN rows' /\ rows'[i].type = rows[i].type
    BY <1>0, <2>1, <2>3, <2>4, <2>5, WriteKeeps
  <2>7. \A d \in Commands : Holds(d)'
    BY <2>1, <2>5, <2>6, HoldsOn
  <2>8. ASSUME NEW t \in Scopes \ disturbed'
        PROVE  ScopeKept(t)'
    <3>1. StatesOf(t)' = StatesOf(t) /\ \A i \in StatesOf(t) : rows'[i] = rows[i]
      BY <2>3, <2>4, StatesStay DEF ProjectInv
    <3> QED
      BY <2>1, <3>1, KeptOn DEF Upserting
  <2> QED
    BY <2>6, <2>7, <2>8 DEF ProjectInv
<1>7. CASE UNCHANGED Project!pmVars
  <2>1. UNCHANGED <<rows, texts, writes, call, failed, latest, disturbed>>
    BY <1>7 DEF Project!pmVars
  <2>2. ProjectShape'
    BY <2>1 DEF ProjectInv, ProjectShape, Project!RowsOK
  <2>3. \A c \in Commands : Holds(c)'
    BY <2>1 DEF ProjectInv, Holds
  <2>4. ASSUME NEW s \in Scopes \ disturbed'
        PROVE  ScopeKept(s)'
    <3>1. StatesOf(s)' = StatesOf(s)
      BY <2>1 DEF StatesOf, Project!ActiveStates
    <3> QED
      BY <2>1, <3>1, KeptOn DEF Upserting
  <2> QED
    BY <2>2, <2>3, <2>4 DEF ProjectInv
<1> QED
  BY <1>1, <1>2, <1>3, <1>4, <1>5, <1>6, <1>7 DEF Project!Next

(* While nothing else gets hold of its row, the section state of a scope   *)
(* is the one last written for it, and the only one, however the commands  *)
(* of other scopes interleave (upsertSectionState).                        *)
THEOREM ScopedStateKeptHolds == ProcessSpec => []ScopedStateKept
<1> DEFINE Inv == used = "project" => ProjectInv
<1>1. ProcessInit => Inv
  BY ProjectInvInit DEF ProcessInit
<1>2. Inv /\ [ProcessNext]_processVars => Inv'
  <2> SUFFICES ASSUME Inv, [ProcessNext]_processVars, used' = "project"
               PROVE  ProjectInv'
    OBVIOUS
  <2>1. used = "project" /\ [Project!Next]_(Project!pmVars)
    BY DEF ProcessNext, processVars, projectRows, Project!pmVars
  <2> QED
    BY <2>1, ProjectInvStep
<1>3. Inv => ScopedStateKept
  BY DEF ScopedStateKept, ProjectInv, ProjectShape, ScopeKept, StatesOf,
     Project!ScopedStateKept
<1> QED
  BY <1>1, <1>2, <1>3, PTL DEF ProcessSpec, processVars

-----------------------------------------------------------------------------
(* The agent workspace: runOnce and COMMANDS.md                            *)

Statuses  == {"EMPTY", "PENDING", "RUNNING", "DONE", "FAILED", "IGNORED"}
WorkSteps == {"idle", "read", "get", "put", "reset", "execute"}
WorkFiles == [post : Work!Posts, id : CommandIds \cup {NoId}, action : Work!Actions,
              requires : BOOLEAN, status : Statuses, alone : BOOLEAN]
RunCalls  == [pc : WorkSteps, on : Workers \cup {Work!Idle.on}, cmd : WorkFiles,
              todo : Seq(Work!Reports), ok : BOOLEAN, seen : WorkFiles, caught : BOOLEAN,
              alone : BOOLEAN]

WorkShape ==
    /\ cmd \in WorkFiles
    /\ reports \in [Work!Reports -> Work!Posts \cup {Work!Hand}]
    /\ lock \in [Workers -> BOOLEAN]
    /\ run \in [WorkRuns -> RunCalls]

ResetTails == {<< >>, <<"test">>, <<"diagnosis", "test">>, <<"render", "diagnosis", "test">>}
Left(todo) == {todo[i] : i \in DOMAIN todo}
OfRun(x, reps, files) == \A f \in files : reps[f] \in {x.cmd.post, Work!Hand}

(* A run that was alone since it read the command is at the command of the *)
(* file, and the reports it has reset or written are of it.  When the file *)
(* says DONE, and was written by such a run, no other writes reports.      *)
PastRead(x) == x.pc \notin {"idle", "read"}
Fits(x, c, reps) ==
    /\ PastRead(x) /\ x.alone =>
          /\ c.post = x.cmd.post /\ c.status \in {"PENDING", "RUNNING"}
          /\ x.pc \in {"get", "put"} /\ x.cmd.status = "DONE" => OfRun(x, reps, Work!Reports)
          /\ x.pc = "execute" => OfRun(x, reps, Work!Reports)
          /\ x.pc = "reset" => OfRun(x, reps, Work!Reports \ Left(x.todo))
    /\ x.pc = "reset" => x.todo \in ResetTails
    /\ PastRead(x) /\ c.status = "DONE" /\ c.alone =>
          x.pc \in {"get", "put"} /\ ~x.alone /\ x.cmd.status # "RUNNING"

(* A run has the lock of its process to itself, and runs that are under    *)
(* way together are not alone.                                             *)
Locks(r) == run[r].pc # "idle" => run[r].on \in Workers /\ lock[run[r].on]
Apart(r, q) == run[r].pc # "idle" /\ run[q].pc # "idle" /\ r # q =>
                  run[r].on # run[q].on /\ ~run[r].alone

WorkInv ==
    /\ WorkShape
    /\ \A r \in WorkRuns : Locks(r) /\ Fits(run[r], cmd, reports)
    /\ \A r, q \in WorkRuns : Apart(r, q)
    /\ Work!ReportsOfCommand

LEMMA WorkIdle ==
    /\ Work!Empty \in WorkFiles /\ Work!Empty.status = "EMPTY"
    /\ Work!Idle \in RunCalls /\ Work!Idle.pc = "idle"
<1>1. 0 \in Work!Posts
  BY WorkAssumption DEF Work!Posts
<1>2. Work!Empty \in WorkFiles /\ Work!Empty.status = "EMPTY"
  BY <1>1 DEF Work!Empty, WorkFiles, Statuses, Work!Actions
<1>3. << >> \in Seq(Work!Reports)
  OBVIOUS
<1>4. Work!Idle \in RunCalls
  <2> DEFINE on == Work!Idle.on
  <2>1. Work!Idle = [pc |-> "idle", on |-> on, cmd |-> Work!Empty, todo |-> << >>,
                     ok |-> TRUE, seen |-> Work!Empty, caught |-> FALSE, alone |-> TRUE]
    BY DEF Work!Idle
  <2>2. on \in Workers \cup {Work!Idle.on}
    OBVIOUS
  <2> HIDE DEF on
  <2> QED
    BY <1>2, <1>3, <2>1, <2>2 DEF RunCalls, WorkSteps
<1>5. Work!Idle.pc = "idle"
  BY DEF Work!Idle
<1> QED
  BY <1>2, <1>4, <1>5

LEMMA WorkInvInit == Work!Init => WorkInv
<1> SUFFICES ASSUME Work!Init PROVE WorkInv
  OBVIOUS
<1>1. /\ cmd = Work!Empty /\ \A r \in WorkRuns : run[r].pc = "idle"
      /\ cmd.status = "EMPTY"
  BY WorkIdle DEF Work!Init
<1>2. WorkShape
  BY WorkIdle, WorkAssumption DEF Work!Init, WorkShape, Work!Posts
<1> QED
  BY <1>1, <1>2 DEF WorkInv, Locks, Fits, Apart, PastRead, Work!ReportsOfCommand

(* A step of a run and of nobody else: the rest stays as it was.  The      *)
(* command it writes counts as alone only if it is.                        *)
LEMMA RestFits ==
    ASSUME WorkInv, NEW q \in WorkRuns, run[q].pc # "idle",
           NEW r \in WorkRuns \ {q}, run'[r] = run[r],
           lock' = lock \/ lock' = [lock EXCEPT ![run[q].on] = FALSE],
           cmd' = cmd \/ (cmd'.alone => run[q].alone)
    PROVE  Locks(r)' /\ Fits(run'[r], cmd', reports')
<1>1. Locks(r) /\ Fits(run[r], cmd, reports) /\ Apart(r, q) /\ Apart(q, r)
  BY DEF WorkInv
<1>2. CASE run[r].pc = "idle"
  BY <1>2 DEF Locks, Fits, PastRead
<1>3. CASE run[r].pc # "idle"
  <2>1. ~run[r].alone /\ ~run[q].alone /\ run[r].on # run[q].on
    BY <1>1, <1>3 DEF Apart
  <2>2. Locks(r)'
    BY <1>1, <1>3, <2>1 DEF Locks, WorkInv, WorkShape
  <2>3. Fits(run'[r], cmd', reports')
    BY <1>1, <2>1 DEF Fits, PastRead
  <2> QED
    BY <2>2, <2>3
<1> QED
  BY <1>2, <1>3

LEMMA RunGoes ==
    ASSUME WorkInv, NEW q \in WorkRuns, run[q].pc # "idle", NEW x \in RunCalls,
           Work!Goes(q, x), x.on = run[q].on, x.pc # "idle", x.alone => run[q].alone,
           cmd' \in WorkFiles, cmd' = cmd \/ (cmd'.alone => run[q].alone),
           reports' \in [Work!Reports -> Work!Posts \cup {Work!Hand}],
           Fits(x, cmd', reports'), Work!ReportsOfCommand'
    PROVE  WorkInv'
<1>1. /\ run'[q] = x /\ run' \in [WorkRuns -> RunCalls] /\ lock' = lock
      /\ \A r \in WorkRuns \ {q} : run'[r] = run[r]
  BY DEF Work!Goes, WorkInv, WorkShape
<1>2. WorkShape'
  BY <1>1 DEF WorkInv, WorkShape
<1>3. ASSUME NEW r \in WorkRuns
      PROVE  Locks(r)' /\ Fits(run'[r], cmd', reports')
  <2>1. CASE r = q
    BY <1>1, <2>1 DEF WorkInv, Locks
  <2>2. CASE r # q
    BY <1>1, <2>2, RestFits
  <2> QED
    BY <2>1, <2>2
<1>4. ASSUME NEW r \in WorkRuns, NEW s \in WorkRuns
      PROVE  Apart(r, s)'
  BY <1>1 DEF WorkInv, Apart
<1> QED
  BY <1>2, <1>3, <1>4 DEF WorkInv

LEMMA RunLeaves ==
    ASSUME WorkInv, NEW q \in WorkRuns, run[q].pc # "idle", Work!Leave(q),
           cmd' \in WorkFiles, cmd' = cmd \/ (cmd'.alone => run[q].alone),
           reports' \in [Work!Reports -> Work!Posts \cup {Work!Hand}],
           Work!ReportsOfCommand'
    PROVE  WorkInv'
<1>1. /\ run'[q] = Work!Idle /\ run' \in [WorkRuns -> RunCalls]
      /\ lock' = [lock EXCEPT ![run[q].on] = FALSE] /\ lock' \in [Workers -> BOOLEAN]
      /\ \A r \in WorkRuns \ {q} : run'[r] = run[r]
  BY WorkIdle DEF Work!Leave, WorkInv, WorkShape
<1>2. WorkShape'
  BY <1>1 DEF WorkInv, WorkShape
<1>3. ASSUME NEW r \in WorkRuns
      PROVE  Locks(r)' /\ Fits(run'[r], cmd', reports')
  <2>1. CASE r = q
    BY <1>1, <2>1, WorkIdle DEF Locks, Fits, PastRead
  <2>2. CASE r # q
    BY <1>1, <2>2, RestFits
  <2> QED
    BY <2>1, <2>2
<1>4. ASSUME NEW r \in WorkRuns, NEW s \in WorkRuns
      PROVE  Apart(r, s)'
  BY <1>1, WorkIdle DEF WorkInv, Apart
<1> QED
  BY <1>2, <1>3, <1>4 DEF WorkInv

(* The catch block, after any await past the first. *)
LEMMA CatchKeeps ==
    ASSUME WorkInv, NEW q \in WorkRuns, PastRead(run[q]), NEW c \in RunCalls, Work!Catch(q, c),
           c.on = run[q].on, c.alone => run[q].alone,
           c.alone => cmd'.post = c.cmd.post /\ cmd'.status \in {"PENDING", "RUNNING"},
           cmd' \in WorkFiles, cmd' = cmd \/ (cmd'.alone => run[q].alone),
           reports' \in [Work!Reports -> Work!Posts \cup {Work!Hand}],
           Work!ReportsOfCommand'
    PROVE  WorkInv'
<1>0. run[q].pc # "idle"
  BY DEF PastRead
<1>1. CASE Work!Leave(q)
  BY <1>0, <1>1, RunLeaves
<1>2. CASE Work!Goes(q, Work!Marking([c EXCEPT !.caught = TRUE], "FAILED"))
  <2> DEFINE x == Work!Marking([c EXCEPT !.caught = TRUE], "FAILED")
  <2>1. /\ x \in RunCalls /\ x.pc = "get" /\ x.on = c.on /\ x.alone = c.alone
        /\ x.cmd.post = c.cmd.post /\ x.cmd.status = "FAILED"
    BY WorkIdle DEF Work!Marking, RunCalls, WorkFiles, Statuses, WorkSteps
  <2> HIDE DEF x
  <2>2. Fits(x, cmd', reports')
    BY <2>1 DEF Fits, PastRead
  <2>3. Work!Goes(q, x)
    BY <1>2 DEF x
  <2> QED
    BY <1>0, <2>1, <2>2, <2>3, RunGoes
<1> QED
  BY <1>1, <1>2 DEF Work!Catch

(* The first of what is left is written, and then less is left.            *)
LEMMA ResetNext ==
    ASSUME NEW todo \in ResetTails, todo # << >>
    PROVE  /\ Tail(todo) \in ResetTails /\ Head(todo) \in Work!Reports
           /\ Left(todo) \subseteq {Head(todo)} \cup Left(Tail(todo))
<1>1. CASE todo = <<"test">>
  BY <1>1 DEF ResetTails, Left, Work!Reports
<1>2. CASE todo = <<"diagnosis", "test">>
  BY <1>2 DEF ResetTails, Left, Work!Reports
<1>3. CASE todo = <<"render", "diagnosis", "test">>
  BY <1>3 DEF ResetTails, Left, Work!Reports
<1> QED
  BY <1>1, <1>2, <1>3 DEF ResetTails

LEMMA WorkInvStep == WorkInv /\ [Work!Next]_(Work!workVars) => WorkInv'
<1> SUFFICES ASSUME WorkInv, [Work!Next]_(Work!workVars) PROVE WorkInv'
  OBVIOUS
<1>0. /\ cmd \in WorkFiles
      /\ reports \in [Work!Reports -> Work!Posts \cup {Work!Hand}]
      /\ \A r \in WorkRuns : run[r] \in RunCalls /\ Fits(run[r], cmd, reports)
      /\ Work!ReportsOfCommand
  BY DEF WorkInv, WorkShape
<1>1. CASE Work!Post
  <2>1. /\ cmd.status \in {"PENDING", "RUNNING"} => \A r \in WorkRuns : run[r].pc = "idle"
        /\ cmd.post < MaxPosts /\ UNCHANGED <<reports, lock, run>>
    BY <1>1 DEF Work!Post, Work!UnderWay
  <2>2. PICK id \in CommandIds \cup {NoId}, action \in Work!Actions, requires \in BOOLEAN :
           cmd' = [post |-> cmd.post + 1, id |-> id, action |-> action, requires |-> requires,
                   status |-> "PENDING", alone |-> TRUE]
    BY <1>1 DEF Work!Post
  <2>3. cmd.post + 1 \in Work!Posts
    BY <1>0, <2>1, WorkAssumption DEF WorkFiles, Work!Posts
  <2>4. cmd' \in WorkFiles /\ cmd'.status = "PENDING"
    BY <2>2, <2>3 DEF WorkFiles, Statuses
  <2>5. ASSUME NEW r \in WorkRuns
        PROVE  Locks(r)' /\ Fits(run'[r], cmd', reports')
    <3>1. Locks(r) /\ Fits(run[r], cmd, reports)
      BY DEF WorkInv
    <3>2. ~(PastRead(run[r]) /\ run[r].alone)
      BY <2>1, <3>1 DEF Fits, PastRead
    <3> QED
      BY <2>1, <2>4, <3>1, <3>2 DEF Locks, Fits
  <2> QED
    BY <2>1, <2>4, <2>5 DEF WorkInv, WorkShape, Apart, Work!ReportsOfCommand
<1>2. ASSUME NEW r \in WorkRuns, Work!Enter(r) PROVE WorkInv'
  <2>1. PICK p \in Workers :
           LET others == {q \in WorkRuns : Work!UnderWay(q) /\ run[q].on # p}
           IN  /\ ~lock[p] /\ lock' = [lock EXCEPT ![p] = TRUE]
               /\ run' = [q \in WorkRuns |->
                    IF q = r THEN [Work!Idle EXCEPT !.pc = "read", !.on = p,
                                                    !.alone = others = {}]
                    ELSE [run[q] EXCEPT !.alone = @ /\ q \notin others]]
    BY <1>2 DEF Work!Enter, Work!Unlocked
  <2> DEFINE others == {q \in WorkRuns : Work!UnderWay(q) /\ run[q].on # p}
             new    == [Work!Idle EXCEPT !.pc = "read", !.on = p, !.alone = others = {}]
             old(q) == [run[q] EXCEPT !.alone = run[q].alone /\ q \notin others]
  <2>2. run[r].pc = "idle" /\ UNCHANGED <<cmd, reports>>
    BY <1>2 DEF Work!Enter, Work!UnderWay
  <2>3. ~lock[p] /\ lock' = [lock EXCEPT ![p] = TRUE]
    BY <2>1
  <2>4. \A q \in WorkRuns : q # r /\ run[q].pc # "idle" => q \in others
    BY <2>3 DEF WorkInv, Locks, Work!UnderWay
  <2>5. /\ run'[r] = new /\ DOMAIN run' = WorkRuns /\ run' = [q \in WorkRuns |-> run'[q]]
        /\ \A q \in WorkRuns \ {r} : run'[q] = old(q)
    BY <2>1
  <2>6. /\ new \in RunCalls /\ new.pc = "read" /\ new.on = p /\ new.alone = (others = {})
    <3>1. (others = {}) \in BOOLEAN
      OBVIOUS
    <3> HIDE DEF others
    <3> QED
      BY <3>1, WorkIdle DEF RunCalls, WorkSteps
  <2>7. ASSUME NEW q \in WorkRuns
        PROVE  /\ old(q) \in RunCalls /\ old(q).pc = run[q].pc /\ old(q).on = run[q].on
               /\ old(q).cmd = run[q].cmd /\ old(q).todo = run[q].todo
               /\ old(q).alone = (run[q].alone /\ q \notin others)
    <3>1. (q \notin others) \in BOOLEAN /\ run[q] \in RunCalls
      BY <1>0
    <3> HIDE DEF others
    <3> QED
      BY <3>1 DEF RunCalls
  <2> HIDE DEF new, old
  <2>a. ASSUME NEW q \in WorkRuns, q # r
        PROVE  /\ run'[q].pc = run[q].pc /\ run'[q].on = run[q].on
               /\ run'[q].cmd = run[q].cmd /\ run'[q].todo = run[q].todo
               /\ run'[q].alone => run[q].alone
    BY <2>5, <2>7, <2>a
  <2>8. WorkShape'
    BY <2>2, <2>3, <2>5, <2>6, <2>7 DEF WorkInv, WorkShape
  <2>9. ASSUME NEW q \in WorkRuns
        PROVE  Locks(q)' /\ Fits(run'[q], cmd', reports')
    <3>1. CASE q = r
      BY <2>3, <2>5, <2>6, <3>1 DEF WorkInv, WorkShape, Locks, Fits, PastRead
    <3>2. CASE q # r
      <4>1. Locks(q) /\ Fits(run[q], cmd, reports)
        BY DEF WorkInv
      <4>2. Locks(q)'
        BY <2>3, <2>5, <2>7, <3>2, <4>1 DEF WorkInv, WorkShape, Locks
      <4>3. Fits(run'[q], cmd', reports')
        BY <2>2, <2>a, <3>2, <4>1 DEF Fits, PastRead, OfRun
      <4> QED
        BY <4>2, <4>3
    <3> QED
      BY <3>1, <3>2
  <2>10. ASSUME NEW q \in WorkRuns, NEW s \in WorkRuns
         PROVE  Apart(q, s)'
    <3>1. Apart(q, s) /\ Locks(q) /\ Locks(s)
      BY DEF WorkInv
    <3>2. CASE q # r /\ s # r
      BY <2>a, <3>1, <3>2 DEF Apart
    <3>3. CASE q = r /\ s # r
      <4>1. ASSUME run'[s].pc # "idle"
            PROVE  run'[q].on # run'[s].on /\ ~run'[q].alone
        <5>1. s \in others /\ run'[s].on = run[s].on /\ lock[run[s].on]
          BY <2>4, <2>5, <2>7, <3>1, <3>3, <4>1 DEF Locks
        <5> QED
          BY <2>3, <2>5, <2>6, <3>3, <5>1
      <4> QED
        BY <4>1 DEF Apart
    <3>4. CASE q # r /\ s = r
      <4>1. ASSUME run'[q].pc # "idle"
            PROVE  run'[q].on # run'[s].on /\ ~run'[q].alone
        <5>1. q \in others /\ run'[q].on = run[q].on /\ lock[run[q].on]
          BY <2>4, <2>5, <2>7, <3>1, <3>4, <4>1 DEF Locks
        <5>2. run'[s].on = p /\ ~run'[q].alone
          BY <2>5, <2>6, <2>7, <3>4, <5>1
        <5> QED
          BY <2>3, <5>1, <5>2
      <4> QED
        BY <4>1 DEF Apart
    <3> QED
      BY <3>2, <3>3, <3>4 DEF Apart
  <2> QED
    BY <2>2, <2>8, <2>9, <2>10 DEF WorkInv, Work!ReportsOfCommand
<1>3. ASSUME NEW r \in WorkRuns, Work!Read(r) PROVE WorkInv'
  <2>1. run[r].pc = "read" /\ UNCHANGED <<cmd, reports>>
    BY <1>3 DEF Work!Read
  <2>2. Work!ReportsOfCommand'
    BY <1>0, <2>1 DEF Work!ReportsOfCommand
  <2>3. CASE Work!Leave(r)
    BY <1>0, <2>1, <2>2, <2>3, RunLeaves
  <2> DEFINE c == [run[r] EXCEPT !.cmd = cmd]
             x == Work!Marking(c, Work!Verdict(run[r].on, cmd))
  <2>4. CASE cmd.status = "PENDING" /\ Work!Goes(r, x)
    <3>1. /\ c \in RunCalls /\ c.on = run[r].on /\ c.alone = run[r].alone
          /\ c.cmd = cmd
      BY <1>0 DEF RunCalls
    <3>2. PICK status \in {"FAILED", "IGNORED", "RUNNING"} :
             status = Work!Verdict(run[r].on, cmd)
      BY DEF Work!Verdict
    <3>3. x = Work!Marking(c, status)
      BY <3>2
    <3> HIDE DEF c, x
    <3> DEFINE y == Work!Marking(c, status)
    <3>6. /\ y \in RunCalls /\ y.pc = "get" /\ y.on = c.on /\ y.alone = c.alone
          /\ y.cmd.post = c.cmd.post /\ y.cmd.status # "DONE"
      BY <3>1, WorkIdle DEF Work!Marking, RunCalls, WorkFiles, Statuses, WorkSteps
    <3>4. /\ x \in RunCalls /\ x.pc = "get" /\ x.on = c.on /\ x.alone = c.alone
          /\ x.cmd.post = c.cmd.post /\ x.cmd.status # "DONE"
      BY <3>3, <3>6
    <3>5. Fits(x, cmd', reports')
      BY <2>1, <2>4, <3>1, <3>4 DEF Fits, PastRead
    <3> QED
      BY <1>0, <2>1, <2>2, <2>4, <3>1, <3>4, <3>5, RunGoes
  <2> QED
    BY <1>3, <2>3, <2>4 DEF Work!Read
<1>4. ASSUME NEW r \in WorkRuns, Work!GetSha(r) PROVE WorkInv'
  <2>1. run[r].pc = "get" /\ UNCHANGED <<cmd, reports>>
    BY <1>4 DEF Work!GetSha
  <2>2. Work!ReportsOfCommand'
    BY <1>0, <2>1 DEF Work!ReportsOfCommand
  <2>3. CASE Work!Catch(r, run[r])
    <3>1. PastRead(run[r])
      BY <2>1 DEF PastRead
    <3>2. run[r].alone => cmd'.post = run[r].cmd.post /\ cmd'.status \in {"PENDING", "RUNNING"}
      BY <1>0, <2>1, <3>1 DEF Fits
    <3> QED
      BY <1>0, <2>1, <2>2, <2>3, <3>1, <3>2, CatchKeeps
  <2> DEFINE x == [run[r] EXCEPT !.pc = "put", !.seen = cmd]
  <2>4. CASE Work!Goes(r, x)
    <3>1. /\ x \in RunCalls /\ x.pc = "put" /\ x.on = run[r].on /\ x.alone = run[r].alone
          /\ x.cmd = run[r].cmd
      BY <1>0 DEF RunCalls, WorkSteps
    <3> HIDE DEF x
    <3>2. Fits(x, cmd', reports')
      BY <1>0, <2>1, <3>1 DEF Fits, PastRead, OfRun
    <3> QED
      BY <1>0, <2>1, <2>2, <2>4, <3>1, <3>2, RunGoes
  <2> QED
    BY <1>4, <2>3, <2>4 DEF Work!GetSha
<1>5. ASSUME NEW r \in WorkRuns, Work!Put(r) PROVE WorkInv'
  <2> DEFINE c    == run[r]
             mark == [c.cmd EXCEPT !.alone = c.alone]
  <2>1. c.pc = "put" /\ UNCHANGED reports /\ PastRead(c) /\ c \in RunCalls
    BY <1>0, <1>5 DEF Work!Put, PastRead
  <2>2. /\ mark \in WorkFiles /\ mark.post = c.cmd.post /\ mark.status = c.cmd.status
        /\ mark.alone = c.alone
    BY <2>1 DEF RunCalls, WorkFiles
  <2>3. Fits(c, cmd, reports)
    BY <1>0
  <2>4. \/ cmd' = cmd /\ Work!Catch(r, c)
        \/ cmd' = mark /\ Work!Catch(r, [c EXCEPT !.alone = FALSE])
        \/ cmd' = mark /\ IF c.cmd.status = "RUNNING"
                          THEN Work!Goes(r, [c EXCEPT !.pc = "reset", !.todo = Work!ResetFiles])
                          ELSE Work!Leave(r)
    BY <1>5 DEF Work!Put
  <2> HIDE DEF mark
  <2>5. cmd' = mark => Work!ReportsOfCommand'
    <3>1. ASSUME cmd' = mark, cmd'.status = "DONE", cmd'.alone
          PROVE  \A f \in Work!Reports : reports'[f] \in {cmd'.post, Work!Hand}
      BY <2>1, <2>2, <2>3, <3>1 DEF Fits, OfRun
    <3> QED
      BY <3>1 DEF Work!ReportsOfCommand
  <2>6. CASE cmd' = cmd /\ Work!Catch(r, c)
    <3>1. Work!ReportsOfCommand'
      BY <1>0, <2>1, <2>6 DEF Work!ReportsOfCommand
    <3>2. c.alone => cmd'.post = c.cmd.post /\ cmd'.status \in {"PENDING", "RUNNING"}
      BY <2>1, <2>3, <2>6 DEF Fits
    <3> QED
      BY <1>0, <2>1, <2>6, <3>1, <3>2, CatchKeeps
  <2>7. CASE cmd' = mark /\ Work!Catch(r, [c EXCEPT !.alone = FALSE])
    <3> DEFINE x == [c EXCEPT !.alone = FALSE]
    <3>1. x \in RunCalls /\ x.on = c.on /\ ~x.alone
      BY <2>1 DEF RunCalls
    <3> HIDE DEF x
    <3>2. Work!Catch(r, x)
      BY <2>7 DEF x
    <3> QED
      BY <1>0, <2>1, <2>2, <2>5, <2>7, <3>1, <3>2, CatchKeeps
  <2>8. CASE cmd' = mark /\ Work!Leave(r)
    BY <1>0, <2>1, <2>2, <2>5, <2>8, RunLeaves DEF PastRead
  <2>9. CASE /\ cmd' = mark /\ c.cmd.status = "RUNNING"
             /\ Work!Goes(r, [c EXCEPT !.pc = "reset", !.todo = Work!ResetFiles])
    <3> DEFINE x == [c EXCEPT !.pc = "reset", !.todo = Work!ResetFiles]
    <3>1. /\ Work!ResetFiles \in ResetTails /\ Work!ResetFiles \in Seq(Work!Reports)
          /\ Work!Reports \ Left(Work!ResetFiles) = {}
      BY DEF Work!ResetFiles, Work!Reports, ResetTails, Left
    <3>2. /\ x \in RunCalls /\ x.pc = "reset" /\ x.on = c.on /\ x.alone = c.alone
          /\ x.cmd = c.cmd /\ x.todo = Work!ResetFiles
      BY <2>1, <3>1 DEF RunCalls, WorkSteps
    <3> HIDE DEF x
    <3>3. Fits(x, cmd', reports')
      BY <2>2, <2>9, <3>1, <3>2 DEF Fits, PastRead, OfRun
    <3>4. Work!Goes(r, x)
      BY <2>9 DEF x
    <3> QED
      BY <1>0, <2>1, <2>2, <2>5, <2>9, <3>2, <3>3, <3>4, RunGoes DEF PastRead
  <2> QED
    BY <2>4, <2>6, <2>7, <2>8, <2>9
<1>6. ASSUME NEW r \in WorkRuns, Work!Execute(r) PROVE WorkInv'
  <2> DEFINE c == run[r]
  <2>1. /\ c.pc = "reset" /\ c.todo = << >> /\ UNCHANGED <<cmd, reports>> /\ PastRead(c)
        /\ c \in RunCalls
    BY <1>0, <1>6 DEF Work!Execute, PastRead
  <2>2. Work!ReportsOfCommand' /\ Fits(c, cmd, reports)
    BY <1>0, <2>1 DEF Work!ReportsOfCommand
  <2>3. CASE Work!Catch(r, c)
    <3>1. c.alone => cmd'.post = c.cmd.post /\ cmd'.status \in {"PENDING", "RUNNING"}
      BY <2>1, <2>2 DEF Fits
    <3> QED
      BY <1>0, <2>1, <2>2, <2>3, <3>1, CatchKeeps
  <2>4. ASSUME NEW s \in Work!Writes(c.cmd.action), NEW ok \in {TRUE, c.cmd.action # "diagnose"},
               Work!Goes(r, [c EXCEPT !.pc = "execute", !.todo = s, !.ok = ok])
        PROVE  WorkInv'
    <3> DEFINE x == [c EXCEPT !.pc = "execute", !.todo = s, !.ok = ok]
    <3>1. s \in Seq(Work!Reports)
      <4>1. Work!Rendered \subseteq Seq(Work!Reports)
        BY DEF Work!Rendered, Work!Reports
      <4>2. <<"test">> \in Seq(Work!Reports)
        BY DEF Work!Reports
      <4>3. \A t \in Seq(Work!Reports) : Append(t, "test") \in Seq(Work!Reports)
        BY DEF Work!Reports
      <4> QED
        BY <4>1, <4>2, <4>3 DEF Work!Writes
    <3>2. /\ x \in RunCalls /\ x.pc = "execute" /\ x.on = c.on /\ x.alone = c.alone
          /\ x.cmd = c.cmd
      BY <2>1, <3>1 DEF RunCalls, WorkSteps
    <3>3. c.alone => OfRun(c, reports, Work!Reports)
      <4>1. Left(c.todo) = {}
        BY <2>1 DEF Left
      <4>2. Work!Reports \ Left(c.todo) = Work!Reports
        BY <4>1
      <4> QED
        BY <2>1, <2>2, <4>2 DEF Fits
    <3>4. Work!Goes(r, x)
      BY <2>4
    <3> HIDE DEF x
    <3>5. Fits(x, cmd', reports')
      BY <2>1, <2>2, <3>2, <3>3 DEF Fits, PastRead, OfRun
    <3> QED
      BY <1>0, <2>1, <2>2, <3>2, <3>4, <3>5, RunGoes
  <2> QED
    BY <1>6, <2>3, <2>4 DEF Work!Execute

<1>7. ASSUME NEW r \in WorkRuns, Work!Write(r) PROVE WorkInv'
  <2> DEFINE c    == run[r]
             f    == Head(c.todo)
             rest == [c EXCEPT !.todo = Tail(@)]
             written == reports' = [reports EXCEPT ![f] = c.cmd.post]
  <2>1. /\ c.pc \in {"reset", "execute"} /\ c.todo # << >> /\ UNCHANGED cmd
        /\ PastRead(c) /\ c \in RunCalls /\ Fits(c, cmd, reports)
    BY <1>0, <1>7 DEF Work!Write, PastRead
  <2>2. /\ f \in Work!Reports /\ Tail(c.todo) \in Seq(Work!Reports)
        /\ c.todo \in Seq(Work!Reports) /\ c.cmd.post \in Work!Posts
    BY <2>1, HeadTailProperties DEF RunCalls, WorkFiles
  <2>3. /\ rest \in RunCalls /\ rest.pc = c.pc /\ rest.on = c.on /\ rest.alone = c.alone
        /\ rest.cmd = c.cmd /\ rest.todo = Tail(c.todo)
    BY <2>1, <2>2 DEF RunCalls
  <2>4. written \/ UNCHANGED reports
    BY <1>7 DEF Work!Write
  <2>5. reports' \in [Work!Reports -> Work!Posts \cup {Work!Hand}]
    BY <1>0, <2>2, <2>4
  <2>6. Work!ReportsOfCommand'
    BY <2>1 DEF Fits, Work!ReportsOfCommand
  <2>7. c.alone => cmd'.post = c.cmd.post /\ cmd'.status \in {"PENDING", "RUNNING"}
    BY <2>1 DEF Fits
  <2>8. ASSUME c.alone, c.pc = "execute"
        PROVE  OfRun(c, reports', Work!Reports)
    BY <1>0, <2>1, <2>4, <2>8 DEF Fits, OfRun
  <2>9. CASE Work!Catch(r, c)
    BY <1>0, <2>1, <2>5, <2>6, <2>7, <2>9, CatchKeeps
  <2>10. CASE /\ c.pc = "execute"
              /\ Work!Goes(r, [c EXCEPT !.todo = <<"test">>, !.ok = FALSE])
    <3> DEFINE x == [c EXCEPT !.todo = <<"test">>, !.ok = FALSE]
    <3>1. <<"test">> \in Seq(Work!Reports)
      BY DEF Work!Reports
    <3>2. /\ x \in RunCalls /\ x.pc = "execute" /\ x.on = c.on /\ x.alone = c.alone
          /\ x.cmd = c.cmd
      BY <2>1, <2>10, <3>1 DEF RunCalls
    <3>3. Work!Goes(r, x)
      BY <2>10
    <3> HIDE DEF x
    <3>4. Fits(x, cmd', reports')
      BY <2>1, <2>7, <2>8, <2>10, <3>2 DEF Fits, PastRead, OfRun
    <3> QED
      BY <1>0, <2>1, <2>5, <2>6, <3>2, <3>3, <3>4, RunGoes DEF PastRead
  <2>11. CASE written /\ Work!Goes(r, rest)
    <3>1. Fits(rest, cmd', reports')
      <4>1. CASE c.pc = "execute"
        <5> HIDE DEF rest
        <5> QED
          BY <2>1, <2>3, <2>7, <2>8, <4>1 DEF Fits, PastRead, OfRun
      <4>2. CASE c.pc = "reset"
        <5>1. c.todo \in ResetTails
          BY <2>1, <4>2 DEF Fits
        <5>2. /\ Tail(c.todo) \in ResetTails
              /\ Left(c.todo) \subseteq {f} \cup Left(Tail(c.todo))
          BY <2>1, <5>1, ResetNext
        <5>3. ASSUME c.alone
              PROVE  OfRun(c, reports', Work!Reports \ Left(Tail(c.todo)))
          <6>1. OfRun(c, reports, Work!Reports \ Left(c.todo))
            BY <2>1, <4>2, <5>3 DEF Fits
          <6>2. \A g \in Work!Reports : reports'[g] = IF g = f THEN c.cmd.post ELSE reports[g]
            BY <1>0, <2>11
          <6> HIDE DEF f
          <6> QED
            BY <5>2, <6>1, <6>2 DEF OfRun
        <5> HIDE DEF rest
        <5> QED
          BY <2>1, <2>3, <2>7, <4>2, <5>2, <5>3 DEF Fits, PastRead, OfRun
      <4> QED
        BY <2>1, <4>1, <4>2
    <3> HIDE DEF rest
    <3> QED
      BY <1>0, <2>1, <2>3, <2>5, <2>6, <2>11, <3>1, RunGoes DEF PastRead
  <2>12. ASSUME NEW status \in {"DONE", "FAILED"}, c.pc = "execute", written,
                Work!Goes(r, Work!Marking(rest, status))
         PROVE  WorkInv'
    <3> DEFINE x == Work!Marking(rest, status)
    <3>0. Work!Goes(r, x)
      BY <2>12
    <3> HIDE DEF rest
    <3>1. /\ x \in RunCalls /\ x.pc = "get" /\ x.on = c.on /\ x.alone = c.alone
          /\ x.cmd.post = c.cmd.post
      BY <2>3, WorkIdle DEF Work!Marking, RunCalls, WorkFiles, Statuses, WorkSteps
    <3>2. c.pc = "execute" /\ (cmd.status = "DONE" => ~cmd.alone)
      BY <2>1, <2>12 DEF Fits
    <3> HIDE DEF x
    <3>3. Fits(x, cmd', reports')
      BY <2>1, <2>7, <2>8, <3>1, <3>2 DEF Fits, PastRead, OfRun
    <3> QED
      BY <1>0, <2>1, <2>5, <2>6, <3>0, <3>1, <3>3, RunGoes DEF PastRead
  <2> QED
    <3>1. CASE /\ c.pc = "execute" /\ written
               /\ Work!Goes(r, Work!Marking(rest, IF c.ok THEN "DONE" ELSE "FAILED"))
      <4>1. (IF c.ok THEN "DONE" ELSE "FAILED") \in {"DONE", "FAILED"}
        OBVIOUS
      <4> HIDE DEF c, rest, written
      <4> QED
        BY <2>12, <3>1, <4>1
    <3>2. \/ /\ c.pc = "execute" /\ written
             /\ Work!Goes(r, Work!Marking(rest, IF c.ok THEN "DONE" ELSE "FAILED"))
          \/ written /\ Work!Goes(r, rest)
          \/ c.pc = "execute" /\ Work!Goes(r, [c EXCEPT !.todo = <<"test">>, !.ok = FALSE])
          \/ Work!Catch(r, c)
      BY <1>7 DEF Work!Write
    <3> QED
      BY <2>9, <2>10, <2>11, <3>1, <3>2
<1>8. ASSUME NEW f \in Work!Reports, Work!ByHand(f) PROVE WorkInv'
  <2>1. UNCHANGED <<cmd, lock, run>> /\ reports' = [reports EXCEPT ![f] = Work!Hand]
    BY <1>8 DEF Work!ByHand
  <2>2. \A g \in Work!Reports : reports'[g] \in {reports[g], Work!Hand}
    BY <1>0, <2>1
  <2>3. WorkShape'
    BY <2>1 DEF WorkInv, WorkShape
  <2>4. ASSUME NEW r \in WorkRuns
        PROVE  Fits(run'[r], cmd', reports')
    <3>1. Fits(run[r], cmd, reports)
      BY DEF WorkInv
    <3> QED
      BY <2>1, <2>2, <3>1 DEF Fits, OfRun
  <2>5. Work!ReportsOfCommand'
    BY <1>0, <2>1, <2>2 DEF Work!ReportsOfCommand
  <2> QED
    BY <2>1, <2>3, <2>4, <2>5 DEF WorkInv, Locks, Apart
<1>9. ASSUME NEW p \in Workers, Work!Restart(p) PROVE WorkInv'
  <2>1. /\ UNCHANGED <<cmd, reports>> /\ lock' = [lock EXCEPT ![p] = FALSE]
        /\ run' = [r \in WorkRuns |-> IF run[r].on = p THEN Work!Idle ELSE run[r]]
    BY <1>9 DEF Work!Restart
  <2>2. ASSUME NEW r \in WorkRuns
        PROVE  run'[r] = Work!Idle \/ (run'[r] = run[r] /\ run[r].on # p)
    BY <2>1
  <2>3. WorkShape'
    BY <2>1, WorkIdle DEF WorkInv, WorkShape
  <2>4. ASSUME NEW r \in WorkRuns
        PROVE  Locks(r)' /\ Fits(run'[r], cmd', reports')
    <3>1. Locks(r) /\ Fits(run[r], cmd, reports)
      BY DEF WorkInv
    <3>2. CASE run'[r] = Work!Idle
      BY <3>2, WorkIdle DEF Locks, Fits, PastRead
    <3>3. CASE run'[r] = run[r] /\ run[r].on # p
      BY <2>1, <3>1, <3>3 DEF Locks, WorkInv, WorkShape
    <3> QED
      BY <2>2, <3>2, <3>3
  <2>5. ASSUME NEW r \in WorkRuns, NEW q \in WorkRuns
        PROVE  Apart(r, q)'
    BY <2>2, WorkIdle DEF WorkInv, Apart
  <2> QED
    BY <2>1, <2>3, <2>4, <2>5 DEF WorkInv, Work!ReportsOfCommand
<1>10. CASE UNCHANGED <<cmd, reports, lock, run>>
  BY <1>10 DEF WorkInv, WorkShape, Locks, Apart, Work!ReportsOfCommand
<1> QED
  BY <1>1, <1>2, <1>3, <1>4, <1>5, <1>6, <1>7, <1>8, <1>9, <1>10
  DEF Work!Next, Work!workVars

(* A command that waits is not written over by the mark of an earlier one. *)
LEMMA WorkKept == WorkInv /\ [Work!Next]_(Work!workVars) => Work!Kept \/ UNCHANGED cmd
<1> SUFFICES ASSUME WorkInv, Work!Next, cmd' # cmd PROVE Work!Kept
  BY DEF Work!workVars
<1>1. CASE Work!Post
  BY <1>1, WorkAssumption DEF Work!Post, Work!Kept, WorkInv, WorkShape, WorkFiles, Work!Posts
<1>2. ASSUME NEW r \in WorkRuns, Work!Put(r) PROVE Work!Kept
  <2> DEFINE c    == run[r]
             mark == [c.cmd EXCEPT !.alone = c.alone]
  <2>1. c.pc = "put" /\ c \in RunCalls /\ Fits(c, cmd, reports)
    BY <1>2 DEF Work!Put, WorkInv, WorkShape
  <2>2. cmd' = mark
    BY <1>2 DEF Work!Put
  <2>3. mark.post = c.cmd.post /\ mark.alone = c.alone /\ c.cmd.post \in Nat
    BY <2>1, WorkAssumption DEF RunCalls, WorkFiles, Work!Posts
  <2>4. c.alone => cmd.post = c.cmd.post
    BY <2>1 DEF Fits, PastRead
  <2> HIDE DEF c, mark
  <2> QED
    BY <2>2, <2>3, <2>4 DEF Work!Kept
<1> QED
  BY <1>1, <1>2 DEF Work!Next, Work!Enter, Work!Read, Work!GetSha, Work!Execute, Work!Write,
     Work!ByHand, Work!Restart

(* The invariant of the runs of the workspace. *)
THEOREM WorkspaceInvariant == ProcessSpec => [](used = "workspace" => WorkInv)
<1> DEFINE Inv == used = "workspace" => WorkInv
<1>1. ProcessInit => Inv
  BY WorkInvInit DEF ProcessInit
<1>2. Inv /\ [ProcessNext]_processVars => Inv'
  <2> SUFFICES ASSUME Inv, [ProcessNext]_processVars, used' = "workspace"
               PROVE  WorkInv'
    OBVIOUS
  <2>1. used = "workspace" /\ [Work!Next]_(Work!workVars)
    BY DEF ProcessNext, processVars, workspace, Work!workVars
  <2> QED
    BY <2>1, WorkInvStep
<1> QED
  BY <1>1, <1>2, PTL DEF ProcessSpec, processVars

(* When COMMANDS.md says DONE, every report is of that command, unless it  *)
(* was written by hand, or the run was not alone                           *)
(* (resetWorkspaceForCommand, executeCommand).                             *)
THEOREM ReportsOfCommandHolds == ProcessSpec => []ReportsOfCommand
<1>1. (used = "workspace" => WorkInv) => ReportsOfCommand
  BY DEF WorkInv, WorkShape, WorkFiles, Work!FilesOK, ReportsOfCommand
<1> QED
  BY <1>1, WorkspaceInvariant, PTL

(* A command that waits in COMMANDS.md is replaced by the editor or marked *)
(* by its own run (markCommand), unless a run was not alone.               *)
THEOREM PendingKeptHolds == ProcessSpec => PendingKept
<1>1. (used = "workspace" => WorkInv) /\ [ProcessNext]_processVars
         => [used = "workspace" => Work!Kept]_cmd
  <2> SUFFICES ASSUME WorkInv, [ProcessNext]_processVars, used = "workspace", cmd' # cmd
               PROVE  Work!Kept
    OBVIOUS
  <2>1. Work!Next
    BY DEF ProcessNext, processVars, workspace
  <2> QED
    BY <2>1, WorkKept
<1> QED
  BY <1>1, WorkspaceInvariant, PTL DEF ProcessSpec, processVars, PendingKept
=============================================================================
