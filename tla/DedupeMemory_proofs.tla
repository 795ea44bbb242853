------------------------ MODULE DedupeMemory_proofs ------------------------
(***************************************************************************)
(* What the memory of seen keys keeps, for any keys, any time to live and  *)
(* any size.  MessageIntake_proofs uses the lemmas for the Map of each     *)
(* process, ServerProcess_proofs the invariant for the run's composition.  *)
(*                                                                         *)
(* AdmittedOnce is not inductive: it needs to know, of every key that was  *)
(* let in, that it is still in the Map, has expired, or went while as many *)
(* others were fresh as the Map holds.                                     *)
(***************************************************************************)
EXTENDS DedupeMemory, SequenceTheorems, FiniteSetTheorems, TLAPS

-----------------------------------------------------------------------------
(* Induction, by the least number that is not reached *)

(* A set of natural numbers that is not empty has a least element. *)
LEMMA Least ==
    ASSUME NEW T \in SUBSET Nat, T # {}
    PROVE  \E m \in T : \A k \in T : m <= k
<1>1. PICK m \in T : \A k \in T : <<k, m>> \notin OpToRel(<, Nat)
  BY WFMin, NatLessThanWellFounded, Zenon
<1>2. \A k \in T : ~(k < m)
  BY <1>1, Zenon DEF OpToRel
<1> QED
  BY <1>2

(* Every natural number is in a set that has 0 and with n also n + 1. *)
LEMMA Reaches ==
    ASSUME NEW T, 0 \in T, \A n \in Nat : n \in T => n + 1 \in T
    PROVE  Nat \subseteq T
<1> SUFFICES ASSUME Nat \ T # {} PROVE FALSE
  OBVIOUS
<1>1. PICK m \in Nat \ T : \A k \in Nat \ T : m <= k
  BY Least
<1>2. m # 0 /\ m - 1 \in Nat /\ m - 1 \in T
  BY <1>1
<1> QED
  BY <1>1, <1>2

-----------------------------------------------------------------------------
(* The memory of seen keys *)

Entries(t) == [key : Keys, ts : 0..t]

(* What the Map of a process is at time t; len is how many keys it has at most. *)
MapOK(entries, t, len) ==
    /\ entries \in Seq(Entries(t)) /\ Len(entries) <= len
    /\ \A i, j \in DOMAIN entries : entries[i].key = entries[j].key => i = j

(* SeenOK says that of the Map of each process. *)
SeenFits(maps, t) == /\ maps = [p \in Procs |-> maps[p]]
                     /\ \A p \in Procs : MapOK(maps[p], t, DedupeMax)

LEMMA SeenIsMaps == SeenOK <=> SeenFits(seen, now)
BY DEF SeenOK, IsInjective, SeenFits, MapOK, Entries

LEMMA SeenNext ==
    ASSUME SeenFits(seen', now')
    PROVE  SeenOK'
BY DEF SeenOK, IsInjective, SeenFits, MapOK, Entries

EntriesOf(entries) == {entries[i] : i \in DOMAIN entries}

(* What is in the Map once a key is set, before anything is evicted. *)
WithKey(set, k, t) == {e \in set : e.key # k} \cup {[key |-> k, ts |-> t]}

(* Setting a key makes the Map one longer at most, and no other key is new. *)
LEMMA SetKeyOK ==
    ASSUME NEW t \in Nat, NEW len \in Nat, NEW entries, MapOK(entries, t, len), NEW k \in Keys
    PROVE  /\ MapOK(SetKey(entries, k, t), t, len + 1)
           /\ KeysOf(SetKey(entries, k, t)) = KeysOf(entries) \cup {k}
           /\ EntriesOf(SetKey(entries, k, t)) = WithKey(EntriesOf(entries), k, t)
<1> DEFINE longer == SetKey(entries, k, t)
<1>1. /\ Len(entries) \in Nat /\ Len(entries) <= len /\ DOMAIN entries = 1..Len(entries)
      /\ \A i \in 1..Len(entries) : entries[i] \in Entries(t)
      /\ \A i, j \in 1..Len(entries) : entries[i].key = entries[j].key => i = j
  BY LenProperties, ElementOfSeq DEF MapOK
<1>0. [key |-> k, ts |-> t] \in Entries(t)
  BY DEF Entries
<1>2. CASE k \in KeysOf(entries)
  <2> DEFINE new(i) == IF entries[i].key = k THEN [key |-> k, ts |-> t] ELSE entries[i]
  <2>1. longer = [i \in 1..Len(entries) |-> new(i)]
    BY <1>1, <1>2 DEF SetKey
  <2>2. \A i \in 1..Len(entries) : new(i) \in Entries(t) /\ new(i).key = entries[i].key
    BY <1>0, <1>1
  <2> HIDE DEF longer, new
  <2>3. longer \in Seq(Entries(t)) /\ Len(longer) = Len(entries) /\ DOMAIN longer = 1..Len(entries)
    <3>1. longer \in [1..Len(entries) -> Entries(t)]
      BY <2>1, <2>2
    <3> QED
      BY <1>1, <3>1
  <2>4. \A i \in 1..Len(entries) : longer[i].key = entries[i].key
    BY <2>1, <2>2
  <2>5. KeysOf(longer) = KeysOf(entries)
    BY <1>1, <2>3, <2>4 DEF KeysOf
  <2>6. \A i \in 1..Len(entries) :
           longer[i] = IF entries[i].key = k THEN [key |-> k, ts |-> t] ELSE entries[i]
    BY <2>1 DEF new
  <2>7. \E i \in 1..Len(entries) : entries[i].key = k
    BY <1>1, <1>2 DEF KeysOf
  <2>8. EntriesOf(longer) = WithKey(EntriesOf(entries), k, t)
    BY <1>1, <2>3, <2>6, <2>7 DEF EntriesOf, WithKey
  <2> QED
    BY <1>1, <1>2, <2>3, <2>4, <2>5, <2>8 DEF MapOK, longer
<1>3. CASE k \notin KeysOf(entries)
  <2>1. longer = Append(entries, [key |-> k, ts |-> t])
    BY <1>3 DEF SetKey
  <2> HIDE DEF longer
  <2>2. /\ longer \in Seq(Entries(t)) /\ Len(longer) = Len(entries) + 1
        /\ DOMAIN longer = 1..Len(entries) + 1
        /\ \A i \in 1..Len(entries) : longer[i] = entries[i]
        /\ longer[Len(entries) + 1] = [key |-> k, ts |-> t]
    BY <1>0, <1>1, <2>1, AppendProperties DEF MapOK
  <2>3. \A i \in 1..Len(entries) : entries[i].key # k
    BY <1>1, <1>3 DEF KeysOf
  <2>4. KeysOf(longer) = KeysOf(entries) \cup {k}
    BY <1>1, <2>2 DEF KeysOf
  <2>5. \A i, j \in 1..Len(entries) + 1 : longer[i].key = longer[j].key => i = j
    BY <1>1, <2>2, <2>3
  <2>6. EntriesOf(longer) = WithKey(EntriesOf(entries), k, t)
    BY <1>1, <2>2, <2>3 DEF EntriesOf, WithKey
  <2> QED
    BY <1>1, <2>2, <2>4, <2>5, <2>6 DEF MapOK, longer
<1> QED
  BY <1>2, <1>3

(* Evicting makes the Map one shorter, and no key is new. *)
LEMMA EvictOK ==
    ASSUME NEW t \in Nat, NEW len \in Nat, NEW entries, MapOK(entries, t, len + 1),
           entries # << >>
    PROVE  /\ MapOK(Evict(entries, t), t, len) /\ Len(Evict(entries, t)) = Len(entries) - 1
           /\ KeysOf(Evict(entries, t)) \subseteq KeysOf(entries)
           /\ \E gone \in EntriesOf(entries) :
                 /\ EntriesOf(Evict(entries, t)) = EntriesOf(entries) \ {gone}
                 /\ gone.ts + DedupeTtl < t \/ Expired(entries, t) = {}
<1> DEFINE n == Len(entries)
           old == Expired(entries, t)
           at == IF old = {} THEN 1 ELSE Min(old)
           rest == Evict(entries, t)
<1>1. /\ n \in Nat \ {0} /\ n <= len + 1 /\ DOMAIN entries = 1..n
      /\ \A i \in 1..n : entries[i] \in Entries(t)
      /\ \A i, j \in 1..n : entries[i].key = entries[j].key => i = j
  BY EmptySeq, LenProperties, ElementOfSeq DEF MapOK
<1>2. at \in 1..n
  <2>1. old \subseteq 1..n
    BY <1>1 DEF Expired
  <2>2. CASE old # {}
    <3>1. \E m \in old : \A k \in old : m <= k
      BY <2>1, <2>2, Least
    <3> QED
      BY <2>1, <2>2, <3>1 DEF Min
  <2> QED
    BY <1>1, <2>2
<1>3. rest = SubSeq(entries, 1, at - 1) \o SubSeq(entries, at + 1, n)
  BY DEF Evict, RemoveAt
<1>9. entries[at].ts + DedupeTtl < t \/ old = {}
  <2>1. CASE old # {}
    <3>1. old \subseteq Nat /\ \E m \in old : \A k \in old : m <= k
      <4>1. old \in SUBSET Nat
        BY <1>1 DEF Expired
      <4> QED
        BY <2>1, <4>1, Least
    <3>2. at \in old
      BY <2>1, <3>1 DEF Min
    <3> QED
      BY <3>2 DEF Expired
  <2> QED
    BY <2>1
<1> HIDE DEF at, rest
<1>4. /\ rest \in Seq(Entries(t)) /\ Len(rest) = n - 1
      /\ \A i \in 1..n - 1 : rest[i] = entries[IF i < at THEN i ELSE i + 1]
  <2> DEFINE first == SubSeq(entries, 1, at - 1)
             last  == SubSeq(entries, at + 1, n)
  <2>1. /\ first \in Seq(Entries(t)) /\ Len(first) = at - 1
        /\ \A i \in 1..at - 1 : first[i] = entries[i]
    BY <1>1, <1>2, SubSeqProperties
  <2>2. /\ last \in Seq(Entries(t)) /\ Len(last) = n - at
        /\ \A i \in 1..n - at : last[i] = entries[at + i]
    <3>1. at + 1 \in Int /\ n \in Int /\ \A i \in at + 1..n : entries[i] \in Entries(t)
      BY <1>1, <1>2
    <3>2. /\ last \in Seq(Entries(t)) /\ Len(last) = IF at + 1 <= n THEN n - (at + 1) + 1 ELSE 0
          /\ \A i \in 1..n - (at + 1) + 1 : last[i] = entries[at + 1 + i - 1]
      BY <3>1, SubSeqProperties
    <3>3. n \in Nat /\ at \in 1..n
      BY <1>1, <1>2
    <3>4. (IF at + 1 <= n THEN n - (at + 1) + 1 ELSE 0) = n - at
      BY <3>3
    <3>5. ASSUME NEW i \in 1..n - at PROVE last[i] = entries[at + i]
      <4>1. i \in 1..n - (at + 1) + 1 /\ at + 1 + i - 1 = at + i
        BY <3>3, <3>5
      <4> QED
        BY <3>2, <4>1
    <3> QED
      BY <3>2, <3>4, <3>5
  <2>3. rest = first \o last
    BY <1>3
  <2> HIDE DEF first, last
  <2>4. /\ rest \in Seq(Entries(t)) /\ Len(rest) = Len(first) + Len(last)
        /\ \A i \in 1..Len(first) + Len(last) :
              rest[i] = IF i <= Len(first) THEN first[i] ELSE last[i - Len(first)]
    <3>1. first \in Seq(Entries(t)) /\ last \in Seq(Entries(t))
      BY <2>1, <2>2
    <3> DEFINE S == Entries(t)
    <3>2. first \in Seq(S) /\ last \in Seq(S)
      BY <3>1
    <3> HIDE DEF S
    <3>3. /\ first \o last \in Seq(S) /\ Len(first \o last) = Len(first) + Len(last)
          /\ \A i \in 1..Len(first) + Len(last) : (first \o last)[i]
                = IF i <= Len(first) THEN first[i] ELSE last[i - Len(first)]
      BY <3>2, ConcatProperties
    <3> QED
      BY <2>3, <3>3 DEF S
  <2>5. ASSUME NEW i \in 1..n - 1 PROVE rest[i] = entries[IF i < at THEN i ELSE i + 1]
    <3>1. CASE i < at
      <4>1. i \in 1..at - 1 /\ Len(first) = at - 1 /\ Len(last) = n - at
        BY <1>1, <1>2, <2>1, <2>2, <3>1
      <4>2. i \in 1..Len(first) + Len(last) /\ i <= Len(first)
        BY <1>1, <1>2, <4>1
      <4>3. rest[i] = first[i]
        BY <2>4, <4>2
      <4> QED
        BY <2>1, <3>1, <4>1, <4>3
    <3>2. CASE ~(i < at)
      <4>1. i - (at - 1) \in 1..n - at /\ at + (i - (at - 1)) = i + 1
        BY <1>1, <1>2, <3>2
      <4>2. i \in 1..Len(first) + Len(last) /\ ~(i <= Len(first)) /\ Len(first) = at - 1
        BY <1>1, <1>2, <2>1, <2>2, <3>2
      <4>3. rest[i] = last[i - (at - 1)]
        BY <2>4, <4>2
      <4> QED
        BY <2>2, <3>2, <4>1, <4>3
    <3> QED
      BY <3>1, <3>2
  <2> QED
    BY <1>1, <1>2, <2>1, <2>2, <2>4, <2>5
<1>5. DOMAIN rest = 1..n - 1
  BY <1>4, LenProperties
<1>6. \A i, j \in 1..n - 1 : rest[i].key = rest[j].key => i = j
  BY <1>1, <1>2, <1>4
<1>7. KeysOf(rest) \subseteq KeysOf(entries)
  BY <1>1, <1>2, <1>4, <1>5 DEF KeysOf
<1>8. EntriesOf(rest) = EntriesOf(entries) \ {entries[at]}
  <2>1. ASSUME NEW i \in 1..n - 1
        PROVE  rest[i] \in EntriesOf(entries) /\ rest[i] # entries[at]
    <3> DEFINE h == IF i < at THEN i ELSE i + 1
    <3>1. h \in 1..n /\ h # at
      BY <1>1, <1>2
    <3>2. rest[i] = entries[h]
      BY <1>4
    <3> HIDE DEF h
    <3>3. entries[h] # entries[at]
      BY <1>1, <1>2, <3>1
    <3> QED
      BY <1>1, <3>1, <3>2, <3>3 DEF EntriesOf
  <2>2. ASSUME NEW i \in 1..n, entries[i] # entries[at]
        PROVE  \E j \in 1..n - 1 : rest[j] = entries[i]
    <3>1. CASE i < at
      BY <1>1, <1>2, <1>4, <3>1
    <3>2. CASE i > at
      <4>1. i - 1 \in 1..n - 1 /\ ~(i - 1 < at) /\ i - 1 + 1 = i
        BY <1>1, <1>2, <3>2
      <4> QED
        BY <1>4, <4>1
    <3> QED
      BY <1>1, <1>2, <2>2, <3>1, <3>2
  <2> QED
    <3>1. EntriesOf(rest) = {rest[j] : j \in 1..n - 1}
      BY <1>5 DEF EntriesOf
    <3>2. EntriesOf(entries) = {entries[i] : i \in 1..n}
      BY <1>1 DEF EntriesOf
    <3> QED
      BY <2>1, <2>2, <3>1, <3>2
<1> QED
  <2>1. entries[at] \in EntriesOf(entries)
    BY <1>1, <1>2 DEF EntriesOf
  <2> QED
    BY <1>1, <1>4, <1>5, <1>6, <1>7, <1>8, <1>9, <2>1 DEF MapOK, rest

(* dedupeRemember keeps the Map what it is, and makes only its key new. *)
LEMMA RememberOK ==
    ASSUME DedupeMax \in Nat,
           NEW t \in Nat, NEW entries, MapOK(entries, t, DedupeMax), NEW k \in Keys
    PROVE  /\ MapOK(Remember(entries, k, t), t, DedupeMax)
           /\ KeysOf(Remember(entries, k, t))
                \subseteq KeysOf(entries) \cup {k}
<1> DEFINE longer == SetKey(entries, k, t)
<1>2. MapOK(longer, t, DedupeMax + 1) /\ KeysOf(longer) = KeysOf(entries) \cup {k}
  BY SetKeyOK
<1>3. Remember(entries, k, t)
        = IF Len(longer) <= DedupeMax THEN longer ELSE Evict(longer, t)
  BY DEF Remember
<1> HIDE DEF longer
<1>4. CASE Len(longer) <= DedupeMax
  BY <1>2, <1>3, <1>4 DEF MapOK
<1>5. CASE ~(Len(longer) <= DedupeMax)
  <2>1. longer # << >>
    BY <1>5, EmptySeq
  <2> QED
    BY <1>2, <1>3, <1>5, <2>1, EvictOK
<1> QED
  BY <1>4, <1>5

(* Time passes, and what was in the past still is. *)
LEMMA MapLater ==
    ASSUME NEW t \in Nat, NEW entries, NEW len, MapOK(entries, t, len)
    PROVE  MapOK(entries, t + 1, len)
<1>1. Entries(t) \subseteq Entries(t + 1)
  BY DEF Entries
<1> QED
  BY <1>1, SeqMonotonic DEF MapOK

-----------------------------------------------------------------------------
(* What was let in, and what of it is still known                          *)

(* The keys other than that of the i-th admission that were fresh when it  *)
(* was let in or later, among the first n.                                 *)
FreshOthers(a, i, n) ==
    {a[f].key : f \in {g \in 1..n : a[g].key # a[i].key /\ a[g].ts + DedupeTtl >= a[i].ts}}

(* The i-th admission is still known by its entry or a later one of its    *)
(* key, or has expired, or the Map was full of others that were fresh.     *)
Held(set, a, i, t) ==
    \/ \E e \in set : e.key = a[i].key /\ e.ts >= a[i].ts
    \/ a[i].ts + DedupeTtl < t
    \/ Cardinality(FreshOthers(a, i, Len(a))) >= DedupeMax

Spaced(a) ==
    \A j \in DOMAIN a : \A i \in 1 .. j - 1 :
       a[i].key = a[j].key /\ a[j].ts <= a[i].ts + DedupeTtl
          => Cardinality(FreshOthers(a, i, j - 1)) >= DedupeMax

(* One life of a process: its Map and what it let in. *)
Life(m, a, t) ==
    /\ MapOK(m, t, DedupeMax) /\ a \in Seq(Entries(t))
    /\ EntriesOf(m) \subseteq EntriesOf(a)
    /\ \A i \in DOMAIN a : Held(EntriesOf(m), a, i, t)
    /\ Spaced(a)

MemoryInv ==
    /\ now \in Nat
    /\ seen = [p \in Procs |-> seen[p]] /\ admitted = [p \in Procs |-> admitted[p]]
    /\ \A p \in Procs : Life(seen[p], admitted[p], now)

(* Keys are counted: they are finitely many, and more with more admissions. *)
LEMMA OthersFinite ==
    ASSUME NEW a, NEW i, NEW n \in Nat
    PROVE  /\ IsFiniteSet(FreshOthers(a, i, n))
           /\ Cardinality(FreshOthers(a, i, n)) \in Nat
<1> DEFINE F == {g \in 1..n : a[g].key # a[i].key /\ a[g].ts + DedupeTtl >= a[i].ts}
           K == FreshOthers(a, i, n)
           h == [g \in F |-> a[g].key]
<1>1. IsFiniteSet(1..n)
  BY FS_Interval
<1>2. IsFiniteSet(F)
  <2>1. F \in SUBSET (1..n)
    OBVIOUS
  <2> QED
    BY <1>1, <2>1, FS_Subset
<1>3. h \in Surjection(F, K)
  BY DEF FreshOthers, Surjection
<1> HIDE DEF F, K, h
<1>4. IsFiniteSet(K)
  BY <1>2, <1>3, FS_Surjection
<1>5. Cardinality(K) \in Nat
  BY <1>4, FS_CardinalityType
<1> QED
  BY <1>4, <1>5 DEF K

LEMMA OthersGrow ==
    ASSUME NEW a, NEW b, NEW n \in Nat, NEW l \in Nat, n <= l,
           \A f \in 1..n : b[f] = a[f], NEW i \in 1..n
    PROVE  Cardinality(FreshOthers(a, i, n)) <= Cardinality(FreshOthers(b, i, l))
<1>1. FreshOthers(a, i, n) \in SUBSET FreshOthers(b, i, l)
  BY DEF FreshOthers
<1>2. IsFiniteSet(FreshOthers(b, i, l))
  BY OthersFinite
<1> QED
  BY <1>1, <1>2, FS_Subset

(* What dedupeRemember leaves in the Map: the key, and all the others but  *)
(* one that has expired, or one of more fresh ones than there is room for. *)
LEMMA RememberLeaves ==
    ASSUME DedupeMax \in Nat,
           NEW t \in Nat, NEW entries, MapOK(entries, t, DedupeMax), NEW k \in Keys
    PROVE  LET after == Remember(entries, k, t)
               all   == WithKey(EntriesOf(entries), k, t)
           IN  \/ EntriesOf(after) = all
               \/ \E gone \in all :
                     /\ EntriesOf(after) = all \ {gone}
                     /\ \/ gone.ts + DedupeTtl < t
                        \/ /\ Len(after) = DedupeMax
                           /\ \A e \in all : ~(e.ts + DedupeTtl < t)
                           /\ \A e \in all : e.key = gone.key => e = gone
<1> DEFINE longer == SetKey(entries, k, t)
           all    == WithKey(EntriesOf(entries), k, t)
           after  == Remember(entries, k, t)
<1>1. MapOK(longer, t, DedupeMax + 1) /\ EntriesOf(longer) = all
  BY SetKeyOK
<1>2. after = IF Len(longer) <= DedupeMax THEN longer ELSE Evict(longer, t)
  BY DEF Remember
<1> HIDE DEF longer, all, after
<1>3. CASE Len(longer) <= DedupeMax
  BY <1>1, <1>2, <1>3 DEF after, all
<1>4. CASE ~(Len(longer) <= DedupeMax)
  <2>1. longer # << >> /\ longer \in Seq(Entries(t)) /\ Len(longer) \in Nat
        /\ Len(longer) <= DedupeMax + 1
    BY <1>1, <1>4, EmptySeq, LenProperties DEF MapOK
  <2>2. Len(longer) = DedupeMax + 1
    BY <1>4, <2>1
  <2>3. Len(after) = DedupeMax
    BY <1>1, <1>2, <1>4, <2>1, <2>2, EvictOK
  <2>4. PICK gone \in all : /\ EntriesOf(after) = all \ {gone}
                            /\ gone.ts + DedupeTtl < t \/ Expired(longer, t) = {}
    BY <1>1, <1>2, <1>4, <2>1, EvictOK
  <2>5. \A e, f \in all : e.key = f.key => e = f
    BY <1>1 DEF MapOK, EntriesOf
  <2>6. Expired(longer, t) = {} => \A e \in all : ~(e.ts + DedupeTtl < t)
    BY <1>1 DEF Expired, EntriesOf
  <2> QED
    BY <2>3, <2>4, <2>5, <2>6 DEF after, all
<1> QED
  BY <1>3, <1>4

(* A life goes on with a key that was not fresh. *)
LEMMA LifeReceives ==
    ASSUME DedupeTtl \in Nat, DedupeMax \in Nat, NEW t \in Nat, NEW m, NEW a, Life(m, a, t),
           NEW k \in Keys, ~HasFresh(m, k, t)
    PROVE  Life(Remember(m, k, t), Append(a, [key |-> k, ts |-> t]), t)
<1> DEFINE new   == [key |-> k, ts |-> t]
           b     == Append(a, new)
           n     == Len(a)
           after == Remember(m, k, t)
           all   == WithKey(EntriesOf(m), k, t)
<1>1. new \in Entries(t) /\ new.key = k /\ new.ts = t
  BY DEF Entries
<1>2. /\ n \in Nat /\ DOMAIN a = 1..n /\ \A f \in 1..n : a[f] \in Entries(t)
      /\ a \in Seq(Entries(t))
  BY LenProperties, ElementOfSeq DEF Life
<1>3. /\ b \in Seq(Entries(t)) /\ Len(b) = n + 1 /\ DOMAIN b = 1..n + 1
      /\ \A f \in 1..n : b[f] = a[f]
      /\ b[n + 1] = new
  BY <1>1, <1>2, AppendProperties
<1> HIDE DEF b, after, new, all
<1>4. MapOK(after, t, DedupeMax)
  BY RememberOK DEF Life, after
<1>5. /\ all \subseteq EntriesOf(b)
      /\ new \in all
      /\ \A e \in EntriesOf(m) : e.key # k => e \in all
  <2>1. EntriesOf(a) \subseteq EntriesOf(b)
    BY <1>2, <1>3 DEF EntriesOf
  <2>2. new \in EntriesOf(b)
    BY <1>2, <1>3 DEF EntriesOf
  <2> QED
    BY <2>1, <2>2 DEF Life, all, WithKey, new
<1>6. Spaced(b)
  <2> SUFFICES ASSUME NEW j \in 1..n + 1, NEW i \in 1..j - 1,
                      b[i].key = b[j].key, b[j].ts <= b[i].ts + DedupeTtl
               PROVE  Cardinality(FreshOthers(b, i, j - 1)) >= DedupeMax
    BY <1>3 DEF Spaced
  <2>1. i \in 1..n /\ j - 1 \in 0..n /\ b[i] = a[i] /\ \A f \in 1..j - 1 : b[f] = a[f]
    BY <1>2, <1>3
  <2>2. FreshOthers(b, i, j - 1) = FreshOthers(a, i, j - 1)
    BY <2>1 DEF FreshOthers
  <2>3. CASE j \in 1..n
    <3>1. b[j] = a[j]
      BY <1>3, <2>3
    <3> QED
      BY <1>2, <2>1, <2>2, <2>3, <3>1 DEF Life, Spaced
  <2>4. CASE j = n + 1
    <3>1. b[j] = new /\ j - 1 = n
      BY <1>2, <1>3, <2>4
    <3>2. a[i].key = k /\ t <= a[i].ts + DedupeTtl
      BY <1>1, <2>1, <3>1
    <3>3. a[i].ts \in Nat /\ \A e \in EntriesOf(m) : e.ts \in Nat
      <4>1. a[i] \in Entries(t) /\ \A e \in EntriesOf(m) : e \in Entries(t)
        BY <1>2, <2>1, ElementOfSeq DEF Life, MapOK, EntriesOf
      <4> QED
        BY <4>1 DEF Entries
    <3>4. ~ \E e \in EntriesOf(m) : e.key = a[i].key /\ e.ts >= a[i].ts
      <4>1. \A e \in EntriesOf(m) : e.key = k => ~(t <= e.ts + DedupeTtl)
        BY DEF HasFresh, EntriesOf
      <4> QED
        BY <3>2, <3>3, <4>1
    <3>5. ~(a[i].ts + DedupeTtl < t)
      BY <3>2, <3>3
    <3>6. Held(EntriesOf(m), a, i, t)
      BY <1>2, <2>1 DEF Life
    <3> QED
      BY <2>2, <3>1, <3>4, <3>5, <3>6 DEF Held
  <2> QED
    BY <1>2, <2>3, <2>4
<1>7. ASSUME NEW i \in 1..n + 1 PROVE Held(all, b, i, t)
  <2>1. CASE i = n + 1
    <3>1. new.key = b[i].key /\ new.ts >= b[i].ts
      BY <1>1, <1>3, <2>1
    <3> QED
      BY <1>5, <3>1 DEF Held
  <2>2. CASE i \in 1..n
    <3>1. b[i] = a[i] /\ a[i] \in Entries(t) /\ a[i].ts \in 0..t
      BY <1>2, <1>3, <2>2 DEF Entries
    <3>2. Held(EntriesOf(m), a, i, t)
      BY <1>2, <2>2 DEF Life
    <3>3. ASSUME NEW e \in EntriesOf(m), e.key = a[i].key, e.ts >= a[i].ts
          PROVE  Held(all, b, i, t)
      <4>1. CASE e.key # k
        BY <1>5, <3>1, <3>3, <4>1 DEF Held
      <4>2. CASE e.key = k
        <5>1. new.key = b[i].key /\ new.ts >= b[i].ts
          BY <1>1, <3>1, <3>3, <4>2
        <5> QED
          BY <1>5, <5>1 DEF Held
      <4> QED
        BY <4>1, <4>2
    <3>4. Cardinality(FreshOthers(a, i, n)) <= Cardinality(FreshOthers(b, i, n + 1))
      <4>1. n \in Nat /\ n + 1 \in Nat /\ n <= n + 1
        BY <1>2
      <4>2. \A f \in 1..n : b[f] = a[f]
        BY <1>3
      <4> QED
        BY <2>2, <4>1, <4>2, OthersGrow
    <3>5. /\ Cardinality(FreshOthers(a, i, n)) \in Nat
          /\ Cardinality(FreshOthers(b, i, n + 1)) \in Nat
      BY <1>2, OthersFinite
    <3>6. Cardinality(FreshOthers(a, i, n)) >= DedupeMax => Held(all, b, i, t)
      BY <1>3, <3>4, <3>5 DEF Held
    <3> QED
      BY <3>1, <3>2, <3>3, <3>6 DEF Held
  <2> QED
    BY <1>2, <2>1, <2>2
<1>8. ASSUME NEW i \in 1..n + 1 PROVE Held(EntriesOf(after), b, i, t)
  <2>1. CASE EntriesOf(after) = all
    BY <1>7, <2>1
  <2>2. ASSUME NEW gone \in all, EntriesOf(after) = all \ {gone}
        PROVE  (gone.key = b[i].key /\ gone.ts >= b[i].ts) \/ Held(EntriesOf(after), b, i, t)
    BY <1>7, <2>2 DEF Held
  <2>3. b[i].ts \in 0..t /\ b[i] \in Entries(t)
    <3>1. i \in 1..Len(b)
      BY <1>3
    <3>2. b[i] \in Entries(t)
      BY <1>3, <3>1, ElementOfSeq
    <3> QED
      BY <3>2 DEF Entries
  <2>4. \A e \in all : e \in Entries(t) /\ e.ts \in 0..t
    <3>1. \A e \in EntriesOf(b) : e \in Entries(t)
      BY <1>3, ElementOfSeq DEF EntriesOf
    <3> QED
      BY <1>5, <3>1 DEF Entries
  <2>5. ASSUME NEW gone \in all, EntriesOf(after) = all \ {gone},
               gone.key = b[i].key, gone.ts >= b[i].ts, gone.ts + DedupeTtl < t
        PROVE  Held(EntriesOf(after), b, i, t)
    <3>1. b[i].ts + DedupeTtl < t
      BY <2>3, <2>4, <2>5
    <3> QED
      BY <3>1 DEF Held
  <2>6. ASSUME NEW gone \in all, EntriesOf(after) = all \ {gone},
               gone.key = b[i].key, Len(after) = DedupeMax,
               \A e \in all : ~(e.ts + DedupeTtl < t),
               \A e \in all : e.key = gone.key => e = gone
        PROVE  Held(EntriesOf(after), b, i, t)
    <3> DEFINE K == FreshOthers(b, i, n + 1)
               h == [f \in 1..DedupeMax |-> after[f].key]
    <3>1. /\ DOMAIN after = 1..DedupeMax
          /\ \A f, g \in 1..DedupeMax : after[f].key = after[g].key => f = g
      BY <1>4, <2>6, LenProperties DEF MapOK
    <3>2. ASSUME NEW f \in 1..DedupeMax PROVE after[f].key \in K
      <4>1. after[f] \in all /\ after[f] # gone
        BY <2>6, <3>1 DEF EntriesOf
      <4>2. after[f].key # b[i].key
        BY <2>6, <4>1
      <4>3. after[f].ts + DedupeTtl >= b[i].ts
        <5>1. ~(after[f].ts + DedupeTtl < t) /\ after[f].ts \in 0..t
          BY <2>4, <2>6, <4>1
        <5> QED
          BY <2>3, <5>1
      <4>4. PICK g \in 1..n + 1 : b[g] = after[f]
        BY <1>3, <1>5, <4>1 DEF EntriesOf
      <4> QED
        BY <4>2, <4>3, <4>4 DEF FreshOthers
    <3>3. h \in Injection(1..DedupeMax, K)
      BY <3>1, <3>2 DEF Injection, IsInjective
    <3> HIDE DEF h
    <3>4. IsFiniteSet(K) /\ Cardinality(K) \in Nat
      BY <1>2, OthersFinite
    <3>5. Cardinality(1..DedupeMax) <= Cardinality(K)
      BY <3>3, <3>4, FS_Injection
    <3>6. Cardinality(1..DedupeMax) = DedupeMax
      BY FS_Interval
    <3> QED
      BY <1>3, <3>4, <3>5, <3>6 DEF Held
  <2> QED
    <3>1. \/ EntriesOf(after) = all
          \/ \E gone \in all :
                /\ EntriesOf(after) = all \ {gone}
                /\ \/ gone.ts + DedupeTtl < t
                   \/ /\ Len(after) = DedupeMax
                      /\ \A e \in all : ~(e.ts + DedupeTtl < t)
                      /\ \A e \in all : e.key = gone.key => e = gone
      BY RememberLeaves DEF Life, after, all
    <3> QED
      BY <2>1, <2>2, <2>5, <2>6, <3>1
<1>9. EntriesOf(after) \subseteq EntriesOf(b)
  <2>1. EntriesOf(after) \subseteq all
    BY RememberLeaves DEF Life, after, all
  <2> QED
    BY <1>5, <2>1
<1> QED
  BY <1>3, <1>4, <1>6, <1>8, <1>9 DEF Life, b, after, new

(* Time passes: nothing is forgotten, and more has expired. *)
LEMMA LifeLater ==
    ASSUME DedupeTtl \in Nat, DedupeMax \in Nat, NEW t \in Nat, NEW m, NEW a, Life(m, a, t)
    PROVE  Life(m, a, t + 1)
<1>1. MapOK(m, t + 1, DedupeMax)
  BY MapLater DEF Life
<1>2. a \in Seq(Entries(t + 1))
  <2>1. Entries(t) \subseteq Entries(t + 1)
    BY DEF Entries
  <2> QED
    BY <2>1, SeqMonotonic DEF Life
<1>3. ASSUME NEW i \in DOMAIN a PROVE Held(EntriesOf(m), a, i, t + 1)
  <2>1. a[i].ts \in 0..t
    <3>1. a \in Seq(Entries(t)) /\ i \in 1..Len(a)
      BY <1>3, LenProperties DEF Life
    <3>2. a[i] \in Entries(t)
      BY <3>1, ElementOfSeq
    <3> QED
      BY <3>2 DEF Entries
  <2>2. a[i].ts + DedupeTtl < t => a[i].ts + DedupeTtl < t + 1
    BY <2>1
  <2> QED
    BY <1>3, <2>2 DEF Life, Held
<1> QED
  BY <1>1, <1>2, <1>3 DEF Life

(* A process starts with nothing. *)
LEMMA LifeBegins ==
    ASSUME DedupeMax \in Nat, NEW t \in Nat
    PROVE  Life(<< >>, << >>, t)
BY EmptySeq DEF Life, MapOK, EntriesOf, Held, Spaced

LEMMA MemoryInit ==
    ASSUME DedupeMax \in Nat, Init
    PROVE  MemoryInv
<1>1. now = 0 /\ seen = [p \in Procs |-> << >>] /\ admitted = [p \in Procs |-> << >>]
  BY DEF Init, Nothing
<1>2. Life(<< >>, << >>, 0)
  BY LifeBegins
<1> QED
  BY <1>1, <1>2 DEF MemoryInv

LEMMA MemoryStep ==
    ASSUME DedupeTtl \in Nat, DedupeMax \in Nat, MemoryInv, [Next]_memoryVars
    PROVE  MemoryInv'
<1> USE DEF MemoryInv
<1>1. ASSUME NEW p \in Procs, NEW k \in Keys, Receive(p, k) PROVE MemoryInv'
  <2> DEFINE m == Remember(seen[p], k, now)
             a == Append(admitted[p], [key |-> k, ts |-> now])
  <2>1. seen' = [seen EXCEPT ![p] = m] /\ admitted' = [admitted EXCEPT ![p] = a] /\ now' = now
    BY <1>1 DEF Receive, LetIn
  <2>2. Life(m, a, now)
    BY <1>1, LifeReceives DEF Receive, Fresh
  <2> HIDE DEF m, a
  <2>3. \A q \in Procs : Life(seen'[q], admitted'[q], now)
    BY <2>1, <2>2
  <2> QED
    BY <2>1, <2>3
<1>2. ASSUME NEW p \in Procs, Restart(p) PROVE MemoryInv'
  <2>1. /\ seen' = [seen EXCEPT ![p] = << >>] /\ admitted' = [admitted EXCEPT ![p] = << >>]
        /\ now' = now
    BY <1>2 DEF Restart, Forget
  <2>2. Life(<< >>, << >>, now)
    BY LifeBegins
  <2> QED
    BY <2>1, <2>2
<1>3. CASE Tick
  <2>1. seen' = seen /\ admitted' = admitted /\ now' = now + 1
    BY <1>3 DEF Tick
  <2>2. \A q \in Procs : Life(seen[q], admitted[q], now + 1)
    BY LifeLater
  <2> QED
    BY <2>1, <2>2
<1>4. CASE UNCHANGED memoryVars
  BY <1>4 DEF memoryVars
<1> QED
  BY <1>1, <1>2, <1>3, <1>4 DEF Next

LEMMA MemoryTells == MemoryInv => SeenOK /\ AdmittedOnce
<1> SUFFICES ASSUME MemoryInv PROVE SeenOK /\ AdmittedOnce
  OBVIOUS
<1>1. SeenFits(seen, now)
  BY DEF MemoryInv, Life, SeenFits
<1>2. \A p \in Procs : Spaced(admitted[p])
  BY DEF MemoryInv, Life
<1> QED
  BY <1>1, <1>2, SeenIsMaps DEF AdmittedOnce, Spaced, FreshOthers

(* Within one life of a process and DEDUPE_TTL_MS a key is let in twice    *)
(* only if DEDUPE_MAX other keys were fresh in between.                    *)
THEOREM AdmittedOnceHolds ==
    ASSUME DedupeTtl \in Nat, DedupeMax \in Nat
    PROVE  Spec => [](SeenOK /\ AdmittedOnce)
<1>1. Init => MemoryInv
  BY MemoryInit
<1>2. MemoryInv /\ [Next]_memoryVars => MemoryInv'
  BY MemoryStep
<1> QED
  BY <1>1, <1>2, MemoryTells, PTL DEF Spec
=============================================================================
