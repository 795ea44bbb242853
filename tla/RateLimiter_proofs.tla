------------------------- MODULE RateLimiter_proofs -------------------------
(***************************************************************************)
(* What the rate limiter keeps, for any keys, any window and any max.      *)
(* MessageIntake_proofs uses the lemmas for the limiter of each process,   *)
(* ServerProcess_proofs the invariant for the run's composition.           *)
(*                                                                         *)
(* LimiterExact is not inductive: it needs to know that an array is the    *)
(* end of all that was let through, and that what went before it has left  *)
(* the window.                                                             *)
(***************************************************************************)
EXTENDS RateLimiter, SequenceTheorems, FiniteSetTheorems, TLAPS

-----------------------------------------------------------------------------
(* Induction, by the least number that is not reached *)

(* A set of natural numbers that is not empty has a least element. *)
LEMMA Least ==
    ASSUME NEW T \in SUBSET Nat, T # {}
    PROVE  \E m \in T : \A k \in T : m <= k
<1>1. PICK m \in T : \A k \in T : <<k, m>> \notin OpToRel(<, Nat)
  BY WFMin, NatLessThanWellFounded, Zenon
<1>2. \A k \in T : ~(k < m)
  BY <1>1, Zenon DEF OpToRel
<1> QED
  BY <1>2

(* Every natural number is in a set that has 0 and with n also n + 1. *)
LEMMA Reaches ==
    ASSUME NEW T, 0 \in T, \A n \in Nat : n \in T => n + 1 \in T
    PROVE  Nat \subseteq T
<1> SUFFICES ASSUME Nat \ T # {} PROVE FALSE
  OBVIOUS
<1>1. PICK m \in Nat \ T : \A k \in Nat \ T : m <= k
  BY Least
<1>2. m # 0 /\ m - 1 \in Nat /\ m - 1 \in T
  BY <1>1
<1> QED
  BY <1>1, <1>2

-----------------------------------------------------------------------------
(* The arrays of the limiter *)

(* What filter keeps of the first n times. *)
Kept(f, times, at, n) ==
    IF n = 0 THEN << >>
    ELSE IF at - times[n] < WindowMs THEN Append(f[n - 1], times[n]) ELSE f[n - 1]

Keeps(f, times, at, len) == f = [n \in 0..len |-> Kept(f, times, at, n)]

(* There is a function that says so for every n up to the length. *)
LEMMA KeptExists ==
    ASSUME NEW times, NEW at, NEW len \in Nat
    PROVE  \E f : Keeps(f, times, at, len)
<1> DEFINE T == {m \in Nat : \E f : f = [n \in 0..m |-> Kept(f, times, at, n)]}
<1>1. 0 \in T
  <2>1. [n \in 0..0 |-> << >>] = [n \in 0..0 |-> Kept([i \in 0..0 |-> << >>], times, at, n)]
    BY DEF Kept
  <2> QED
    BY <2>1
<1>2. ASSUME NEW m \in Nat, m \in T PROVE m + 1 \in T
  <2>1. PICK f : f = [n \in 0..m |-> Kept(f, times, at, n)]
    BY <1>2
  <2> DEFINE g == [n \in 0..m + 1 |-> IF n \in 0..m THEN f[n] ELSE Kept(f, times, at, n)]
  <2>2. ASSUME NEW n \in 0..m + 1 PROVE g[n] = Kept(g, times, at, n)
    <3>1. g[n] = Kept(f, times, at, n)
      BY <2>1
    <3>2. n # 0 => n - 1 \in 0..m /\ n - 1 \in 0..m + 1 /\ g[n - 1] = f[n - 1]
      OBVIOUS
    <3> QED
      BY <3>1, <3>2 DEF Kept
  <2>3. g = [n \in 0..m + 1 |-> g[n]]
    OBVIOUS
  <2> HIDE DEF g
  <2>4. g = [n \in 0..m + 1 |-> Kept(g, times, at, n)]
    BY <2>2, <2>3, Zenon
  <2> QED
    BY <2>4
<1> HIDE DEF T
<1>3. len \in T
  BY <1>1, <1>2, Reaches
<1> QED
  BY <1>3 DEF T, Keeps

(* checkRateLimit keeps what that function says. *)
LEMMA FreshKeeps ==
    ASSUME NEW times, Len(times) \in Nat, NEW at
    PROVE  \E f : /\ Keeps(f, times, at, Len(times))
                 /\ Fresh(times, at) = f[Len(times)]
<1>1. PICK f : Keeps(f, times, at, Len(times))
  BY KeptExists
<1>2. \E g : g = [n \in 0..Len(times) |->
                   IF n = 0 THEN << >>
                   ELSE IF at - times[n] < WindowMs THEN Append(g[n - 1], times[n])
                   ELSE g[n - 1]]
  BY <1>1 DEF Keeps, Kept
<1> QED
  BY <1>2 DEF Fresh, Kept, Keeps

(* The calls that checkRateLimit keeps are calls it had. *)
LEMMA FreshType ==
    ASSUME NEW S \in SUBSET Int, NEW times \in Seq(S), NEW at \in Int
    PROVE  Fresh(times, at) \in Seq(S)
<1>1. Len(times) \in Nat /\ \A n \in 1..Len(times) : times[n] \in S
  BY LenProperties, ElementOfSeq
<1>2. PICK f : /\ Keeps(f, times, at, Len(times))
               /\ Fresh(times, at) = f[Len(times)]
  BY <1>1, FreshKeeps
<1> DEFINE T == {n \in Nat : n <= Len(times) => f[n] \in Seq(S)}
<1>3. 0 \in T
  BY <1>1, <1>2 DEF Kept, Keeps
<1>4. ASSUME NEW n \in Nat, n \in T PROVE n + 1 \in T
  <2> SUFFICES ASSUME n + 1 <= Len(times) PROVE f[n + 1] \in Seq(S)
    OBVIOUS
  <2>1. f[n] \in Seq(S) /\ times[n + 1] \in S
    BY <1>1, <1>4
  <2>2. n + 1 \in 0..Len(times)
    BY <1>1
  <2>3. f[n + 1] = Kept(f, times, at, n + 1)
    BY <1>2, <2>2, Zenon DEF Keeps
  <2> QED
    BY <2>1, <2>3 DEF Kept
<1> HIDE DEF T
<1>5. Len(times) \in T
  BY <1>1, <1>3, <1>4, Reaches
<1> QED
  BY <1>1, <1>2, <1>5 DEF T

(* r is s without its first n elements. *)
Ends(r, s, n) == Len(r) = Len(s) - n /\ \A i \in 1..Len(r) : r[i] = s[n + i]

(* Of times in order, those in the window are the last ones. *)
LEMMA Cut ==
    ASSUME NEW times \in Seq(Nat), InOrder(times), NEW at \in Nat, WindowMs \in Nat
    PROVE  \E n \in 0..Len(times) :
              /\ \A i \in 1..n : ~(at - times[i] < WindowMs)
              /\ \A i \in n + 1..Len(times) : at - times[i] < WindowMs
<1> DEFINE T == {n \in 0..Len(times) : \A i \in n + 1..Len(times) : at - times[i] < WindowMs}
<1>1. /\ Len(times) \in Nat /\ DOMAIN times = 1..Len(times)
      /\ \A i \in 1..Len(times) : times[i] \in Nat
  BY LenProperties, ElementOfSeq
<1>2. Len(times) \in T /\ T \in SUBSET Nat
  BY <1>1
<1>3. PICK n \in T : \A m \in T : n <= m
  <2> HIDE DEF T
  <2> QED
    BY <1>2, Least
<1>4. ASSUME NEW i \in 1..n, at - times[i] < WindowMs PROVE FALSE
  <2>0. n \in 0..Len(times) /\ i \in 1..Len(times) /\ i \in Nat /\ n \in Nat /\ i <= n
    BY <1>1, <1>3
  <2>1. ASSUME NEW j \in i..Len(times) PROVE at - times[j] < WindowMs
    <3>1. j \in 1..Len(times)
      BY <1>1, <2>0
    <3>2. times[i] \in Nat /\ times[j] \in Nat
      BY <1>1, <2>0, <3>1
    <3>3. times[i] <= times[j]
      <4>1. CASE i = j
        BY <3>2, <4>1
      <4>2. CASE i < j
        BY <1>1, <2>0, <3>1, <4>2 DEF InOrder
      <4> QED
        BY <2>0, <4>1, <4>2
    <3> QED
      BY <1>4, <3>2, <3>3
  <2>2. i - 1 \in 0..Len(times) /\ i - 1 + 1 = i
    BY <1>1, <2>0
  <2>3. i - 1 \in T
    BY <2>1, <2>2
  <2>4. n <= i - 1
    BY <1>3, <2>3
  <2> QED
    BY <2>0, <2>4
<1> QED
  BY <1>3, <1>4

(* filter keeps the last ones. *)
LEMMA FreshEnds ==
    ASSUME NEW times \in Seq(Nat), NEW at \in Nat, WindowMs \in Nat, NEW n \in 0..Len(times),
           \A i \in 1..n : ~(at - times[i] < WindowMs),
           \A i \in n + 1..Len(times) : at - times[i] < WindowMs
    PROVE  Ends(Fresh(times, at), times, n)
<1>1. Len(times) \in Nat /\ n \in Nat /\ \A i \in 1..Len(times) : times[i] \in Nat
  BY LenProperties, ElementOfSeq
<1>2. PICK f : /\ Keeps(f, times, at, Len(times))
               /\ Fresh(times, at) = f[Len(times)]
  BY <1>1, FreshKeeps
<1> DEFINE Right(m) == IF m <= n THEN f[m] = << >>
                       ELSE /\ f[m] \in Seq(Nat) /\ Len(f[m]) = m - n
                            /\ \A i \in 1..m - n : f[m][i] = times[n + i]
           T == {m \in Nat : m <= Len(times) => Right(m)}
<1>3. 0 \in T
  BY <1>1, <1>2 DEF Kept, Keeps
<1>4. ASSUME NEW m \in Nat, m \in T PROVE m + 1 \in T
  <2> SUFFICES ASSUME m + 1 <= Len(times) PROVE Right(m + 1)
    OBVIOUS
  <2>1. Right(m) /\ m + 1 \in 0..Len(times) /\ m + 1 \in 1..Len(times) /\ m + 1 # 0
    BY <1>1, <1>4
  <2>2. f[m + 1] = IF at - times[m + 1] < WindowMs THEN Append(f[m], times[m + 1]) ELSE f[m]
    <3>1. f[m + 1] = Kept(f, times, at, m + 1)
      BY <1>2, <2>1, Zenon DEF Keeps
    <3>2. m + 1 - 1 = m
      OBVIOUS
    <3> QED
      BY <2>1, <3>1, <3>2 DEF Kept
  <2>3. CASE m + 1 <= n
    BY <1>1, <2>1, <2>2, <2>3
  <2>4. CASE ~(m + 1 <= n)
    <3>1. f[m] \in Seq(Nat) /\ Len(f[m]) = m - n /\ \A i \in 1..m - n : f[m][i] = times[n + i]
      <4>1. CASE m <= n
        <5>1. f[m] = << >> /\ m - n = 0
          BY <1>1, <2>1, <2>4, <4>1
        <5> QED
          BY <5>1, EmptySeq
      <4> QED
        BY <2>1, <4>1
    <3>2. f[m + 1] = Append(f[m], times[m + 1])
      BY <1>1, <2>1, <2>2, <2>4
    <3>3. /\ f[m + 1] \in Seq(Nat) /\ Len(f[m + 1]) = m - n + 1
          /\ \A i \in 1..m - n : f[m + 1][i] = f[m][i]
          /\ f[m + 1][m - n + 1] = times[m + 1]
      <4>1. times[m + 1] \in Nat
        BY <1>1, <2>1
      <4>2. /\ Append(f[m], times[m + 1]) \in Seq(Nat)
            /\ Len(Append(f[m], times[m + 1])) = Len(f[m]) + 1
            /\ \A i \in 1..Len(f[m]) : Append(f[m], times[m + 1])[i] = f[m][i]
            /\ Append(f[m], times[m + 1])[Len(f[m]) + 1] = times[m + 1]
        <5> DEFINE x == f[m]
                   y == times[m + 1]
        <5>1. x \in Seq(Nat) /\ y \in Nat
          BY <3>1, <4>1
        <5> HIDE DEF x, y
        <5>2. /\ Append(x, y) \in Seq(Nat) /\ Len(Append(x, y)) = Len(x) + 1
              /\ \A i \in 1..Len(x) : Append(x, y)[i] = x[i]
              /\ Append(x, y)[Len(x) + 1] = y
          BY <5>1, AppendProperties
        <5> QED
          BY <5>2 DEF x, y
      <4> QED
        BY <3>1, <3>2, <4>2
    <3>4. m - n + 1 = m + 1 - n /\ n + (m - n + 1) = m + 1 /\ m - n \in Nat
      BY <1>1, <2>4
    <3>5. ASSUME NEW i \in 1..m + 1 - n PROVE f[m + 1][i] = times[n + i]
      <4>1. CASE i \in 1..m - n
        BY <3>1, <3>3, <4>1
      <4>2. CASE i = m - n + 1
        BY <3>3, <3>4, <4>2
      <4> QED
        BY <3>4, <4>1, <4>2
    <3> QED
      BY <2>4, <3>3, <3>4, <3>5
  <2> QED
    BY <2>3, <2>4
<1> HIDE DEF T, Right
<1>5. Len(times) \in T
  BY <1>1, <1>3, <1>4, Reaches
<1>6. Right(Len(times))
  BY <1>1, <1>5 DEF T
<1>7. CASE Len(times) <= n
  BY <1>1, <1>2, <1>6, <1>7, EmptySeq DEF Right, Ends
<1>8. CASE ~(Len(times) <= n)
  BY <1>1, <1>2, <1>6, <1>8 DEF Right, Ends
<1> QED
  BY <1>7, <1>8

-----------------------------------------------------------------------------
(* The array of a caller, beside all that it was let through               *)

(* r is the end of g, in order, and what went before has left the window.  *)
Tells(r, g, t) ==
    /\ g \in Seq(0..t) /\ InOrder(g)
    /\ r \in Seq(0..t) /\ Len(r) <= MaxCalls
    /\ \E n \in 0..Len(g) : Ends(r, g, n) /\ \A i \in 1..n : ~(t - g[i] < WindowMs)

LimiterInv ==
    /\ now \in 0..MaxTime
    /\ rate = [p \in Procs |-> [k \in Callers |-> rate[p][k]]]
    /\ granted = [p \in Procs |-> [k \in Callers |-> granted[p][k]]]
    /\ \A p \in Procs, k \in Callers : Tells(rate[p][k], granted[p][k], now)

Bounds == WindowMs \in Nat /\ MaxCalls \in Nat \ {0} /\ MaxTime \in Nat

(* What is kept at a call is what of everything is in the window. *)
LEMMA FreshTells ==
    ASSUME Bounds, NEW t \in Nat, NEW r, NEW g, Tells(r, g, t)
    PROVE  /\ Fresh(r, t) \in Seq(0..t) /\ Len(Fresh(r, t)) <= MaxCalls
           /\ \E n \in 0..Len(g) :
                 /\ Ends(Fresh(r, t), g, n)
                 /\ \A i \in 1..n : ~(t - g[i] < WindowMs)
                 /\ \A i \in n + 1..Len(g) : t - g[i] < WindowMs
<1> DEFINE w == Fresh(r, t)
<1>1. PICK n \in 0..Len(g) : Ends(r, g, n) /\ \A i \in 1..n : ~(t - g[i] < WindowMs)
  BY DEF Tells
<1>2. /\ Len(g) \in Nat /\ DOMAIN g = 1..Len(g) /\ Len(r) \in Nat /\ DOMAIN r = 1..Len(r)
      /\ Len(r) = Len(g) - n /\ n \in Nat /\ n <= Len(g)
      /\ \A i \in 1..Len(r) : r[i] = g[n + i]
      /\ Len(r) <= MaxCalls
  <2>1. Len(g) \in Nat /\ DOMAIN g = 1..Len(g) /\ Len(r) \in Nat /\ DOMAIN r = 1..Len(r)
    BY LenProperties DEF Tells
  <2>2. n \in Nat /\ n <= Len(g) /\ Len(r) <= MaxCalls
    BY <2>1 DEF Tells
  <2>3. Len(r) = Len(g) - n /\ \A i \in 1..Len(r) : r[i] = g[n + i]
    BY <1>1 DEF Ends
  <2> QED
    BY <2>1, <2>2, <2>3
<1>3. r \in Seq(Nat)
  BY SeqMonotonic DEF Tells
<1>4. InOrder(r)
  <2> SUFFICES ASSUME NEW i \in 1..Len(r), NEW j \in 1..Len(r), i < j PROVE r[i] <= r[j]
    BY <1>2 DEF InOrder
  <2>1. n + i \in 1..Len(g) /\ n + j \in 1..Len(g) /\ n + i < n + j
    BY <1>2
  <2> QED
    BY <1>2, <2>1 DEF Tells, InOrder
<1>5. PICK c \in 0..Len(r) : /\ \A i \in 1..c : ~(t - r[i] < WindowMs)
                             /\ \A i \in c + 1..Len(r) : t - r[i] < WindowMs
  BY <1>3, <1>4, Cut DEF Bounds
<1>6. Ends(w, r, c)
  BY <1>3, <1>5, FreshEnds DEF Bounds
<1>7. w \in Seq(0..t)
  <2>1. 0..t \in SUBSET Int
    OBVIOUS
  <2> QED
    BY <2>1, FreshType DEF Tells
<1> HIDE DEF w
<1>8. n + c \in 0..Len(g) /\ Ends(w, g, n + c)
  <2>1. Len(w) = Len(r) - c /\ c \in Nat /\ c <= Len(r) /\ \A i \in 1..Len(w) : w[i] = r[c + i]
    BY <1>2, <1>5, <1>6 DEF Ends
  <2>2. ASSUME NEW i \in 1..Len(w) PROVE w[i] = g[n + c + i]
    <3>1. c + i \in 1..Len(r) /\ n + (c + i) = n + c + i
      BY <1>2, <2>1
    <3> QED
      BY <1>2, <2>1, <3>1
  <2>3. Len(w) = Len(g) - (n + c) /\ n + c \in 0..Len(g)
    BY <1>2, <2>1
  <2> QED
    BY <2>2, <2>3 DEF Ends
<1>9. ASSUME NEW i \in 1..n + c PROVE ~(t - g[i] < WindowMs)
  <2>1. CASE i \in 1..n
    BY <1>1, <2>1
  <2>2. CASE ~(i \in 1..n)
    <3>1. i - n \in 1..c /\ i - n \in 1..Len(r) /\ n + (i - n) = i
      BY <1>2, <1>5, <2>2
    <3>2. r[i - n] = g[i]
      BY <1>2, <3>1
    <3> QED
      BY <1>5, <3>1, <3>2
  <2> QED
    BY <2>1, <2>2
<1>10. ASSUME NEW i \in n + c + 1..Len(g) PROVE t - g[i] < WindowMs
  <2>1. i - n \in c + 1..Len(r) /\ i - n \in 1..Len(r) /\ n + (i - n) = i
    BY <1>2, <1>5
  <2>2. r[i - n] = g[i]
    BY <1>2, <2>1
  <2> QED
    BY <1>5, <2>1, <2>2
<1>11. Len(w) <= MaxCalls
  BY <1>2, <1>5, <1>6 DEF Ends, Bounds
<1> QED
  BY <1>7, <1>8, <1>9, <1>10, <1>11 DEF w

(* A call counts what is in the window, and is written down if it is let   *)
(* through.                                                                *)
LEMMA CountTells ==
    ASSUME Bounds, NEW t \in Nat, NEW r, NEW g, Tells(r, g, t)
    PROVE  IF Len(Fresh(r, t)) < MaxCalls THEN Tells(Append(Fresh(r, t), t), Append(g, t), t)
                                          ELSE Tells(Fresh(r, t), g, t)
<1> DEFINE w == Fresh(r, t)
<1>1. w \in Seq(0..t) /\ Len(w) <= MaxCalls
  BY FreshTells
<1>2. PICK n \in 0..Len(g) : Ends(w, g, n) /\ \A i \in 1..n : ~(t - g[i] < WindowMs)
  BY FreshTells
<1> HIDE DEF w
<1>3. /\ Len(g) \in Nat /\ DOMAIN g = 1..Len(g) /\ Len(w) \in Nat
      /\ \A i \in 1..Len(g) : g[i] \in 0..t
      /\ g \in Seq(0..t) /\ InOrder(g)
  BY <1>1, LenProperties, ElementOfSeq DEF Tells
<1>4. CASE Len(w) < MaxCalls
  <2> DEFINE r1 == Append(w, t)
             g1 == Append(g, t)
  <2>1. /\ r1 \in Seq(0..t) /\ Len(r1) = Len(w) + 1 /\ r1[Len(w) + 1] = t
        /\ \A i \in 1..Len(w) : r1[i] = w[i]
    <3>1. t \in 0..t
      OBVIOUS
    <3> QED
      BY <1>1, <3>1, AppendProperties
  <2>2. /\ g1 \in Seq(0..t) /\ Len(g1) = Len(g) + 1 /\ g1[Len(g) + 1] = t
        /\ \A i \in 1..Len(g) : g1[i] = g[i]
    <3>1. t \in 0..t
      OBVIOUS
    <3> QED
      BY <1>3, <3>1, AppendProperties
  <2>3. DOMAIN g1 = 1..Len(g) + 1
    BY <2>2, LenProperties
  <2> HIDE DEF r1, g1
  <2>4. InOrder(g1)
    <3> SUFFICES ASSUME NEW i \in 1..Len(g) + 1, NEW j \in 1..Len(g) + 1, i < j
                 PROVE  g1[i] <= g1[j]
      BY <2>3 DEF InOrder
    <3>1. i \in 1..Len(g) /\ g1[i] = g[i] /\ g[i] \in 0..t
      BY <1>3, <2>2
    <3>2. CASE j \in 1..Len(g)
      BY <1>3, <2>2, <3>1, <3>2 DEF InOrder
    <3>3. CASE j = Len(g) + 1
      BY <2>2, <3>1, <3>3
    <3> QED
      BY <1>3, <3>2, <3>3
  <2>5. n \in 0..Len(g1) /\ Ends(r1, g1, n)
    <3>1. /\ Len(w) = Len(g) - n /\ \A i \in 1..Len(w) : w[i] = g[n + i]
          /\ n \in Nat /\ n <= Len(g)
      BY <1>2, <1>3 DEF Ends
    <3>2. ASSUME NEW i \in 1..Len(r1) PROVE r1[i] = g1[n + i]
      <4>1. CASE i \in 1..Len(w)
        <5>1. n + i \in 1..Len(g)
          BY <1>3, <3>1, <4>1
        <5> QED
          BY <2>1, <2>2, <3>1, <4>1, <5>1
      <4>2. CASE i = Len(w) + 1
        <5>1. n + i = Len(g) + 1
          BY <1>3, <3>1, <4>2
        <5> QED
          BY <2>1, <2>2, <4>2, <5>1
      <4> QED
        BY <1>3, <2>1, <4>1, <4>2
    <3>3. Len(r1) = Len(g1) - n /\ n \in 0..Len(g1)
      BY <1>3, <2>1, <2>2, <3>1
    <3> QED
      BY <3>2, <3>3 DEF Ends
  <2>6. \A i \in 1..n : ~(t - g1[i] < WindowMs)
    <3>1. \A i \in 1..n : g1[i] = g[i]
      BY <1>2, <1>3, <2>2
    <3> QED
      BY <1>2, <3>1
  <2>7. Len(r1) <= MaxCalls
    BY <1>3, <1>4, <2>1 DEF Bounds
  <2>8. Tells(r1, g1, t)
    BY <2>1, <2>2, <2>4, <2>5, <2>6, <2>7 DEF Tells
  <2> QED
    BY <1>4, <2>8 DEF r1, g1, w
<1>5. CASE ~(Len(w) < MaxCalls)
  <2>1. Tells(w, g, t)
    BY <1>1, <1>2, <1>3 DEF Tells
  <2> QED
    BY <1>5, <2>1 DEF w
<1> QED
  BY <1>4, <1>5

(* Time passes: what has left the window stays out of it. *)
LEMMA TellsLater ==
    ASSUME Bounds, NEW t \in Nat, NEW r, NEW g, Tells(r, g, t)
    PROVE  Tells(r, g, t + 1)
<1>1. g \in Seq(0..t + 1) /\ r \in Seq(0..t + 1)
  <2>1. 0..t \subseteq 0..t + 1
    OBVIOUS
  <2> QED
    BY <2>1, SeqMonotonic DEF Tells
<1>2. PICK n \in 0..Len(g) : Ends(r, g, n) /\ \A i \in 1..n : ~(t - g[i] < WindowMs)
  BY DEF Tells
<1>3. ASSUME NEW i \in 1..n PROVE ~((t + 1) - g[i] < WindowMs)
  <2>1. i \in 1..Len(g) /\ g[i] \in 0..t
    <3>1. g \in Seq(0..t) /\ Len(g) \in Nat
      BY LenProperties DEF Tells
    <3>2. i \in 1..Len(g)
      BY <1>2, <3>1
    <3> QED
      BY <3>1, <3>2, ElementOfSeq
  <2> QED
    BY <1>2, <2>1 DEF Bounds
<1>4. \E m \in 0..Len(g) : Ends(r, g, m) /\ \A i \in 1..m : ~((t + 1) - g[i] < WindowMs)
  BY <1>2, <1>3, Zenon
<1>5. InOrder(g) /\ Len(r) <= MaxCalls
  BY DEF Tells
<1> QED
  BY <1>1, <1>4, <1>5, Zenon DEF Tells

(* A process starts with nothing. *)
LEMMA TellsAtFirst ==
    ASSUME Bounds, NEW t \in Nat
    PROVE  Tells(<< >>, << >>, t)
<1>1. << >> \in Seq(0..t) /\ Len(<< >>) = 0 /\ DOMAIN << >> = {}
  BY EmptySeq
<1>2. Ends(<< >>, << >>, 0)
  BY <1>1 DEF Ends
<1> QED
  BY <1>1, <1>2 DEF Tells, InOrder, Bounds

LEMMA LimiterInit ==
    ASSUME Bounds, Init
    PROVE  LimiterInv
BY TellsAtFirst DEF Init, NoCalls, LimiterInv, Bounds

LEMMA LimiterStep ==
    ASSUME Bounds, LimiterInv, [Next]_limiterVars
    PROVE  LimiterInv'
<1> USE DEF LimiterInv
<1>0. now \in Nat
  OBVIOUS
<1>1. ASSUME NEW p \in Procs, NEW k \in Callers, CheckRateLimit(p, k) PROVE LimiterInv'
  <2> DEFINE w == Fresh(rate[p][k], now)
  <2>1. PICK r, g : /\ rate' = [rate EXCEPT ![p][k] = r] /\ granted' = [granted EXCEPT ![p][k] = g]
                    /\ Tells(r, g, now)
    <3>1. Tells(rate[p][k], granted[p][k], now)
      OBVIOUS
    <3>2. CASE Len(w) < MaxCalls
      <4>1. /\ rate' = [rate EXCEPT ![p][k] = Append(w, now)]
            /\ granted' = [granted EXCEPT ![p][k] = Append(granted[p][k], now)]
        BY <1>1, <3>2 DEF CheckRateLimit, Count, Allowed
      <4>2. Tells(Append(w, now), Append(granted[p][k], now), now)
        BY <1>0, <3>1, <3>2, CountTells
      <4> HIDE DEF w
      <4> QED
        BY <4>1, <4>2
    <3>3. CASE ~(Len(w) < MaxCalls)
      <4>1. /\ rate' = [rate EXCEPT ![p][k] = w]
            /\ granted' = [granted EXCEPT ![p][k] = granted[p][k]]
        BY <1>1, <3>3 DEF CheckRateLimit, Count, Allowed
      <4>2. Tells(w, granted[p][k], now)
        BY <1>0, <3>1, <3>3, CountTells
      <4> HIDE DEF w
      <4> QED
        BY <4>1, <4>2
    <3> QED
      BY <3>2, <3>3
  <2>2. now' = now
    BY <1>1 DEF CheckRateLimit
  <2>3. \A q \in Procs, l \in Callers : Tells(rate'[q][l], granted'[q][l], now)
    BY <2>1
  <2>4. /\ rate' = [q \in Procs |-> [l \in Callers |-> rate'[q][l]]]
        /\ granted' = [q \in Procs |-> [l \in Callers |-> granted'[q][l]]]
    BY <2>1
  <2> QED
    BY <2>2, <2>3, <2>4
<1>2. ASSUME NEW p \in Procs, Restart(p) PROVE LimiterInv'
  <2>1. /\ rate' = [rate EXCEPT ![p] = NoCalls] /\ granted' = [granted EXCEPT ![p] = NoCalls]
        /\ now' = now
    BY <1>2 DEF Restart, Forget
  <2>2. \A k \in Callers : Tells(NoCalls[k], NoCalls[k], now)
    BY <1>0, TellsAtFirst DEF NoCalls
  <2>3. \A q \in Procs, l \in Callers : Tells(rate'[q][l], granted'[q][l], now)
    BY <2>1, <2>2
  <2>4. /\ rate' = [q \in Procs |-> [l \in Callers |-> rate'[q][l]]]
        /\ granted' = [q \in Procs |-> [l \in Callers |-> granted'[q][l]]]
    BY <2>1 DEF NoCalls
  <2> QED
    BY <2>1, <2>3, <2>4
<1>3. CASE Tick
  <2>1. rate' = rate /\ granted' = granted /\ now' = now + 1 /\ now < MaxTime
    BY <1>3 DEF Tick
  <2>2. \A p \in Procs, k \in Callers : Tells(rate[p][k], granted[p][k], now + 1)
    BY <1>0, TellsLater
  <2>3. now' \in 0..MaxTime
    BY <2>1 DEF Bounds
  <2> QED
    BY <2>1, <2>2, <2>3
<1>4. CASE UNCHANGED limiterVars
  BY <1>4 DEF limiterVars
<1> QED
  BY <1>1, <1>2, <1>3, <1>4 DEF Next

(* The calls let through in the window that ends at `at` are the last m of *)
(* them, if these are the ones of the last WindowMs.                       *)
LEMMA GrantedLast ==
    ASSUME Bounds, LimiterInv, NEW p \in Procs, NEW k \in Callers, NEW at \in Nat, now <= at,
           NEW n \in 0..Len(granted[p][k]),
           \A i \in 1..n : ~(at - granted[p][k][i] < WindowMs),
           \A i \in n + 1..Len(granted[p][k]) : at - granted[p][k][i] < WindowMs
    PROVE  GrantedBefore(p, k, at) = Len(granted[p][k]) - n
<1> DEFINE g == granted[p][k]
           I == {i \in DOMAIN g : g[i] <= at /\ at - g[i] < WindowMs}
<1>1. g \in Seq(0..now) /\ now \in Nat
  BY DEF LimiterInv, Tells
<1>2. Len(g) \in Nat /\ DOMAIN g = 1..Len(g) /\ \A i \in 1..Len(g) : g[i] \in 0..now
  <2> HIDE DEF g
  <2> QED
    BY <1>1, LenProperties, ElementOfSeq
<1>3. I = n + 1..Len(g)
  <2>1. ASSUME NEW i \in I PROVE i \in n + 1..Len(g)
    <3>1. i \in 1..Len(g) /\ at - g[i] < WindowMs
      BY <1>2
    <3>2. i \notin 1..n
      BY <3>1
    <3> QED
      BY <1>2, <3>1, <3>2
  <2>2. ASSUME NEW i \in n + 1..Len(g) PROVE i \in I
    <3>1. i \in 1..Len(g)
      BY <1>2
    <3>2. g[i] <= at
      BY <1>1, <1>2, <3>1
    <3> QED
      BY <1>2, <3>1, <3>2
  <2> QED
    BY <2>1, <2>2
<1>4. Cardinality(n + 1..Len(g)) = Len(g) - n
  <2>1. n + 1 \in Int /\ Len(g) \in Int
    BY <1>2
  <2>2. Cardinality(n + 1..Len(g)) = IF n + 1 > Len(g) THEN 0 ELSE Len(g) - (n + 1) + 1
    BY <2>1, FS_Interval
  <2> QED
    BY <1>2, <2>2
<1> QED
  BY <1>3, <1>4 DEF GrantedBefore

LEMMA LimiterTells ==
    ASSUME Bounds, LimiterInv
    PROVE  TypeOK /\ LimiterExact
<1>1. TypeOK
  <2>1. ASSUME NEW p \in Procs, NEW k \in Callers
        PROVE  /\ rate[p][k] \in Seq(0..now) /\ granted[p][k] \in Seq(0..now)
               /\ InOrder(granted[p][k]) /\ Len(rate[p][k]) <= MaxCalls
    BY DEF LimiterInv, Tells
  <2>2. ASSUME NEW p \in Procs, NEW k \in Callers PROVE InOrder(rate[p][k])
    <3> DEFINE r == rate[p][k]
               g == granted[p][k]
    <3>1. PICK n \in 0..Len(g) : Ends(r, g, n)
      BY DEF LimiterInv, Tells
    <3>2. r \in Seq(0..now) /\ g \in Seq(0..now) /\ InOrder(g)
      BY <2>1
    <3> HIDE DEF r, g
    <3>3. /\ Len(g) \in Nat /\ DOMAIN g = 1..Len(g) /\ Len(r) \in Nat /\ DOMAIN r = 1..Len(r)
          /\ Len(r) = Len(g) - n /\ \A i \in 1..Len(r) : r[i] = g[n + i]
      BY <3>1, <3>2, LenProperties DEF Ends
    <3>4. \A i \in 1..Len(r) : n + i \in 1..Len(g)
      BY <3>1, <3>3
    <3>5. ASSUME NEW i \in 1..Len(r), NEW j \in 1..Len(r), i < j PROVE r[i] <= r[j]
      <4>1. n + i \in 1..Len(g) /\ n + j \in 1..Len(g) /\ n + i < n + j
        BY <3>1, <3>3, <3>4, <3>5
      <4>2. g[n + i] <= g[n + j]
        BY <3>2, <3>3, <4>1 DEF InOrder
      <4> QED
        BY <3>3, <4>2
    <3>6. InOrder(r)
      BY <3>3, <3>5 DEF InOrder
    <3> QED
      BY <3>6 DEF r
  <2> QED
    BY <2>1, <2>2 DEF TypeOK, LimiterInv
<1>2. ASSUME NEW p \in Procs, NEW k \in Callers
      PROVE  /\ Len(Fresh(rate[p][k], now)) = GrantedBefore(p, k, now)
             /\ GrantedBefore(p, k, now) <= MaxCalls
             /\ ~Allowed(p, k) =>
                   LET then == now + RetryAfter(rate[p][k], now) IN
                      /\ then \in now + 1 .. now + WindowMs
                      /\ GrantedBefore(p, k, then) < MaxCalls
                      /\ GrantedBefore(p, k, then - 1) = MaxCalls
  <2> DEFINE g == granted[p][k]
             w == Fresh(rate[p][k], now)
  <2>0. now \in Nat /\ Tells(rate[p][k], g, now) /\ WindowMs \in Nat /\ MaxCalls \in Nat \ {0}
    BY DEF LimiterInv, Bounds
  <2>1. w \in Seq(0..now) /\ Len(w) <= MaxCalls
    BY <2>0, FreshTells
  <2>2. PICK n \in 0..Len(g) : /\ Ends(w, g, n)
                               /\ \A i \in 1..n : ~(now - g[i] < WindowMs)
                               /\ \A i \in n + 1..Len(g) : now - g[i] < WindowMs
    BY <2>0, FreshTells
  <2> HIDE DEF w
  <2>3. /\ Len(g) \in Nat /\ DOMAIN g = 1..Len(g) /\ \A i \in 1..Len(g) : g[i] \in 0..now
        /\ InOrder(g) /\ n \in Nat /\ n <= Len(g)
    <3>1. g \in Seq(0..now) /\ InOrder(g)
      BY <2>0 DEF Tells
    <3> HIDE DEF g
    <3>2. Len(g) \in Nat /\ DOMAIN g = 1..Len(g) /\ \A i \in 1..Len(g) : g[i] \in 0..now
      BY <3>1, LenProperties, ElementOfSeq
    <3> QED
      BY <2>2, <3>1, <3>2
  <2>4. Len(w) = Len(g) - n /\ \A i \in 1..Len(w) : w[i] = g[n + i]
    BY <2>2 DEF Ends
  <2>5. GrantedBefore(p, k, now) = Len(g) - n
    BY <2>0, <2>2, GrantedLast
  <2>6. ASSUME ~Allowed(p, k)
        PROVE  LET then == now + RetryAfter(rate[p][k], now) IN
                  /\ then \in now + 1 .. now + WindowMs
                  /\ GrantedBefore(p, k, then) < MaxCalls
                  /\ GrantedBefore(p, k, then - 1) = MaxCalls
    <3> DEFINE then == now + RetryAfter(rate[p][k], now)
               h    == g[n + 1]
    <3>1. Len(w) = MaxCalls /\ n + 1 \in 1..Len(g)
      <4>1. ~(Len(w) < MaxCalls)
        BY <2>6 DEF Allowed, w
      <4>2. Len(w) \in Nat
        BY <2>1, LenProperties
      <4>3. Len(w) = MaxCalls
        BY <2>0, <2>1, <4>1, <4>2
      <4> DEFINE len == Len(g)
      <4>4. len \in Nat /\ n \in Nat /\ len - n = MaxCalls
        BY <2>3, <2>4, <4>3
      <4> HIDE DEF len
      <4>5. MaxCalls \in Nat /\ MaxCalls >= 1
        BY <2>0
      <4>6. n + 1 \in 1..len
        BY <4>4, <4>5
      <4> QED
        BY <4>3, <4>6 DEF len
    <3>2. Head(w) = h /\ h \in 0..now /\ now - h < WindowMs
      <4>1. Head(w) = w[1] /\ 1 \in 1..Len(w)
        <5>1. w # << >> /\ 1 \in 1..Len(w)
          BY <2>0, <3>1, EmptySeq
        <5> QED
          BY <2>1, <5>1
      <4>2. Head(w) = h
        BY <2>4, <4>1
      <4> QED
        BY <2>2, <2>3, <3>1, <4>2
    <3>3. then = now + (WindowMs - (now - h))
      BY <3>2 DEF RetryAfter, w
    <3> HIDE DEF then, h
    <3>4. then = h + WindowMs /\ then \in now + 1 .. now + WindowMs
      BY <2>0, <3>2, <3>3
    <3>5. then \in Nat /\ then - 1 \in Nat /\ now <= then /\ now <= then - 1
      BY <2>0, <3>4
    <3>6. ASSUME NEW i \in 1..Len(g)
          PROVE  /\ i <= n => g[i] < h
                 /\ i > n => h <= g[i]
      <4>1. g[i] \in 0..now /\ h \in 0..now
        BY <2>3, <3>2
      <4>2. ASSUME i <= n PROVE g[i] < h
        <5>1. ~(now - g[i] < WindowMs)
          BY <2>2, <4>2
        <5> QED
          BY <2>0, <3>2, <4>1, <5>1
      <4>3. ASSUME i > n PROVE h <= g[i]
        <5>1. CASE i = n + 1
          BY <4>1, <5>1 DEF h
        <5>2. CASE i > n + 1
          BY <2>3, <3>1, <5>2 DEF h, InOrder
        <5> QED
          BY <2>3, <4>3, <5>1, <5>2
      <4> QED
        BY <4>2, <4>3
    <3>7. GrantedBefore(p, k, then - 1) = MaxCalls
      <4>1. ASSUME NEW i \in 1..n PROVE ~(then - 1 - g[i] < WindowMs)
        <5>1. i \in 1..Len(g) /\ i <= n
          BY <2>3
        <5>2. g[i] \in 0..now /\ g[i] < h
          BY <2>3, <3>6, <5>1
        <5> QED
          BY <2>0, <3>2, <3>4, <5>2
      <4>2. ASSUME NEW i \in n + 1..Len(g) PROVE then - 1 - g[i] < WindowMs
        <5>1. i \in 1..Len(g) /\ i > n
          BY <2>3
        <5>2. g[i] \in 0..now /\ h <= g[i]
          BY <2>3, <3>6, <5>1
        <5> QED
          BY <2>0, <3>2, <3>4, <5>2
      <4>3. GrantedBefore(p, k, then - 1) = Len(g) - n
        BY <2>2, <3>5, <4>1, <4>2, GrantedLast
      <4> QED
        BY <2>4, <3>1, <4>3
    <3>8. GrantedBefore(p, k, then) < MaxCalls
      <4>1. PICK l \in 0..Len(g) : /\ \A i \in 1..l : ~(then - g[i] < WindowMs)
                                   /\ \A i \in l + 1..Len(g) : then - g[i] < WindowMs
        <5>1. g \in Seq(Nat)
          <6>1. g \in Seq(0..now) /\ 0..now \subseteq Nat
            BY <2>0 DEF Tells
          <6> HIDE DEF g
          <6> QED
            BY <6>1, SeqMonotonic
        <5> HIDE DEF g
        <5> QED
          BY <2>0, <2>3, <3>5, <5>1, Cut
      <4>2. n + 1 <= l
        <5>1. ~(then - g[n + 1] < WindowMs)
          <6>1. ~(then - h < WindowMs)
            BY <2>0, <3>2, <3>4
          <6> QED
            BY <6>1 DEF h
        <5>2. ~(n + 1 \in l + 1..Len(g))
          BY <4>1, <5>1
        <5> QED
          BY <2>3, <3>1, <4>1, <5>2
      <4>3. GrantedBefore(p, k, then) = Len(g) - l
        BY <3>5, <4>1, GrantedLast
      <4> QED
        BY <2>0, <2>3, <2>4, <3>1, <4>1, <4>2, <4>3
    <3> QED
      BY <3>4, <3>7, <3>8 DEF then
  <2> QED
    BY <2>1, <2>4, <2>5, <2>6 DEF w
<1> QED
  BY <1>1, <1>2 DEF LimiterExact, ExactWindow, RetryAfterExact

(* checkRateLimit is an exact sliding window, in what it decides and in    *)
(* what it tells.                                                          *)
THEOREM LimiterExactHolds ==
    ASSUME Bounds
    PROVE  Spec => [](TypeOK /\ LimiterExact)
<1>1. Init => LimiterInv
  BY LimiterInit
<1>2. LimiterInv /\ [Next]_limiterVars => LimiterInv'
  BY LimiterStep
<1>3. LimiterInv => TypeOK /\ LimiterExact
  BY LimiterTells
<1> QED
  BY <1>1, <1>2, <1>3, PTL DEF Spec
=============================================================================
