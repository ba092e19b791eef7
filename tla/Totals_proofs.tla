---------------------------- MODULE Totals_proofs ----------------------------
(***************************************************************************)
(* What Total and Within are for sequences of any length, by induction     *)
(* over the naturals.  The induction principle is stated for sets of       *)
(* naturals, so that the provers can instantiate it.                       *)
(***************************************************************************)
EXTENDS Totals, SequenceTheorems, WellFoundedInduction, TLAPS

\* A leaf that names no prover is for the SMT solver, which has a minute for it.
USE SMTT(60)

\* Every set of naturals with a member has a least one.
LEMMA LeastMember == \A T \in SUBSET Nat : T # {} => \E x \in T : \A y \in T : x <= y
<1> DEFINE R == OpToRel(<, Nat)
<1>1. IsWellFoundedOn(R, Nat)
  BY NatLessThanWellFounded, Zenon
<1>2. \A x, y \in Nat : y < x => <<y, x>> \in R
  BY DEF OpToRel
<1> HIDE DEF R
<1> SUFFICES ASSUME NEW T \in SUBSET Nat, T # {} PROVE \E x \in T : \A y \in T : x <= y
  BY Zenon
<1>3. PICK x \in T : \A y \in T : ~(<<y, x>> \in R)
  BY <1>1, WFMin, Zenon
<1>4. \A y \in T : ~(y < x)
  BY <1>2, <1>3, Zenon
<1>5. \A y \in T : x <= y
  BY <1>4
<1> QED BY <1>5, Zenon

\* A set of naturals that has 0 and, with every member, the next, has them all.
LEMMA Induction == \A S \in SUBSET Nat : 0 \in S /\ (\A n \in S : n + 1 \in S) => S = Nat
<1> SUFFICES ASSUME NEW S \in SUBSET Nat, 0 \in S, \A n \in S : n + 1 \in S, Nat \ S # {} PROVE FALSE
  BY Zenon
<1>1. PICK x \in Nat \ S : \A y \in Nat \ S : x <= y
  BY LeastMember, Zenon
<1>2. x # 0 /\ x - 1 \in Nat
  BY <1>1
<1>3. x - 1 \in S
  BY <1>1, <1>2
<1> QED BY <1>1, <1>2, <1>3

Nats == Seq(Nat)

\* f sums s up, prefix by prefix.
SumsUp(f, n, s) ==
    /\ f \in [0..n -> Nat] /\ f[0] = 0
    /\ \A i \in 1..n : f[i] = f[i - 1] + s[i]

\* One more size.
LEMMA SumGrows ==
  ASSUME NEW s \in Nats, NEW n \in Nat, n < Len(s), NEW f, SumsUp(f, n, s)
  PROVE  SumsUp([i \in 0..(n + 1) |-> IF i <= n THEN f[i] ELSE f[n] + s[n + 1]], n + 1, s)
<1> DEFINE g == [i \in 0..(n + 1) |-> IF i <= n THEN f[i] ELSE f[n] + s[n + 1]]
<1>1. s[n + 1] \in Nat /\ \A i \in 0..n : f[i] \in Nat
  BY DEF Nats, SumsUp
<1>2. g \in [0..(n + 1) -> Nat] /\ g[0] = 0
  BY <1>1 DEF SumsUp
<1>3. ASSUME NEW i \in 1..(n + 1) PROVE g[i] = g[i - 1] + s[i]
  BY <1>1 DEF SumsUp
<1> QED BY <1>2, <1>3, Zenon DEF SumsUp

\* There is such an f.
LEMMA SumExists == ASSUME NEW s \in Nats PROVE \E f : SumsUp(f, Len(s), s)
<1> DEFINE S == {n \in Nat : n <= Len(s) => \E f : SumsUp(f, n, s)}
<1>1. 0 \in S
  <2>1. SumsUp([i \in 0..0 |-> 0], 0, s)
    BY DEF SumsUp
  <2> QED BY <2>1, Zenon
<1>2. ASSUME NEW n \in S PROVE n + 1 \in S
  <2>1. n \in Nat /\ n + 1 \in Nat /\ Len(s) \in Nat
    BY DEF Nats
  <2>2. ASSUME n + 1 <= Len(s) PROVE \E f : SumsUp(f, n + 1, s)
    <3>1. n < Len(s) /\ n <= Len(s)
      BY <2>1, <2>2
    <3>2. PICK f : SumsUp(f, n, s)
      BY <3>1, Zenon
    <3> QED BY <2>1, <3>1, <3>2, SumGrows, Zenon
  <2> QED BY <2>1, <2>2, Zenon
<1>3. S = Nat
  BY <1>1, <1>2, Induction, Zenon
<1>4. Len(s) \in Nat /\ Len(s) <= Len(s)
  BY DEF Nats
<1> QED BY <1>3, <1>4, Zenon

\* The recursive function of Total, on sequences of sizes.
Recursion(f, s) == f = [i \in 0..Len(s) |-> IF i = 0 THEN 0 ELSE f[i - 1] + s[i]]

(* A function that satisfies the recursion adds up. *)
LEMMA RecursionSums == ASSUME NEW s \in Nats, NEW f, Recursion(f, s) PROVE SumsUp(f, Len(s), s)
<1> DEFINE S == {n \in Nat : n <= Len(s) => f[n] \in Nat}
<1>0. Len(s) \in Nat /\ \A i \in 1..Len(s) : s[i] \in Nat
  BY DEF Nats
<1>1. f[0] = 0 /\ \A i \in 1..Len(s) : f[i] = f[i - 1] + s[i]
  BY <1>0 DEF Recursion
<1>2. 0 \in S
  BY <1>1
<1>3. ASSUME NEW n \in S PROVE n + 1 \in S
  BY <1>0, <1>1
<1>4. S = Nat
  BY <1>2, <1>3, Induction, Zenon
<1> HIDE DEF S
<1>5. \A i \in 0..Len(s) : f[i] \in Nat
  <2>1. \A i \in 0..Len(s) : i \in Nat /\ i <= Len(s)
    BY <1>0
  <2>2. \A i \in Nat : i <= Len(s) => f[i] \in Nat
    BY <1>4, Zenon DEF S
  <2> QED BY <2>1, <2>2, Zenon
<1>6. DOMAIN f = 0..Len(s) /\ f = [i \in DOMAIN f |-> f[i]]
  BY Zenon DEF Recursion
<1> QED BY <1>1, <1>5, <1>6, Zenon DEF SumsUp

\* Total is the last of the sums.
LEMMA TotalSums == ASSUME NEW s \in Nats PROVE \E f : SumsUp(f, Len(s), s) /\ Total(s) = f[Len(s)]
<1> DEFINE g == CHOOSE f : f = [i \in 0..Len(s) |-> IF i = 0 THEN 0 ELSE f[i - 1] + s[i]]
<1>1. Total(s) = g[Len(s)]
  BY Zenon DEF Total
<1>2. PICK f : SumsUp(f, Len(s), s)
  BY SumExists, Zenon
<1>3. Recursion(f, s)
  BY <1>2 DEF SumsUp, Nats, Recursion
<1>4. Recursion(g, s)
  BY <1>3, Zenon DEF Recursion
<1> QED BY <1>1, <1>4, RecursionSums, Zenon

\* The sums of a part of a sequence.
LEMMA SumsAgree ==
  ASSUME NEW s \in Nats, NEW t \in Nats, NEW f, SumsUp(f, Len(s), s), NEW g, SumsUp(g, Len(t), t),
         NEW k \in Nat, k + Len(s) <= Len(t), \A i \in 1..Len(s) : s[i] = t[i + k]
  PROVE  g[k + Len(s)] = g[k] + f[Len(s)]
<1> DEFINE S == {n \in Nat : n <= Len(s) => g[k + n] = g[k] + f[n]}
<1>0. Len(s) \in Nat /\ Len(t) \in Nat /\ \A i \in 1..Len(s) : s[i] \in Nat
  BY DEF Nats
<1>1. f[0] = 0 /\ \A i \in 1..Len(s) : f[i] = f[i - 1] + s[i] /\ f[i - 1] \in Nat
  <2>1. \A i \in 1..Len(s) : i - 1 \in 0..Len(s)
    BY <1>0
  <2> QED BY <2>1, Zenon DEF SumsUp
<1>2. g[k] \in Nat /\ \A i \in 1..Len(t) : g[i] = g[i - 1] + t[i]
  <2>1. k \in 0..Len(t)
    BY <1>0
  <2> QED BY <2>1, Zenon DEF SumsUp
<1>3. 0 \in S
  BY <1>1, <1>2
<1>4. ASSUME NEW n \in S PROVE n + 1 \in S
  <2>1. n \in Nat /\ (n <= Len(s) => g[k + n] = g[k] + f[n])
    BY Zenon
  <2>2. ASSUME n + 1 <= Len(s) PROVE g[k + (n + 1)] = g[k] + f[n + 1]
    <3>1. n + 1 \in 1..Len(s) /\ (n + 1) + k \in 1..Len(t) /\ (n + 1) - 1 = n /\ ((n + 1) + k) - 1 = k + n
      BY <1>0, <2>1, <2>2
    <3>2. f[n + 1] = f[n] + s[n + 1] /\ f[n] \in Nat
      BY <1>1, <3>1
    <3>3. g[(n + 1) + k] = g[k + n] + t[(n + 1) + k]
      BY <1>2, <3>1
    <3>4. s[n + 1] = t[(n + 1) + k] /\ s[n + 1] \in Nat /\ g[k + n] = g[k] + f[n] /\ (n + 1) + k = k + (n + 1)
      BY <1>0, <2>1, <2>2, <3>1
    <3> QED BY <1>2, <3>2, <3>3, <3>4
  <2> QED BY <2>1, <2>2
<1>5. S = Nat
  BY <1>3, <1>4, Induction, Zenon
<1>6. Len(s) <= Len(s)
  BY <1>0
<1> QED BY <1>0, <1>5, <1>6, Zenon

\* No sum is below one of its sizes.
LEMMA SumCovers ==
  ASSUME NEW s \in Nats, NEW f, SumsUp(f, Len(s), s), NEW i \in 1..Len(s)
  PROVE  s[i] <= f[Len(s)]
<1> DEFINE S == {n \in Nat : i + n <= Len(s) => s[i] <= f[i + n]}
<1>0. Len(s) \in Nat /\ i \in Nat /\ Len(s) - i \in Nat /\ i + (Len(s) - i) = Len(s) /\ \A j \in 1..Len(s) : s[j] \in Nat
  BY DEF Nats
<1>1. \A j \in 1..Len(s) : f[j] = f[j - 1] + s[j] /\ f[j - 1] \in Nat /\ f[j] \in Nat
  BY <1>0 DEF SumsUp
<1>2. 0 \in S
  BY <1>0, <1>1
<1>3. ASSUME NEW n \in S PROVE n + 1 \in S
  <2>1. n \in Nat /\ (i + n <= Len(s) => s[i] <= f[i + n])
    BY Zenon
  <2>2. ASSUME i + (n + 1) <= Len(s) PROVE s[i] <= f[i + (n + 1)]
    <3>1. i + n <= Len(s) /\ i + (n + 1) \in 1..Len(s) /\ (i + (n + 1)) - 1 = i + n
      BY <1>0, <2>1, <2>2
    <3>2. f[i + (n + 1)] = f[i + n] + s[i + (n + 1)] /\ f[i + n] \in Nat
      BY <1>1, <3>1
    <3>3. s[i + (n + 1)] \in Nat /\ s[i] \in Nat
      BY <1>0, <3>1
    <3> QED BY <2>1, <3>1, <3>2, <3>3
  <2> QED BY <2>1, <2>2
<1>4. S = Nat
  BY <1>2, <1>3, Induction, Zenon
<1>5. i + (Len(s) - i) <= Len(s)
  BY <1>0
<1>6. s[i] <= f[i + (Len(s) - i)]
  BY <1>0, <1>4, <1>5, Zenon
<1> QED BY <1>0, <1>6, Zenon

-----------------------------------------------------------------------------
(* What the accounts of the pipelines rest on. *)

\* A total is a natural number, 0 for nothing, and covers each of the sizes.
LEMMA TotalNat == ASSUME NEW s \in Nats PROVE Total(s) \in Nat /\ \A i \in DOMAIN s : s[i] <= Total(s)
<1>1. PICK f : SumsUp(f, Len(s), s) /\ Total(s) = f[Len(s)]
  BY TotalSums, Zenon
<1>2. Len(s) \in 0..Len(s) /\ DOMAIN s = 1..Len(s)
  BY DEF Nats
<1>3. f[Len(s)] \in Nat
  BY <1>1, <1>2, Zenon DEF SumsUp
<1>4. \A i \in 1..Len(s) : s[i] <= f[Len(s)]
  BY <1>1, SumCovers, Zenon
<1> QED BY <1>1, <1>2, <1>3, <1>4, Zenon

(* Nothing adds up to 0. *)
LEMMA TotalEmpty == Total(<<>>) = 0
<1>1. <<>> \in Nats /\ Len(<<>>) = 0
  BY DEF Nats
<1>2. PICK f : SumsUp(f, Len(<<>>), <<>>) /\ Total(<<>>) = f[Len(<<>>)]
  BY <1>1, TotalSums, Zenon
<1> QED BY <1>1, <1>2, Zenon DEF SumsUp

\* enqueue: a size joins at the end.
LEMMA TotalAppend == ASSUME NEW s \in Nats, NEW e \in Nat PROVE Total(Append(s, e)) = Total(s) + e
<1> DEFINE t == Append(s, e)
<1>1. t \in Nats /\ Len(t) = Len(s) + 1 /\ t[Len(s) + 1] = e /\ \A i \in 1..Len(s) : t[i] = s[i]
  BY DEF Nats
<1>0. Len(s) \in Nat
  BY DEF Nats
<1> HIDE DEF t
<1>2. PICK f : SumsUp(f, Len(s), s) /\ Total(s) = f[Len(s)]
  BY TotalSums, Zenon
<1>3. PICK g : SumsUp(g, Len(t), t) /\ Total(t) = g[Len(t)]
  BY <1>1, TotalSums, Zenon
<1>4. g[0 + Len(s)] = g[0] + f[Len(s)]
  <2>1. 0 \in Nat /\ 0 + Len(s) <= Len(t) /\ \A i \in 1..Len(s) : s[i] = t[i + 0]
    BY <1>0, <1>1
  <2> QED BY <1>1, <1>2, <1>3, <2>1, SumsAgree
<1>5. g[0] = 0 /\ g[Len(s) + 1] = g[Len(s)] + e /\ f[Len(s)] \in Nat
  BY <1>0, <1>1, <1>2, <1>3 DEF SumsUp
<1> QED BY <1>0, <1>1, <1>2, <1>3, <1>4, <1>5 DEF t

\* release: a size leaves at the front.
LEMMA TotalFront ==
  ASSUME NEW s \in Nats, s # <<>>
  PROVE  Total(s) = Head(s) + Total(Tail(s)) /\ Tail(s) \in Nats /\ Head(s) \in Nat
<1> DEFINE t == Tail(s)
<1>1. /\ t \in Nats /\ Len(s) = Len(t) + 1 /\ Len(t) \in Nat /\ s[1] = Head(s) /\ Head(s) \in Nat
      /\ \A i \in 1..Len(t) : t[i] = s[i + 1]
  BY DEF Nats
<1> HIDE DEF t
<1>2. PICK f : SumsUp(f, Len(t), t) /\ Total(t) = f[Len(t)]
  BY <1>1, TotalSums, Zenon
<1>3. PICK g : SumsUp(g, Len(s), s) /\ Total(s) = g[Len(s)]
  BY TotalSums, Zenon
<1>4. g[1 + Len(t)] = g[1] + f[Len(t)]
  <2>1. 1 \in Nat /\ 1 + Len(t) <= Len(s)
    BY <1>1
  <2> QED BY <1>1, <1>2, <1>3, <2>1, SumsAgree
<1>5. g[1] = Head(s) /\ Len(s) = 1 + Len(t)
  BY <1>1, <1>3 DEF SumsUp
<1> QED BY <1>1, <1>2, <1>3, <1>4, <1>5, Zenon DEF t

\* A pipeline that holds nothing, or admits a size only if the total stays
\* within the limit or there was none, stays within it.
LEMMA WithinEmpty == ASSUME NEW limit \in Nat PROVE Within(<<>>, limit)
BY TotalEmpty DEF Within

(* One more entry, while the limit has room for it. *)
LEMMA WithinAppend ==
  ASSUME NEW s \in Nats, NEW e \in Nat, NEW limit \in Nat, Total(s) = 0 \/ Total(s) + e <= limit
  PROVE  Within(Append(s, e), limit)
<1>1. Total(Append(s, e)) = Total(s) + e /\ Total(s) \in Nat
  BY TotalAppend, TotalNat, Zenon
<1>2. CASE Total(s) + e <= limit
  BY <1>1, <1>2, Zenon DEF Within
<1>3. CASE Total(s) = 0
  <2>1. Len(s) + 1 \in DOMAIN Append(s, e) /\ Append(s, e)[Len(s) + 1] = e
    BY DEF Nats
  <2>2. Total(Append(s, e)) = e
    BY <1>1, <1>3
  <2> QED BY <2>1, <2>2, Zenon DEF Within
<1> QED BY <1>2, <1>3, Zenon

\* What is left when the first goes is within it too: the one above the limit is
\* gone, or all that is left.
LEMMA WithinTail ==
  ASSUME NEW s \in Nats, s # <<>>, NEW limit \in Nat, Within(s, limit)
  PROVE  Within(Tail(s), limit)
<1> DEFINE t == Tail(s)
<1>1. Total(s) = Head(s) + Total(t) /\ t \in Nats /\ Head(s) \in Nat
  BY TotalFront, Zenon
<1>2. Total(t) \in Nat /\ \A i \in DOMAIN t : t[i] <= Total(t)
  BY <1>1, TotalNat, Zenon
<1>3. CASE Total(s) <= limit
  <2>1. Total(t) <= limit
    BY <1>1, <1>2, <1>3
  <2> QED BY <2>1, Zenon DEF Within
<1>4. CASE \E i \in DOMAIN s : s[i] = Total(s)
  <2>1. PICK i \in DOMAIN s : s[i] = Total(s)
    BY <1>4, Zenon
  <2>2. CASE i = 1
    <3>1. s[1] = Head(s)
      BY DEF Nats
    <3>2. Total(t) <= limit
      BY <1>1, <1>2, <2>1, <2>2, <3>1
    <3> QED BY <3>2, Zenon DEF Within
  <2>3. CASE i # 1
    <3>1. i - 1 \in DOMAIN t /\ t[i - 1] = s[i]
      BY <2>3 DEF Nats
    <3>2. t[i - 1] = Total(t)
      <4>1. t[i - 1] <= Total(t)
        BY <1>2, <3>1, Zenon
      <4> QED BY <1>1, <1>2, <2>1, <3>1, <4>1
    <3> QED BY <3>1, <3>2, Zenon DEF Within
  <2> QED BY <2>2, <2>3, Zenon
<1> QED BY <1>3, <1>4, Zenon DEF Within
=============================================================================
