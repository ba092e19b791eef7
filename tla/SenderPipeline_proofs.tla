------------------------ MODULE SenderPipeline_proofs ------------------------
(***************************************************************************)
(* The multithreaded sender, for a source of any size and whatever the     *)
(* interleaving of the threads, of cancellations, of the deadline and of   *)
(* signals: a scan that did not fail for good never has a partial keep-set *)
(* sent; an exit status that reports success means that every chunk was    *)
(* sent; and what is queued stays within the queues' byte budget.          *)
(***************************************************************************)
EXTENDS SenderPipeline, Totals_proofs

\* A leaf that names no prover is for the SMT solver, which has a minute for it.
USE SMTT(60)

---------------------------------------------------------------------------
(* Chunks in line. *)

\* Concatenation, as an operator of its own for the provers.
s ++ t == s \o t

\* A hand, as the sequence of what it holds.
One(c) == IF c = 0 THEN <<>> ELSE <<c>>

\* What was sent, the sender's hand, a queue, the loader's hand, a queue, the
\* scanner's hand: the chunks in the order in which they are to go out.
Line(s, a, q, b, r, c) == s ++ (One(a) ++ (q ++ (One(b) ++ (r ++ One(c)))))

Rising(s) == \A i, j \in DOMAIN s : i < j => s[i] < s[j]

\* A hand holds at most one chunk.
LEMMA OneHeld == One(0) = <<>> /\ \A c \in Nat : One(c) \in Nats /\ (c # 0 => One(c) = <<c>>)
BY DEF One, Nats

\* Concatenation.
LEMMA Joined == \A s, t \in Nats : s ++ t \in Nats /\ <<>> ++ t = t /\ s ++ <<>> = s
BY ConcatProperties, ConcatEmptySeq, Zenon DEF Nats, ++

(* Joining is associative. *)
LEMMA Regrouped == \A s, t, u \in Nats : (s ++ t) ++ u = s ++ (t ++ u)
<1> TAKE s, t, u \in Nats
<1> QED BY ConcatAssociative DEF Nats, ++

(* Four parts, regrouped. *)
LEMMA RegroupedTwice == \A s, t, u, v \in Nats : s ++ (t ++ (u ++ v)) = (s ++ (t ++ u)) ++ v
<1> TAKE s, t, u, v \in Nats
<1>1. t ++ u \in Nats
  BY Joined, Zenon
<1>2. (t ++ u) ++ v = t ++ (u ++ v)
  BY Regrouped
<1>3. (s ++ (t ++ u)) ++ v = s ++ ((t ++ u) ++ v)
  BY <1>1, Regrouped
<1> QED BY <1>2, <1>3, Zenon

\* A chunk goes from a hand to the end of what is ahead of it.
LEMMA HandOver == \A s, t \in Nats : \A c \in Nat : c # 0 => Append(s, c) ++ (One(0) ++ t) = s ++ (One(c) ++ t)
<1> SUFFICES ASSUME NEW s \in Nats, NEW t \in Nats, NEW c \in Nat, c # 0
             PROVE  Append(s, c) ++ (One(0) ++ t) = s ++ (One(c) ++ t)
  BY Zenon
<1>1. One(c) = <<c>> /\ One(c) \in Nats /\ One(0) ++ t = t
  BY OneHeld, Joined, Zenon
<1>2. Append(s, c) = s ++ One(c)
  BY <1>1, AppendIsConcat, Zenon DEF Nats, ++
<1>3. (s ++ One(c)) ++ t = s ++ (One(c) ++ t)
  BY <1>1, Regrouped
<1> QED BY <1>1, <1>2, <1>3, Zenon

\* A chunk goes from the head of a queue to the hand that takes it.
LEMMA TakeUp == \A q, t \in Nats : q # <<>> =>
    /\ Head(q) \in Nat /\ Tail(q) \in Nats
    /\ Head(q) # 0 => One(Head(q)) ++ (Tail(q) ++ t) = One(0) ++ (q ++ t)
<1> SUFFICES ASSUME NEW q \in Nats, NEW t \in Nats, q # <<>>
             PROVE  /\ Head(q) \in Nat /\ Tail(q) \in Nats
                    /\ Head(q) # 0 => One(Head(q)) ++ (Tail(q) ++ t) = One(0) ++ (q ++ t)
  BY Zenon
<1>1. Head(q) \in Nat /\ Tail(q) \in Nats
  BY HeadTailProperties, Zenon DEF Nats
<1>2. One(0) ++ (q ++ t) = q ++ t
  BY OneHeld, Joined, Zenon
<1>3. ASSUME Head(q) # 0 PROVE One(Head(q)) ++ (Tail(q) ++ t) = q ++ t
  <2>1. One(Head(q)) = <<Head(q)>> /\ One(Head(q)) \in Nats
    BY <1>1, <1>3, OneHeld, Zenon
  <2>2. <<Head(q)>> ++ Tail(q) = q
    BY HeadTailProperties DEF Nats, ++
  <2>3. (One(Head(q)) ++ Tail(q)) ++ t = One(Head(q)) ++ (Tail(q) ++ t)
    BY <1>1, <2>1, Regrouped
  <2> QED BY <2>1, <2>2, <2>3, Zenon
<1> QED BY <1>1, <1>2, <1>3, Zenon

\* The queue operations, to be left unexpanded below.
Added(q, c) == Append(q, c)
First(q) == Head(q)
Rest(q) == Tail(q)

\* The same for the whole line.
LEMMA LineMoves ==
  ASSUME NEW s \in Nats, NEW q \in Nats, NEW r \in Nats, NEW a \in Nat, NEW b \in Nat, NEW c \in Nat
  PROVE  /\ Line(s, a, q, b, r, c) \in Nats
         /\ a # 0 => Line(Added(s, a), 0, q, b, r, c) = Line(s, a, q, b, r, c)
         /\ q # <<>> /\ First(q) # 0 => Line(s, First(q), Rest(q), b, r, c) = Line(s, 0, q, b, r, c)
         /\ b # 0 => Line(s, a, Added(q, b), 0, r, c) = Line(s, a, q, b, r, c)
         /\ r # <<>> /\ First(r) # 0 => Line(s, a, q, First(r), Rest(r), c) = Line(s, a, q, 0, r, c)
         /\ c # 0 => Line(s, a, q, b, Added(r, c), 0) = Line(s, a, q, b, r, c)
<1>1. /\ One(c) \in Nats /\ r ++ One(c) \in Nats /\ One(b) ++ (r ++ One(c)) \in Nats
      /\ q ++ (One(b) ++ (r ++ One(c))) \in Nats
      /\ One(a) ++ (q ++ (One(b) ++ (r ++ One(c)))) \in Nats
      /\ Line(s, a, q, b, r, c) \in Nats
  BY OneHeld, Joined, Zenon DEF Line
<1>2. ASSUME a # 0 PROVE Line(Added(s, a), 0, q, b, r, c) = Line(s, a, q, b, r, c)
  <2>1. Added(s, a) ++ (One(0) ++ (q ++ (One(b) ++ (r ++ One(c))))) = s ++ (One(a) ++ (q ++ (One(b) ++ (r ++ One(c)))))
    BY <1>1, <1>2, HandOver, Zenon DEF Added
  <2> QED BY <2>1, Zenon DEF Line
<1>3. ASSUME q # <<>>, First(q) # 0 PROVE Line(s, First(q), Rest(q), b, r, c) = Line(s, 0, q, b, r, c)
  BY <1>1, <1>3, TakeUp, Zenon DEF Line, First, Rest
<1>4. ASSUME b # 0 PROVE Line(s, a, Added(q, b), 0, r, c) = Line(s, a, q, b, r, c)
  <2>1. Added(q, b) ++ (One(0) ++ (r ++ One(c))) = q ++ (One(b) ++ (r ++ One(c)))
    BY <1>1, <1>4, HandOver, Zenon DEF Added
  <2> QED BY <2>1, Zenon DEF Line
<1>5. ASSUME r # <<>>, First(r) # 0 PROVE Line(s, a, q, First(r), Rest(r), c) = Line(s, a, q, 0, r, c)
  BY <1>1, <1>5, TakeUp, Zenon DEF Line, First, Rest
<1>6. ASSUME c # 0 PROVE Line(s, a, q, b, Added(r, c), 0) = Line(s, a, q, b, r, c)
  <2>1. Added(r, c) ++ One(0) = r ++ One(c)
    <3>1. Added(r, c) = r ++ <<c>>
      BY AppendIsConcat, Zenon DEF Nats, ++, Added
    <3>2. r ++ One(c) \in Nats /\ One(c) = <<c>> /\ One(0) = <<>>
      BY <1>1, <1>6, OneHeld, Zenon
    <3> QED BY <3>1, <3>2, Joined, Zenon
  <2> QED BY <2>1, Zenon DEF Line
<1> QED BY <1>1, <1>2, <1>3, <1>4, <1>5, <1>6, Zenon

\* The same move by move.
LEMMA LineSent == \A s, q, r \in Nats : \A a, b, c \in Nat :
    a # 0 => Line(Added(s, a), 0, q, b, r, c) = Line(s, a, q, b, r, c)
<1> TAKE s, q, r \in Nats
<1> TAKE a, b, c \in Nat
<1> QED BY LineMoves

(* The sender takes the first chunk of its queue. *)
LEMMA LineTaken == \A s, q, r \in Nats : \A b, c \in Nat :
    q # <<>> /\ First(q) # 0 => Line(s, First(q), Rest(q), b, r, c) = Line(s, 0, q, b, r, c)
<1> TAKE s, q, r \in Nats
<1> TAKE b, c \in Nat
<1> QED BY LineMoves

(* The loader's chunk enters the sender's queue. *)
LEMMA LineLoaded == \A s, q, r \in Nats : \A a, b, c \in Nat :
    b # 0 => Line(s, a, Added(q, b), 0, r, c) = Line(s, a, q, b, r, c)
<1> TAKE s, q, r \in Nats
<1> TAKE a, b, c \in Nat
<1> QED BY LineMoves

(* The loader takes the first chunk of its queue. *)
LEMMA LineFetched == \A s, q, r \in Nats : \A a, c \in Nat :
    r # <<>> /\ First(r) # 0 => Line(s, a, q, First(r), Rest(r), c) = Line(s, a, q, 0, r, c)
<1> TAKE s, q, r \in Nats
<1> TAKE a, c \in Nat
<1> QED BY LineMoves

(* The scanner's chunk enters the loader's queue. *)
LEMMA LineQueued == \A s, q, r \in Nats : \A a, b, c \in Nat :
    c # 0 => Line(s, a, q, b, Added(r, c), 0) = Line(s, a, q, b, r, c)
<1> TAKE s, q, r \in Nats
<1> TAKE a, b, c \in Nat
<1> QED BY LineMoves

\* The parts of a rising sequence.
LEMMA RisingParts == \A p, t \in Nats :
    Rising(p ++ t) <=> Rising(p) /\ Rising(t) /\ \A x \in Range(p), y \in Range(t) : x < y
<1> TAKE p, t \in Nats
<1>1. /\ Len(p) \in Nat /\ Len(t) \in Nat /\ DOMAIN p = 1..Len(p) /\ DOMAIN t = 1..Len(t)
      /\ DOMAIN (p ++ t) = 1..(Len(p) + Len(t))
      /\ \A i \in 1..Len(p) : (p ++ t)[i] = p[i]
      /\ \A i \in 1..Len(t) : (p ++ t)[Len(p) + i] = t[i]
  BY DEF Nats, ++
<1>2. ASSUME Rising(p ++ t)
      PROVE  Rising(p) /\ Rising(t) /\ \A i \in DOMAIN p, j \in DOMAIN t : p[i] < t[j]
  <2>1. Rising(p)
    BY <1>1, <1>2 DEF Rising
  <2>2. Rising(t)
    <3> SUFFICES ASSUME NEW i \in DOMAIN t, NEW j \in DOMAIN t, i < j PROVE t[i] < t[j]
      BY Zenon DEF Rising
    <3> QED BY <1>1, <1>2 DEF Rising
  <2>3. ASSUME NEW i \in DOMAIN p, NEW j \in DOMAIN t PROVE p[i] < t[j]
    BY <1>1, <1>2 DEF Rising
  <2> QED BY <2>1, <2>2, <2>3, Zenon
<1>3. ASSUME Rising(p), Rising(t), \A i \in DOMAIN p, j \in DOMAIN t : p[i] < t[j]
      PROVE  Rising(p ++ t)
  <2> SUFFICES ASSUME NEW i \in 1..(Len(p) + Len(t)), NEW j \in 1..(Len(p) + Len(t)), i < j
               PROVE  (p ++ t)[i] < (p ++ t)[j]
    BY <1>1, Zenon DEF Rising
  <2>1. CASE j <= Len(p)
    BY <1>1, <1>3, <2>1 DEF Rising
  <2>2. CASE i > Len(p)
    <3>1. i - Len(p) \in DOMAIN t /\ j - Len(p) \in DOMAIN t /\ i - Len(p) < j - Len(p)
      BY <1>1, <2>2
    <3>2. (p ++ t)[i] = t[i - Len(p)] /\ (p ++ t)[j] = t[j - Len(p)]
      BY <1>1, <2>2
    <3> QED BY <1>3, <3>1, <3>2, Zenon DEF Rising
  <2>3. CASE i <= Len(p) /\ j > Len(p)
    <3>1. i \in DOMAIN p /\ j - Len(p) \in DOMAIN t
      BY <1>1, <2>3
    <3>2. (p ++ t)[i] = p[i] /\ (p ++ t)[j] = t[j - Len(p)]
      BY <1>1, <2>3
    <3> QED BY <1>3, <3>1, <3>2, Zenon
  <2> QED BY <1>1, <2>1, <2>2, <2>3
<1> QED BY <1>2, <1>3, Zenon DEF Range

(* The chunks of two parts. *)
LEMMA RangeJoined == \A s, t \in Nats : Range(s ++ t) = Range(s) \cup Range(t)
<1> TAKE s, t \in Nats
<1> QED BY RangeConcatenation DEF Nats, ++

\* A hand is emptied without handing over: what is left still rises.
LEMMA Dropped ==
  ASSUME NEW p \in Nats, NEW t \in Nats, NEW c \in Nat, Rising(p ++ (One(c) ++ t))
  PROVE  Rising(p ++ (One(0) ++ t)) /\ Range(p ++ (One(0) ++ t)) \subseteq Range(p ++ (One(c) ++ t))
<1>1. One(c) \in Nats /\ One(c) ++ t \in Nats /\ One(0) ++ t = t
  BY OneHeld, Joined, Zenon
<1>2. Range(One(c) ++ t) = Range(One(c)) \cup Range(t)
  BY <1>1, RangeJoined, Zenon
<1>3. Rising(p) /\ Rising(One(c) ++ t) /\ \A x \in Range(p), y \in Range(One(c) ++ t) : x < y
  BY <1>1, RisingParts, Zenon
<1>4. Rising(t)
  BY <1>1, <1>3, RisingParts, Zenon
<1>5. Rising(p ++ t)
  BY <1>2, <1>3, <1>4, RisingParts, Zenon
<1>6. Range(p ++ t) = Range(p) \cup Range(t) /\ Range(p ++ (One(c) ++ t)) = Range(p) \cup Range(One(c) ++ t)
  BY <1>1, RangeJoined, Zenon
<1> QED BY <1>1, <1>2, <1>5, <1>6, Zenon

(* What is left when a stage drops its chunk. *)
LEMMA LineDrops ==
  ASSUME NEW s \in Nats, NEW q \in Nats, NEW r \in Nats, NEW a \in Nat, NEW b \in Nat, NEW c \in Nat,
         Rising(Line(s, a, q, b, r, c))
  PROVE  /\ Rising(Line(s, 0, q, b, r, c))
         /\ Range(Line(s, 0, q, b, r, c)) \subseteq Range(Line(s, a, q, b, r, c))
         /\ Rising(Line(s, a, q, 0, r, c))
         /\ Range(Line(s, a, q, 0, r, c)) \subseteq Range(Line(s, a, q, b, r, c))
<1> DEFINE t == r ++ One(c)
           u == q ++ (One(b) ++ t)
           p == s ++ (One(a) ++ q)
<1>1. /\ One(a) \in Nats /\ One(b) \in Nats /\ One(0) \in Nats
      /\ t \in Nats /\ One(b) ++ t \in Nats /\ One(0) ++ t \in Nats /\ u \in Nats
      /\ One(a) ++ q \in Nats /\ p \in Nats
  BY OneHeld, Joined, Zenon
<1>2. Line(s, a, q, b, r, c) = s ++ (One(a) ++ u) /\ Line(s, 0, q, b, r, c) = s ++ (One(0) ++ u)
  BY Zenon DEF Line
<1>3. \A v \in Nats : s ++ (One(a) ++ (q ++ v)) = p ++ v
  <2>1. One(a) \in Nats
    BY OneHeld, Zenon
  <2> QED BY <2>1, RegroupedTwice
<1>4. Line(s, a, q, b, r, c) = p ++ (One(b) ++ t) /\ Line(s, a, q, 0, r, c) = p ++ (One(0) ++ t)
  BY <1>1, <1>3, Zenon DEF Line
<1> HIDE DEF t, u, p
<1>5. /\ Rising(Line(s, 0, q, b, r, c))
      /\ Range(Line(s, 0, q, b, r, c)) \subseteq Range(Line(s, a, q, b, r, c))
  BY <1>1, <1>2, Dropped, Zenon
<1>6. /\ Rising(Line(s, a, q, 0, r, c))
      /\ Range(Line(s, a, q, 0, r, c)) \subseteq Range(Line(s, a, q, b, r, c))
  BY <1>1, <1>4, Dropped, Zenon
<1> QED BY <1>5, <1>6, Zenon

\* What the queues hold is part of the line.
LEMMA LineHolds ==
  ASSUME NEW s \in Nats, NEW q \in Nats, NEW r \in Nats, NEW a \in Nat, NEW b \in Nat, NEW c \in Nat
  PROVE  Range(q) \subseteq Range(Line(s, a, q, b, r, c)) /\ Range(r) \subseteq Range(Line(s, a, q, b, r, c))
<1> DEFINE t == r ++ One(c)
           u == One(b) ++ t
           v == q ++ u
           w == One(a) ++ v
<1>1. One(a) \in Nats /\ One(b) \in Nats /\ One(c) \in Nats
  BY OneHeld, Zenon
<1>2. t \in Nats /\ u \in Nats /\ v \in Nats /\ w \in Nats
  BY <1>1, Joined, Zenon
<1>3. Line(s, a, q, b, r, c) = s ++ w
  BY Zenon DEF Line
<1>4. Range(t) = Range(r) \cup Range(One(c))
  BY <1>1, RangeJoined, Zenon
<1> HIDE DEF t
<1>5. Range(u) = Range(One(b)) \cup Range(t)
  BY <1>1, <1>2, RangeJoined, Zenon
<1> HIDE DEF u
<1>6. Range(v) = Range(q) \cup Range(u)
  BY <1>2, RangeJoined, Zenon
<1> HIDE DEF v
<1>7. Range(w) = Range(One(a)) \cup Range(v)
  BY <1>1, <1>2, RangeJoined, Zenon
<1> HIDE DEF w
<1>8. Range(s ++ w) = Range(s) \cup Range(w)
  BY <1>2, RangeJoined, Zenon
<1> QED BY <1>3, <1>4, <1>5, <1>6, <1>7, <1>8, Zenon

(* Reading from a queue, and adding to it. *)
LEMMA Queue == \A q \in Nats :
    /\ q # <<>> => First(q) \in Nat /\ First(q) \in Range(q) /\ Rest(q) \in Nats
    /\ \A c \in Nat : Added(q, c) \in Nats
<1> TAKE q \in Nats
<1>1. ASSUME q # <<>> PROVE First(q) \in Nat /\ First(q) \in Range(q) /\ Rest(q) \in Nats
  <2>1. Head(q) \in Nat /\ Tail(q) \in Nats
    BY <1>1, HeadTailProperties, Zenon DEF Nats
  <2>2. 1 \in DOMAIN q /\ Head(q) = q[1]
    BY <1>1 DEF Nats
  <2> QED BY <2>1, <2>2, Zenon DEF First, Rest, Range
<1>2. \A c \in Nat : Added(q, c) \in Nats
  BY AppendProperties, Zenon DEF Nats, Added
<1> QED BY <1>1, <1>2, Zenon

\* The scan adds to the end of the line.
LEMMA LineGrows ==
  ASSUME NEW s \in Nats, NEW q \in Nats, NEW r \in Nats, NEW a \in Nat, NEW b \in Nat, NEW c \in Nat, c # 0,
         Rising(Line(s, a, q, b, r, 0)), \A x \in Range(Line(s, a, q, b, r, 0)) : x < c
  PROVE  /\ Rising(Line(s, a, q, b, r, c))
         /\ Range(Line(s, a, q, b, r, c)) = Range(Line(s, a, q, b, r, 0)) \cup {c}
<1> DEFINE p == Line(s, a, q, b, r, 0)
<1>1. p \in Nats
  <2>1. 0 \in Nat
    OBVIOUS
  <2> QED BY <2>1, LineMoves, Zenon
<1>2. Line(s, a, q, b, r, c) = p ++ <<c>>
  <2>1. One(0) = <<>> /\ One(c) = <<c>> /\ r ++ <<>> = r
    BY OneHeld, Joined, Zenon
  <2>a. One(b) \in Nats /\ <<c>> \in Nats
    BY <2>1, OneHeld, Zenon
  <2>b. One(a) \in Nats
    BY OneHeld, Zenon
  <2>c. One(b) ++ r \in Nats
    BY <2>a, Joined, Zenon
  <2>d. q ++ (One(b) ++ r) \in Nats
    BY <2>c, Joined, Zenon
  <2>e. One(a) ++ (q ++ (One(b) ++ r)) \in Nats
    BY <2>b, <2>d, Joined, Zenon
  <2>3. (One(b) ++ r) ++ <<c>> = One(b) ++ (r ++ <<c>>)
    BY <2>a, Regrouped
  <2>4. (q ++ (One(b) ++ r)) ++ <<c>> = q ++ ((One(b) ++ r) ++ <<c>>)
    BY <2>a, <2>c, Regrouped
  <2>5. (One(a) ++ (q ++ (One(b) ++ r))) ++ <<c>> = One(a) ++ ((q ++ (One(b) ++ r)) ++ <<c>>)
    BY <2>a, <2>b, <2>d, Regrouped
  <2>6. (s ++ (One(a) ++ (q ++ (One(b) ++ r)))) ++ <<c>> = s ++ ((One(a) ++ (q ++ (One(b) ++ r))) ++ <<c>>)
    BY <2>a, <2>e, Regrouped
  <2> QED BY <2>1, <2>3, <2>4, <2>5, <2>6, Zenon DEF Line
<1> HIDE DEF p
<1>3. Rising(<<c>>) /\ Range(<<c>>) = {c} /\ <<c>> \in Nats
  BY DEF Rising, Range, Nats
<1>4. Range(p ++ <<c>>) = Range(p) \cup Range(<<c>>)
  BY <1>1, <1>3, RangeJoined, Zenon
<1>5. Rising(p ++ <<c>>)
  <2>1. Rising(p) /\ \A x \in Range(p) : x < c
    BY Zenon DEF p
  <2> QED BY <1>1, <1>3, <2>1, RisingParts, Zenon
<1> QED BY <1>2, <1>3, <1>4, <1>5, Zenon DEF p

\* What is sent stands first, and is everything once the rest is empty.
LEMMA LineStarts ==
  ASSUME NEW s \in Nats, NEW q \in Nats, NEW r \in Nats, NEW a \in Nat, NEW b \in Nat, NEW c \in Nat,
         Rising(Line(s, a, q, b, r, c))
  PROVE  Rising(s) /\ (a = 0 /\ q = <<>> /\ b = 0 /\ r = <<>> /\ c = 0 => Line(s, a, q, b, r, c) = s)
<1>1. One(a) ++ (q ++ (One(b) ++ (r ++ One(c)))) \in Nats
  BY OneHeld, Joined, Zenon
<1>2. Rising(s)
  BY <1>1, RisingParts, Zenon DEF Line
<1>3. ASSUME a = 0, q = <<>>, b = 0, r = <<>>, c = 0 PROVE Line(s, a, q, b, r, c) = s
  <2>1. <<>> \in Nats /\ One(0) = <<>> /\ <<>> ++ <<>> = <<>> /\ s ++ <<>> = s
    BY OneHeld, Joined, Zenon
  <2>2. Line(s, 0, <<>>, 0, <<>>, 0) = s ++ (<<>> ++ (<<>> ++ (<<>> ++ (<<>> ++ <<>>))))
    BY <2>1, Zenon DEF Line
  <2> QED BY <1>3, <2>1, <2>2, Zenon
<1> QED BY <1>2, <1>3, Zenon

---------------------------------------------------------------------------
(* The keep-set. *)

\* Thread self goes on at next; the others stay, or leave a wait.
Moves(self, next) ==
    /\ DOMAIN pc' = Threads
    /\ \A t \in Threads :
         IF t = self THEN pc'[t] = next
         ELSE \/ pc'[t] = pc[t]
              \/ pc[t] = "wait_full" /\ pc'[t] = "enqueue"
              \/ pc[t] = "wait_empty" /\ pc'[t] = "dequeue"

\* The threads still to be created, which have not started.
Pending ==
    CASE mpc = "scanner" -> Threads
      [] mpc = "loader"  -> {"loader", "sender"}
      [] mpc = "sender"  -> {"sender"}
      [] OTHER           -> {}
NotStarted == \A t \in Pending : pc[t] = "none"

\* What the flags and the locations tell of the threads upstream.
Upstream ==
    /\ scanner_done /\ ~cancelled => pc["scanner"] \in {"success", "cancel"}
    /\ pc["loader"] \in {"finish", "success"} /\ ~cancelled => scanner_done
    /\ loader_done /\ ~cancelled => pc["loader"] = "success"
    /\ pc["sender"] = "null" => loader_done
    /\ pc["sender"] = "tail" =>
         scan_stopped_early \/ pc["scanner"] \in {"success", "cancel", "error"}

\* What the scan has found.
Found ==
    /\ mode \in Modes /\ scanned \in 0..Len(Weight) /\ manifest \subseteq Chunks
    /\ pc["scanner"] \in {"finish", "success"} => scanned = Len(Weight) \/ stop
    /\ pc["scanner"] = "success" => scan_had_io_error = (unread # {})
    /\ mode = "late" => \A c \in 1..scanned : c \in manifest \/ c \in unread
    /\ PreScanned => manifest # {} /\ Chunks \ manifest \subseteq unread

\* The keep-set of an empty source is empty.
KeepSets == Chunks # {} => KeepSetOfScan

KeepInv == DOMAIN pc = Threads /\ NotStarted /\ Upstream /\ Found /\ KeepSets

\* The locations that the conditions wake threads from.
LEMMA GoMoves ==
  ASSUME NEW self, NEW next, NEW signalled,
         signalled \subseteq {not_full_scanner, not_empty_scanner,
                              not_full_loader, not_empty_loader},
         Go(self, next, signalled)
  PROVE  Moves(self, next)
  BY Zenon DEF Go, Moves, Woken, Retest, not_full_scanner, not_empty_scanner, not_full_loader,
     not_empty_loader

\* pipeline_cancel wakes every waiting thread.
LEMMA CancelMoves ==
  ASSUME NEW self, NEW next, pipeline_cancel(self, next)
  PROVE  Moves(self, next) /\ cancelled'
  BY GoMoves, Zenon DEF pipeline_cancel

\* What is left of a set when a proper subset is taken away.
LEMMA SomeLeft ==
    \A S, T : T \subseteq S /\ T # S => S \ T # {} /\ S \ (S \ T) \subseteq T
BY Zenon

\* The invariant of the initial state.
LEMMA KeepInit == Init => KeepInv
<1> SUFFICES ASSUME Init PROVE KeepInv
  BY Zenon
<1> USE SenderAssumption DEF Init, Threads
<1>1. DOMAIN pc = Threads /\ NotStarted /\ Upstream
  BY Zenon DEF NotStarted, Pending, Upstream
<1>2. Found
  <2>1. PreScanned => manifest # {} /\ Chunks \ manifest \subseteq unread
    <3>1. PreScanned => unread \in PreScanMisses /\ manifest = Chunks \ unread
      BY Zenon DEF PreScanned
    <3>2. \A u \in PreScanMisses : u \subseteq Chunks /\ u # Chunks
      BY Zenon DEF Chunks
    <3>3. PreScanned => unread \subseteq Chunks /\ unread # Chunks /\ manifest = Chunks \ unread
      BY <3>1, <3>2, ZenonT(60)
    <3> QED BY <3>3, SomeLeft, ZenonT(60)
  <2>2. manifest \subseteq Chunks
    BY Zenon DEF PreScanned
  <2> QED BY <2>1, <2>2 DEF Found, Chunks
<1>3. KeepSets
  BY Zenon DEF KeepSets, KeepSetOfScan, KeepSetComplete
<1> QED BY <1>1, <1>2, <1>3, Zenon DEF KeepInv

\* A step that leaves the scan alone keeps what is known of it.
LEMMA FoundStays ==
  ASSUME Found, NEW self, NEW next, Moves(self, next),
         self # "scanner" \/ next \notin {"finish", "success"},
         UNCHANGED <<mode, scanVars>>, stop => stop'
  PROVE  Found'
<1>1. pc'["scanner"] \in {"finish", "success"} => pc'["scanner"] = pc["scanner"]
  BY Zenon DEF Moves, Threads
<1> QED BY <1>1, Zenon DEF Found, scanVars, PreScanned

\* A step that sends no keep-set keeps the ones sent complete.
LEMMA KeepSetStays ==
  ASSUME KeepSets, UNCHANGED <<sent_manifest, ignore_errors>>, unread \subseteq unread',
         ScanFailed => ScanFailed'
  PROVE  KeepSets'
  BY Zenon DEF KeepSets, KeepSetOfScan, KeepSetComplete

\* A failed scan stays failed, whichever thread goes on, unless it is the
\* scanner and it has not failed.
LEMMA FailedStays ==
  ASSUME NEW self, NEW next, Moves(self, next),
         self # "scanner" \/ ~ScanFailed \/ next \in {"fail", "cancel", "error"}
  PROVE  ScanFailed => ScanFailed'
  BY Zenon DEF Moves, ScanFailed, Threads

\* A thread that runs was created.
LEMMA StartedStays ==
  ASSUME NotStarted, NEW self \in Threads, NEW next, Moves(self, next), pc[self] # "none",
         UNCHANGED mpc
  PROVE  NotStarted'
  BY Zenon DEF NotStarted, Pending, Moves, Threads

\* The scanner, one action at a time.
LEMMA ScannerKeeps == ASSUME KeepInv, Scanner PROVE KeepInv'
<1> USE SenderAssumption DEF outside, flow, mainVars, wire
<1>0. DOMAIN pc = Threads /\ NotStarted /\ Upstream /\ Found /\ KeepSets
  BY Zenon DEF KeepInv
<1>1. CASE ScanPrepare
  <2>1. /\ pc["scanner"] = "init"
        /\ UNCHANGED <<outside, scanVars, scan_stopped_early, mpc, sent_manifest>>
        /\ \/ Moves("scanner", "next") /\ UNCHANGED done
           \/ Moves("scanner", "error") /\ cancelled' /\ loader_done'
    BY <1>1, GoMoves, CancelMoves, Zenon DEF ScanPrepare, pipeline_cancel
  <2>2. NotStarted' /\ DOMAIN pc' = Threads
    BY <1>0, <2>1, StartedStays, Zenon DEF Threads, Moves
  <2>3. Upstream'
    BY <1>0, <2>1 DEF Upstream, Moves, Threads, done
  <2>4. Found'
    BY <1>0, <2>1, FoundStays, Zenon
  <2>5. KeepSets'
    BY <1>0, <2>1, FailedStays, KeepSetStays, Zenon DEF ScanFailed, scanVars
  <2> QED BY <2>2, <2>3, <2>4, <2>5, Zenon DEF KeepInv
<1>2. CASE ScanNext
  <2>1. /\ pc["scanner"] = "next"
        /\ UNCHANGED <<outside, done, unread, scan_had_io_error, scan_stopped_early, mpc,
                       sent_manifest>>
        /\ scanned < Len(Weight) /\ scanned' = scanned + 1
        /\ manifest' = IF mode = "late" THEN manifest \cup {scanned + 1} ELSE manifest
        /\ Moves("scanner", "enqueue")
    BY <1>2, GoMoves, Zenon DEF ScanNext
  <2>2. NotStarted' /\ DOMAIN pc' = Threads
    BY <1>0, <2>1, StartedStays, Zenon DEF Threads, Moves
  <2>3. Upstream'
    BY <1>0, <2>1, Zenon DEF Upstream, Moves, Threads, done
  <2>4. Found'
    <3>1. scanned + 1 \in Chunks /\ scanned' \in 0..Len(Weight)
      BY <1>0, <2>1 DEF Found, Chunks
    <3>2. \A c \in 1..(scanned + 1) : c \in 1..scanned \/ c = scanned + 1
      BY <1>0 DEF Found
    <3>3. pc'["scanner"] = "enqueue"
      BY <2>1, Zenon DEF Moves, Threads
    <3>4. UNCHANGED <<mode, PreScanned>> /\ (PreScanned => mode # "late")
      BY <2>1, Zenon DEF PreScanned
    <3> QED BY <1>0, <2>1, <3>1, <3>2, <3>3, <3>4, Zenon DEF Found, Chunks
  <2>5. KeepSets'
    BY <1>0, <2>1, FailedStays, KeepSetStays, Zenon DEF ScanFailed
  <2> QED BY <2>2, <2>3, <2>4, <2>5, Zenon DEF KeepInv
<1>3. CASE ScanSkips
  <2>1. /\ pc["scanner"] = "next"
        /\ UNCHANGED <<outside, pc, done, manifest, scan_had_io_error, scan_stopped_early,
                       mpc, sent_manifest>>
        /\ scanned < Len(Weight) /\ scanned' = scanned + 1
        /\ unread' = unread \cup {scanned + 1}
    BY <1>3, Zenon DEF ScanSkips
  <2>2. NotStarted' /\ Upstream'
    BY <1>0, <2>1, Zenon DEF NotStarted, Pending, Upstream, done
  <2>3. Found'
    <3>1. scanned' \in 0..Len(Weight)
      BY <1>0, <2>1 DEF Found
    <3>2. \A c \in 1..(scanned + 1) : c \in 1..scanned \/ c = scanned + 1
      BY <1>0 DEF Found
    <3>3. UNCHANGED <<mode, PreScanned>>
      BY <2>1, Zenon DEF PreScanned
    <3> QED BY <1>0, <2>1, <3>1, <3>2, <3>3, Zenon DEF Found
  <2>4. KeepSets'
    BY <1>0, <2>1, KeepSetStays, Zenon DEF ScanFailed
  <2> QED BY <1>0, <2>1, <2>2, <2>3, <2>4, Zenon DEF KeepInv
<1>4. CASE ScanEnds
  <2>1. /\ pc["scanner"] = "next"
        /\ UNCHANGED <<outside, done, scanVars, scan_stopped_early, mpc, sent_manifest>>
        /\ \/ Moves("scanner", "finish") /\ (scanned = Len(Weight) \/ stop)
           \/ Moves("scanner", "fail")
    BY <1>4, GoMoves, Zenon DEF ScanEnds
  <2>2. NotStarted' /\ DOMAIN pc' = Threads
    BY <1>0, <2>1, StartedStays, Zenon DEF Threads, Moves
  <2>3. Upstream'
    BY <1>0, <2>1, Zenon DEF Upstream, Moves, Threads, done
  <2>4. Found'
    BY <1>0, <2>1, Zenon DEF Found, Moves, Threads, scanVars, PreScanned
  <2>5. KeepSets'
    BY <1>0, <2>1, FailedStays, KeepSetStays, Zenon DEF ScanFailed, scanVars
  <2> QED BY <2>2, <2>3, <2>4, <2>5, Zenon DEF KeepInv
<1>5. CASE ScanEnqueue
  <2>1. /\ pc["scanner"] = "enqueue"
        /\ UNCHANGED <<outside, done, scanVars, scan_stopped_early, mpc, sent_manifest>>
        /\ \E next \in {"fail", "wait_full", "next"} : Moves("scanner", next)
    BY <1>5, GoMoves, Zenon DEF ScanEnqueue
  <2>2. NotStarted' /\ DOMAIN pc' = Threads
    BY <1>0, <2>1, StartedStays, Zenon DEF Threads, Moves
  <2>3. Upstream'
    BY <1>0, <2>1, Zenon DEF Upstream, Moves, Threads, done
  <2>4. Found'
    BY <1>0, <2>1, FoundStays, Zenon
  <2>5. KeepSets'
    BY <1>0, <2>1, FailedStays, KeepSetStays, Zenon DEF ScanFailed, scanVars
  <2> QED BY <2>2, <2>3, <2>4, <2>5, Zenon DEF KeepInv
<1>6. CASE ScanFinish
  <2>1. /\ pc["scanner"] = "finish"
        /\ UNCHANGED <<outside, scanned, unread, manifest, loader_done, cancelled,
                       scan_stopped_early, mpc, sent_manifest>>
        /\ scan_had_io_error' = (unread # {}) /\ Moves("scanner", "success")
    BY <1>6, GoMoves, Zenon DEF ScanFinish
  <2>2. NotStarted' /\ DOMAIN pc' = Threads
    BY <1>0, <2>1, StartedStays, Zenon DEF Threads, Moves
  <2>3. Upstream'
    <3>1. scanner_done' /\ pc'["scanner"] = "success"
      BY <1>6, <2>1, Zenon DEF ScanFinish, Moves, Threads
    <3> QED BY <1>0, <2>1, <3>1, Zenon DEF Upstream, Moves, Threads
  <2>4. Found'
    BY <1>0, <2>1, Zenon DEF Found, Moves, Threads, PreScanned
  <2>5. KeepSets'
    BY <1>0, <2>1, FailedStays, KeepSetStays, Zenon DEF ScanFailed
  <2> QED BY <2>2, <2>3, <2>4, <2>5, Zenon DEF KeepInv
<1>7. CASE ScanFail
  <2>1. /\ UNCHANGED <<outside, scanVars, scan_stopped_early, mpc, sent_manifest>>
        /\ \/ /\ pc["scanner"] = "fail" /\ Moves("scanner", "cancel")
              /\ scanner_done' /\ UNCHANGED <<loader_done, cancelled>>
           \/ pc["scanner"] = "cancel" /\ Moves("scanner", "error") /\ cancelled' /\ loader_done'
    BY <1>7, GoMoves, CancelMoves, Zenon DEF ScanFail, pipeline_cancel
  <2>2. NotStarted' /\ DOMAIN pc' = Threads
    BY <1>0, <2>1, StartedStays, Zenon DEF Threads, Moves
  <2>3. Upstream'
    BY <1>0, <2>1 DEF Upstream, Moves, Threads
  <2>4. Found'
    BY <1>0, <2>1, FoundStays, Zenon
  <2>5. KeepSets'
    BY <1>0, <2>1, FailedStays, KeepSetStays, Zenon DEF scanVars
  <2> QED BY <2>2, <2>3, <2>4, <2>5, Zenon DEF KeepInv
<1> QED BY <1>1, <1>2, <1>3, <1>4, <1>5, <1>6, <1>7, Zenon DEF Scanner

\* The loader.
LEMMA LoaderKeeps == ASSUME KeepInv, Loader PROVE KeepInv'
<1> USE SenderAssumption DEF outside, flow, mainVars, wire
<1>0. DOMAIN pc = Threads /\ NotStarted /\ Upstream /\ Found /\ KeepSets
  BY Zenon DEF KeepInv
<1>1. CASE LoadDequeue
  <2>1. /\ pc["loader"] = "dequeue"
        /\ UNCHANGED <<outside, scanVars, scan_stopped_early, mpc, sent_manifest>>
        /\ \/ Moves("loader", "wait_empty") /\ UNCHANGED done
           \/ Moves("loader", "finish") /\ scanner_done /\ UNCHANGED done
           \/ Moves("loader", "load") /\ UNCHANGED done
    BY <1>1, GoMoves, CancelMoves, Zenon DEF LoadDequeue, Ended
  <2>2. NotStarted' /\ DOMAIN pc' = Threads
    BY <1>0, <2>1, StartedStays, Zenon DEF Threads, Moves
  <2>3. Upstream'
    BY <1>0, <2>1 DEF Upstream, Moves, Threads, done
  <2>4. Found'
    BY <1>0, <2>1, FoundStays, Zenon
  <2>5. KeepSets'
    BY <1>0, <2>1, FailedStays, KeepSetStays, Zenon DEF scanVars
  <2> QED BY <2>2, <2>3, <2>4, <2>5, Zenon DEF KeepInv
<1>2. CASE LoadFinish
  <2>1. /\ pc["loader"] = "finish"
        /\ UNCHANGED <<outside, scanVars, scan_stopped_early, mpc, sent_manifest>>
        /\ \/ Moves("loader", "success")
        /\ UNCHANGED <<scanner_done, cancelled>> /\ loader_done'
    BY <1>2, GoMoves, CancelMoves, Zenon DEF LoadFinish
  <2>2. NotStarted' /\ DOMAIN pc' = Threads
    BY <1>0, <2>1, StartedStays, Zenon DEF Threads, Moves
  <2>3. Upstream'
    BY <1>0, <2>1, Zenon DEF Upstream, Moves, Threads, done
  <2>4. Found'
    BY <1>0, <2>1, FoundStays, Zenon
  <2>5. KeepSets'
    BY <1>0, <2>1, FailedStays, KeepSetStays, Zenon DEF scanVars
  <2> QED BY <2>2, <2>3, <2>4, <2>5, Zenon DEF KeepInv
<1>3. CASE LoadData
  <2>1. /\ pc["loader"] \in {"load", "cancel"}
        /\ UNCHANGED <<outside, scanVars, scan_stopped_early, mpc, sent_manifest>>
        /\ \/ Moves("loader", "enqueue") /\ UNCHANGED done
           \/ Moves("loader", "error") /\ cancelled' /\ loader_done'
    BY <1>3, GoMoves, CancelMoves, Zenon DEF LoadData, pipeline_cancel
  <2>2. NotStarted' /\ DOMAIN pc' = Threads
    BY <1>0, <2>1, StartedStays, Zenon DEF Threads, Moves
  <2>3. Upstream'
    BY <1>0, <2>1 DEF Upstream, Moves, Threads, done
  <2>4. Found'
    BY <1>0, <2>1, FoundStays, Zenon
  <2>5. KeepSets'
    BY <1>0, <2>1, FailedStays, KeepSetStays, Zenon DEF scanVars
  <2> QED BY <2>2, <2>3, <2>4, <2>5, Zenon DEF KeepInv
<1>4. CASE LoadEnqueue
  <2>1. /\ pc["loader"] = "enqueue"
        /\ UNCHANGED <<outside, scanVars, scan_stopped_early, mpc, sent_manifest>>
        /\ \/ Moves("loader", "cancel") /\ UNCHANGED done
           \/ Moves("loader", "wait_full") /\ UNCHANGED done
           \/ Moves("loader", "dequeue") /\ UNCHANGED done
    BY <1>4, GoMoves, CancelMoves, Zenon DEF LoadEnqueue
  <2>2. NotStarted' /\ DOMAIN pc' = Threads
    BY <1>0, <2>1, StartedStays, Zenon DEF Threads, Moves
  <2>3. Upstream'
    BY <1>0, <2>1 DEF Upstream, Moves, Threads, done
  <2>4. Found'
    BY <1>0, <2>1, FoundStays, Zenon
  <2>5. KeepSets'
    BY <1>0, <2>1, FailedStays, KeepSetStays, Zenon DEF scanVars
  <2> QED BY <2>2, <2>3, <2>4, <2>5, Zenon DEF KeepInv
<1> QED BY <1>1, <1>2, <1>3, <1>4, Zenon DEF Loader

\* The keep-set that the completion tail sends.
LEMMA LateKeepSet ==
  ASSUME KeepInv, Chunks # {}, mode = "late", pc["sender"] = "tail", ~ScanStopped,
         ~(scan_had_io_error /\ manifest = {}), ignore_errors_allows_delete, ~ScanFailed
  PROVE  manifest # {} /\ Chunks \ manifest \subseteq unread /\ (manifest # Chunks => ignore_errors)
<1>1. pc["scanner"] = "success"
  BY Zenon DEF KeepInv, Upstream, ScanStopped, ScanFailed
<1>2. scanned = Len(Weight) /\ scan_had_io_error = (unread # {})
  BY <1>1, Zenon DEF KeepInv, Found, ScanStopped
<1>3. \A c \in Chunks : c \in manifest \/ c \in unread
  BY <1>2, Zenon DEF KeepInv, Found, Chunks
<1>4. manifest \subseteq Chunks
  BY Zenon DEF KeepInv, Found
<1> QED BY <1>2, <1>3, <1>4, ZenonT(60) DEF ignore_errors_allows_delete

\* The sender.
LEMMA SenderKeeps == ASSUME KeepInv, Sender PROVE KeepInv'
<1> USE SenderAssumption DEF outside, flow, mainVars, wire
<1>0. DOMAIN pc = Threads /\ NotStarted /\ Upstream /\ Found /\ KeepSets
  BY Zenon DEF KeepInv
<1>1. CASE SendConnect
  <2>1. /\ pc["sender"] = "connect"
        /\ UNCHANGED <<outside, scanVars, scan_stopped_early, mpc>>
        /\ \/ Moves("sender", "loop") /\ UNCHANGED done
           \/ Moves("sender", "error") /\ cancelled' /\ loader_done'
    BY <1>1, GoMoves, CancelMoves, Zenon DEF SendConnect, SendFails, pipeline_cancel
  <2>2. NotStarted' /\ DOMAIN pc' = Threads
    BY <1>0, <2>1, StartedStays, Zenon DEF Threads, Moves
  <2>3. Upstream'
    BY <1>0, <2>1 DEF Upstream, Moves, Threads, done
  <2>4. Found'
    BY <1>0, <2>1, FoundStays, Zenon
  <2>5. KeepSets'
    <3>1. CASE UNCHANGED sent_manifest
      BY <1>0, <2>1, <3>1, FailedStays, KeepSetStays, Zenon DEF scanVars
    <3>2. CASE sent_manifest' = manifest /\ PreScanned /\ ~delete_suppressed
      BY <1>0, <2>1, <3>2, Zenon DEF Found, KeepSets, KeepSetOfScan, KeepSetComplete, delete_suppressed, scanVars
    <3>3. CASE sent_manifest' = NoManifest
      BY <3>3, Zenon DEF KeepSets, KeepSetOfScan, KeepSetComplete
    <3> QED BY <1>1, <3>1, <3>2, <3>3, Zenon DEF SendConnect
  <2> QED BY <2>2, <2>3, <2>4, <2>5, Zenon DEF KeepInv
<1>2. CASE SendLoop
  <2>1. /\ pc["sender"] = "loop"
        /\ UNCHANGED <<outside, scanVars, mpc, sent_manifest>>
        /\ \/ Moves("sender", "error") /\ cancelled' /\ loader_done' /\ UNCHANGED scan_stopped_early
           \/ Moves("sender", "tail") /\ cancelled' /\ loader_done' /\ scan_stopped_early'
           \/ Moves("sender", "dequeue") /\ UNCHANGED <<done, scan_stopped_early>>
    BY <1>2, GoMoves, CancelMoves, Zenon DEF SendLoop, SendFails, pipeline_cancel
  <2>2. NotStarted' /\ DOMAIN pc' = Threads
    BY <1>0, <2>1, StartedStays, Zenon DEF Threads, Moves
  <2>3. Upstream'
    BY <1>0, <2>1 DEF Upstream, Moves, Threads, done
  <2>4. Found'
    BY <1>0, <2>1, FoundStays, Zenon
  <2>5. KeepSets'
    BY <1>0, <2>1, FailedStays, KeepSetStays, Zenon DEF scanVars
  <2> QED BY <2>2, <2>3, <2>4, <2>5, Zenon DEF KeepInv
<1>3. CASE SendDequeue
  <2>1. /\ pc["sender"] = "dequeue"
        /\ UNCHANGED <<outside, scanVars, scan_stopped_early, mpc, sent_manifest>>
        /\ \/ Moves("sender", "wait_empty") /\ UNCHANGED done
           \/ Moves("sender", "null") /\ loader_done /\ UNCHANGED done
           \/ Moves("sender", "send") /\ UNCHANGED done
    BY <1>3, GoMoves, CancelMoves, Zenon DEF SendDequeue, Ended
  <2>2. NotStarted' /\ DOMAIN pc' = Threads
    BY <1>0, <2>1, StartedStays, Zenon DEF Threads, Moves
  <2>3. Upstream'
    BY <1>0, <2>1 DEF Upstream, Moves, Threads, done
  <2>4. Found'
    BY <1>0, <2>1, FoundStays, Zenon
  <2>5. KeepSets'
    BY <1>0, <2>1, FailedStays, KeepSetStays, Zenon DEF scanVars
  <2> QED BY <2>2, <2>3, <2>4, <2>5, Zenon DEF KeepInv
<1>4. CASE SendNull
  <2>1. /\ pc["sender"] = "null"
        /\ UNCHANGED <<outside, scanVars, scan_stopped_early, mpc, sent_manifest>>
        /\ \/ Moves("sender", "error") /\ cancelled' /\ loader_done'
           \/ Moves("sender", "tail") /\ ~cancelled /\ UNCHANGED done
    BY <1>4, GoMoves, CancelMoves, Zenon DEF SendNull, SendFails, ReportsCancel, pipeline_cancel
  <2>2. NotStarted' /\ DOMAIN pc' = Threads
    BY <1>0, <2>1, StartedStays, Zenon DEF Threads, Moves
  <2>3. Upstream'
    <3>1. CASE Moves("sender", "error") /\ cancelled' /\ loader_done'
      BY <1>0, <2>1, <3>1, Zenon DEF Upstream, Moves, Threads
    <3>2. CASE Moves("sender", "tail") /\ ~cancelled /\ UNCHANGED done
      <4>1. pc["loader"] = "success" /\ scanner_done /\ pc["scanner"] \in {"success", "cancel"}
        BY <1>0, <2>1, <3>2, Zenon DEF Upstream
      <4>2. pc'["scanner"] = pc["scanner"] /\ pc'["loader"] = pc["loader"] /\ pc'["sender"] = "tail"
        BY <3>2, <4>1, Zenon DEF Moves, Threads
      <4> QED BY <1>0, <3>2, <4>1, <4>2, Zenon DEF Upstream, done
    <3> QED BY <2>1, <3>1, <3>2, Zenon
  <2>4. Found'
    BY <1>0, <2>1, FoundStays, Zenon
  <2>5. KeepSets'
    BY <1>0, <2>1, FailedStays, KeepSetStays, Zenon DEF scanVars
  <2> QED BY <2>2, <2>3, <2>4, <2>5, Zenon DEF KeepInv
<1>5. CASE SendChunk
  <2>1. /\ pc["sender"] = "send"
        /\ UNCHANGED <<outside, scanVars, scan_stopped_early, mpc, sent_manifest>>
        /\ \/ Moves("sender", "release") /\ UNCHANGED done
           \/ Moves("sender", "error") /\ cancelled' /\ loader_done'
    BY <1>5, GoMoves, CancelMoves, Zenon DEF SendChunk, SendFails, pipeline_cancel
  <2>2. NotStarted' /\ DOMAIN pc' = Threads
    BY <1>0, <2>1, StartedStays, Zenon DEF Threads, Moves
  <2>3. Upstream'
    BY <1>0, <2>1 DEF Upstream, Moves, Threads, done
  <2>4. Found'
    BY <1>0, <2>1, FoundStays, Zenon
  <2>5. KeepSets'
    BY <1>0, <2>1, FailedStays, KeepSetStays, Zenon DEF scanVars
  <2> QED BY <2>2, <2>3, <2>4, <2>5, Zenon DEF KeepInv
<1>6. CASE SendRelease
  <2>1. /\ pc["sender"] = "release"
        /\ UNCHANGED <<outside, scanVars, scan_stopped_early, mpc, sent_manifest>>
        /\ \/ Moves("sender", "loop") /\ UNCHANGED done
    BY <1>6, GoMoves, CancelMoves, Zenon DEF SendRelease
  <2>2. NotStarted' /\ DOMAIN pc' = Threads
    BY <1>0, <2>1, StartedStays, Zenon DEF Threads, Moves
  <2>3. Upstream'
    BY <1>0, <2>1 DEF Upstream, Moves, Threads, done
  <2>4. Found'
    BY <1>0, <2>1, FoundStays, Zenon
  <2>5. KeepSets'
    BY <1>0, <2>1, FailedStays, KeepSetStays, Zenon DEF scanVars
  <2> QED BY <2>2, <2>3, <2>4, <2>5, Zenon DEF KeepInv
<1>7. CASE SendTail
  <2>1. /\ pc["sender"] = "tail"
        /\ UNCHANGED <<outside, scanVars, mpc>>
        /\ \/ Moves("sender", "error") /\ cancelled' /\ loader_done'
           \/ Moves("sender", "finalize") /\ UNCHANGED done
    BY <1>7, GoMoves, CancelMoves, Zenon DEF SendTail, SendFails, pipeline_cancel
  <2>2. NotStarted' /\ DOMAIN pc' = Threads
    BY <1>0, <2>1, StartedStays, Zenon DEF Threads, Moves
  <2>3. Upstream'
    BY <1>0, <2>1 DEF Upstream, Moves, Threads, done
  <2>4. Found'
    BY <1>0, <2>1, FoundStays, Zenon
  <2>5. KeepSets'
    <3>1. CASE UNCHANGED sent_manifest
      BY <1>0, <2>1, <3>1, FailedStays, KeepSetStays, Zenon DEF scanVars
    <3>2. CASE /\ sent_manifest' = manifest /\ mode = "late" /\ ~ScanStopped
               /\ ~(scan_had_io_error /\ manifest = {}) /\ ignore_errors_allows_delete
      <4>1. ScanFailed => ScanFailed'
        BY <2>1, FailedStays, Zenon
      <4> QED BY <2>1, <3>2, <4>1, LateKeepSet, Zenon DEF KeepSets, KeepSetOfScan, KeepSetComplete, scanVars
    <3> QED BY <1>7, <3>1, <3>2, Zenon DEF SendTail
  <2> QED BY <2>2, <2>3, <2>4, <2>5, Zenon DEF KeepInv
<1>8. CASE SendFinalize
  <2>1. /\ pc["sender"] = "finalize"
        /\ UNCHANGED <<outside, scanVars, scan_stopped_early, mpc, sent_manifest>>
        /\ \/ Moves("sender", "success") /\ UNCHANGED done
           \/ Moves("sender", "limit") /\ UNCHANGED done
           \/ Moves("sender", "error") /\ UNCHANGED done
    BY <1>8, GoMoves, Zenon DEF SendFinalize
  <2>2. NotStarted' /\ DOMAIN pc' = Threads
    BY <1>0, <2>1, StartedStays, Zenon DEF Threads, Moves
  <2>3. Upstream'
    BY <1>0, <2>1 DEF Upstream, Moves, Threads, done
  <2>4. Found'
    BY <1>0, <2>1, FoundStays, Zenon
  <2>5. KeepSets'
    BY <1>0, <2>1, FailedStays, KeepSetStays, Zenon DEF scanVars
  <2> QED BY <2>2, <2>3, <2>4, <2>5, Zenon DEF KeepInv
<1> QED BY <1>1, <1>2, <1>3, <1>4, <1>5, <1>6, <1>7, <1>8, Zenon DEF Sender

\* send_files_multithreaded, the deadline, signals and spurious wakeups.
LEMMA RestKeeps ==
  ASSUME KeepInv, CreateThread \/ Join \/ Deadline \/ Interrupt \/ SpuriousWakeup
  PROVE  KeepInv'
<1> USE SenderAssumption DEF outside, flow, mainVars, wire
<1>0. DOMAIN pc = Threads /\ NotStarted /\ Upstream /\ Found /\ KeepSets
  BY Zenon DEF KeepInv
<1>1. CASE CreateThread
  <2>1. /\ UNCHANGED <<outside, scanVars, scan_stopped_early, sent_manifest>> /\ mpc \in Threads
        /\ pc[mpc] = "none"
        /\ \/ Moves(mpc, Entry[mpc]) /\ mpc' = Following[mpc] /\ UNCHANGED done
           \/ Moves("main", "none") /\ mpc' = "join_created" /\ cancelled' /\ loader_done'
    BY <1>0, <1>1, GoMoves, CancelMoves, Zenon
    DEF CreateThread, pipeline_cancel, NotStarted, Pending, Threads
  <2>e. Entry[mpc] \in {"init", "dequeue", "connect"}
    BY <2>1 DEF Entry, Threads
  <2>2. NotStarted' /\ DOMAIN pc' = Threads
    <3>2. \A t \in Threads : t \in Pending' => t \in Pending \ {mpc}
      BY <2>1 DEF Pending, Following, Threads
    <3> QED BY <1>0, <2>1, <3>2, Zenon DEF NotStarted, Moves, Pending, Threads
  <2>3. Upstream'
    BY <1>0, <2>1, <2>e DEF Upstream, Moves, Threads, done
  <2>4. Found'
    BY <1>0, <2>1, <2>e, FoundStays, Zenon
  <2>5. KeepSets'
    BY <1>0, <2>1, FailedStays, KeepSetStays, Zenon DEF scanVars, ScanFailed
  <2> QED BY <2>2, <2>3, <2>4, <2>5, Zenon DEF KeepInv
<1>2. CASE Join \/ Deadline \/ Interrupt
  <2>1. /\ UNCHANGED <<mode, ignore_errors, pc, scanVars, done, scan_stopped_early, sent_manifest>>
        /\ mpc' \in {mpc, "returned"} /\ (stop => stop')
    BY <1>2 DEF Join, Deadline, Interrupt
  <2>2. NotStarted'
    BY <1>0, <2>1, Zenon DEF NotStarted, Pending, Threads
  <2>3. Upstream' /\ Found'
    BY <1>0, <2>1, Zenon DEF Upstream, Found, done, scanVars, PreScanned
  <2>4. KeepSets'
    BY <1>0, <2>1, KeepSetStays, Zenon DEF scanVars, ScanFailed
  <2> QED BY <1>0, <2>1, <2>2, <2>3, <2>4, SMTT(60) DEF KeepInv
<1>3. CASE SpuriousWakeup
  <2>1. /\ UNCHANGED <<outside, scanVars, done, scan_stopped_early, mpc, sent_manifest>>
        /\ \E t \in Threads : pc[t] \in {"wait_full", "wait_empty"} /\
                               (Moves(t, "enqueue") \/ Moves(t, "dequeue"))
    BY <1>0, <1>3 DEF SpuriousWakeup, Moves, Retest
  <2>2. NotStarted' /\ DOMAIN pc' = Threads
    <3>1. PICK t \in Threads, next \in {"enqueue", "dequeue"} :
            pc[t] \in {"wait_full", "wait_empty"} /\ Moves(t, next)
      BY <2>1, Zenon
    <3> QED BY <1>0, <2>1, <3>1, StartedStays, ZenonT(60) DEF Moves
  <2>3. Upstream'
    BY <1>0, <2>1, Zenon DEF Upstream, Moves, Threads, done
  <2>4. Found'
    BY <1>0, <2>1, FoundStays, Zenon
  <2>5. KeepSets'
    BY <1>0, <2>1, FailedStays, KeepSetStays, Zenon DEF scanVars, ScanFailed
  <2> QED BY <2>2, <2>3, <2>4, <2>5, Zenon DEF KeepInv
<1> QED BY <1>1, <1>2, <1>3, Zenon

\* Every step keeps the invariant.
LEMMA KeepStep == ASSUME KeepInv, [Next]_vars PROVE KeepInv'
<1>1. CASE UNCHANGED vars
  BY <1>1 DEF vars, outside, scanVars, done, mainVars, wire, KeepInv, NotStarted, Pending,
     Upstream, Found,
     KeepSets, KeepSetOfScan, KeepSetComplete, ScanFailed, PreScanned
<1>2. CASE ~UNCHANGED vars
  BY <1>2, ScannerKeeps, LoaderKeeps, SenderKeeps, RestKeeps, Zenon DEF Next, Main, Over
<1> QED BY <1>1, <1>2, Zenon

\* send_chunks_multithreaded: for a source of any size, the receiver is never
\* sent a keep-set that lacks what the scan did not come to.
THEOREM KeepSetIsComplete == ASSUME Chunks # {} PROVE Spec => []KeepSetOfScan
<1>1. KeepInv => KeepSetOfScan
  BY Zenon DEF KeepInv, KeepSets
<1> QED BY KeepInit, KeepStep, <1>1, PTL DEF Spec

---------------------------------------------------------------------------
(* What the exit status reports. *)

\* A chunk that was sent and is about to be released is in sent already.
Sending == IF pc["sender"] = "release" THEN 0 ELSE hand["sender"]
Pipe == Line(sent, Sending, queue_loader, hand["loader"], queue_scanner, hand["scanner"])

\* At which locations a thread holds a chunk.  A scanner that fails forgets the
\* one in its hand.
Fits(t, at, c) ==
    /\ t = "scanner" => /\ at \in {"enqueue", "wait_full"} => c # 0
                        /\ at \in {"none", "init", "next", "finish", "success"} => c = 0
    /\ t = "loader"  => (at \in {"load", "enqueue", "wait_full", "cancel"} <=> c # 0)
    /\ t = "sender"  => (at \in {"send", "release"} <=> c # 0)
Hands ==
    /\ DOMAIN hand = Threads /\ \A t \in Threads : hand[t] \in Nat /\ Fits(t, pc[t], hand[t])
    /\ sent \in Nats /\ queue_loader \in Nats /\ queue_scanner \in Nats

\* The chunks between the scan and the connection are in scan order, and none
\* is missing until the loader or the sender has dropped one and failed.
Lost == pc["loader"] = "error" \/ pc["sender"] = "error"
InLine ==
    /\ Rising(Pipe) /\ Range(Pipe) \subseteq 1..scanned
    /\ Lost \/ 1..scanned \subseteq unread \cup Range(Pipe)

\* What is empty where the threads end.
Completing == {"tail", "finalize", "success", "limit"}
Through ==
    \/ scan_stopped_early
    \/ /\ pc["loader"] = "success" /\ queue_loader = <<>>
       /\ ScanFailed \/ (pc["scanner"] = "success" /\ queue_scanner = <<>>)
Drained ==
    /\ pc["loader"] \in {"finish", "success"} /\ ~cancelled => queue_scanner = <<>>
    /\ pc["sender"] = "null" => queue_loader = <<>>
    /\ finished \/ pc["sender"] \in Completing => Through
    /\ pc["sender"] \in {"finalize", "success", "limit"} =>
         scan_stopped_early \/ ScanFailed \/ scanned = Len(Weight)

\* The exit status is that of the joined threads.
Reported ==
    /\ mpc = "returned" => \A t \in Threads : Returned(t)
    /\ exit_code \in {0, 23, 25} =>
         mpc = "returned" /\ pc["sender"] \in {"success", "limit"} /\ exit_code = ExitStatus

LossInv == Hands /\ InLine /\ Drained /\ Reported
LossKept(A) == KeepInv /\ LossInv /\ A => LossInv'

\* The invariant of the initial state.
LEMMA LossInit == Init => LossInv
<1> SUFFICES ASSUME Init PROVE LossInv
  BY Zenon
<1> USE DEF Init, Threads
<1>1. Hands
  <2>1. <<>> \in Nats
    BY EmptySeq, Zenon DEF Nats
  <2> QED BY <2>1 DEF Hands, Fits
<1>2. InLine
  <2>1. Sending = 0 /\ hand["loader"] = 0 /\ hand["scanner"] = 0
    BY Zenon DEF Sending
  <2>2. Rising(<<>>) /\ Range(<<>>) = {} /\ 1..0 = {} /\ <<>> \in Nats
    BY DEF Rising, Range, Nats
  <2>3. One(0) = <<>> /\ <<>> ++ <<>> = <<>>
    BY <2>2, OneHeld, Joined, Zenon
  <2>4. Pipe = <<>>
    BY <2>1, <2>3, Zenon DEF Pipe, Line
  <2> QED BY <2>2, <2>4, Zenon DEF InLine
<1>3. Drained
  BY Zenon DEF Drained, Through, Completing
<1>4. Reported
  BY DEF Reported
<1> QED BY <1>1, <1>2, <1>3, <1>4, Zenon DEF LossInv

\* Hands, when one thread goes on and changes what it holds.
LEMMA HandsMove ==
  ASSUME Hands, NEW self \in Threads \cup {"main"}, NEW next, Moves(self, next),
         DOMAIN hand' = Threads, \A t \in Threads \ {self} : hand'[t] = hand[t],
         self \in Threads => hand'[self] \in Nat /\ Fits(self, next, hand'[self]),
         sent' \in Nats, queue_loader' \in Nats, queue_scanner' \in Nats
  PROVE  Hands'
<1>1. ASSUME NEW t \in Threads PROVE hand'[t] \in Nat /\ Fits(t, pc'[t], hand'[t])
  <2>1. CASE t = self
    BY <2>1, Zenon DEF Moves
  <2>2. CASE t # self
    <3>1. hand'[t] = hand[t] /\ hand[t] \in Nat /\ Fits(t, pc[t], hand[t])
      BY <2>2, Zenon DEF Hands
    <3>2. \/ pc'[t] = pc[t] \/ (pc[t] = "wait_full" /\ pc'[t] = "enqueue")
          \/ (pc[t] = "wait_empty" /\ pc'[t] = "dequeue")
      BY <2>2, Zenon DEF Moves
    <3>3. \A c : /\ Fits(t, "wait_full", c) => Fits(t, "enqueue", c)
                 /\ Fits(t, "wait_empty", c) => Fits(t, "dequeue", c)
      BY Zenon DEF Fits
    <3> QED BY <3>1, <3>2, <3>3, Zenon
  <2> QED BY <2>1, <2>2, Zenon
<1> QED BY <1>1, Zenon DEF Hands

\* The sender's hand, when another thread goes on.
LEMMA SendingStays ==
  ASSUME NEW self, self # "sender", NEW next, Moves(self, next), hand'["sender"] = hand["sender"]
  PROVE  Sending' = Sending
<1>1. pc'["sender"] = "release" <=> pc["sender"] = "release"
  BY Zenon DEF Moves, Threads
<1> QED BY <1>1, Zenon DEF Sending

\* A line that no step cuts.
LEMMA InLineStays ==
  ASSUME InLine, Pipe' = Pipe, UNCHANGED <<scanned, unread>>, Lost => Lost'
  PROVE  InLine'
  BY Zenon DEF InLine

(* What is lost stays lost. *)
LEMMA LostStays ==
  ASSUME NEW self, NEW next, Moves(self, next), self \in {"loader", "sender"} => pc[self] # "error"
  PROVE  Lost => Lost'
  BY Zenon DEF Lost, Moves, Threads

\* A thread that goes on has not returned.
LEMMA ReportedStays ==
  ASSUME Reported, NEW self \in Threads, ~Returned(self), UNCHANGED mainVars
  PROVE  Reported'
  BY Zenon DEF Reported, mainVars

\* The scanner's steps leave what is drained alone: they add to its queue only
\* while the loader is behind it.
LEMMA ScannerDrains ==
  ASSUME KeepInv, Drained, NEW next, Moves("scanner", next), pc["scanner"] # "success",
         ScanFailed => next \in {"fail", "cancel", "error"}, cancelled => cancelled',
         UNCHANGED <<queue_loader, scan_stopped_early, finished>>,
         \/ UNCHANGED queue_scanner
         \/ pc["scanner"] = "enqueue" /\ ~cancelled
  PROVE  Drained'
<1>1. /\ pc'["loader"] \in {"finish", "success"} => pc'["loader"] = pc["loader"]
      /\ pc["loader"] = "success" => pc'["loader"] = "success"
      /\ pc'["sender"] \in Completing \cup {"null"} => pc'["sender"] = pc["sender"]
  BY Zenon DEF Moves, Threads, Completing
<1>2. ScanFailed => ScanFailed'
  BY FailedStays, Zenon
<1>3. pc["scanner"] = "enqueue" /\ ~cancelled => pc["loader"] \notin {"finish", "success"}
  BY Zenon DEF KeepInv, Upstream
<1>4. finished' \/ pc'["sender"] \in Completing =>
        scan_stopped_early' \/ (pc'["loader"] = "success" /\ queue_loader' = <<>> /\ ScanFailed')
  BY <1>1, <1>2, Zenon DEF Drained, Through
<1>5. pc'["sender"] \in {"finalize", "success", "limit"} => scan_stopped_early' \/ ScanFailed'
  BY <1>4, Zenon DEF Completing
<1>6. pc'["loader"] \in {"finish", "success"} /\ ~cancelled' => queue_scanner' = <<>>
  BY <1>1, <1>3, Zenon DEF Drained, Through
<1>7. pc'["sender"] = "null" => queue_loader' = <<>>
  BY <1>1, Zenon DEF Drained, Through
<1> QED BY <1>4, <1>5, <1>6, <1>7, Zenon DEF Drained, Through

\* The steps of a thread that pass no chunk on.
LEMMA QuietLine ==
  ASSUME LossInv, NEW self \in Threads \cup {"main"}, NEW next, Moves(self, next),
         self \in Threads => pc[self] # "error" /\ Fits(self, next, hand[self]),
         self = "sender" => hand[self] = 0,
         UNCHANGED <<hand, sent, queue_loader, queue_scanner, scanned, unread>>
  PROVE  Hands' /\ InLine'
<1>1. Hands'
  <2>1. self \in Threads => hand'[self] \in Nat /\ Fits(self, next, hand'[self])
    BY Zenon DEF LossInv, Hands
  <2>2. /\ DOMAIN hand' = Threads /\ \A t \in Threads \ {self} : hand'[t] = hand[t]
        /\ sent' \in Nats /\ queue_loader' \in Nats /\ queue_scanner' \in Nats
    BY Zenon DEF LossInv, Hands
  <2> QED BY <2>1, <2>2, HandsMove, Zenon DEF LossInv
<1>2. Sending' = Sending
  <2>1. CASE self = "sender"
    BY <2>1, Zenon DEF Sending
  <2>2. CASE self # "sender"
    BY <2>2, SendingStays, Zenon
  <2> QED BY <2>1, <2>2, Zenon
<1>3. Pipe' = Pipe
  BY <1>2, Zenon DEF Pipe
<1>4. Lost => Lost'
  BY LostStays, Zenon DEF Threads
<1> QED BY <1>1, <1>3, <1>4, InLineStays, Zenon DEF LossInv

\* The scanner, one action at a time.
LEMMA ScannerLoses == LossKept(Scanner)
<1> SUFFICES ASSUME KeepInv, LossInv, Scanner PROVE LossInv'
  BY Zenon DEF LossKept
<1> USE DEF outside, flow, mainVars, wire
<1>0. Drained /\ Reported /\ Hands /\ "scanner" \in Threads
  BY Zenon DEF LossInv, Threads
<1>1. ASSUME NEW at, NEW next, pc["scanner"] = at, at \in {"init", "next", "enqueue", "finish", "fail", "cancel"},
             \/ at = "init" /\ next \in {"next", "error"}
             \/ at = "next" /\ next \in {"finish", "fail"}
             \/ at = "enqueue" /\ next \in {"fail", "wait_full"}
             \/ at = "finish" /\ next = "success"
             \/ at = "fail" /\ next = "cancel"
             \/ at = "cancel" /\ next = "error",
             Moves("scanner", next), cancelled => cancelled',
             UNCHANGED <<hand, flow, scanned, unread, scan_stopped_early, mainVars, wire>>
      PROVE  LossInv'
  <2>1. Fits("scanner", next, hand["scanner"])
    BY <1>0, <1>1, Zenon DEF Hands, Fits
  <2>2. Hands' /\ InLine'
    BY <1>0, <1>1, <2>1, QuietLine, Zenon
  <2>3. Drained'
    BY <1>0, <1>1, ScannerDrains, Zenon DEF ScanFailed
  <2>4. Reported'
    BY <1>0, <1>1, ReportedStays, Zenon DEF Returned
  <2> QED BY <2>2, <2>3, <2>4, Zenon DEF LossInv
<1>2. CASE ScanPrepare
  <2>1. (Moves("scanner", "next") /\ UNCHANGED done) \/ (Moves("scanner", "error") /\ cancelled')
    BY <1>2, GoMoves, CancelMoves, Zenon DEF ScanPrepare
  <2>2. pc["scanner"] = "init" /\ UNCHANGED <<hand, flow, scanned, unread, scan_stopped_early, mainVars, wire>>
    BY <1>2, Zenon DEF ScanPrepare, scanVars
  <2>3. cancelled => cancelled'
    BY <2>1, Zenon DEF done
  <2> QED BY <1>1, <2>1, <2>2, <2>3, Zenon
<1>3. CASE ScanNext
  <2>1. /\ pc["scanner"] = "next" /\ Moves("scanner", "enqueue") /\ scanned' = scanned + 1
        /\ hand' = [hand EXCEPT !["scanner"] = scanned + 1]
        /\ UNCHANGED <<unread, flow, done, scan_stopped_early, mainVars, wire>>
    BY <1>3, GoMoves, Zenon DEF ScanNext
  <2>2. scanned \in Nat /\ scanned + 1 \in Nat \ {0} /\ 1..(scanned + 1) = 1..scanned \cup {scanned + 1}
    BY SenderAssumption DEF KeepInv, Found
  <2>3. Hands'
    <3>1. DOMAIN hand' = Threads /\ hand'["scanner"] = scanned + 1 /\ \A t \in Threads \ {"scanner"} : hand'[t] = hand[t]
      BY <1>0, <2>1, Zenon DEF Hands
    <3>2. Fits("scanner", "enqueue", scanned + 1)
      BY <2>2, Zenon DEF Fits
    <3> QED BY <1>0, <2>1, <2>2, <3>1, <3>2, HandsMove, Zenon DEF Hands
  <2>4. InLine'
    <3>1. hand["scanner"] = 0
      BY <1>0, <2>1, Zenon DEF Hands, Fits
    <3>2. hand'["sender"] = hand["sender"] /\ hand'["loader"] = hand["loader"] /\ hand'["scanner"] = scanned + 1
      BY <1>0, <2>1, Zenon DEF Hands, Threads
    <3>3. Sending' = Sending /\ Sending \in Nat
      BY <1>0, <2>1, <3>2, SendingStays, Zenon DEF Hands, Sending, Threads
    <3>4. /\ Pipe = Line(sent, Sending, queue_loader, hand["loader"], queue_scanner, 0)
          /\ Pipe' = Line(sent, Sending, queue_loader, hand["loader"], queue_scanner, scanned + 1)
      BY <2>1, <3>1, <3>2, <3>3, Zenon DEF Pipe
    <3>5. \A x \in Range(Pipe) : x < scanned + 1
      <4>1. Range(Pipe) \subseteq 1..scanned
        BY Zenon DEF LossInv, InLine
      <4> QED BY <2>2, <4>1
    <3>6. Rising(Pipe) /\ hand["loader"] \in Nat /\ sent \in Nats /\ queue_loader \in Nats /\ queue_scanner \in Nats
      BY <1>0, Zenon DEF LossInv, InLine, Hands, Threads
    <3>7. Rising(Pipe') /\ Range(Pipe') = Range(Pipe) \cup {scanned + 1}
      BY <2>2, <3>3, <3>4, <3>5, <3>6, LineGrows
    <3>8. Lost => Lost'
      BY <2>1, LostStays, Zenon
    <3>9. Range(Pipe) \subseteq 1..scanned /\ (Lost \/ 1..scanned \subseteq unread \cup Range(Pipe))
      BY Zenon DEF LossInv, InLine
    <3> QED BY <2>1, <2>2, <3>7, <3>8, <3>9, Zenon DEF InLine
  <2>5. Drained'
    BY <1>0, <2>1, ScannerDrains, Zenon DEF ScanFailed, done
  <2>6. Reported'
    BY <1>0, <2>1, ReportedStays, Zenon DEF Returned
  <2> QED BY <2>3, <2>4, <2>5, <2>6, Zenon DEF LossInv
<1>4. CASE ScanSkips
  <2>1. /\ pc["scanner"] = "next" /\ scanned' = scanned + 1 /\ unread' = unread \cup {scanned + 1}
        /\ UNCHANGED <<pc, hand, flow, done, scan_stopped_early, mainVars, wire>>
    BY <1>4, Zenon DEF ScanSkips
  <2>2. scanned \in Nat /\ 1..(scanned + 1) = 1..scanned \cup {scanned + 1}
    BY SenderAssumption DEF KeepInv, Found
  <2>3. Hands'
    BY <1>0, <2>1, Zenon DEF Hands
  <2>4. InLine'
    <3>1. Pipe' = Pipe /\ Lost' = Lost
      BY <2>1, Zenon DEF Pipe, Sending, Lost
    <3>2. Rising(Pipe) /\ Range(Pipe) \subseteq 1..scanned /\ (Lost \/ 1..scanned \subseteq unread \cup Range(Pipe))
      BY Zenon DEF LossInv, InLine
    <3> QED BY <2>1, <2>2, <3>1, <3>2, Zenon DEF InLine
  <2>5. Drained'
    <3>1. ~ScanFailed /\ pc["scanner"] # "success"
      BY <2>1, Zenon DEF ScanFailed
    <3> QED BY <1>0, <2>1, <3>1, Zenon DEF Drained, Through, done, Completing
  <2>6. Reported'
    BY <1>0, <2>1, ReportedStays, Zenon DEF Returned
  <2> QED BY <2>3, <2>4, <2>5, <2>6, Zenon DEF LossInv
<1>5. CASE ScanEnds
  <2>1. \E next \in {"finish", "fail"} : Moves("scanner", next)
    BY <1>5, GoMoves, Zenon DEF ScanEnds
  <2> QED BY <1>1, <1>5, <2>1, Zenon DEF ScanEnds, scanVars, done
<1>6. CASE ScanEnqueue
  <2>1. CASE UNCHANGED <<queue_scanner, hand>>
    <3>1. \E next \in {"fail", "wait_full"} : Moves("scanner", next)
      BY <1>0, <1>6, <2>1, GoMoves, Zenon DEF ScanEnqueue, Hands, Fits
    <3> QED BY <1>1, <1>6, <2>1, <3>1, Zenon DEF ScanEnqueue, scanVars, done
  <2>2. CASE ~UNCHANGED <<queue_scanner, hand>>
    <3>1. /\ pc["scanner"] = "enqueue" /\ ~cancelled /\ Moves("scanner", "next")
          /\ queue_scanner' = Append(queue_scanner, hand["scanner"])
          /\ hand' = [hand EXCEPT !["scanner"] = 0]
          /\ UNCHANGED <<scanVars, queue_loader, done, scan_stopped_early, mainVars, wire>>
      BY <1>6, <2>2, GoMoves, Zenon DEF ScanEnqueue
    <3>2. hand["scanner"] \in Nat /\ hand["scanner"] # 0 /\ queue_scanner \in Nats
      BY <1>0, <3>1, Zenon DEF Hands, Fits
    <3>3. queue_scanner' \in Nats
      BY <3>1, <3>2, AppendProperties, Zenon DEF Nats
    <3>4. DOMAIN hand' = Threads /\ hand'["scanner"] = 0 /\ \A t \in Threads \ {"scanner"} : hand'[t] = hand[t]
      BY <1>0, <3>1, Zenon DEF Hands
    <3>5. Hands'
      <4>1. Fits("scanner", "next", 0) /\ 0 \in Nat
        BY DEF Fits
      <4> QED BY <1>0, <3>1, <3>3, <3>4, <4>1, HandsMove, Zenon DEF Hands
    <3>6. InLine'
      <4>1. hand'["sender"] = hand["sender"] /\ hand'["loader"] = hand["loader"] /\ hand["loader"] \in Nat
        BY <1>0, <3>4, Zenon DEF Hands, Threads
      <4>2. Sending' = Sending /\ Sending \in Nat
        BY <1>0, <3>1, <4>1, SendingStays, Zenon DEF Hands, Sending, Threads
      <4>3. Pipe' = Line(sent, Sending, queue_loader, hand["loader"], Added(queue_scanner, hand["scanner"]), 0)
        BY <3>1, <3>4, <4>1, <4>2, Zenon DEF Pipe, Added
      <4>4. Pipe' = Pipe
        <5>1. sent \in Nats /\ queue_loader \in Nats
          BY <1>0, Zenon DEF Hands
        <5>2. Pipe = Line(sent, Sending, queue_loader, hand["loader"], queue_scanner, hand["scanner"])
          BY Zenon DEF Pipe
        <5> QED BY <3>2, <4>1, <4>2, <4>3, <5>1, <5>2, LineQueued
      <4>5. Lost => Lost'
        BY <3>1, LostStays, Zenon
      <4> QED BY <3>1, <4>4, <4>5, InLineStays, Zenon DEF LossInv, scanVars
    <3>7. Drained'
      BY <1>0, <3>1, ScannerDrains, Zenon DEF ScanFailed, done
    <3>8. Reported'
      BY <1>0, <3>1, ReportedStays, Zenon DEF Returned
    <3> QED BY <3>5, <3>6, <3>7, <3>8, Zenon DEF LossInv
  <2> QED BY <2>1, <2>2, Zenon
<1>7. CASE ScanFinish
  <2>1. Moves("scanner", "success")
    BY <1>7, GoMoves, Zenon DEF ScanFinish
  <2> QED BY <1>1, <1>7, <2>1, Zenon DEF ScanFinish
<1>8. CASE ScanFail
  <2>1. \/ pc["scanner"] = "fail" /\ Moves("scanner", "cancel") /\ (cancelled => cancelled')
        \/ pc["scanner"] = "cancel" /\ Moves("scanner", "error") /\ (cancelled => cancelled')
    BY <1>8, GoMoves, CancelMoves, Zenon DEF ScanFail
  <2> QED BY <1>1, <1>8, <2>1, Zenon DEF ScanFail, scanVars
<1> QED BY <1>2, <1>3, <1>4, <1>5, <1>6, <1>7, <1>8, Zenon DEF Scanner


\* The loader's steps leave what is drained alone: they add to its queue only
\* while the sender has not found it at its end.
LEMMA LoaderDrains ==
  ASSUME KeepInv, Drained, NEW next, Moves("loader", next), pc["loader"] # "success",
         cancelled => cancelled', UNCHANGED <<scanned, scan_stopped_early, finished>>,
         next \in {"finish", "success"} /\ ~cancelled' => queue_scanner' = <<>>,
         \/ UNCHANGED queue_loader
         \/ ~cancelled
  PROVE  Drained'
<1>1. /\ pc'["loader"] = next
      /\ pc'["sender"] \in Completing \cup {"null"} => pc'["sender"] = pc["sender"]
  BY Zenon DEF Moves, Threads, Completing
<1>2. pc["sender"] = "null" => cancelled
  BY Zenon DEF KeepInv, Upstream
<1>3. finished' \/ pc'["sender"] \in Completing => scan_stopped_early'
  BY <1>1, Zenon DEF Drained, Through
<1>4. pc'["sender"] \in {"finalize", "success", "limit"} => scan_stopped_early'
  BY <1>3, Zenon DEF Completing
<1>5. pc'["sender"] = "null" => queue_loader' = <<>>
  BY <1>1, <1>2, Zenon DEF Drained, Through
<1> QED BY <1>1, <1>3, <1>4, <1>5, Zenon DEF Drained, Through

\* The loader, one action at a time.
LEMMA LoaderLoses == LossKept(Loader)
<1> SUFFICES ASSUME KeepInv, LossInv, Loader PROVE LossInv'
  BY Zenon DEF LossKept
<1> USE DEF outside, flow, mainVars, wire
<1>0. Drained /\ Reported /\ Hands /\ InLine /\ "loader" \in Threads
  BY Zenon DEF LossInv, Threads
<1>h. /\ sent \in Nats /\ queue_loader \in Nats /\ queue_scanner \in Nats
      /\ hand["loader"] \in Nat /\ hand["scanner"] \in Nat /\ hand["sender"] \in Nat /\ DOMAIN hand = Threads
      /\ Fits("loader", pc["loader"], hand["loader"])
  BY <1>0, Zenon DEF Hands, Threads
<1>s. Sending \in Nat
  BY <1>h DEF Sending
<1>p. Pipe = Line(sent, Sending, queue_loader, hand["loader"], queue_scanner, hand["scanner"])
  BY Zenon DEF Pipe
<1>1. ASSUME NEW next, ~Returned("loader"), Fits("loader", next, hand["loader"]),
             Moves("loader", next), cancelled => cancelled',
             next \in {"finish", "success"} /\ ~cancelled' => queue_scanner = <<>>,
             UNCHANGED <<hand, flow, scanned, unread, scan_stopped_early, mainVars, wire>>
      PROVE  LossInv'
  <2>1. pc["loader"] # "error" /\ pc["loader"] # "success"
    BY <1>1, Zenon DEF Returned
  <2>2. Hands' /\ InLine'
    BY <1>0, <1>1, <2>1, QuietLine, Zenon
  <2>3. Drained'
    BY <1>0, <1>1, <2>1, LoaderDrains, Zenon
  <2>4. Reported'
    BY <1>0, <1>1, ReportedStays, Zenon
  <2> QED BY <2>2, <2>3, <2>4, Zenon DEF LossInv
<1>2. CASE LoadDequeue
  <2>1. pc["loader"] = "dequeue" /\ hand["loader"] = 0 /\ ~Returned("loader")
    BY <1>2, <1>h, Zenon DEF LoadDequeue, Fits, Returned
  <2>2. UNCHANGED <<scanned, unread, queue_loader, queued_bytes, done, scan_stopped_early, mainVars, wire>>
    BY <1>2, Zenon DEF LoadDequeue, scanVars
  <2>3. CASE UNCHANGED <<queue_scanner, hand>>
    <3>1. PICK next \in {"wait_empty", "finish"} : Moves("loader", next) /\ (next = "finish" => queue_scanner = <<>>)
      <4>1. \/ Moves("loader", "wait_empty")
            \/ Moves("loader", "finish") /\ queue_scanner = <<>>
            \/ Moves("loader", "load") /\ hand' = [hand EXCEPT !["loader"] = Head(queue_scanner)]
               /\ queue_scanner' = Tail(queue_scanner) /\ queue_scanner # <<>>
        BY <1>2, GoMoves, Zenon DEF LoadDequeue, Ended
      <4>2. queue_scanner # <<>> => Tail(queue_scanner) # queue_scanner
        BY <1>h DEF Nats
      <4> QED BY <2>3, <4>1, <4>2, Zenon
    <3>2. Fits("loader", next, hand["loader"])
      BY <2>1, Zenon DEF Fits
    <3> QED BY <1>1, <2>1, <2>2, <2>3, <3>1, <3>2, Zenon DEF done
  <2>4. CASE ~UNCHANGED <<queue_scanner, hand>>
    <3> DEFINE c == First(queue_scanner)
    <3>1. /\ queue_scanner # <<>> /\ Moves("loader", "load")
          /\ queue_scanner' = Rest(queue_scanner) /\ hand' = [hand EXCEPT !["loader"] = c]
      BY <1>2, <2>4, GoMoves, Zenon DEF LoadDequeue, First, Rest
    <3>2. c \in Nat /\ c \in Range(queue_scanner) /\ queue_scanner' \in Nats
      BY <1>h, <3>1, Queue, Zenon
    <3>3. c # 0
      <4>1. c \in Range(Pipe)
        BY <1>h, <1>s, <1>p, <3>2, LineHolds
      <4>2. Range(Pipe) \subseteq 1..scanned
        BY <1>0, Zenon DEF InLine
      <4> QED BY <4>1, <4>2
    <3> HIDE DEF c
    <3>4. DOMAIN hand' = Threads /\ hand'["loader"] = c /\ \A t \in Threads \ {"loader"} : hand'[t] = hand[t]
      BY <1>h, <3>1, Zenon DEF Threads
    <3>5. Hands'
      <4>1. Fits("loader", "load", c)
        BY <3>3, Zenon DEF Fits
      <4> QED BY <1>0, <1>h, <2>2, <3>1, <3>2, <3>4, <4>1, HandsMove, Zenon
    <3>6. InLine'
      <4>1. hand'["sender"] = hand["sender"] /\ hand'["scanner"] = hand["scanner"]
        BY <3>4, Zenon DEF Threads
      <4>2. Sending' = Sending
        BY <3>1, <4>1, SendingStays, Zenon
      <4>3. Pipe' = Line(sent, Sending, queue_loader, c, Rest(queue_scanner), hand["scanner"])
        BY <2>2, <3>1, <3>4, <4>1, <4>2, Zenon DEF Pipe
      <4>4. Pipe' = Pipe
        BY <1>h, <1>s, <1>p, <2>1, <3>1, <3>3, <4>3, LineFetched DEF c
      <4>5. Lost => Lost'
        BY <2>1, <3>1, LostStays, Zenon
      <4> QED BY <1>0, <2>2, <4>4, <4>5, InLineStays, Zenon
    <3>7. Drained'
      BY <1>0, <2>1, <2>2, <3>1, LoaderDrains, Zenon DEF done
    <3>8. Reported'
      BY <1>0, <2>1, <2>2, ReportedStays, Zenon
    <3> QED BY <3>5, <3>6, <3>7, <3>8, Zenon DEF LossInv
  <2> QED BY <2>3, <2>4, Zenon
<1>3. CASE LoadFinish
  <2>1. pc["loader"] = "finish" /\ Moves("loader", "success") /\ ~Returned("loader")
    BY <1>3, GoMoves, Zenon DEF LoadFinish, Returned
  <2>2. Fits("loader", "success", hand["loader"])
    BY <1>h, <2>1, Zenon DEF Fits
  <2>3. ~cancelled => queue_scanner = <<>>
    BY <1>0, <2>1, Zenon DEF Drained, Through
  <2> QED BY <1>1, <1>3, <2>1, <2>2, <2>3, Zenon DEF LoadFinish, scanVars
<1>4. CASE LoadData
  <2>1. UNCHANGED <<scanned, unread, flow, scan_stopped_early, mainVars, wire>>
    BY <1>4, Zenon DEF LoadData, scanVars
  <2>2. pc["loader"] \in {"load", "cancel"} /\ ~Returned("loader")
    BY <1>4, Zenon DEF LoadData, Returned
  <2>3. CASE pc["loader"] = "load" /\ Go("loader", "enqueue", {}) /\ UNCHANGED <<hand, done>>
    <3>1. Moves("loader", "enqueue") /\ Fits("loader", "enqueue", hand["loader"])
      BY <1>h, <2>3, GoMoves, Zenon DEF Fits
    <3> QED BY <1>1, <2>1, <2>2, <2>3, <3>1, Zenon DEF done
  <2>4. CASE hand' = [hand EXCEPT !["loader"] = 0] /\ pipeline_cancel("loader", "error")
    <3>1. Moves("loader", "error") /\ cancelled'
      BY <2>4, CancelMoves, Zenon
    <3>2. DOMAIN hand' = Threads /\ hand'["loader"] = 0 /\ \A t \in Threads \ {"loader"} : hand'[t] = hand[t]
      BY <1>h, <2>4, Zenon DEF Threads
    <3>3. Hands'
      <4>1. Fits("loader", "error", 0) /\ 0 \in Nat
        BY DEF Fits
      <4> QED BY <1>0, <1>h, <2>1, <3>1, <3>2, <4>1, HandsMove, Zenon
    <3>4. InLine'
      <4>1. hand'["sender"] = hand["sender"] /\ hand'["scanner"] = hand["scanner"]
        BY <3>2, Zenon DEF Threads
      <4>2. Sending' = Sending
        BY <3>1, <4>1, SendingStays, Zenon
      <4>3. Pipe' = Line(sent, Sending, queue_loader, 0, queue_scanner, hand["scanner"])
        BY <2>1, <3>2, <4>1, <4>2, Zenon DEF Pipe
      <4>4. Rising(Pipe') /\ Range(Pipe') \subseteq Range(Pipe)
        BY <1>0, <1>h, <1>s, <1>p, <4>3, LineDrops DEF InLine
      <4>5. Lost'
        BY <3>1, Zenon DEF Lost, Moves, Threads
      <4> QED BY <1>0, <2>1, <4>4, <4>5, Zenon DEF InLine
    <3>5. Drained'
      BY <1>0, <2>1, <2>2, <3>1, LoaderDrains, Zenon
    <3>6. Reported'
      BY <1>0, <2>1, <2>2, ReportedStays, Zenon
    <3> QED BY <3>3, <3>4, <3>5, <3>6, Zenon DEF LossInv
  <2> QED BY <1>4, <2>3, <2>4, Zenon DEF LoadData
<1>5. CASE LoadEnqueue
  <2>1. /\ UNCHANGED <<scanned, unread, queue_scanner, done, scan_stopped_early, mainVars, wire>>
        /\ pc["loader"] = "enqueue" /\ ~Returned("loader") /\ hand["loader"] # 0
    BY <1>5, <1>h, Zenon DEF LoadEnqueue, scanVars, Returned, Fits
  <2>2. \/ /\ Moves("loader", "cancel") \/ Moves("loader", "wait_full")
           /\ UNCHANGED <<queue_loader, queued_bytes, hand>>
        \/ /\ ~cancelled /\ queue_loader' = Added(queue_loader, hand["loader"])
           /\ hand' = [hand EXCEPT !["loader"] = 0] /\ Moves("loader", "dequeue")
    BY <1>5, GoMoves, Zenon DEF LoadEnqueue, Enqueued, Added, MayAdmit
  <2>3. CASE /\ Moves("loader", "cancel") \/ Moves("loader", "wait_full")
             /\ UNCHANGED <<queue_loader, queued_bytes, hand>>
    <3>1. Fits("loader", "cancel", hand["loader"]) /\ Fits("loader", "wait_full", hand["loader"])
      BY <2>1, Zenon DEF Fits
    <3> QED BY <1>1, <2>1, <2>3, <3>1, Zenon DEF done
  <2>4. CASE /\ ~cancelled /\ queue_loader' = Added(queue_loader, hand["loader"])
             /\ hand' = [hand EXCEPT !["loader"] = 0] /\ Moves("loader", "dequeue")
    <3>1. DOMAIN hand' = Threads /\ hand'["loader"] = 0 /\ \A t \in Threads \ {"loader"} : hand'[t] = hand[t]
      BY <1>h, <2>4, Zenon DEF Threads
    <3>2. Hands'
      <4>1. Fits("loader", "dequeue", 0) /\ 0 \in Nat
        BY DEF Fits
      <4>2. queue_loader' \in Nats
        BY <1>h, <2>4, Queue, Zenon
      <4> QED BY <1>0, <1>h, <2>1, <2>4, <3>1, <4>1, <4>2, HandsMove, Zenon
    <3>3. InLine'
      <4>1. hand'["sender"] = hand["sender"] /\ hand'["scanner"] = hand["scanner"]
        BY <3>1, Zenon DEF Threads
      <4>2. Sending' = Sending
        BY <2>4, <4>1, SendingStays, Zenon
      <4>3. Pipe' = Line(sent, Sending, Added(queue_loader, hand["loader"]), 0, queue_scanner, hand["scanner"])
        BY <2>1, <2>4, <3>1, <4>1, <4>2, Zenon DEF Pipe
      <4>4. Pipe' = Pipe
        BY <1>h, <1>s, <1>p, <2>1, <4>3, LineLoaded
      <4>5. Lost => Lost'
        BY <2>1, <2>4, LostStays, Zenon
      <4> QED BY <1>0, <2>1, <4>4, <4>5, InLineStays, Zenon
    <3>4. Drained'
      BY <1>0, <2>1, <2>4, LoaderDrains, Zenon DEF done
    <3>5. Reported'
      BY <1>0, <2>1, ReportedStays, Zenon
    <3> QED BY <3>2, <3>3, <3>4, <3>5, Zenon DEF LossInv
  <2> QED BY <2>2, <2>3, <2>4, Zenon
<1> QED BY <1>2, <1>3, <1>4, <1>5, Zenon DEF Loader

\* The sender's steps, given that it goes on to the completion tail only when
\* everything went through or the deadline has passed.
LEMMA SenderDrains ==
  ASSUME Drained, NEW next, Moves("sender", next), cancelled => cancelled',
         UNCHANGED <<queue_scanner, scanned>>, scan_stopped_early => scan_stopped_early',
         UNCHANGED queue_loader \/ queue_loader # <<>>,
         next = "null" => queue_loader' = <<>>,
         finished' \/ next \in Completing => finished \/ pc["sender"] \in Completing \/ scan_stopped_early' \/ Through,
         next \in {"finalize", "success", "limit"} => scan_stopped_early' \/ ScanFailed \/ scanned = Len(Weight)
  PROVE  Drained'
<1>1. /\ pc'["sender"] = next
      /\ pc'["loader"] \in {"finish", "success"} => pc'["loader"] = pc["loader"]
      /\ pc["loader"] = "success" => pc'["loader"] = "success"
      /\ pc["scanner"] = "success" => pc'["scanner"] = "success"
  BY Zenon DEF Moves, Threads
<1>2. ScanFailed => ScanFailed'
  BY FailedStays, Zenon
<1>3. Through => Through'
  BY <1>1, <1>2, Zenon DEF Through
<1>4. scan_stopped_early' => Through'
  BY Zenon DEF Through
<1>5. finished' \/ pc'["sender"] \in Completing => Through'
  BY <1>1, <1>3, <1>4, Zenon DEF Drained
<1>6. pc'["loader"] \in {"finish", "success"} /\ ~cancelled' => queue_scanner' = <<>>
  BY <1>1, Zenon DEF Drained
<1> QED BY <1>1, <1>2, <1>5, <1>6, Zenon DEF Drained

\* The sender, one action at a time.
LEMMA SenderLoses == LossKept(Sender)
<1> SUFFICES ASSUME KeepInv, LossInv, Sender PROVE LossInv'
  BY Zenon DEF LossKept
<1> USE DEF outside, flow, mainVars, wire
<1>0. Drained /\ Reported /\ Hands /\ InLine /\ "sender" \in Threads
  BY Zenon DEF LossInv, Threads
<1>h. /\ sent \in Nats /\ queue_loader \in Nats /\ queue_scanner \in Nats
      /\ hand["loader"] \in Nat /\ hand["scanner"] \in Nat /\ hand["sender"] \in Nat /\ DOMAIN hand = Threads
      /\ Fits("sender", pc["sender"], hand["sender"])
  BY <1>0, Zenon DEF Hands, Threads
<1>s. Sending \in Nat
  BY <1>h DEF Sending
<1>p. Pipe = Line(sent, Sending, queue_loader, hand["loader"], queue_scanner, hand["scanner"])
  BY Zenon DEF Pipe
<1>1. ASSUME NEW next, ~Returned("sender"), hand["sender"] = 0, next \notin {"send", "release"},
             Moves("sender", next), cancelled => cancelled',
             scan_stopped_early => scan_stopped_early', next = "null" => queue_loader = <<>>,
             finished' \/ next \in Completing => finished \/ pc["sender"] \in Completing \/ scan_stopped_early' \/ Through,
             next \in {"finalize", "success", "limit"} => scan_stopped_early' \/ ScanFailed \/ scanned = Len(Weight),
             UNCHANGED <<hand, flow, scanned, unread, mainVars, sent>>
      PROVE  LossInv'
  <2>1. pc["sender"] # "error" /\ Fits("sender", next, hand["sender"])
    BY <1>1, Zenon DEF Returned, Fits
  <2>2. Hands' /\ InLine'
    BY <1>0, <1>1, <2>1, QuietLine, Zenon
  <2>3. Drained'
    BY <1>0, <1>1, SenderDrains, Zenon
  <2>4. Reported'
    BY <1>0, <1>1, ReportedStays, Zenon
  <2> QED BY <2>2, <2>3, <2>4, Zenon DEF LossInv
<1>2. CASE SendConnect
  <2>1. /\ pc["sender"] = "connect" /\ ~Returned("sender") /\ hand["sender"] = 0
        /\ UNCHANGED <<hand, scanned, unread, flow, scan_stopped_early, mainVars, sent, finished>>
    BY <1>2, <1>h, Zenon DEF SendConnect, scanVars, Returned, Fits
  <2>2. (Moves("sender", "loop") /\ UNCHANGED done) \/ (Moves("sender", "error") /\ cancelled')
    BY <1>2, GoMoves, CancelMoves, Zenon DEF SendConnect, SendFails
  <2>3. CASE Moves("sender", "loop") /\ UNCHANGED done
    BY <1>1, <2>1, <2>3, Zenon DEF Completing, done
  <2>4. CASE Moves("sender", "error") /\ cancelled'
    BY <1>1, <2>1, <2>4, Zenon DEF Completing
  <2> QED BY <2>2, <2>3, <2>4, Zenon
<1>3. CASE SendLoop
  <2>1. /\ pc["sender"] = "loop" /\ ~Returned("sender") /\ hand["sender"] = 0
        /\ UNCHANGED <<hand, scanned, unread, flow, mainVars, wire>>
    BY <1>3, <1>h, Zenon DEF SendLoop, scanVars, Returned, Fits
  <2>2. \/ Moves("sender", "error") /\ cancelled' /\ UNCHANGED scan_stopped_early
        \/ Moves("sender", "tail") /\ cancelled' /\ scan_stopped_early'
        \/ Moves("sender", "dequeue") /\ UNCHANGED <<done, scan_stopped_early>>
    BY <1>3, GoMoves, CancelMoves, Zenon DEF SendLoop, SendFails
  <2>3. CASE Moves("sender", "error") /\ cancelled' /\ UNCHANGED scan_stopped_early
    BY <1>1, <2>1, <2>3, Zenon DEF Completing
  <2>4. CASE Moves("sender", "tail") /\ cancelled' /\ scan_stopped_early'
    BY <1>1, <2>1, <2>4, Zenon DEF Completing
  <2>5. CASE Moves("sender", "dequeue") /\ UNCHANGED <<done, scan_stopped_early>>
    BY <1>1, <2>1, <2>5, Zenon DEF Completing, done
  <2> QED BY <2>2, <2>3, <2>4, <2>5, Zenon
<1>4. CASE SendNull
  <2>1. /\ pc["sender"] = "null" /\ ~Returned("sender") /\ hand["sender"] = 0
        /\ UNCHANGED <<hand, scanned, unread, flow, scan_stopped_early, mainVars, wire>>
    BY <1>4, <1>h, Zenon DEF SendNull, scanVars, Returned, Fits
  <2>2. \/ Moves("sender", "error") /\ cancelled'
        \/ Moves("sender", "tail") /\ ~cancelled /\ UNCHANGED done
    BY <1>4, GoMoves, CancelMoves, Zenon DEF SendNull, SendFails, ReportsCancel
  <2>3. ASSUME ~cancelled PROVE Through
    <3>1. loader_done /\ queue_loader = <<>>
      BY <1>0, <2>1, Zenon DEF KeepInv, Upstream, Drained
    <3>2. pc["loader"] = "success"
      BY <2>3, <3>1, Zenon DEF KeepInv, Upstream
    <3>3. queue_scanner = <<>> /\ pc["scanner"] \in {"success", "cancel"}
      BY <1>0, <2>3, <3>2, Zenon DEF KeepInv, Upstream, Drained
    <3> QED BY <3>1, <3>2, <3>3, Zenon DEF Through, ScanFailed
  <2> QED BY <1>1, <2>1, <2>2, <2>3, Zenon DEF Completing, done
<1>5. CASE SendTail
  <2>1. /\ pc["sender"] = "tail" /\ ~Returned("sender") /\ hand["sender"] = 0
        /\ scan_stopped_early' = ScanStopped
        /\ UNCHANGED <<hand, scanned, unread, flow, mainVars, sent, finished>>
    BY <1>5, <1>h, Zenon DEF SendTail, scanVars, Returned, Fits
  <2>2. \/ Moves("sender", "error") /\ cancelled'
        \/ Moves("sender", "finalize") /\ UNCHANGED done
    BY <1>5, GoMoves, CancelMoves, Zenon DEF SendTail, SendFails
  <2>3. scan_stopped_early' \/ ScanFailed \/ scanned = Len(Weight)
    <3>1. Through
      BY <1>0, <2>1, Zenon DEF Drained, Completing
    <3> QED BY <2>1, <3>1, Zenon DEF Through, ScanStopped, KeepInv, Found
  <2>4. scan_stopped_early => scan_stopped_early'
    BY <2>1, Zenon DEF ScanStopped
  <2>5. CASE Moves("sender", "error") /\ cancelled'
    BY <1>1, <2>1, <2>4, <2>5, Zenon DEF Completing
  <2>6. CASE Moves("sender", "finalize") /\ UNCHANGED done
    BY <1>1, <2>1, <2>3, <2>4, <2>6, Zenon DEF Completing, done
  <2> QED BY <2>2, <2>5, <2>6, Zenon
<1>6. CASE SendFinalize
  <2>1. /\ pc["sender"] = "finalize" /\ ~Returned("sender") /\ hand["sender"] = 0
        /\ UNCHANGED <<hand, scanned, unread, flow, done, scan_stopped_early, mainVars, sent>>
    BY <1>6, <1>h, Zenon DEF SendFinalize, scanVars, Returned, Fits
  <2>2. PICK next \in {"success", "limit", "error"} : Moves("sender", next)
    BY <1>6, GoMoves, Zenon DEF SendFinalize
  <2>3. scan_stopped_early \/ ScanFailed \/ scanned = Len(Weight)
    BY <1>0, <2>1, Zenon DEF Drained
  <2> QED BY <1>1, <2>1, <2>2, <2>3, Zenon DEF Completing, done
<1>7. CASE SendDequeue
  <2>1. /\ pc["sender"] = "dequeue" /\ ~Returned("sender") /\ hand["sender"] = 0 /\ Sending = 0
        /\ UNCHANGED <<scanned, unread, queue_scanner, queued_bytes, done, scan_stopped_early, mainVars, wire>>
    BY <1>7, <1>h, Zenon DEF SendDequeue, scanVars, Returned, Fits, Sending
  <2>2. \/ Moves("sender", "wait_empty") /\ UNCHANGED <<queue_loader, hand>>
        \/ Moves("sender", "null") /\ queue_loader = <<>> /\ UNCHANGED <<queue_loader, hand>>
        \/ /\ queue_loader # <<>> /\ Moves("sender", "send")
           /\ queue_loader' = Rest(queue_loader) /\ hand' = [hand EXCEPT !["sender"] = First(queue_loader)]
    BY <1>7, GoMoves, Zenon DEF SendDequeue, Ended, First, Rest
  <2>3. CASE /\ UNCHANGED <<queue_loader, hand>>
             /\ Moves("sender", "wait_empty") \/ (Moves("sender", "null") /\ queue_loader = <<>>)
    BY <1>1, <2>1, <2>3, Zenon DEF Completing, done
  <2>4. CASE /\ queue_loader # <<>> /\ Moves("sender", "send")
             /\ queue_loader' = Rest(queue_loader) /\ hand' = [hand EXCEPT !["sender"] = First(queue_loader)]
    <3> DEFINE c == First(queue_loader)
    <3>1. c \in Nat /\ c \in Range(queue_loader) /\ queue_loader' \in Nats
      BY <1>h, <2>4, Queue, Zenon
    <3>2. c # 0
      <4>1. c \in Range(Pipe)
        BY <1>h, <1>s, <1>p, <3>1, LineHolds
      <4>2. Range(Pipe) \subseteq 1..scanned
        BY <1>0, Zenon DEF InLine
      <4> QED BY <4>1, <4>2
    <3>3. DOMAIN hand' = Threads /\ hand'["sender"] = c /\ \A t \in Threads \ {"sender"} : hand'[t] = hand[t]
      BY <1>h, <2>4, Zenon DEF Threads
    <3> HIDE DEF c
    <3>4. Hands'
      <4>1. Fits("sender", "send", c)
        BY <3>2, Zenon DEF Fits
      <4> QED BY <1>0, <1>h, <2>1, <2>4, <3>1, <3>3, <4>1, HandsMove, Zenon
    <3>5. InLine'
      <4>1. hand'["loader"] = hand["loader"] /\ hand'["scanner"] = hand["scanner"] /\ Sending' = c
        BY <2>4, <3>3, Zenon DEF Threads, Sending, Moves
      <4>2. Pipe' = Line(sent, c, Rest(queue_loader), hand["loader"], queue_scanner, hand["scanner"])
        BY <2>1, <2>4, <4>1, Zenon DEF Pipe
      <4>3. Pipe' = Pipe
        BY <1>h, <1>p, <2>1, <2>4, <3>2, <4>2, LineTaken DEF c
      <4>4. Lost => Lost'
        BY <2>1, <2>4, LostStays, Zenon
      <4> QED BY <1>0, <2>1, <4>3, <4>4, InLineStays, Zenon
    <3>6. Drained'
      BY <1>0, <2>1, <2>4, SenderDrains, Zenon DEF Completing, done
    <3>7. Reported'
      BY <1>0, <2>1, ReportedStays, Zenon
    <3> QED BY <3>4, <3>5, <3>6, <3>7, Zenon DEF LossInv
  <2> QED BY <2>2, <2>3, <2>4, Zenon
<1>8. CASE SendChunk
  <2>1. /\ pc["sender"] = "send" /\ ~Returned("sender") /\ hand["sender"] # 0 /\ Sending = hand["sender"]
        /\ UNCHANGED <<scanned, unread, flow, scan_stopped_early, mainVars, finished>>
    BY <1>8, <1>h, Zenon DEF SendChunk, scanVars, Returned, Fits, Sending
  <2>2. CASE sent' = Append(sent, hand["sender"]) /\ Go("sender", "release", {}) /\ UNCHANGED <<hand, done>>
    <3>1. Moves("sender", "release") /\ sent' = Added(sent, Sending) /\ sent' \in Nats
      BY <1>h, <2>1, <2>2, GoMoves, Queue, Zenon DEF Added
    <3>2. Hands'
      <4>1. Fits("sender", "release", hand["sender"])
        BY <2>1, Zenon DEF Fits
      <4>2. \A t \in Threads \ {"sender"} : hand'[t] = hand[t]
        BY <2>2, Zenon
      <4> QED BY <1>0, <1>h, <2>1, <2>2, <3>1, <4>1, <4>2, HandsMove, Zenon
    <3>3. InLine'
      <4>1. Sending' = 0
        BY <3>1, Zenon DEF Sending, Moves, Threads
      <4>2. Pipe' = Line(Added(sent, Sending), 0, queue_loader, hand["loader"], queue_scanner, hand["scanner"])
        BY <2>1, <2>2, <3>1, <4>1, Zenon DEF Pipe
      <4>3. Pipe' = Pipe
        BY <1>h, <1>s, <1>p, <2>1, <4>2, LineSent
      <4>4. Lost => Lost'
        BY <2>1, <3>1, LostStays, Zenon
      <4> QED BY <1>0, <2>1, <4>3, <4>4, InLineStays, Zenon
    <3>4. Drained'
      BY <1>0, <2>1, <2>2, <3>1, SenderDrains, Zenon DEF Completing, done
    <3>5. Reported'
      BY <1>0, <2>1, ReportedStays, Zenon
    <3> QED BY <3>2, <3>3, <3>4, <3>5, Zenon DEF LossInv
  <2>3. CASE hand' = [hand EXCEPT !["sender"] = 0] /\ SendFails /\ UNCHANGED sent
    <3>1. Moves("sender", "error") /\ cancelled'
      BY <2>3, CancelMoves, Zenon DEF SendFails
    <3>2. DOMAIN hand' = Threads /\ hand'["sender"] = 0 /\ \A t \in Threads \ {"sender"} : hand'[t] = hand[t]
      BY <1>h, <2>3, Zenon DEF Threads
    <3>3. Hands'
      <4>1. Fits("sender", "error", 0) /\ 0 \in Nat
        BY DEF Fits
      <4> QED BY <1>0, <1>h, <2>1, <2>3, <3>1, <3>2, <4>1, HandsMove, Zenon
    <3>4. InLine'
      <4>1. hand'["loader"] = hand["loader"] /\ hand'["scanner"] = hand["scanner"] /\ Sending' = 0
        BY <3>2, Zenon DEF Threads, Sending
      <4>2. Pipe' = Line(sent, 0, queue_loader, hand["loader"], queue_scanner, hand["scanner"])
        BY <2>1, <2>3, <4>1, Zenon DEF Pipe
      <4>3. Rising(Pipe') /\ Range(Pipe') \subseteq Range(Pipe)
        BY <1>0, <1>h, <1>s, <1>p, <4>2, LineDrops DEF InLine
      <4>4. Lost'
        BY <3>1, Zenon DEF Lost, Moves, Threads
      <4> QED BY <1>0, <2>1, <4>3, <4>4, Zenon DEF InLine
    <3>5. Drained'
      BY <1>0, <2>1, <3>1, SenderDrains, Zenon DEF Completing
    <3>6. Reported'
      BY <1>0, <2>1, ReportedStays, Zenon
    <3> QED BY <3>3, <3>4, <3>5, <3>6, Zenon DEF LossInv
  <2> QED BY <1>8, <2>2, <2>3, Zenon DEF SendChunk
<1>9. CASE SendRelease
  <2>1. /\ pc["sender"] = "release" /\ ~Returned("sender") /\ Moves("sender", "loop") /\ Sending = 0
        /\ hand' = [hand EXCEPT !["sender"] = 0]
        /\ UNCHANGED <<scanned, unread, queue_scanner, queue_loader, done, scan_stopped_early, mainVars, wire>>
    BY <1>9, GoMoves, Zenon DEF SendRelease, scanVars, Returned, Sending
  <2>2. DOMAIN hand' = Threads /\ hand'["sender"] = 0 /\ \A t \in Threads \ {"sender"} : hand'[t] = hand[t]
    BY <1>h, <2>1, Zenon DEF Threads
  <2>3. Hands'
    <3>1. Fits("sender", "loop", 0) /\ 0 \in Nat
      BY DEF Fits
    <3> QED BY <1>0, <1>h, <2>1, <2>2, <3>1, HandsMove, Zenon
  <2>4. InLine'
    <3>1. hand'["loader"] = hand["loader"] /\ hand'["scanner"] = hand["scanner"] /\ Sending' = 0
      BY <2>2, Zenon DEF Threads, Sending
    <3>2. Pipe' = Pipe
      BY <2>1, <3>1, Zenon DEF Pipe
    <3>3. Lost => Lost'
      BY <2>1, LostStays, Zenon
    <3> QED BY <1>0, <2>1, <3>2, <3>3, InLineStays, Zenon
  <2>5. Drained'
    BY <1>0, <2>1, SenderDrains, Zenon DEF Completing, done
  <2>6. Reported'
    BY <1>0, <2>1, ReportedStays, Zenon
  <2> QED BY <2>3, <2>4, <2>5, <2>6, Zenon DEF LossInv
<1> QED BY <1>2, <1>3, <1>4, <1>5, <1>6, <1>7, <1>8, <1>9, Zenon DEF Sender

\* A step in which threads at most leave a wait.
LEMMA IdleDrains ==
  ASSUME Drained, cancelled => cancelled',
         \A t \in Threads : \/ pc'[t] = pc[t] \/ (pc[t] = "wait_full" /\ pc'[t] = "enqueue")
                            \/ (pc[t] = "wait_empty" /\ pc'[t] = "dequeue"),
         UNCHANGED <<queue_loader, queue_scanner, scanned, scan_stopped_early, finished>>
  PROVE  Drained'
<1>1. /\ pc'["loader"] \in {"finish", "success"} => pc'["loader"] = pc["loader"]
      /\ pc["loader"] = "success" => pc'["loader"] = "success"
      /\ pc["scanner"] = "success" => pc'["scanner"] = "success"
      /\ pc'["sender"] \in Completing \cup {"null"} => pc'["sender"] = pc["sender"]
  BY Zenon DEF Threads, Completing
<1>2. ScanFailed => ScanFailed'
  BY Zenon DEF ScanFailed, Threads
<1>3. Through => Through'
  BY <1>1, <1>2, Zenon DEF Through
<1>4. finished' \/ pc'["sender"] \in Completing => Through'
  BY <1>1, <1>3, Zenon DEF Drained
<1>5. pc'["sender"] \in {"finalize", "success", "limit"} => scan_stopped_early' \/ ScanFailed' \/ scanned' = Len(Weight)
  BY <1>1, <1>2, Zenon DEF Drained, Completing
<1> QED BY <1>1, <1>4, <1>5, Zenon DEF Drained

\* send_files_multithreaded creates a thread, or cancels those it created.
LEMMA CreateLoses == LossKept(CreateThread)
<1> SUFFICES ASSUME KeepInv, LossInv, CreateThread PROVE LossInv'
  BY Zenon DEF LossKept
<1> USE DEF outside, flow, mainVars, wire
<1>0. Drained /\ Reported /\ Hands
  BY Zenon DEF LossInv
<1>1. /\ UNCHANGED <<hand, scanned, unread, flow, scan_stopped_early, exit_code, wire>> /\ mpc \in Threads
      /\ pc[mpc] = "none"
      /\ \/ Moves(mpc, Entry[mpc]) /\ mpc' = Following[mpc] /\ UNCHANGED done
         \/ Moves("main", "none") /\ mpc' = "join_created" /\ cancelled'
  BY GoMoves, CancelMoves, Zenon DEF CreateThread, KeepInv, NotStarted, Pending, Threads, scanVars
<1>2. hand[mpc] = 0 /\ (mpc \in Threads => Fits(mpc, Entry[mpc], hand[mpc]))
  <2>1. Fits(mpc, "none", hand[mpc])
    BY <1>0, <1>1, Zenon DEF Hands
  <2>2. hand[mpc] = 0
    BY <1>1, <2>1, Zenon DEF Fits, Threads
  <2>3. Fits(mpc, Entry[mpc], 0)
    BY <1>1 DEF Fits, Threads, Entry
  <2> QED BY <2>2, <2>3, Zenon
<1>3. Reported'
  <2>1. mpc # "returned" /\ mpc' # "returned"
    BY <1>1 DEF Threads, Following
  <2> QED BY <1>0, <1>1, <2>1, Zenon DEF Reported
<1>4. CASE Moves(mpc, Entry[mpc]) /\ UNCHANGED done
  <2>1. Hands' /\ InLine'
    BY <1>1, <1>2, <1>4, QuietLine, Zenon
  <2>2. CASE mpc = "scanner"
    <3>1. Entry[mpc] = "init"
      BY <2>2 DEF Entry
    <3> QED BY <1>0, <1>1, <1>3, <1>4, <2>1, <2>2, <3>1, ScannerDrains, Zenon DEF LossInv, ScanFailed, done
  <2>3. CASE mpc = "loader"
    <3>1. Entry[mpc] = "dequeue"
      BY <2>3 DEF Entry
    <3> QED BY <1>0, <1>1, <1>3, <1>4, <2>1, <2>3, <3>1, LoaderDrains, Zenon DEF LossInv, done
  <2>4. CASE mpc = "sender"
    <3>1. Entry[mpc] = "connect"
      BY <2>4 DEF Entry
    <3> QED BY <1>0, <1>1, <1>3, <1>4, <2>1, <2>4, <3>1, SenderDrains, Zenon DEF LossInv, Completing, done
  <2> QED BY <1>1, <2>2, <2>3, <2>4, Zenon DEF Threads
<1>5. CASE Moves("main", "none") /\ cancelled'
  <2>1. "main" \notin Threads
    BY DEF Threads
  <2>2. Hands' /\ InLine'
    BY <1>1, <1>5, <2>1, QuietLine, Zenon
  <2>3. \A t \in Threads : \/ pc'[t] = pc[t] \/ (pc[t] = "wait_full" /\ pc'[t] = "enqueue")
                           \/ (pc[t] = "wait_empty" /\ pc'[t] = "dequeue")
    BY <1>5, <2>1, Zenon DEF Moves
  <2>4. Drained'
    BY <1>0, <1>1, <1>5, <2>3, IdleDrains, Zenon
  <2> QED BY <1>3, <2>2, <2>4, Zenon DEF LossInv
<1> QED BY <1>1, <1>4, <1>5, Zenon

\* It joins the threads; the deadline passes, a signal is caught, a wait ends
\* by itself.
LEMMA RestLoses == LossKept(Join \/ Deadline \/ Interrupt \/ SpuriousWakeup)
<1> SUFFICES ASSUME KeepInv, LossInv, Join \/ Deadline \/ Interrupt \/ SpuriousWakeup PROVE LossInv'
  BY Zenon DEF LossKept
<1> USE DEF outside, flow, mainVars, wire
<1>0. Drained /\ Reported /\ Hands /\ InLine
  BY Zenon DEF LossInv
<1>1. UNCHANGED <<hand, scanned, unread, scan_had_io_error, flow, done, scan_stopped_early, wire>>
  BY Zenon DEF Join, Deadline, Interrupt, SpuriousWakeup, scanVars
<1>2. CASE UNCHANGED pc
  <2>1. Hands' /\ InLine'
    <3>1. Pipe' = Pipe /\ Lost' = Lost
      BY <1>1, <1>2, Zenon DEF Pipe, Sending, Lost
    <3> QED BY <1>0, <1>1, <1>2, <3>1, Zenon DEF Hands, InLine
  <2>2. Drained'
    BY <1>0, <1>1, <1>2, IdleDrains, Zenon DEF done
  <2>3. Reported'
    <3>1. CASE UNCHANGED mainVars
      BY <1>0, <1>1, <1>2, <3>1, Zenon DEF Reported, Returned, ExitStatus
    <3>2. CASE Join
      <4>1. mpc' = "returned" /\ (\A t \in Threads : Returned(t)) /\ exit_code' = IF mpc = "join" THEN ExitStatus ELSE 1
        BY <3>2, Zenon DEF Join
      <4>2. exit_code' \in {0, 23, 25} => exit_code' = ExitStatus /\ pc["sender"] \in {"success", "limit"}
        BY <4>1 DEF ExitStatus
      <4>3. ExitStatus' = ExitStatus /\ \A t \in Threads : Returned(t)' = Returned(t)
        BY <1>1, <1>2, Zenon DEF ExitStatus, Returned
      <4> QED BY <1>2, <4>1, <4>2, <4>3, Zenon DEF Reported, Returned
    <3> QED BY <1>2, <3>1, <3>2, Zenon DEF Deadline, Interrupt, SpuriousWakeup
  <2> QED BY <2>1, <2>2, <2>3, Zenon DEF LossInv
<1>3. CASE ~UNCHANGED pc
  <2>1. UNCHANGED mainVars /\ \E t \in Threads :
            \/ pc[t] = "wait_full" /\ Moves(t, "enqueue")
            \/ pc[t] = "wait_empty" /\ Moves(t, "dequeue")
    <3>1. SpuriousWakeup
      BY <1>3, Zenon DEF Join, Deadline, Interrupt
    <3>2. DOMAIN pc = Threads
      BY Zenon DEF KeepInv
    <3> QED BY <3>1, <3>2 DEF SpuriousWakeup, Moves, Retest
  <2>2. PICK t \in Threads : \/ pc[t] = "wait_full" /\ Moves(t, "enqueue")
                             \/ pc[t] = "wait_empty" /\ Moves(t, "dequeue")
    BY <2>1, Zenon
  <2>3. Fits(t, pc[t], hand[t]) /\ pc[t] # "error" /\ ~Returned(t)
    BY <1>0, <2>2, Zenon DEF Hands, Returned
  <2>4. t = "sender" => hand[t] = 0
    BY <2>2, <2>3, Zenon DEF Fits
  <2>5. /\ pc[t] = "wait_full" => Fits(t, "enqueue", hand[t])
        /\ pc[t] = "wait_empty" => Fits(t, "dequeue", hand[t])
    BY <2>3, Zenon DEF Fits
  <2>6. Hands' /\ InLine'
    BY <1>1, <2>2, <2>3, <2>4, <2>5, QuietLine, Zenon
  <2>7. \A u \in Threads : \/ pc'[u] = pc[u] \/ (pc[u] = "wait_full" /\ pc'[u] = "enqueue")
                           \/ (pc[u] = "wait_empty" /\ pc'[u] = "dequeue")
    BY <2>2, Zenon DEF Moves
  <2>8. Drained'
    BY <1>0, <1>1, <2>7, IdleDrains, Zenon DEF done
  <2>9. Reported'
    BY <1>0, <2>1, <2>3, ReportedStays, Zenon
  <2> QED BY <2>6, <2>8, <2>9, Zenon DEF LossInv
<1> QED BY <1>2, <1>3, Zenon

\* Every step keeps the invariant.
LEMMA LossStep == ASSUME KeepInv, LossInv, [Next]_vars PROVE LossInv'
<1>1. CASE UNCHANGED vars
  <2>1. UNCHANGED <<pc, hand, scanned, unread, scan_had_io_error, queue_loader, queue_scanner, cancelled,
                    scan_stopped_early, mpc, exit_code, sent, finished>>
    BY <1>1, Zenon DEF vars, scanVars, flow, done, mainVars, wire
  <2>2. Hands' /\ Drained' /\ Reported'
    BY <2>1, Zenon DEF LossInv, Hands, Drained, Through, ScanFailed, Reported, Returned, ExitStatus
  <2>3. Pipe' = Pipe /\ Lost' = Lost
    BY <2>1, Zenon DEF Pipe, Sending, Lost
  <2> QED BY <2>1, <2>2, <2>3, Zenon DEF LossInv, InLine
<1>2. CASE ~UNCHANGED vars
  BY <1>2, ScannerLoses, LoaderLoses, SenderLoses, CreateLoses, RestLoses, Zenon DEF LossKept, Next, Main, Over
<1> QED BY <1>1, <1>2, Zenon

\* The invariant says what the exit status does.
LEMMA LossReported == KeepInv /\ LossInv => ExitReportsLoss
<1> SUFFICES ASSUME KeepInv, LossInv PROVE ExitReportsLoss
  BY Zenon
<1>0. Drained /\ Reported /\ Hands /\ InLine
  BY Zenon DEF LossInv
<1>1. /\ sent \in Nats /\ queue_loader \in Nats /\ queue_scanner \in Nats
      /\ hand["loader"] \in Nat /\ hand["scanner"] \in Nat /\ hand["sender"] \in Nat
      /\ \A t \in Threads : Fits(t, pc[t], hand[t])
  BY <1>0, Zenon DEF Hands, Threads
<1>2. Sending \in Nat
  BY <1>1 DEF Sending
<1>3. Rising(Pipe) /\ Pipe = Line(sent, Sending, queue_loader, hand["loader"], queue_scanner, hand["scanner"])
  BY <1>0, Zenon DEF InLine, Pipe
<1>4. Rising(sent)
  BY <1>1, <1>2, <1>3, LineStarts
<1>5. ASSUME exit_code \in {0, 23, 25}, ~ScanFailed, ~scan_stopped_early
      PROVE  /\ Chunks \ Range(sent) \subseteq unread
             /\ Chunks \ Range(sent) # {} => exit_code = 23
  <2>1. mpc = "returned" /\ pc["sender"] \in {"success", "limit"} /\ exit_code = ExitStatus
    BY <1>0, <1>5, Zenon DEF Reported
  <2>2. /\ pc["loader"] = "success" /\ queue_loader = <<>> /\ pc["scanner"] = "success" /\ queue_scanner = <<>>
        /\ scanned = Len(Weight)
    BY <1>0, <1>5, <2>1, Zenon DEF Drained, Through, Completing
  <2>3. hand["loader"] = 0 /\ hand["scanner"] = 0 /\ Sending = 0
    BY <1>1, <2>1, <2>2, Zenon DEF Fits, Threads, Sending
  <2>4. Pipe = sent
    BY <1>1, <1>2, <1>3, <2>2, <2>3, LineStarts
  <2>5. Chunks \subseteq unread \cup Range(sent)
    BY <1>0, <2>1, <2>2, <2>4, Zenon DEF InLine, Lost, Chunks
  <2>6. unread # {} => exit_code = 23
    <3>1. unread # {} => scan_had_io_error
      BY <2>2, Zenon DEF KeepInv, Found
    <3> QED BY <2>1, <3>1, Zenon DEF ExitStatus
  <2> QED BY <2>5, <2>6, Zenon
<1>6. finished /\ pc["loader"] = "error" => scan_stopped_early
  BY <1>0, Zenon DEF Drained, Through
<1> QED BY <1>4, <1>5, <1>6, Zenon DEF ExitReportsLoss, Rising

\* send_files_multithreaded: whatever the source holds and however the queues
\* are sized, an exit status that claims success or a partial transfer is right
\* about what was sent, and a failed loader ends in no completed transfer.
THEOREM ExitIsTrue == Spec => []ExitReportsLoss
<1>1. Init => KeepInv /\ LossInv
  BY KeepInit, LossInit, Zenon
<1>2. KeepInv /\ LossInv /\ [Next]_vars => (KeepInv /\ LossInv)'
  BY KeepStep, LossStep, Zenon
<1> QED BY <1>1, <1>2, LossReported, PTL DEF Spec

---------------------------------------------------------------------------
(* The payload in memory. *)

Lines == Seq(Chunks)

\* The payload of a line of chunks.
LEMMA WeightsOf ==
    \A s \in Lines : /\ Weights(s) \in Nats /\ Len(Weights(s)) = Len(s)
                     /\ \A i \in 1..Len(s) : Weights(s)[i] = Weight[s[i]]
<1> TAKE s \in Lines
<1>1. Len(s) \in Nat /\ DOMAIN s = 1..Len(s) /\ \A i \in 1..Len(s) : s[i] \in Chunks
  BY DEF Lines
<1>2. \A c \in Chunks : Weight[c] \in Nat
  BY SenderAssumption DEF Chunks
<1>3. Weights(s) \in [1..Len(s) -> Nat]
  BY <1>1, <1>2, Zenon DEF Weights
<1>4. Weights(s) \in Nats
  <2>1. [1..Len(s) -> Nat] \in {[1..n -> Nat] : n \in Nat}
    BY <1>1, Zenon
  <2>2. Weights(s) \in UNION {[1..n -> Nat] : n \in Nat}
    BY <1>3, <2>1, Zenon
  <2>3. Seq(Nat) = UNION {[1..n -> Nat] : n \in Nat}
    BY SeqDef, Zenon
  <2> QED BY <2>2, <2>3, Zenon DEF Nats
<1>5. Len(Weights(s)) = Len(s)
  BY <1>1, <1>3
<1>6. \A i \in 1..Len(s) : Weights(s)[i] = Weight[s[i]]
  BY <1>1, Zenon DEF Weights
<1> QED BY <1>4, <1>5, <1>6, Zenon

\* No chunk, no payload.
LEMMA WeightsEmpty == Weights(<<>>) = <<>>
<1>1. <<>> \in Lines /\ Len(<<>>) = 0
  BY EmptySeq, Zenon DEF Lines
<1>2. Weights(<<>>) \in Nats /\ Len(Weights(<<>>)) = Len(<<>>)
  BY <1>1, WeightsOf, Zenon
<1> QED BY <1>1, <1>2, EmptySeq DEF Nats

\* A chunk at the end of the line.
LEMMA WeightsAppend ==
    \A s \in Lines, c \in Chunks : Weights(Append(s, c)) = Append(Weights(s), Weight[c])
<1> TAKE s \in Lines, c \in Chunks
<1> DEFINE a == Weights(Append(s, c))
           b == Append(Weights(s), Weight[c])
<1>1. Weight[c] \in Nat /\ Len(s) \in Nat
  BY SenderAssumption DEF Chunks, Lines
<1>2. Append(s, c) \in Lines /\ Len(Append(s, c)) = Len(s) + 1 /\ Append(s, c)[Len(s) + 1] = c
      /\ \A i \in 1..Len(s) : Append(s, c)[i] = s[i]
  BY AppendProperties DEF Lines
<1>3. Weights(s) \in Nats /\ Len(Weights(s)) = Len(s) /\ \A i \in 1..Len(s) : Weights(s)[i] = Weight[s[i]]
  BY WeightsOf, Zenon
<1>4. b \in Nats /\ Len(b) = Len(s) + 1 /\ b[Len(s) + 1] = Weight[c] /\ \A i \in 1..Len(s) : b[i] = Weights(s)[i]
  BY <1>1, <1>3, AppendProperties DEF Nats
<1>5. a \in Nats /\ Len(a) = Len(s) + 1 /\ \A i \in 1..(Len(s) + 1) : a[i] = Weight[Append(s, c)[i]]
  BY <1>2, WeightsOf, Zenon
<1> HIDE DEF a, b
<1>6. \A i \in 1..(Len(s) + 1) : i = Len(s) + 1 \/ i \in 1..Len(s)
  BY <1>1
<1>7. \A i \in 1..(Len(s) + 1) : a[i] = b[i]
  BY <1>2, <1>3, <1>4, <1>5, <1>6, Zenon
<1>8. a = b
  BY <1>4, <1>5, <1>7, SeqEqual, Zenon DEF Nats
<1> QED BY <1>8, Zenon DEF a, b

\* The chunk at its front.
LEMMA WeightsFront ==
    \A c \in Chunks, q \in Lines :
        /\ Weights(<<c>> \o q) \in Nats /\ Weights(<<c>> \o q) # <<>>
        /\ Head(Weights(<<c>> \o q)) = Weight[c] /\ Tail(Weights(<<c>> \o q)) = Weights(q)
<1> SUFFICES ASSUME NEW c \in Chunks, NEW q \in Lines
             PROVE  /\ Weights(<<c>> \o q) \in Nats /\ Weights(<<c>> \o q) # <<>>
                    /\ Head(Weights(<<c>> \o q)) = Weight[c] /\ Tail(Weights(<<c>> \o q)) = Weights(q)
  BY Zenon
<1> DEFINE l == <<c>> \o q
           s == Weights(l)
           t == Weights(q)
<1>1. /\ l \in Lines /\ Len(q) \in Nat /\ Len(l) = Len(q) + 1 /\ l[1] = c
      /\ \A i \in 1..Len(q) : l[i + 1] = q[i]
  BY DEF Lines
<1> HIDE DEF l
<1>2. s \in Nats /\ Len(s) = Len(q) + 1 /\ \A i \in 1..(Len(q) + 1) : s[i] = Weight[l[i]]
  BY <1>1, WeightsOf, Zenon
<1>3. t \in Nats /\ Len(t) = Len(q) /\ \A i \in 1..Len(q) : t[i] = Weight[q[i]]
  BY WeightsOf, Zenon
<1> HIDE DEF s, t
<1>4. s # <<>> /\ Head(s) = s[1] /\ Tail(s) \in Seq(Nat) /\ Len(Tail(s)) = Len(q)
      /\ \A i \in 1..Len(q) : Tail(s)[i] = s[i + 1]
  BY <1>1, <1>2 DEF Nats
<1>5. 1 \in 1..(Len(q) + 1) /\ \A i \in 1..Len(q) : i + 1 \in 1..(Len(q) + 1)
  BY <1>1
<1>6. ASSUME NEW i \in 1..Len(q) PROVE Tail(s)[i] = t[i]
  <2>1. s[i + 1] = Weight[l[i + 1]]
    BY <1>2, <1>5, Zenon
  <2> QED BY <1>1, <1>3, <1>4, <2>1, Zenon
<1>7. Tail(s) = t
  BY <1>3, <1>4, <1>6, SeqEqual, Zenon DEF Nats
<1>8. Head(s) = Weight[c]
  BY <1>1, <1>2, <1>4, <1>5, Zenon
<1> QED BY <1>2, <1>4, <1>7, <1>8, Zenon DEF s, t, l

\* The payload waiting to be sent and the payload being released.
Load == Weights(One(Sending) ++ queue_loader)
Releasing == IF pc["sender"] = "release" THEN Weight[hand["sender"]] ELSE 0

\* The account covers what is in memory, as long as nothing sent had grown.
Account ==
    /\ queued_bytes \in Nat
    /\ pc["sender"] = "release" => hand["sender"] \in Range(sent)
    /\ (\A c \in Range(sent) : LateWeight[c] = 0) =>
         Within(Load, Budget) /\ Total(Load) + Releasing <= queued_bytes

\* Only chunks of the source are in line.
LEMMA ChunksOnly ==
  ASSUME KeepInv, LossInv
  PROVE  /\ queue_loader \in Lines /\ One(Sending) ++ queue_loader \in Lines
         /\ Sending # 0 => Sending \in Chunks
         /\ hand["loader"] # 0 => hand["loader"] \in Chunks
         /\ Range(sent) \subseteq Chunks
<1>1. /\ sent \in Nats /\ queue_loader \in Nats /\ queue_scanner \in Nats
      /\ hand["loader"] \in Nat /\ hand["scanner"] \in Nat /\ hand["sender"] \in Nat
  BY Zenon DEF LossInv, Hands, Threads
<1>2. Sending \in Nat
  BY <1>1 DEF Sending
<1> DEFINE a == Sending
           b == hand["loader"]
           q == queue_loader
           t == queue_scanner ++ One(hand["scanner"])
           u == One(b) ++ t
           v == q ++ u
           w == One(a) ++ v
<1>3. One(a) \in Nats /\ One(b) \in Nats /\ One(hand["scanner"]) \in Nats
  BY <1>1, <1>2, OneHeld, Zenon
<1>4. t \in Nats /\ u \in Nats /\ v \in Nats /\ w \in Nats
  BY <1>1, <1>3, Joined, Zenon
<1>5. Pipe = sent ++ w
  BY Zenon DEF Pipe, Line
<1>6. Range(Pipe) \subseteq Chunks
  <2>1. Range(Pipe) \subseteq 1..scanned
    BY Zenon DEF LossInv, InLine
  <2>2. scanned \in 0..Len(Weight) /\ Len(Weight) \in Nat
    BY SenderAssumption, LenProperties, Zenon DEF KeepInv, Found
  <2>3. 1..scanned \subseteq Chunks
    BY <2>2 DEF Chunks
  <2> QED BY <2>1, <2>3, Zenon
<1> HIDE DEF t
<1>7. Range(u) = Range(One(b)) \cup Range(t)
  BY <1>3, <1>4, RangeJoined, Zenon
<1> HIDE DEF u
<1>8. Range(v) = Range(q) \cup Range(u)
  BY <1>1, <1>4, RangeJoined, Zenon
<1> HIDE DEF v
<1>9. Range(w) = Range(One(a)) \cup Range(v)
  BY <1>3, <1>4, RangeJoined, Zenon
<1> HIDE DEF w
<1>10. Range(Pipe) = Range(sent) \cup Range(w)
  BY <1>1, <1>4, <1>5, RangeJoined, Zenon
<1>11. Range(sent) \subseteq Chunks /\ Range(One(a)) \subseteq Chunks /\ Range(q) \subseteq Chunks
       /\ Range(One(b)) \subseteq Chunks
  BY <1>6, <1>7, <1>8, <1>9, <1>10, Zenon
<1>12. \A c \in Nat : c # 0 => Range(One(c)) = {c}
  BY DEF One, Range
<1>13. \A s \in Nats : Range(s) \subseteq Chunks => s \in Lines
  <2> SUFFICES ASSUME NEW s \in Nats, Range(s) \subseteq Chunks PROVE s \in Lines
    BY Zenon
  <2>1. Len(s) \in Nat /\ s \in [1..Len(s) -> Nat] /\ DOMAIN s = 1..Len(s)
    BY LenProperties, Zenon DEF Nats
  <2>2. s \in [1..Len(s) -> Chunks]
    BY <2>1, Zenon DEF Range
  <2>3. s \in UNION {[1..n -> Chunks] : n \in Nat}
    BY <2>1, <2>2, Zenon
  <2> QED BY <2>3, SeqDef, Zenon DEF Lines
<1>14. queue_loader \in Lines /\ One(Sending) \in Lines
  BY <1>1, <1>3, <1>11, <1>13, Zenon
<1>15. One(Sending) ++ queue_loader \in Lines
  BY <1>14, ConcatProperties, Zenon DEF Lines, ++
<1> QED BY <1>1, <1>2, <1>11, <1>12, <1>14, <1>15, Zenon

\* The steps that touch neither the loader queue nor what the sender holds.
LEMMA AccountStays ==
  ASSUME Account, UNCHANGED <<queue_loader, queued_bytes, sent>>, hand'["sender"] = hand["sender"],
         pc'["sender"] = "release" <=> pc["sender"] = "release"
  PROVE  Account'
<1>1. Sending' = Sending /\ Releasing' = Releasing
  BY Zenon DEF Sending, Releasing
<1>2. Load' = Load
  BY <1>1, Zenon DEF Load
<1> QED BY <1>1, <1>2, Zenon DEF Account

\* Which steps do.
LEMMA AccountSteps ==
  ASSUME KeepInv, LossInv, [Next]_vars
  PROVE  \/ LoadEnqueue \/ SendDequeue \/ SendChunk \/ SendRelease
         \/ /\ UNCHANGED <<queue_loader, queued_bytes, sent>> /\ hand'["sender"] = hand["sender"]
            /\ pc'["sender"] = "release" <=> pc["sender"] = "release"
<1> DEFINE Stays == /\ UNCHANGED <<queue_loader, queued_bytes, sent>> /\ hand'["sender"] = hand["sender"]
                    /\ pc'["sender"] = "release" <=> pc["sender"] = "release"
<1> USE DEF flow, wire
<1>0. DOMAIN hand = Threads /\ "sender" \in Threads
  BY Zenon DEF LossInv, Hands, Threads
<1>1. ASSUME NEW self, self # "sender", NEW next, Moves(self, next)
      PROVE  pc'["sender"] = "release" <=> pc["sender"] = "release"
  BY <1>1, Zenon DEF Moves, Threads
<1>2. CASE Scanner
  <2>1. UNCHANGED <<queue_loader, queued_bytes, sent>>
    BY <1>2, Zenon DEF Scanner, ScanPrepare, ScanNext, ScanSkips, ScanEnds, ScanEnqueue, ScanFinish, ScanFail
  <2>2. hand'["sender"] = hand["sender"]
    BY <1>0, <1>2, Zenon DEF Scanner, ScanPrepare, ScanNext, ScanSkips, ScanEnds, ScanEnqueue, ScanFinish, ScanFail
  <2>3. UNCHANGED pc \/ \E next : Moves("scanner", next)
    BY <1>2, GoMoves, CancelMoves, Zenon
       DEF Scanner, ScanPrepare, ScanNext, ScanSkips, ScanEnds, ScanEnqueue, ScanFinish, ScanFail
  <2> QED BY <1>1, <2>1, <2>2, <2>3, Zenon
<1>3. CASE LoadDequeue \/ LoadFinish \/ LoadData
  <2>1. UNCHANGED <<queue_loader, queued_bytes, sent>>
    BY <1>3, Zenon DEF LoadDequeue, LoadFinish, LoadData
  <2>2. hand'["sender"] = hand["sender"]
    BY <1>0, <1>3, Zenon DEF LoadDequeue, LoadFinish, LoadData
  <2>3. \E next : Moves("loader", next)
    BY <1>3, GoMoves, CancelMoves, Zenon DEF LoadDequeue, LoadFinish, LoadData
  <2> QED BY <1>1, <2>1, <2>2, <2>3, Zenon
<1>4. CASE SendConnect \/ SendLoop \/ SendNull \/ SendTail \/ SendFinalize
  <2>1. UNCHANGED <<queue_loader, queued_bytes, sent, hand>> /\ pc["sender"] # "release"
    BY <1>4, Zenon DEF SendConnect, SendLoop, SendNull, SendTail, SendFinalize
  <2>2. \E next : Moves("sender", next) /\ next # "release"
    <3>1. CASE SendFinalize
      <4>1. PICK next \in {"success", "limit", "error"} : Go("sender", next, {})
        BY <3>1, Zenon DEF SendFinalize
      <4>2. Moves("sender", next)
        BY <4>1, GoMoves, Zenon
      <4> QED BY <4>2, Zenon
    <3>2. CASE SendConnect \/ SendLoop \/ SendNull \/ SendTail
      <4>1. SendFails \/ \E next \in {"loop", "tail", "dequeue", "finalize"} :
                           pipeline_cancel("sender", next) \/ Go("sender", next, {})
        BY <3>2, Zenon DEF SendConnect, SendLoop, SendNull, SendTail
      <4>2. CASE SendFails
        <5>1. Moves("sender", "error")
          BY <4>2, CancelMoves, Zenon DEF SendFails
        <5>2. "error" # "release"
          BY SMT
        <5> QED BY <5>1, <5>2, Zenon
      <4>3. ASSUME NEW next \in {"loop", "tail", "dequeue", "finalize"},
                   pipeline_cancel("sender", next) \/ Go("sender", next, {})
            PROVE  Moves("sender", next) /\ next # "release"
        BY <4>3, GoMoves, CancelMoves, Zenon
      <4> QED BY <4>1, <4>2, <4>3, Zenon
    <3> QED BY <1>4, <3>1, <3>2, Zenon
  <2>3. pc'["sender"] # "release"
    BY <2>2, Zenon DEF Moves, Threads
  <2> QED BY <2>1, <2>3, Zenon
<1>5. CASE CreateThread
  <2>1. UNCHANGED <<queue_loader, queued_bytes, sent, hand>>
    BY <1>5, Zenon DEF CreateThread
  <2>2. mpc \in Threads /\ pc[mpc] = "none"
    BY <1>5, Zenon DEF CreateThread, KeepInv, NotStarted, Pending, Threads
  <2>3. (\E self : self # "sender" /\ \E next : Moves(self, next))
        \/ (mpc = "sender" /\ pc'["sender"] = Entry["sender"])
    <3>1. Moves("main", "none") \/ Moves(mpc, Entry[mpc])
      BY <1>5, GoMoves, CancelMoves, Zenon DEF CreateThread
    <3>2. CASE mpc = "sender" /\ Moves(mpc, Entry[mpc])
      BY <2>2, <3>2, Zenon DEF Moves
    <3>3. CASE mpc # "sender" /\ Moves(mpc, Entry[mpc])
      BY <3>3, Zenon
    <3>4. CASE Moves("main", "none")
      BY <3>4, Zenon
    <3> QED BY <3>1, <3>2, <3>3, <3>4, Zenon
  <2>4. Entry["sender"] = "connect"
    BY DEF Entry
  <2> QED BY <1>1, <2>1, <2>2, <2>3, <2>4, Zenon
<1>6. CASE Join \/ Deadline \/ Interrupt \/ SpuriousWakeup \/ UNCHANGED vars
  <2>1. UNCHANGED <<queue_loader, queued_bytes, sent, hand>>
    BY <1>6, Zenon DEF Join, Deadline, Interrupt, SpuriousWakeup, vars
  <2>2. UNCHANGED pc \/ SpuriousWakeup
    BY <1>6, Zenon DEF Join, Deadline, Interrupt, vars
  <2>3. SpuriousWakeup => (pc'["sender"] = "release" <=> pc["sender"] = "release")
    <3>1. DOMAIN pc = Threads
      BY Zenon DEF KeepInv
    <3> QED BY <3>1 DEF SpuriousWakeup, Retest
  <2> QED BY <2>1, <2>2, <2>3, Zenon
<1> QED BY <1>2, <1>3, <1>4, <1>5, <1>6, Zenon DEF Next, Loader, Sender, Main, Over

\* The loader adds a chunk that fits, or that finds nothing ahead of it.
LEMMA AccountLoads == ASSUME KeepInv, LossInv, Account, LoadEnqueue PROVE Account'
<1> DEFINE c == hand["loader"]
           line == One(Sending) ++ queue_loader
<1>1. UNCHANGED sent /\ pc["loader"] = "enqueue"
  BY Zenon DEF LoadEnqueue, wire
<1>2. DOMAIN hand = Threads /\ Fits("loader", pc["loader"], hand["loader"]) /\ hand'["sender"] = hand["sender"]
  BY Zenon DEF LoadEnqueue, LossInv, Hands, Threads
<1>3. c \in Chunks /\ line \in Lines /\ queue_loader \in Lines
  BY <1>1, <1>2, ChunksOnly, Zenon DEF Fits
<1>4. pc'["sender"] = "release" <=> pc["sender"] = "release"
  <2>1. \E next : Moves("loader", next)
    BY GoMoves, Zenon DEF LoadEnqueue
  <2> QED BY <2>1, Zenon DEF Moves, Threads
<1>5. CASE UNCHANGED <<queue_loader, queued_bytes>>
  BY <1>1, <1>2, <1>4, <1>5, AccountStays, Zenon
<1>6. CASE /\ queue_loader' = Append(queue_loader, c) /\ queued_bytes' = queued_bytes + Weight[c]
           /\ ~BlockedByBudget(Weight[c])
  <2>1. Sending' = Sending /\ Releasing' = Releasing
    BY <1>2, <1>4, Zenon DEF Sending, Releasing
  <2>2. Weight[c] \in Nat /\ Budget \in Nat /\ queued_bytes \in Nat
    BY <1>3, SenderAssumption DEF Chunks, Account
  <2>3. queued_bytes = 0 \/ queued_bytes + Weight[c] <= Budget
    BY <1>6, <2>2 DEF BlockedByBudget
  <2>4. Load' = Append(Load, Weight[c])
    <3>1. One(Sending) ++ Append(queue_loader, c) = Append(line, c)
      <4>1. One(Sending) \in Lines
        <5>1. Sending # 0 => Sending \in Chunks
          BY ChunksOnly, Zenon
        <5> QED BY <5>1 DEF One, Lines
      <4>2. <<c>> \in Lines
        BY <1>3 DEF Lines
      <4>4. Append(queue_loader, c) = queue_loader ++ <<c>> /\ Append(line, c) = line ++ <<c>>
        BY <1>3, AppendIsConcat, Zenon DEF Lines, ++
      <4>5. One(Sending) ++ (queue_loader ++ <<c>>) = line ++ <<c>>
        BY <1>3, <4>1, <4>2, ConcatAssociative DEF Lines, ++
      <4> QED BY <4>4, <4>5, Zenon
    <3>2. Weights(Append(line, c)) = Append(Weights(line), Weight[c])
      BY <1>3, WeightsAppend, Zenon
    <3> QED BY <1>6, <2>1, <3>1, <3>2, Zenon DEF Load
  <2>5. Load \in Nats
    BY <1>3, WeightsOf, Zenon DEF Load
  <2>6. Total(Load) \in Nat /\ Total(Append(Load, Weight[c])) = Total(Load) + Weight[c]
    BY <2>2, <2>5, TotalNat, TotalAppend, Zenon
  <2>7. pc["sender"] = "release" => Releasing \in Nat
    <3>1. pc["sender"] = "release" => hand["sender"] \in Chunks
      BY ChunksOnly, Zenon DEF Account
    <3> QED BY <3>1, SenderAssumption DEF Chunks, Releasing
  <2>8. Releasing \in Nat
    BY <2>7 DEF Releasing
  <2>9. ASSUME \A d \in Range(sent) : LateWeight[d] = 0
        PROVE  Within(Load', Budget) /\ Total(Load') + Releasing' <= queued_bytes'
    <3>1. Within(Load, Budget) /\ Total(Load) + Releasing <= queued_bytes
      BY <2>9, Zenon DEF Account
    <3>2. Total(Load) = 0 \/ Total(Load) + Weight[c] <= Budget
      BY <2>2, <2>3, <2>6, <2>8, <3>1
    <3>3. Within(Append(Load, Weight[c]), Budget)
      BY <2>2, <2>5, <3>2, WithinAppend, Zenon
    <3>4. Total(Append(Load, Weight[c])) + Releasing <= queued_bytes + Weight[c]
      BY <2>2, <2>6, <2>8, <3>1
    <3> QED BY <1>6, <2>1, <2>4, <3>3, <3>4, Zenon
  <2>10. queued_bytes' \in Nat
    BY <1>6, <2>2
  <2>11. pc'["sender"] = "release" => hand'["sender"] \in Range(sent')
    BY <1>1, <1>2, <1>4, Zenon DEF Account
  <2> QED BY <1>1, <2>9, <2>10, <2>11, Zenon DEF Account
<1> QED BY <1>5, <1>6, Zenon DEF LoadEnqueue, Enqueued

\* The sender takes the first chunk in hand: the payload stays.
LEMMA AccountTakes == ASSUME KeepInv, LossInv, Account, SendDequeue PROVE Account'
<1>1. /\ UNCHANGED <<sent, queued_bytes>> /\ pc["sender"] = "dequeue"
      /\ DOMAIN hand = Threads /\ Fits("sender", pc["sender"], hand["sender"]) /\ queue_loader \in Lines
  BY ChunksOnly, Zenon DEF SendDequeue, wire, LossInv, Hands, Threads
<1>2. \/ UNCHANGED <<queue_loader, hand>>
      \/ /\ queue_loader # <<>> /\ hand'["sender"] = Head(queue_loader)
         /\ queue_loader' = Tail(queue_loader)
  BY <1>1, Zenon DEF SendDequeue, Threads
<1>3. pc'["sender"] # "release"
  <2>1. Go("sender", "wait_empty", {}) \/ Go("sender", "null", {}) \/ Go("sender", "send", {not_full_loader})
    BY Zenon DEF SendDequeue
  <2> QED BY <2>1, Zenon DEF Go, Threads
<1>4. CASE UNCHANGED <<queue_loader, hand>>
  BY <1>1, <1>3, <1>4, AccountStays, Zenon
<1>5. CASE queue_loader # <<>> /\ hand'["sender"] = Head(queue_loader) /\ queue_loader' = Tail(queue_loader)
  <2>1. Sending = 0 /\ Sending' = Head(queue_loader) /\ Releasing = 0 /\ Releasing' = 0
    BY <1>1, <1>3, <1>5, Zenon DEF Sending, Releasing, Fits
  <2>2. Head(queue_loader) # 0
    BY <1>1, <1>5 DEF Lines, Chunks
  <2>3. <<Head(queue_loader)>> \o Tail(queue_loader) = queue_loader /\ <<>> \o queue_loader = queue_loader
    BY <1>1, <1>5 DEF Lines
  <2>4. Load' = Load
    BY <1>5, <2>1, <2>2, <2>3, Zenon DEF Load, One, ++
  <2> QED BY <1>1, <1>3, <2>1, <2>4, Zenon DEF Account
<1> QED BY <1>2, <1>4, <1>5, Zenon

\* It sends the chunk, or drops it and fails: the payload waiting shrinks.
LEMMA AccountSends == ASSUME KeepInv, LossInv, Account, SendChunk PROVE Account'
<1> DEFINE c == hand["sender"]
<1>1. /\ UNCHANGED <<queue_loader, queued_bytes>> /\ pc["sender"] = "send"
      /\ DOMAIN hand = Threads /\ Fits("sender", pc["sender"], c) /\ sent \in Nats /\ c \in Nat
  BY Zenon DEF SendChunk, flow, LossInv, Hands, Threads
<1>2. Sending = c /\ c # 0 /\ Releasing = 0
  BY <1>1, Zenon DEF Sending, Releasing, Fits
<1>3. c \in Chunks /\ queue_loader \in Lines
  BY <1>2, ChunksOnly, Zenon
<1>4. Weight[c] \in Nat /\ Budget \in Nat /\ queued_bytes \in Nat
  BY <1>3, SenderAssumption DEF Chunks, Account
<1>5. Load = Weights(<<c>> \o queue_loader)
  BY <1>2, Zenon DEF Load, One, ++
<1>6. Load \in Nats /\ Load # <<>> /\ Head(Load) = Weight[c] /\ Tail(Load) = Weights(queue_loader)
  BY <1>3, <1>5, WeightsFront, Zenon
<1>7. Total(Load) = Weight[c] + Total(Weights(queue_loader)) /\ Weights(queue_loader) \in Nats
  BY <1>6, TotalFront, Zenon
<1>8. Total(Weights(queue_loader)) \in Nat
  BY <1>7, TotalNat, Zenon
<1>9. /\ sent' = Append(sent, c) \/ sent' = sent
      /\ \/ pc'["sender"] = "release" /\ hand' = hand /\ sent' = Append(sent, c)
         \/ pc'["sender"] = "error" /\ hand'["sender"] = 0 /\ sent' = sent
  BY <1>1, Zenon DEF SendChunk, SendFails, pipeline_cancel, Go, Threads
<1>10. Sending' = 0
  BY <1>9, Zenon DEF Sending
<1>11. Load' = Weights(queue_loader)
  <2>1. One(0) ++ queue_loader = queue_loader
    BY <1>3, ConcatEmptySeq, Zenon DEF One, ++, Lines
  <2> QED BY <1>1, <1>10, <2>1, Zenon DEF Load
<1>12. Range(sent) \subseteq Range(sent') /\ (sent' = Append(sent, c) => c \in Range(sent'))
  <2>1. Range(Append(sent, c)) = Range(sent) \cup {c}
    <3>1. Append(sent, c) = sent ++ One(c) /\ One(c) \in Nats /\ One(c) = <<c>>
      BY <1>1, <1>2, OneHeld, AppendIsConcat, Zenon DEF Nats, ++
    <3>2. Range(<<c>>) = {c}
      BY DEF Range
    <3>3. Range(sent ++ One(c)) = Range(sent) \cup Range(One(c))
      BY <1>1, <3>1, RangeJoined, Zenon
    <3> QED BY <3>1, <3>2, <3>3, Zenon
  <2> QED BY <1>9, <2>1, Zenon
<1>13. Releasing' = 0 \/ Releasing' = Weight[c]
  BY <1>9, Zenon DEF Releasing
<1>14. ASSUME \A d \in Range(sent') : LateWeight[d] = 0
       PROVE  Within(Load', Budget) /\ Total(Load') + Releasing' <= queued_bytes'
  <2>1. Within(Load, Budget) /\ Total(Load) + Releasing <= queued_bytes
    BY <1>12, <1>14, Zenon DEF Account
  <2>2. Within(Tail(Load), Budget)
    BY <1>4, <1>6, <2>1, WithinTail, Zenon
  <2>3. Total(Weights(queue_loader)) + Releasing' <= queued_bytes
    BY <1>2, <1>4, <1>7, <1>8, <1>13, <2>1
  <2> QED BY <1>1, <1>6, <1>11, <2>2, <2>3, Zenon
<1>15. pc'["sender"] = "release" => hand'["sender"] \in Range(sent')
  BY <1>9, <1>12, Zenon
<1> QED BY <1>1, <1>4, <1>14, <1>15, Zenon DEF Account

\* It releases the payload of the chunk it sent.
LEMMA AccountReleases == ASSUME KeepInv, LossInv, Account, SendRelease PROVE Account'
<1> DEFINE c == hand["sender"]
           released == Weight[c] + LateWeight[c]
<1>1. /\ UNCHANGED <<queue_loader, sent>> /\ pc["sender"] = "release" /\ DOMAIN hand = Threads
      /\ queued_bytes' = IF released >= queued_bytes THEN 0 ELSE queued_bytes - released
  BY Zenon DEF SendRelease, wire, LossInv, Hands
<1>2. pc'["sender"] = "loop" /\ hand'["sender"] = 0
  BY <1>1, Zenon DEF SendRelease, Go, Threads
<1>3. c \in Range(sent) /\ c \in Chunks /\ queue_loader \in Lines
  BY <1>1, ChunksOnly, Zenon DEF Account
<1>4. Weight[c] \in Nat /\ LateWeight[c] \in Nat /\ queued_bytes \in Nat
  BY <1>3, SenderAssumption DEF Chunks, Account
<1>5. Sending = 0 /\ Sending' = 0 /\ Releasing = Weight[c] /\ Releasing' = 0
  BY <1>1, <1>2, Zenon DEF Sending, Releasing
<1>6. Load' = Load /\ Total(Load) \in Nat
  <2>1. Load \in Nats
    BY ChunksOnly, WeightsOf, Zenon DEF Load
  <2> QED BY <1>1, <1>5, <2>1, TotalNat, Zenon DEF Load
<1>7. queued_bytes' \in Nat
  BY <1>1, <1>4
<1>8. ASSUME \A d \in Range(sent) : LateWeight[d] = 0
      PROVE  Within(Load', Budget) /\ Total(Load') + Releasing' <= queued_bytes'
  <2>1. Within(Load, Budget) /\ Total(Load) + Releasing <= queued_bytes
    BY <1>8, Zenon DEF Account
  <2>2. LateWeight[c] = 0
    BY <1>3, <1>8, Zenon
  <2>3. Total(Load) + 0 <= queued_bytes'
    BY <1>1, <1>4, <1>5, <1>6, <2>1, <2>2
  <2> QED BY <1>5, <1>6, <2>1, <2>3, Zenon
<1> QED BY <1>1, <1>2, <1>7, <1>8, Zenon DEF Account

\* client_send.c: for any chunks, capacity and budget, the payload loaded and not
\* yet sent stays within SENDER_QUEUE_MAX_BYTES, unless it is one chunk alone.
THEOREM PayloadBounded == Spec => []QueueWithinBudget
<1>1. Init => KeepInv /\ LossInv /\ Account
  <2> SUFFICES ASSUME Init PROVE Account
    BY KeepInit, LossInit, Zenon
  <2>1. Sending = 0 /\ Releasing = 0 /\ queue_loader = <<>> /\ queued_bytes = 0 /\ pc["sender"] # "release"
    BY Zenon DEF Init, Sending, Releasing, Threads
  <2>2. One(0) ++ <<>> = <<>>
    BY DEF One, ++
  <2>3. Load = <<>>
    BY <2>1, <2>2, WeightsEmpty, Zenon DEF Load
  <2>4. Within(Load, Budget) /\ Total(Load) = 0
    BY <2>3, WithinEmpty, TotalEmpty, SenderAssumption, Zenon
  <2>5. Total(Load) + Releasing <= queued_bytes /\ queued_bytes \in Nat
    BY <2>1, <2>4
  <2> QED BY <2>1, <2>4, <2>5, Zenon DEF Account
<1>2. KeepInv /\ LossInv /\ Account /\ [Next]_vars => (KeepInv /\ LossInv /\ Account)'
  BY KeepStep, LossStep, AccountSteps, AccountStays, AccountLoads, AccountTakes, AccountSends,
     AccountReleases, Zenon
<1>3. Account => QueueWithinBudget
  <2>1. InHand("sender") = One(Sending)
    BY Zenon DEF InHand, One, Sending
  <2> QED BY <2>1, Zenon DEF Account, Load, QueueWithinBudget, ++
<1> QED BY <1>1, <1>2, <1>3, PTL DEF Spec
=============================================================================
