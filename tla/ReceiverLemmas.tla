--------------------------- MODULE ReceiverLemmas ---------------------------
(***************************************************************************)
(* What the methods of a receiver do, for any ring, buffer and window,     *)
(* said of message numbers: the ring itself, the walk of publish,          *)
(* receive_packet, and create_nacks.  The lemmas are about a Receiver      *)
(* record, not about the state of a specification, so that every           *)
(* specification with a receiver can use them.                             *)
(***************************************************************************)
EXTENDS Nacks, FiniteSetTheorems, WellFoundedInduction, NaturalsInduction,
        SequenceTheorems, TLAPS

(***************************************************************************)
(* The sequence ring, for a ring of any size.  First division with         *)
(* remainder, in the form the other lemmas use.                            *)
(***************************************************************************)
LEMMA Remainder ==
  ASSUME NEW m \in Nat \ {0}, NEW n \in Nat
  PROVE  /\ n % m \in 0 .. m - 1
         /\ n \div m \in Nat
         /\ n = m * (n \div m) + (n % m)
OBVIOUS

\* Multiplying keeps the order, by at least one multiple.
LEMMA MulMonotone ==
  ASSUME NEW m \in Nat \ {0}, NEW p \in Nat, NEW q \in Nat, p < q
  PROVE  m * p + m <= m * q
<1>1. PICK d \in Nat : q = p + 1 + d
  <2>1. q - p - 1 \in Nat /\ q = p + 1 + (q - p - 1)
    OBVIOUS
  <2> QED
    BY <2>1
<1>2. m * q = m * p + m + m * d
  BY <1>1
<1>3. m * d \in Nat
  OBVIOUS
<1> QED
  BY <1>2, <1>3

\* The remainder is the only number below m that fits.
LEMMA RemainderUnique ==
  ASSUME NEW m \in Nat \ {0}, NEW n \in Nat, NEW q \in Nat,
         NEW r \in 0 .. m - 1, n = m * q + r
  PROVE  n % m = r
<1> DEFINE p == n \div m
           s == n % m
<1>1. p \in Nat /\ s \in 0 .. m - 1 /\ n = m * p + s
  BY Remainder
<1> HIDE DEF p, s
<1>2. m * p \in Nat /\ m * q \in Nat
  BY <1>1
<1>3. ~ (p < q)
  BY <1>1, <1>2, MulMonotone
<1>4. ~ (q < p)
  BY <1>1, <1>2, MulMonotone
<1>5. p = q
  BY <1>1, <1>3, <1>4
<1>6. s = r
  BY <1>1, <1>2, <1>5
<1> QED
  BY <1>6 DEF s

(***************************************************************************)
(* d messages on, the sequence is d steps of next_sequence on.             *)
(***************************************************************************)
LEMMA SequencePlus ==
  ASSUME NEW n \in Nat, NEW d \in 0 .. U16_MAX - 1
  PROVE  /\ SequenceOf(n) \in SeqNo
         /\ SequenceOf(n + d) = ring_plus(SequenceOf(n), d)
<1> DEFINE q == n \div U16_MAX
           r == n % U16_MAX
<1>0. U16_MAX \in Nat \ {0}
  BY SequenceAssumption
<1>1. q \in Nat /\ r \in 0 .. U16_MAX - 1 /\ n = U16_MAX * q + r
  BY <1>0, Remainder
<1> HIDE DEF q, r
<1>2. U16_MAX * q \in Nat /\ U16_MAX * (q + 1) = U16_MAX * q + U16_MAX
  BY <1>0, <1>1
<1>3. CASE r + d < U16_MAX
  <2>1. /\ r + d \in 0 .. U16_MAX - 1
        /\ n + d \in Nat
        /\ n + d = U16_MAX * q + (r + d)
    BY <1>0, <1>1, <1>2, <1>3
  <2>2. (n + d) % U16_MAX = r + d
    BY <1>0, <1>1, <2>1, RemainderUnique
  <2> QED
    BY <1>0, <1>1, <1>3, <2>2 DEF SequenceOf, ring_plus, SeqNo, r
<1>4. CASE r + d >= U16_MAX
  <2>1. /\ r + d - U16_MAX \in 0 .. U16_MAX - 1
        /\ n + d \in Nat
        /\ q + 1 \in Nat
        /\ n + d = U16_MAX * (q + 1) + (r + d - U16_MAX)
    BY <1>0, <1>1, <1>2, <1>4
  <2>2. (n + d) % U16_MAX = r + d - U16_MAX
    BY <1>0, <1>1, <2>1, RemainderUnique
  <2> QED
    BY <1>0, <1>1, <1>4, <2>2 DEF SequenceOf, ring_plus, SeqNo, r
<1> QED
  BY <1>0, <1>1, <1>3, <1>4

(***************************************************************************)
(* The sender's counter: next_sequence gives the next message's sequence.  *)
(***************************************************************************)
LEMMA SequenceNext ==
  ASSUME NEW n \in Nat
  PROVE  SequenceOf(n + 1) = next_sequence(SequenceOf(n))
<1>1. 1 \in 0 .. U16_MAX - 1
  BY SequenceAssumption
<1>2. /\ SequenceOf(n) \in SeqNo
      /\ SequenceOf(n + 1) = ring_plus(SequenceOf(n), 1)
  BY <1>1, SequencePlus
<1> QED
  BY <1>2, SequenceAssumption DEF ring_plus, next_sequence, SeqNo

(***************************************************************************)
(* Distance undoes ring_plus, so it counts the messages in between.        *)
(***************************************************************************)
LEMMA SequenceDistance ==
  ASSUME NEW a \in Nat, NEW b \in Nat, a <= b, b - a < U16_MAX
  PROVE  Distance(SequenceOf(a), SequenceOf(b)) = b - a
<1> DEFINE d == b - a
<1>1. d \in 0 .. U16_MAX - 1 /\ b = a + d
  BY SequenceAssumption
<1>2. SequenceOf(a) \in SeqNo /\ SequenceOf(b) = ring_plus(SequenceOf(a), d)
  BY <1>1, SequencePlus
<1> QED
  BY <1>1, <1>2, SequenceAssumption DEF ring_plus, Distance, SeqNo

(***************************************************************************)
(* The same backwards: should_increment_current looks a window back from   *)
(* last, also when that crosses 0.                                         *)
(***************************************************************************)
LEMMA SequenceMinus ==
  ASSUME NEW n \in Nat, NEW d \in 0 .. U16_MAX - 1, d <= n
  PROVE  SequenceOf(n - d) = ring_minus(SequenceOf(n), d)
<1>1. n - d \in Nat /\ n = (n - d) + d
  BY SequenceAssumption
<1>2. SequenceOf(n - d) \in SeqNo /\ SequenceOf(n) = ring_plus(SequenceOf(n - d), d)
  BY <1>1, SequencePlus
<1> QED
  BY <1>2, SequenceAssumption DEF ring_plus, ring_minus, SeqNo

(***************************************************************************)
(* is_greater_then agrees with the order of sending as long as the two     *)
(* messages are fewer than HALF - 1 apart, also across the ring's end.     *)
(***************************************************************************)
THEOREM GreaterIsLater ==
  ASSUME NEW a \in Nat, NEW b \in Nat, a - b <= HALF - 2, b - a <= HALF - 2
  PROVE  is_greater_then(SequenceOf(a), SequenceOf(b)) <=> a > b
<1>0. U16_MAX \in Nat /\ HALF \in Nat /\ HALF >= 2 /\ U16_MAX = 2 * HALF - 1
  BY SequenceAssumption
<1>1. CASE a >= b
  <2> DEFINE d == a - b
  <2>1. d \in 0 .. U16_MAX - 1 /\ a = b + d /\ d <= HALF - 2
    BY <1>0, <1>1
  <2>2. SequenceOf(b) \in SeqNo /\ SequenceOf(a) = ring_plus(SequenceOf(b), d)
    BY <2>1, SequencePlus
  <2> HIDE DEF d
  <2> QED
    BY <1>0, <1>1, <2>1, <2>2 DEF ring_plus, is_greater_then, SeqNo
<1>2. CASE a < b
  <2> DEFINE d == b - a
  <2>1. d \in 0 .. U16_MAX - 1 /\ b = a + d /\ d <= HALF - 2 /\ d > 0
    BY <1>0, <1>2
  <2>2. SequenceOf(a) \in SeqNo /\ SequenceOf(b) = ring_plus(SequenceOf(a), d)
    BY <2>1, SequencePlus
  <2> HIDE DEF d
  <2> QED
    BY <1>0, <1>2, <2>1, <2>2 DEF ring_plus, is_greater_then, SeqNo
<1> QED
  BY <1>1, <1>2

-----------------------------------------------------------------------------
(***************************************************************************)
(* How far ahead of and behind current a packet can be.  Further ahead its *)
(* slot would be one still in use (the ring crosses its end one slot       *)
(* early, hence - 2) or the comparison would turn around; so it would for  *)
(* a packet further behind.                                                *)
(***************************************************************************)
Farthest == IF RECEIVE_BUFFER_SIZE <= HALF THEN RECEIVE_BUFFER_SIZE - 2
                                           ELSE HALF - 2

Latest == HALF - 3

\* The slot of message n
SlotOf(n) == Slot(SequenceOf(n))

Fields == {"is_ordered", "current_sequence", "last_sequence", "received",
           "buffered", "published", "skipped_sequences"}

\* What the proofs need of the window, 512 on a ring split at 32768 in the code
WindowFitsRing == receive_window_size + 2 <= HALF

(***************************************************************************)
(* No multiple of m is strictly between 0 and m.                           *)
(***************************************************************************)
LEMMA NoMultiple ==
  ASSUME NEW m \in Nat \ {0}, NEW p \in Nat, NEW q \in Nat,
         0 < m * p - m * q, m * p - m * q < m
  PROVE  FALSE
<1>1. m * p \in Nat /\ m * q \in Nat
  OBVIOUS
<1>2. CASE p < q
  BY <1>1, <1>2, MulMonotone
<1>3. CASE q < p
  BY <1>1, <1>3, MulMonotone
<1>4. CASE p = q
  BY <1>1, <1>4
<1> QED
  BY <1>2, <1>3, <1>4

(***************************************************************************)
(* Messages less than a buffer apart have different slots.  At the end of  *)
(* the ring slots shift by one, which costs one more slot.                 *)
(***************************************************************************)
LEMMA SlotsDiffer ==
  ASSUME NEW a \in Nat, NEW b \in Nat, a < b, b - a <= RECEIVE_BUFFER_SIZE - 2,
         b - a < U16_MAX
  PROVE  SlotOf(a) # SlotOf(b)
<1> DEFINE m == RECEIVE_BUFFER_SIZE
           s == SequenceOf(a)
           u == SequenceOf(b)
           d == b - a
<1>0. U16_MAX \in Nat \ {0} /\ m \in Nat \ {0}
  BY SequenceAssumption, ReceiverAssumption
<1>1. d \in 0 .. U16_MAX - 1 /\ b = a + d /\ d > 0 /\ d <= m - 2
  BY <1>0
<1>2. s \in SeqNo /\ u = ring_plus(s, d)
  BY <1>1, SequencePlus
<1>3. u \in SeqNo
  BY <1>0, <1>1, <1>2 DEF SeqNo, ring_plus
<1>4. PICK k \in 1 .. U16_MAX : U16_MAX + 1 = k * m
  BY ReceiverAssumption
<1> DEFINE p == s \div m
           q == u \div m
<1>5. /\ p \in Nat /\ s = m * p + (s % m)
      /\ q \in Nat /\ u = m * q + (u % m)
      /\ s % m \in Nat /\ u % m \in Nat
  <2>1. s \in Nat /\ u \in Nat
    BY <1>0, <1>2, <1>3 DEF SeqNo
  <2>2. p \in Nat /\ s = m * p + (s % m) /\ s % m \in 0 .. m - 1
    BY <1>0, <2>1, Remainder
  <2>3. q \in Nat /\ u = m * q + (u % m) /\ u % m \in 0 .. m - 1
    BY <1>0, <2>1, Remainder
  <2> QED
    BY <1>0, <2>2, <2>3
<1> SUFFICES ASSUME s % m = u % m PROVE FALSE
  BY DEF SlotOf, Slot, sequence_to_index
<1> HIDE DEF p, q, s, u, d, m
<1>6. m * p \in Nat /\ m * q \in Nat
  BY <1>0, <1>5
<1>7. CASE u = s + d
  <2>1. m * q - m * p = d
    BY <1>1, <1>5, <1>6, <1>7
  <2>2. 0 < m * q - m * p /\ m * q - m * p < m
    BY <1>0, <1>1, <2>1
  <2> QED
    BY <1>0, <1>5, <2>2, NoMultiple
<1>8. CASE u = s + d - U16_MAX
  <2>1. q + k \in Nat /\ m * (q + k) = m * q + U16_MAX + 1
    BY <1>0, <1>4, <1>5
  <2>2. m * (q + k) - m * p = d + 1
    BY <1>0, <1>1, <1>5, <1>6, <1>8, <2>1
  <2>3. 0 < m * (q + k) - m * p /\ m * (q + k) - m * p < m
    BY <1>0, <1>1, <2>2
  <2> QED
    BY <1>0, <1>5, <2>1, <2>3, NoMultiple
<1> QED
  BY <1>2, <1>7, <1>8 DEF ring_plus

(***************************************************************************)
(* A set of numbers that is not empty has a least one.                     *)
(***************************************************************************)
LEMMA LeastNat ==
  ASSUME NEW S \in SUBSET Nat, S # {}
  PROVE  \E m \in S : \A k \in S : m <= k
<1>1. PICK m \in S : \A k \in S : ~ (<<k, m>> \in OpToRel(<, Nat))
  BY WFMin, NatLessThanWellFounded
<1>2. ASSUME NEW k \in S, k < m PROVE <<k, m>> \in OpToRel(<, Nat)
  <2>1. <<k, m>> \in Nat \X Nat
    OBVIOUS
  <2>2. <<k, m>>[1] = k /\ <<k, m>>[2] = m
    OBVIOUS
  <2> QED
    BY <1>2, <2>1, <2>2, Zenon DEF OpToRel
<1>3. \A k \in S : ~ (k < m)
  BY <1>1, <1>2
<1> QED
  BY <1>3

(***************************************************************************)
(* The run that publish walks is well defined: there is a first sequence   *)
(* that is not received, or the end of the walk.                           *)
(***************************************************************************)
LEMMA RunExists ==
  ASSUME NEW r, reach(r) \in Nat
  PROVE  /\ run(r) \in 0 .. reach(r)
         /\ \A k \in 0 .. run(r) - 1 : is_received(r, WalkedTo(r, k))
         /\ run(r) < reach(r) => ~ is_received(r, WalkedTo(r, run(r)))
<1> DEFINE stops == {n \in 0 .. reach(r) :
                       n < reach(r) => ~ is_received(r, WalkedTo(r, n))}
           good(n) == /\ \A k \in 0 .. n - 1 : is_received(r, WalkedTo(r, k))
                      /\ n < reach(r) => ~ is_received(r, WalkedTo(r, n))
<1>1. stops \in SUBSET Nat /\ reach(r) \in stops
  OBVIOUS
<1>2. PICK m \in stops : \A k \in stops : m <= k
  BY <1>1, LeastNat
<1>3. m \in 0 .. reach(r) /\ m \in Nat
  OBVIOUS
<1>4. ASSUME NEW k \in 0 .. m - 1 PROVE is_received(r, WalkedTo(r, k))
  <2>1. k \in 0 .. reach(r) /\ k < reach(r) /\ ~ (m <= k)
    BY <1>3
  <2>2. k \notin stops
    BY <1>2, <2>1
  <2> QED
    BY <2>1, <2>2
<1>5. m < reach(r) => ~ is_received(r, WalkedTo(r, m))
  OBVIOUS
<1>6. good(m)
  BY <1>4, <1>5
<1>7. \E n \in 0 .. reach(r) : good(n)
  BY <1>3, <1>6
<1>8. run(r) = CHOOSE n \in 0 .. reach(r) : good(n)
  BY DEF run
<1> HIDE DEF good
<1>9. run(r) \in 0 .. reach(r) /\ good(run(r))
  BY <1>7, <1>8
<1> QED
  BY <1>9 DEF good

(***************************************************************************)
(* What a walk of publish does to the position and the marks.              *)
(***************************************************************************)
LEMMA MoveFields ==
  ASSUME NEW r, DOMAIN r = Fields, NEW n, NEW far
  PROVE  LET p == move_buffered(r, n, far)
         IN  /\ DOMAIN p = Fields
             /\ p.is_ordered = r.is_ordered
             /\ p.current_sequence = IF n = 0 THEN r.current_sequence
                                              ELSE WalkedTo(r, n - 1)
             /\ p.last_sequence = r.last_sequence
             /\ p.received = r.received \ {Slot(WalkedTo(r, k)) : k \in 0 .. n - 1}
             /\ p.skipped_sequences = r.skipped_sequences
BY DEF move_buffered, Fields

(***************************************************************************)
(* The numbers the lemmas calculate with.                                  *)
(***************************************************************************)
LEMMA Bounds ==
  /\ U16_MAX \in Nat /\ HALF \in Nat /\ Farthest \in Nat /\ Latest \in Nat
  /\ RECEIVE_BUFFER_SIZE \in Nat
  /\ U16_MAX = 2 * HALF - 1 /\ HALF >= 2
  /\ Farthest <= RECEIVE_BUFFER_SIZE - 2
  /\ Farthest <= HALF - 2 /\ Latest <= HALF - 3
  /\ Farthest < U16_MAX - 1
BY SequenceAssumption, ReceiverAssumption DEF Farthest, Latest

\* Messages a receiver can hold at the same time have different slots.
LEMMA NearSlotsDiffer ==
  ASSUME NEW a \in Nat, NEW b \in Nat,
         a # b, a - b <= Farthest, b - a <= Farthest
  PROVE  SlotOf(a) # SlotOf(b)
<1>1. CASE a < b
  BY <1>1, Bounds, SlotsDiffer
<1>2. CASE b < a
  BY <1>2, Bounds, SlotsDiffer
<1> QED
  BY <1>1, <1>2

\* Less than a ring apart, a sequence belongs to one message.
LEMMA SequenceInjective ==
  ASSUME NEW a \in Nat, NEW b \in Nat, a <= b, b - a < U16_MAX,
         SequenceOf(a) = SequenceOf(b)
  PROVE  a = b
<1>1. Distance(SequenceOf(a), SequenceOf(b)) = b - a
  BY SequenceDistance
<1>2. SequenceOf(a) \in SeqNo
  BY SequenceAssumption, SequencePlus
<1> QED
  BY <1>1, <1>2 DEF Distance, SeqNo

(***************************************************************************)
(* should_increment_current says that last is more than a window ahead,    *)
(* also before the first window of the channel is full, where the          *)
(* subtraction wraps.                                                      *)
(***************************************************************************)
LEMMA ShouldIncrement ==
  ASSUME WindowFitsRing,
         NEW h \in Nat, NEW t \in Nat, h <= t, t - h <= Farthest
  PROVE  should_increment_current(SequenceOf(h), SequenceOf(t))
           <=> t - h > receive_window_size
<1> DEFINE W == receive_window_size
           a == (t + U16_MAX) - W
           b == h + U16_MAX
<1>1. W \in 0 .. U16_MAX - 1 /\ W <= HALF - 2 /\ W \in Nat
  BY Bounds, ReceiverAssumption DEF WindowFitsRing
<1>2. a \in Nat /\ b \in Nat /\ a - b <= HALF - 2 /\ b - a <= HALF - 2
  BY <1>1, Bounds
<1>3. ASSUME NEW n \in Nat PROVE SequenceOf(n + U16_MAX) = SequenceOf(n)
  <2>1. /\ n + (U16_MAX - 1) \in Nat
        /\ U16_MAX - 1 \in 0 .. U16_MAX - 1
        /\ n + U16_MAX = (n + (U16_MAX - 1)) + 1
    BY Bounds
  <2>2. SequenceOf(n + U16_MAX) = next_sequence(SequenceOf(n + (U16_MAX - 1)))
    BY <2>1, SequenceNext
  <2>3. /\ SequenceOf(n) \in SeqNo
        /\ SequenceOf(n + (U16_MAX - 1)) = ring_plus(SequenceOf(n), U16_MAX - 1)
    BY <2>1, SequencePlus
  <2> QED
    BY <2>2, <2>3, Bounds DEF next_sequence, ring_plus, SeqNo
<1>4. SequenceOf(a) = ring_minus(SequenceOf(t), W)
  <2>1. t + U16_MAX \in Nat /\ W <= t + U16_MAX
    BY <1>1, Bounds
  <2>2. SequenceOf((t + U16_MAX) - W) = ring_minus(SequenceOf(t + U16_MAX), W)
    BY <1>1, <2>1, SequenceMinus
  <2> QED
    BY <1>3, <2>2
<1>5. SequenceOf(b) = SequenceOf(h)
  BY <1>3
<1> HIDE DEF a, b
<1>6. is_greater_then(SequenceOf(a), SequenceOf(b)) <=> a > b
  BY <1>2, GreaterIsLater
<1>7. a > b <=> t - h > W
  BY <1>1, Bounds DEF a, b
<1>8. t - h > W => SequenceOf(h) # SequenceOf(t)
  <2>1. t - h < U16_MAX /\ (t - h > W => h # t)
    BY <1>1, Bounds
  <2> QED
    BY <2>1, SequenceInjective
<1> QED
  BY <1>4, <1>5, <1>6, <1>7, <1>8 DEF should_increment_current

-----------------------------------------------------------------------------
(***************************************************************************)
(* The order in which a walk publishes.                                    *)
(***************************************************************************)

\* How many numbers of S are smaller than n
Rank(S, n) == Cardinality({m \in S : m < n})

\* In a finite set of numbers, a larger number has more numbers below it.
LEMMA RankGrows ==
  ASSUME NEW S \in SUBSET Nat, IsFiniteSet(S), NEW a \in S, NEW b \in S, a < b
  PROVE  Rank(S, a) \in Nat /\ Rank(S, b) \in Nat /\ Rank(S, a) < Rank(S, b)
<1> DEFINE A == {m \in S : m < a}
           B == {m \in S : m < b}
<1>1. A \in SUBSET S /\ B \in SUBSET S /\ a \notin A
  OBVIOUS
<1>2. IsFiniteSet(A) /\ IsFiniteSet(B)
  BY <1>1, FS_Subset
<1>3. IsFiniteSet(A \cup {a}) /\ Cardinality(A \cup {a}) = Cardinality(A) + 1
  BY <1>1, <1>2, FS_AddElement
<1>4. A \cup {a} \in SUBSET B
  <2>1. a \in Nat /\ b \in Nat /\ \A m \in S : m \in Nat
    OBVIOUS
  <2>2. \A m \in S : m < a => m < b
    BY <2>1
  <2> QED
    BY <2>2
<1>5. Cardinality(A \cup {a}) <= Cardinality(B)
  BY <1>2, <1>4, FS_Subset
<1>6. Cardinality(A) \in Nat /\ Cardinality(B) \in Nat
  BY <1>2, FS_CardinalityType
<1>7. Rank(S, a) = Cardinality(A) /\ Rank(S, b) = Cardinality(B)
  BY DEF Rank
<1> HIDE DEF A, B
<1> QED
  BY <1>3, <1>5, <1>6, <1>7

\* No two numbers of a finite set have the same rank.
LEMMA RankUnique ==
  ASSUME NEW S \in SUBSET Nat, IsFiniteSet(S), NEW a \in S, NEW b \in S,
         Rank(S, a) = Rank(S, b)
  PROVE  a = b
<1>1. ~ (a < b)
  BY RankGrows
<1>2. ~ (b < a)
  BY RankGrows
<1> QED
  BY <1>1, <1>2

\* Every rank below the size of the set is some number's.
LEMMA RankTaken ==
  ASSUME NEW S \in SUBSET Nat, IsFiniteSet(S)
  PROVE  /\ Cardinality(S) \in Nat
         /\ \A n \in S : Rank(S, n) \in 0 .. Cardinality(S) - 1
         /\ \A i \in 1 .. Cardinality(S) : \E n \in S : Rank(S, n) = i - 1
<1> DEFINE N == Cardinality(S)
           f == [n \in S |-> Rank(S, n) + 1]
<1>1. N \in Nat
  BY FS_CardinalityType
<1>2. ASSUME NEW n \in S PROVE Rank(S, n) \in 0 .. N - 1
  <2> DEFINE B == {m \in S : m < n}
  <2>1. B \in SUBSET S /\ B # S
    OBVIOUS
  <2>2. IsFiniteSet(B) /\ Cardinality(B) <= N /\ Cardinality(B) # N
    BY <2>1, FS_Subset
  <2>3. Cardinality(B) \in Nat
    BY <2>2, FS_CardinalityType
  <2>4. Rank(S, n) = Cardinality(B)
    BY DEF Rank
  <2> HIDE DEF B
  <2> QED
    BY <1>1, <2>2, <2>3, <2>4
<1>3. f \in [S -> 1 .. N]
  BY <1>1, <1>2
<1>4. ASSUME NEW a \in S, NEW b \in S, f[a] = f[b] PROVE a = b
  <2>1. Rank(S, a) \in Nat /\ Rank(S, b) \in Nat
    BY <1>1, <1>2
  <2>2. Rank(S, a) = Rank(S, b)
    BY <1>4, <2>1
  <2> QED
    BY <2>2, RankUnique
<1>5. f \in Injection(S, 1 .. N)
  BY <1>3, <1>4 DEF Injection, IsInjective
<1>6. IsFiniteSet(1 .. N) /\ Cardinality(1 .. N) = N
  BY <1>1, FS_Interval
<1>7. f \in Surjection(S, 1 .. N)
  BY <1>5, <1>6, FS_Injection
<1>8. ASSUME NEW i \in 1 .. N PROVE \E n \in S : Rank(S, n) = i - 1
  <2>1. PICK n \in S : f[n] = i
    BY <1>7 DEF Surjection
  <2>2. Rank(S, n) \in Nat /\ Rank(S, n) + 1 = i
    BY <1>1, <1>2, <2>1
  <2> QED
    BY <2>2
<1> QED
  BY <1>1, <1>2, <1>8

(***************************************************************************)
(* Ascending(S) lists the numbers of S, each once, upwards.                *)
(***************************************************************************)
LEMMA AscendingLists ==
  ASSUME NEW S \in SUBSET Nat, IsFiniteSet(S)
  PROVE  LET q == Ascending(S)
         IN  /\ Cardinality(S) \in Nat
             /\ DOMAIN q = 1 .. Cardinality(S)
             /\ q \in Seq(S) /\ Len(q) = Cardinality(S)
             /\ q = [i \in 1 .. Cardinality(S) |-> q[i]]
             /\ \A i \in DOMAIN q : q[i] \in S /\ Rank(S, q[i]) = i - 1
             /\ \A i, j \in DOMAIN q : i < j => q[i] < q[j]
             /\ \A n \in S : \E i \in DOMAIN q : q[i] = n
<1> DEFINE N == Cardinality(S)
           q == Ascending(S)
<1>1. N \in Nat /\ DOMAIN q = 1 .. N
  BY RankTaken DEF Ascending
<1>2. ASSUME NEW i \in 1 .. N PROVE q[i] \in S /\ Rank(S, q[i]) = i - 1
  <2>1. q[i] = CHOOSE n \in S : Rank(S, n) = i - 1
    BY DEF Ascending, Rank
  <2>2. \E n \in S : Rank(S, n) = i - 1
    BY RankTaken
  <2> HIDE DEF q
  <2> QED
    BY <2>1, <2>2
<1>3. q = [i \in 1 .. N |-> q[i]]
  <2> DEFINE e(i) == CHOOSE n \in S : Cardinality({m \in S : m < n}) = i - 1
  <2>1. q = [i \in 1 .. N |-> e(i)]
    BY DEF Ascending
  <2> HIDE DEF e, q
  <2> QED
    BY <2>1
<1> HIDE DEF q
<1>4. q \in Seq(S) /\ Len(q) = N
  BY <1>1, <1>2, <1>3
<1>5. ASSUME NEW i \in 1 .. N, NEW j \in 1 .. N, i < j PROVE q[i] < q[j]
  <2>1. /\ q[i] \in S /\ q[j] \in S
        /\ Rank(S, q[i]) = i - 1 /\ Rank(S, q[j]) = j - 1
    BY <1>2
  <2>2. q[i] # q[j]
    BY <1>5, <2>1
  <2>3. ~ (q[j] < q[i])
    <3>1. ASSUME q[j] < q[i] PROVE j - 1 < i - 1
      BY <2>1, <3>1, RankGrows
    <3> QED
      BY <1>5, <3>1
  <2>4. q[i] \in Nat /\ q[j] \in Nat
    BY <2>1
  <2> QED
    BY <2>2, <2>3, <2>4
<1>6. ASSUME NEW n \in S PROVE \E i \in 1 .. N : q[i] = n
  <2> DEFINE i == Rank(S, n) + 1
  <2>1. i \in 1 .. N /\ Rank(S, n) = i - 1
    BY <1>1, RankTaken
  <2>2. q[i] \in S /\ Rank(S, q[i]) = Rank(S, n)
    BY <1>2, <2>1
  <2> HIDE DEF i
  <2>3. \A a, b \in S : Rank(S, a) = Rank(S, b) => a = b
    BY RankUnique
  <2>4. q[i] = n
    BY <2>2, <2>3
  <2> QED
    BY <2>1, <2>4
<1> QED
  BY <1>1, <1>2, <1>3, <1>4, <1>5, <1>6 DEF q

\* Adding the same number to all of a finite set keeps its size.
LEMMA ShiftSize ==
  ASSUME NEW S \in SUBSET Nat, IsFiniteSet(S), NEW h \in Nat
  PROVE  /\ IsFiniteSet({h + k : k \in S})
         /\ Cardinality({h + k : k \in S}) = Cardinality(S)
<1> DEFINE T == {h + k : k \in S}
           f == [k \in S |-> h + k]
<1>1. f \in [S -> T]
  OBVIOUS
<1>2. ASSUME NEW a \in S, NEW b \in S, f[a] = f[b] PROVE a = b
  BY <1>2
<1>3. f \in Injection(S, T)
  BY <1>1, <1>2 DEF Injection, IsInjective
<1>4. f \in Surjection(S, T)
  BY <1>1 DEF Surjection
<1>5. ExistsBijection(S, T)
  BY <1>3, <1>4 DEF ExistsBijection, Bijection
<1> QED
  BY <1>5, FS_Bijection

(***************************************************************************)
(* publish walks by steps from current, the queue is about messages: the   *)
(* order is the same.                                                      *)
(***************************************************************************)
LEMMA AscendingShift ==
  ASSUME NEW S \in SUBSET Nat, IsFiniteSet(S), NEW h \in Nat
  PROVE  Ascending({h + k : k \in S})
           = [i \in DOMAIN Ascending(S) |-> h + Ascending(S)[i]]
<1> DEFINE T == {h + k : k \in S}
           q == Ascending(S)
           p == Ascending(T)
           N == Cardinality(S)
<1>1. T \in SUBSET Nat /\ IsFiniteSet(T) /\ Cardinality(T) = N
  <2>1. T \in SUBSET Nat
    OBVIOUS
  <2> QED
    BY <2>1, ShiftSize
<1>2. /\ DOMAIN q = 1 .. N
      /\ \A i \in 1 .. N : q[i] \in S /\ Rank(S, q[i]) = i - 1
  BY AscendingLists
<1> HIDE DEF T
<1>3. /\ DOMAIN p = 1 .. N
      /\ \A i \in 1 .. N : p[i] \in T /\ Rank(T, p[i]) = i - 1
  BY <1>1, AscendingLists
<1>4. p = [i \in 1 .. N |-> p[i]]
  BY <1>1, AscendingLists
<1> HIDE DEF p, q
<1>5. ASSUME NEW k \in S PROVE h + k \in T /\ Rank(T, h + k) = Rank(S, k)
  <2> DEFINE B == {m \in S : m < k}
  <2>1. B \in SUBSET Nat /\ B \in SUBSET S
    OBVIOUS
  <2>2. IsFiniteSet(B)
    BY <2>1, FS_Subset
  <2>3. Cardinality({h + m : m \in B}) = Cardinality(B)
    BY <2>1, <2>2, ShiftSize
  <2>4. {m \in T : m < h + k} = {h + m : m \in B}
    BY DEF T
  <2>5. h + k \in T
    BY DEF T
  <2> QED
    BY <2>3, <2>4, <2>5 DEF Rank
<1>6. ASSUME NEW i \in 1 .. N PROVE p[i] = h + q[i]
  <2>1. h + q[i] \in T /\ Rank(T, h + q[i]) = i - 1
    BY <1>2, <1>5
  <2>2. p[i] \in T /\ Rank(T, p[i]) = i - 1
    BY <1>3
  <2>3. \A a, b \in T : Rank(T, a) = Rank(T, b) => a = b
    BY <1>1, RankUnique
  <2> QED
    BY <2>1, <2>2, <2>3
<1>7. p = [i \in DOMAIN q |-> h + q[i]]
  BY <1>2, <1>4, <1>6
<1> QED
  BY <1>7 DEF p, q, T

-----------------------------------------------------------------------------
(***************************************************************************)
(* Receiver r stands for the unbounded receiver at message c that has seen *)
(* up to message l, marks the messages m and still buffers those of w.     *)
(***************************************************************************)
Stands(r, c, l, m, w) ==
  /\ c \in Nat /\ l \in Nat /\ c <= l /\ l - c <= Farthest
  /\ DOMAIN r = Fields
  /\ r.is_ordered \in BOOLEAN
  /\ r.current_sequence = SequenceOf(c)
  /\ r.last_sequence = SequenceOf(l)
  /\ m \subseteq c .. l /\ w \subseteq m
  /\ r.received = {SlotOf(n) : n \in m}
  /\ r.buffered \in [Slots -> Nat \cup {None}]
  /\ \A n \in m : r.buffered[SlotOf(n)] = IF n \in w THEN n ELSE None
  /\ r.published \in Seq(Nat)
  /\ r.skipped_sequences \in Nat

\* Every message has a slot.
LEMMA SlotType ==
  ASSUME NEW n \in Nat PROVE SlotOf(n) \in Slots
<1>1. SequenceOf(n) \in Nat
  BY SequenceAssumption, Remainder DEF SequenceOf
<1> QED
  BY <1>1, ReceiverAssumption, Remainder
     DEF SlotOf, Slot, sequence_to_index, Slots

\* Between current and last, one slot is one message.
LEMMA OneSlotEach ==
  ASSUME NEW c \in Nat, NEW l \in Nat, l - c <= Farthest,
         NEW a \in c .. l, NEW b \in c .. l, SlotOf(a) = SlotOf(b)
  PROVE  a = b
<1>1. a \in Nat /\ b \in Nat /\ a - b <= Farthest /\ b - a <= Farthest
  BY Bounds
<1> QED
  BY <1>1, NearSlotsDiffer

(***************************************************************************)
(* The marks and the buffered messages can be read off the slots, as the   *)
(* refinement mapping does.                                                *)
(***************************************************************************)
LEMMA ReadSlots ==
  ASSUME NEW r, NEW c, NEW l, NEW m, NEW w, Stands(r, c, l, m, w)
  PROVE  /\ \A n \in c .. l : SlotOf(n) \in r.received <=> n \in m
         /\ m = {n \in c .. l : SlotOf(n) \in r.received}
         /\ w = {n \in c .. l : /\ SlotOf(n) \in r.received
                                /\ r.buffered[SlotOf(n)] = n}
<1>1. /\ c \in Nat /\ l \in Nat /\ l - c <= Farthest
      /\ m \subseteq c .. l /\ w \subseteq m
      /\ r.received = {SlotOf(n) : n \in m}
      /\ \A n \in m : r.buffered[SlotOf(n)] = IF n \in w THEN n ELSE None
  BY DEF Stands
<1>2. \A a, b \in c .. l : SlotOf(a) = SlotOf(b) => a = b
  BY <1>1, OneSlotEach
<1>3. \A n \in c .. l : SlotOf(n) \in r.received <=> n \in m
  BY <1>1, <1>2
<1>4. \A n \in m : r.buffered[SlotOf(n)] = n <=> n \in w
  <2>1. \A n \in m : n # None
    BY <1>1, ReceiverAssumption
  <2> QED
    BY <1>1, <2>1
<1> QED
  BY <1>1, <1>3, <1>4

(***************************************************************************)
(* receive_packet by message numbers: current and the marks after the      *)
(* skip, and current, last and the marks once message n has been seen.     *)
(***************************************************************************)
GivesUp(c, l) == l > c + receive_window_size

KeptCurrent(c, l) == IF GivesUp(c, l) THEN c + 1 ELSE c

KeptMarks(c, l, m) == IF GivesUp(c, l) THEN m \ {c} ELSE m

SeenCurrent(c, n) == IF n = c + 1 THEN n ELSE c

SeenLast(l, n) == IF n > l THEN n ELSE l

SeenMarks(c, m, n) == IF n = c + 1 THEN m \ {c} ELSE m

(***************************************************************************)
(* The window test and the skip of receive_packet.                         *)
(***************************************************************************)
LEMMA SkipStands ==
  ASSUME WindowFitsRing,
         NEW r, NEW c, NEW l, NEW m, NEW w, Stands(r, c, l, m, w)
  PROVE  LET p  == skip_current(r)
             m0 == KeptMarks(c, l, m)
         IN  /\ Stands(p, KeptCurrent(c, l), l, m0, w \cap m0)
             /\ p.is_ordered = r.is_ordered
             /\ p.published = r.published
             /\ p.skipped_sequences = IF GivesUp(c, l)
                                      THEN r.skipped_sequences + 1
                                      ELSE r.skipped_sequences
<1> DEFINE giveup == GivesUp(c, l)
           p == skip_current(r)
<1>1. /\ c \in Nat /\ l \in Nat /\ c <= l /\ l - c <= Farthest
      /\ DOMAIN r = Fields
      /\ r.current_sequence = SequenceOf(c) /\ r.last_sequence = SequenceOf(l)
      /\ m \subseteq c .. l /\ w \subseteq m
      /\ r.received = {SlotOf(n) : n \in m}
      /\ r.skipped_sequences \in Nat
  BY DEF Stands
<1>2. should_increment_current(r.current_sequence, r.last_sequence) <=> giveup
  <2>1. l - c > receive_window_size <=> giveup
    BY <1>1, ReceiverAssumption DEF GivesUp
  <2> QED
    BY <1>1, <2>1, ShouldIncrement
<1>3. CASE giveup
  <2>1. /\ DOMAIN p = Fields
        /\ p.is_ordered = r.is_ordered
        /\ p.current_sequence = next_sequence(r.current_sequence)
        /\ p.last_sequence = r.last_sequence
        /\ p.received = r.received \ {Slot(r.current_sequence)}
        /\ p.buffered = r.buffered
        /\ p.published = r.published
        /\ p.skipped_sequences = r.skipped_sequences + 1
    BY <1>1, <1>2, <1>3 DEF skip_current, Fields
  <2>2. p.current_sequence = SequenceOf(c + 1)
    BY <1>1, <2>1, SequenceNext
  <2>3. p.received = {SlotOf(n) : n \in m \ {c}}
    <3>1. p.received = {SlotOf(n) : n \in m} \ {SlotOf(c)}
      BY <1>1, <2>1 DEF SlotOf
    <3>2. \A k \in c .. l : SlotOf(k) = SlotOf(c) => k = c
      BY <1>1, OneSlotEach
    <3> QED
      BY <1>1, <3>1, <3>2
  <2>4. /\ c + 1 \in Nat /\ c + 1 <= l /\ l - (c + 1) <= Farthest
        /\ m \ {c} \subseteq c + 1 .. l /\ w \cap (m \ {c}) \subseteq m \ {c}
    <3>1. Farthest \in Nat /\ receive_window_size \in Nat
      BY Bounds, ReceiverAssumption
    <3>2. c + 1 \in Nat /\ c + 1 <= l /\ l - (c + 1) <= Farthest
      BY <1>1, <1>3, <3>1 DEF GivesUp
    <3>3. \A k \in c .. l : k # c => k \in c + 1 .. l
      BY <1>1
    <3> QED
      BY <1>1, <3>2, <3>3
  <2> HIDE DEF p
  <2>5. \A n \in m \ {c} : p.buffered[SlotOf(n)]
                            = IF n \in w \cap (m \ {c}) THEN n ELSE None
    BY <2>1 DEF Stands
  <2>6. p.skipped_sequences \in Nat
    BY <1>1, <2>1
  <2>7. Stands(p, c + 1, l, m \ {c}, w \cap (m \ {c}))
    BY <1>1, <2>1, <2>2, <2>3, <2>4, <2>5, <2>6 DEF Stands
  <2> QED
    BY <1>3, <2>1, <2>7 DEF p, KeptCurrent, KeptMarks
<1>4. CASE ~ giveup
  <2>1. p = r
    BY <1>2, <1>4 DEF skip_current
  <2>2. w \cap m = w
    BY <1>1
  <2> QED
    BY <1>4, <2>1, <2>2 DEF KeptCurrent, KeptMarks
<1> QED
  BY <1>3, <1>4

(***************************************************************************)
(* The second part of receive_packet, on a message after current.          *)
(***************************************************************************)
LEMMA AdvanceStands ==
  ASSUME NEW r, NEW c, NEW l, NEW m, NEW w, Stands(r, c, l, m, w),
         NEW n \in Nat, c < n, n <= c + Farthest
  PROVE  LET p  == advance_to(r, SequenceOf(n))
             m1 == SeenMarks(c, m, n)
         IN  /\ Stands(p, SeenCurrent(c, n), SeenLast(l, n), m1, w \cap m1)
             /\ p.is_ordered = r.is_ordered
             /\ p.published = r.published
             /\ p.skipped_sequences = r.skipped_sequences
<1> DEFINE s == SequenceOf(n)
           p == advance_to(r, s)
           u == SeenLast(l, n)
<1>1. /\ c \in Nat /\ l \in Nat /\ c <= l /\ l - c <= Farthest
      /\ DOMAIN r = Fields
      /\ r.current_sequence = SequenceOf(c) /\ r.last_sequence = SequenceOf(l)
      /\ m \subseteq c .. l /\ w \subseteq m
      /\ r.received = {SlotOf(k) : k \in m}
  BY DEF Stands
<1>2. is_greater_then(s, r.last_sequence) <=> n > l
  <2>1. n - l <= HALF - 2 /\ l - n <= HALF - 2
    BY <1>1, Bounds
  <2> QED
    BY <1>1, <2>1, GreaterIsLater
<1>3. s = next_sequence(r.current_sequence) <=> n = c + 1
  <2>1. next_sequence(r.current_sequence) = SequenceOf(c + 1)
    BY <1>1, SequenceNext
  <2>2. c + 1 \in Nat /\ c + 1 <= n /\ n - (c + 1) < U16_MAX
    BY <1>1, Bounds
  <2> QED
    BY <2>1, <2>2, SequenceInjective
<1>4. /\ DOMAIN p = Fields
      /\ p.is_ordered = r.is_ordered
      /\ p.last_sequence = SequenceOf(u)
      /\ p.buffered = r.buffered
      /\ p.published = r.published
      /\ p.skipped_sequences = r.skipped_sequences
  BY <1>1, <1>2 DEF advance_to, Fields, SeenLast
<1>5. /\ u \in Nat /\ c <= u /\ l <= u /\ n <= u /\ u - c <= Farthest
  BY <1>1, Bounds DEF SeenLast
<1>6. CASE n = c + 1
  <2>1. /\ p.current_sequence = s
        /\ p.received = r.received \ {Slot(r.current_sequence)}
    BY <1>1, <1>3, <1>6 DEF advance_to, Fields
  <2>2. p.received = {SlotOf(k) : k \in m \ {c}}
    <3>1. p.received = {SlotOf(k) : k \in m} \ {SlotOf(c)}
      BY <1>1, <2>1 DEF SlotOf
    <3>2. \A k \in c .. l : SlotOf(k) = SlotOf(c) => k = c
      BY <1>1, OneSlotEach
    <3> QED
      BY <1>1, <3>1, <3>2
  <2>3. /\ n <= u /\ u - n <= Farthest
        /\ m \ {c} \subseteq n .. u /\ w \cap (m \ {c}) \subseteq m \ {c}
    BY <1>1, <1>5, <1>6, Bounds
  <2> HIDE DEF p, u
  <2>4. Stands(p, n, u, m \ {c}, w \cap (m \ {c}))
    BY <1>4, <1>5, <2>1, <2>2, <2>3 DEF Stands
  <2> QED
    BY <1>4, <1>6, <2>4 DEF p, u, SeenCurrent, SeenMarks
<1>7. CASE n # c + 1
  <2>1. p.current_sequence = r.current_sequence /\ p.received = r.received
    BY <1>1, <1>3, <1>7 DEF advance_to, Fields
  <2>2. m \subseteq c .. u /\ w \cap m = w
    <3>1. c .. l \subseteq c .. u
      BY <1>1, <1>5
    <3> QED
      BY <1>1, <3>1
  <2> HIDE DEF p, u
  <2>3. Stands(p, c, u, m, w)
    BY <1>1, <1>4, <1>5, <2>1, <2>2 DEF Stands
  <2> QED
    BY <1>4, <1>7, <2>2, <2>3 DEF p, u, SeenCurrent, SeenMarks
<1> QED
  BY <1>6, <1>7

(***************************************************************************)
(* set_buffered and set_received on a message that is not marked.          *)
(***************************************************************************)
LEMMA ReceivedStands ==
  ASSUME NEW r, NEW c, NEW l, NEW m, NEW w, Stands(r, c, l, m, w),
         NEW n \in c .. l, n \notin m
  PROVE  LET p == set_received(r, SequenceOf(n), n)
         IN  /\ Stands(p, c, l, m \cup {n}, w \cup {n})
             /\ p.is_ordered = r.is_ordered
             /\ p.published = r.published
             /\ p.skipped_sequences = r.skipped_sequences
<1> DEFINE p == set_received(r, SequenceOf(n), n)
<1>1. /\ c \in Nat /\ l \in Nat /\ c <= l /\ l - c <= Farthest
      /\ DOMAIN r = Fields
      /\ m \subseteq c .. l /\ w \subseteq m
      /\ r.received = {SlotOf(k) : k \in m}
      /\ r.buffered \in [Slots -> Nat \cup {None}]
      /\ \A k \in m : r.buffered[SlotOf(k)] = IF k \in w THEN k ELSE None
  BY DEF Stands
<1>2. /\ DOMAIN p = Fields
      /\ p.is_ordered = r.is_ordered
      /\ p.current_sequence = r.current_sequence
      /\ p.last_sequence = r.last_sequence
      /\ p.received = r.received \cup {SlotOf(n)}
      /\ p.buffered = [r.buffered EXCEPT ![SlotOf(n)] = n]
      /\ p.published = r.published
      /\ p.skipped_sequences = r.skipped_sequences
  BY <1>1 DEF set_received, Fields, SlotOf
<1>3. n \in Nat /\ SlotOf(n) \in Slots
  BY <1>1, SlotType
<1>4. p.buffered \in [Slots -> Nat \cup {None}]
  BY <1>1, <1>2, <1>3
<1>5. ASSUME NEW k \in m \cup {n}
      PROVE  p.buffered[SlotOf(k)] = IF k \in w \cup {n} THEN k ELSE None
  <2>1. CASE k = n
    BY <1>1, <1>2, <1>3, <2>1
  <2>2. CASE k # n
    <3>1. SlotOf(k) # SlotOf(n)
      BY <1>1, <2>2, OneSlotEach
    <3>2. k \in Nat /\ SlotOf(k) \in Slots
      BY <1>1, <1>3, SlotType
    <3>3. p.buffered[SlotOf(k)] = r.buffered[SlotOf(k)]
      BY <1>1, <1>2, <3>1, <3>2
    <3> QED
      BY <1>1, <2>2, <3>3
  <2> QED
    BY <2>1, <2>2
<1>6. p.received = {SlotOf(k) : k \in m \cup {n}}
  BY <1>1, <1>2
<1> HIDE DEF p
<1>7. Stands(p, c, l, m \cup {n}, w \cup {n})
  BY <1>1, <1>2, <1>4, <1>5, <1>6 DEF Stands
<1> QED
  BY <1>2, <1>7 DEF p

-----------------------------------------------------------------------------
(***************************************************************************)
(* publish by message numbers: what it visits, the run it finds, what it   *)
(* hands out and where it leaves current.                                  *)
(***************************************************************************)
Walked(c, l) == {n \in c .. l : n < c + receive_window_size}

RunOf(c, l, m) == {n \in Walked(c, l) : \A k \in c .. n : k \in m}

OutOf(o, c, l, m, w) == w \cap (IF o THEN RunOf(c, l, m) ELSE Walked(c, l))

EndOf(c, l, m) ==
  IF RunOf(c, l, m) = {} THEN c
  ELSE CHOOSE n \in RunOf(c, l, m) : \A k \in RunOf(c, l, m) : k <= n

(***************************************************************************)
(* The walk of publish, step by step, is the walk over the messages.       *)
(***************************************************************************)
LEMMA WalkStands ==
  ASSUME NEW r, NEW c, NEW l, NEW m, NEW w, Stands(r, c, l, m, w)
  PROVE  /\ reach(r) \in Nat /\ run(r) \in 0 .. reach(r)
         /\ \A k \in 0 .. reach(r) - 1 :
              /\ c + k \in c .. l
              /\ WalkedTo(r, k) = SequenceOf(c + k)
              /\ Slot(WalkedTo(r, k)) = SlotOf(c + k)
         /\ Walked(c, l) = c .. c + reach(r) - 1
         /\ RunOf(c, l, m) = c .. c + run(r) - 1
         /\ EndOf(c, l, m) = IF run(r) = 0 THEN c ELSE c + run(r) - 1
<1> DEFINE R == reach(r)
           N == run(r)
           W == receive_window_size
<1>1. /\ c \in Nat /\ l \in Nat /\ c <= l /\ l - c <= Farthest
      /\ l - c < U16_MAX - 1
      /\ r.current_sequence = SequenceOf(c) /\ r.last_sequence = SequenceOf(l)
  BY Bounds DEF Stands
<1>2. W \in Nat
  BY ReceiverAssumption
<1>3. R = IF (l - c) + 1 < W THEN (l - c) + 1 ELSE W
  <2>1. Distance(r.current_sequence, r.last_sequence) = l - c
    BY <1>1, Bounds, SequenceDistance
  <2> QED
    BY <2>1 DEF reach
<1>4. R \in Nat /\ R <= l - c + 1
  BY <1>1, <1>2, <1>3
<1>5. /\ N \in 0 .. R
      /\ \A k \in 0 .. N - 1 : is_received(r, WalkedTo(r, k))
      /\ N < R => ~ is_received(r, WalkedTo(r, N))
  BY <1>4, RunExists
<1>6. Walked(c, l) = c .. c + R - 1
  <2> HIDE DEF W
  <2>1. \A n \in Nat : c <= n => (n <= l /\ n < c + W <=> n <= c + R - 1)
    <3> HIDE DEF R
    <3> QED
      BY <1>1, <1>2, <1>3
  <2>2. Walked(c, l) = {n \in c .. l : n < c + W}
    BY DEF Walked, W
  <2> QED
    BY <1>1, <1>4, <2>1, <2>2
<1> HIDE DEF R, N, W
<1>7. ASSUME NEW k \in 0 .. R - 1
      PROVE  /\ c + k \in c .. l
             /\ WalkedTo(r, k) = SequenceOf(c + k)
             /\ Slot(WalkedTo(r, k)) = SlotOf(c + k)
             /\ is_received(r, WalkedTo(r, k)) <=> c + k \in m
  <2>1. k \in 0 .. U16_MAX - 1 /\ c + k \in c .. l
    BY <1>1, <1>4, Bounds
  <2>2. WalkedTo(r, k) = SequenceOf(c + k)
    BY <1>1, <2>1, SequencePlus DEF WalkedTo
  <2>3. SlotOf(c + k) \in r.received <=> c + k \in m
    BY <2>1, ReadSlots
  <2> QED
    BY <2>1, <2>2, <2>3 DEF is_received, SlotOf
<1>8. RunOf(c, l, m) = c .. c + N - 1
  <2>1. ASSUME NEW n \in RunOf(c, l, m) PROVE n \in c .. c + N - 1
    <3>1. n \in c .. c + R - 1 /\ \A k \in c .. n : k \in m
      BY <1>6 DEF RunOf
    <3>2. n \in Nat /\ n - c \in 0 .. R - 1
      BY <1>1, <1>4, <3>1
    <3>3. ASSUME n > c + N - 1 PROVE FALSE
      <4>1. N \in 0 .. R - 1 /\ N < R /\ c + N \in c .. n
        BY <1>1, <1>4, <1>5, <3>2, <3>3
      <4>2. c + N \in m
        BY <3>1, <4>1
      <4> QED
        BY <1>5, <1>7, <4>1, <4>2
    <3> QED
      BY <1>1, <1>5, <3>1, <3>2, <3>3
  <2>2. ASSUME NEW n \in c .. c + N - 1 PROVE n \in RunOf(c, l, m)
    <3>1. n \in c .. c + R - 1
      BY <1>1, <1>4, <1>5
    <3>2. ASSUME NEW k \in c .. n PROVE k \in m
      <4>1. k - c \in 0 .. N - 1 /\ k - c \in 0 .. R - 1 /\ c + (k - c) = k
        BY <1>1, <1>4, <1>5
      <4> QED
        BY <1>5, <1>7, <4>1
    <3> QED
      BY <1>6, <3>1, <3>2 DEF RunOf
  <2> QED
    BY <2>1, <2>2
<1>9. EndOf(c, l, m) = IF N = 0 THEN c ELSE c + N - 1
  <2> DEFINE S == RunOf(c, l, m)
             e == c + N - 1
  <2>1. CASE N = 0
    <3>1. S = {}
      BY <1>1, <1>8, <2>1
    <3> QED
      BY <2>1, <3>1 DEF EndOf
  <2>2. CASE N # 0
    <3>1. S = c .. e /\ e \in S /\ \A k \in S : k <= e
      BY <1>1, <1>4, <1>5, <1>8, <2>2
    <3>2. ASSUME NEW n \in S, \A k \in S : k <= n PROVE n = e
      <4>1. n \in Int /\ e \in Int /\ n <= e
        BY <1>1, <1>4, <1>5, <3>1
      <4>2. e <= n
        BY <3>1, <3>2
      <4> HIDE DEF e
      <4> QED
        BY <4>1, <4>2
    <3> HIDE DEF S, e
    <3>3. (CHOOSE n \in S : \A k \in S : k <= n) = e
      BY <3>1, <3>2
    <3>4. EndOf(c, l, m) = CHOOSE n \in S : \A k \in S : k <= n
      BY <3>1 DEF EndOf, S
    <3> QED
      BY <2>2, <3>3, <3>4 DEF e
  <2> QED
    BY <2>1, <2>2
<1> QED
  BY <1>4, <1>5, <1>6, <1>7, <1>8, <1>9 DEF R, N

(***************************************************************************)
(* publish hands out, upwards, the messages it should, and leaves current, *)
(* the marks and the buffer where the unbounded receiver does.             *)
(***************************************************************************)
LEMMA PublishStands ==
  ASSUME NEW r, NEW c, NEW l, NEW m, NEW w, Stands(r, c, l, m, w)
  PROVE  LET p   == publish(r)
             out == OutOf(r.is_ordered, c, l, m, w)
         IN  /\ EndOf(c, l, m) \in c .. l
             /\ Stands(p, EndOf(c, l, m), l, m \ RunOf(c, l, m), w \ out)
             /\ p.is_ordered = r.is_ordered
             /\ p.published = r.published \o Ascending(out)
             /\ p.skipped_sequences = r.skipped_sequences
<1> DEFINE R     == reach(r)
           N     == run(r)
           far   == IF r.is_ordered THEN N ELSE R
           found == to_publish(r, far)
           out   == OutOf(r.is_ordered, c, l, m, w)
           gone  == RunOf(c, l, m)
           e     == EndOf(c, l, m)
           p     == publish(r)
<1>1. /\ c \in Nat /\ l \in Nat /\ c <= l /\ l - c <= Farthest
      /\ DOMAIN r = Fields
      /\ r.is_ordered \in BOOLEAN
      /\ r.current_sequence = SequenceOf(c) /\ r.last_sequence = SequenceOf(l)
      /\ m \subseteq c .. l /\ w \subseteq m
      /\ r.received = {SlotOf(n) : n \in m}
      /\ r.buffered \in [Slots -> Nat \cup {None}]
      /\ \A n \in m : r.buffered[SlotOf(n)] = IF n \in w THEN n ELSE None
      /\ r.published \in Seq(Nat)
      /\ r.skipped_sequences \in Nat
  BY DEF Stands
<1>2. /\ R \in Nat /\ N \in 0 .. R
      /\ \A k \in 0 .. R - 1 : /\ c + k \in c .. l
                               /\ WalkedTo(r, k) = SequenceOf(c + k)
                               /\ Slot(WalkedTo(r, k)) = SlotOf(c + k)
      /\ Walked(c, l) = c .. c + R - 1
      /\ gone = c .. c + N - 1
      /\ e = IF N = 0 THEN c ELSE c + N - 1
  BY WalkStands
<1>3. p = move_buffered(r, N, far)
  BY DEF publish
<1>4. /\ DOMAIN p = Fields
      /\ p.is_ordered = r.is_ordered
      /\ p.current_sequence = IF N = 0 THEN r.current_sequence
                                       ELSE WalkedTo(r, N - 1)
      /\ p.last_sequence = r.last_sequence
      /\ p.received = r.received \ {Slot(WalkedTo(r, k)) : k \in 0 .. N - 1}
      /\ p.skipped_sequences = r.skipped_sequences
  BY <1>1, <1>3, MoveFields
<1>5. /\ p.buffered =
           [i \in Slots |->
              IF i \in {Slot(WalkedTo(r, k)) : k \in found}
              THEN None ELSE r.buffered[i]]
      /\ p.published =
           r.published \o
             [i \in DOMAIN Ascending(found) |->
                r.buffered[Slot(WalkedTo(r, Ascending(found)[i]))]]
  <2> HIDE DEF p, far, N
  <2> QED
    BY <1>1, <1>3 DEF move_buffered, Fields
<1>6. far \in 0 .. R /\ out = w \cap (c .. c + far - 1)
  BY <1>1, <1>2 DEF OutOf
<1>7. found = {k \in 0 .. far - 1 : /\ is_received(r, WalkedTo(r, k))
                                    /\ is_buffered(r, WalkedTo(r, k))}
  BY DEF to_publish
<1> HIDE DEF R, N, far, found, out, gone, e, p
<1>8. ASSUME NEW k \in 0 .. far - 1
      PROVE  k \in found <=> c + k \in w
  <2>1. k \in 0 .. R - 1
    BY <1>2, <1>6
  <2>2. c + k \in c .. l /\ Slot(WalkedTo(r, k)) = SlotOf(c + k)
    BY <1>2, <2>1
  <2>3. is_received(r, WalkedTo(r, k)) <=> c + k \in m
    BY <2>2, ReadSlots DEF is_received
  <2>4. c + k \in Nat /\ c + k # None
    BY <1>1, <1>2, <2>1, ReceiverAssumption
  <2>5. c + k \in m => (is_buffered(r, WalkedTo(r, k)) <=> c + k \in w)
    BY <1>1, <2>2, <2>4 DEF is_buffered
  <2> QED
    BY <1>1, <1>7, <2>3, <2>5
<1>9. out = {c + k : k \in found} /\ found \subseteq 0 .. far - 1
  <2>1. ASSUME NEW n \in out PROVE \E k \in found : n = c + k
    <3>1. n \in w /\ n \in c .. c + far - 1
      BY <1>6
    <3>2. n - c \in 0 .. far - 1 /\ c + (n - c) = n
      BY <1>1, <1>2, <1>6, <3>1
    <3> QED
      BY <1>8, <3>1, <3>2
  <2>2. found \subseteq 0 .. far - 1
    BY <1>7
  <2>3. ASSUME NEW k \in found PROVE c + k \in out
    <3>1. k \in 0 .. far - 1 /\ c + k \in c .. c + far - 1
      BY <1>1, <1>2, <1>6, <2>2
    <3> QED
      BY <1>6, <1>8, <3>1
  <2> QED
    BY <2>1, <2>2, <2>3
<1>10. found \in SUBSET Nat /\ IsFiniteSet(found)
  <2>1. IsFiniteSet(0 .. far - 1)
    BY <1>2, <1>6, FS_Interval
  <2>2. found \in SUBSET (0 .. far - 1)
    BY <1>9
  <2>3. found \in SUBSET Nat
    BY <1>2, <1>6, <1>9
  <2> QED
    BY <2>1, <2>2, <2>3, FS_Subset
<1>11. p.published = r.published \o Ascending(out)
  <2> DEFINE A == Ascending(found)
  <2>1. Ascending(out) = [i \in DOMAIN A |-> c + A[i]]
    BY <1>1, <1>9, <1>10, AscendingShift
  <2>2. ASSUME NEW i \in DOMAIN A
        PROVE  r.buffered[Slot(WalkedTo(r, A[i]))] = c + A[i]
    <3>1. A[i] \in found
      BY <1>10, AscendingLists
    <3> HIDE DEF A
    <3>2. A[i] \in 0 .. far - 1 /\ A[i] \in 0 .. R - 1
      <4>1. A[i] \in 0 .. far - 1
        BY <1>9, <3>1
      <4> QED
        BY <1>2, <1>6, <4>1
    <3>3. c + A[i] \in w /\ Slot(WalkedTo(r, A[i])) = SlotOf(c + A[i])
      BY <1>2, <1>8, <3>1, <3>2
    <3> QED
      BY <1>1, <3>3
  <2> HIDE DEF A
  <2>3. [i \in DOMAIN A |-> r.buffered[Slot(WalkedTo(r, A[i]))]]
          = [i \in DOMAIN A |-> c + A[i]]
    BY <2>2
  <2> QED
    BY <1>5, <2>1, <2>3, Zenon DEF A
<1>12. p.published \in Seq(Nat)
  <2>1. out \in SUBSET Nat /\ IsFiniteSet(out)
    <3>1. out \in SUBSET Nat
      BY <1>1, <1>6
    <3>2. IsFiniteSet({c + k : k \in found})
      BY <1>1, <1>10, ShiftSize
    <3> QED
      BY <1>9, <3>1, <3>2
  <2> DEFINE q == Ascending(out)
             n == Cardinality(out)
  <2>2. n \in Nat /\ q = [i \in 1 .. n |-> q[i]] /\ \A i \in 1 .. n : q[i] \in out
    BY <2>1, AscendingLists
  <2> HIDE DEF q, n
  <2>3. q \in Seq(Nat)
    BY <2>1, <2>2
  <2> QED
    BY <1>1, <1>11, <2>3 DEF q
<1>13. gone \subseteq c .. l /\ m \ gone \subseteq e .. l
  <2>1. gone \subseteq c .. c + R - 1
    BY <1>1, <1>2
  <2>2. \A n \in c .. c + R - 1 : n \in c .. l
    <3>1. ASSUME NEW n \in c .. c + R - 1 PROVE n \in c .. l
      <4>1. n - c \in 0 .. R - 1 /\ c + (n - c) = n
        BY <1>1, <1>2
      <4> QED
        BY <1>2, <4>1
    <3> QED
      BY <3>1
  <2>3. \A n \in c .. l : n \notin gone => n \in e .. l
    BY <1>1, <1>2
  <2> QED
    BY <1>1, <2>1, <2>2, <2>3
<1>14. /\ e \in Nat /\ e \in c .. l /\ e <= l /\ l - e <= Farthest
       /\ p.current_sequence = SequenceOf(e)
  <2>1. CASE N = 0
    BY <1>1, <1>2, <1>4, <2>1
  <2>2. CASE N # 0
    <3>1. N - 1 \in 0 .. R - 1 /\ c + (N - 1) = c + N - 1
      BY <1>1, <1>2, <2>2
    <3>2. c + N - 1 \in c .. l /\ WalkedTo(r, N - 1) = SequenceOf(c + N - 1)
      BY <1>2, <3>1
    <3>3. e = c + N - 1
      BY <1>2, <2>2
    <3> QED
      BY <1>1, <1>4, <2>2, <3>2, <3>3, Bounds
  <2> QED
    BY <2>1, <2>2
<1>15. p.received = {SlotOf(n) : n \in m \ gone}
  <2>1. {Slot(WalkedTo(r, k)) : k \in 0 .. N - 1} = {SlotOf(n) : n \in gone}
    <3>1. ASSUME NEW k \in 0 .. N - 1
          PROVE  c + k \in gone /\ Slot(WalkedTo(r, k)) = SlotOf(c + k)
      <4>1. k \in 0 .. R - 1 /\ c + k \in c .. c + N - 1
        BY <1>1, <1>2
      <4> QED
        BY <1>2, <4>1
    <3>2. ASSUME NEW n \in gone
          PROVE  \E k \in 0 .. N - 1 : SlotOf(n) = Slot(WalkedTo(r, k))
      <4>1. n - c \in 0 .. N - 1 /\ c + (n - c) = n
        BY <1>1, <1>2
      <4> QED
        BY <3>1, <4>1
    <3> QED
      BY <3>1, <3>2
  <2>2. \A a, b \in c .. l : SlotOf(a) = SlotOf(b) => a = b
    BY <1>1, OneSlotEach
  <2>3. {SlotOf(n) : n \in m} \ {SlotOf(n) : n \in gone}
          = {SlotOf(n) : n \in m \ gone}
    BY <1>1, <1>13, <2>2
  <2> QED
    BY <1>1, <1>4, <2>1, <2>3
<1>16. p.buffered \in [Slots -> Nat \cup {None}]
  BY <1>1, <1>5
<1>17. ASSUME NEW n \in m \ gone
       PROVE  p.buffered[SlotOf(n)] = IF n \in w \ out THEN n ELSE None
  <2>1. n \in c .. l /\ n \in Nat /\ SlotOf(n) \in Slots
    BY <1>1, SlotType
  <2>2. SlotOf(n) \in {Slot(WalkedTo(r, k)) : k \in found} <=> n \in out
    <3>1. ASSUME NEW k \in found
          PROVE  /\ Slot(WalkedTo(r, k)) = SlotOf(c + k)
                 /\ c + k \in c .. l /\ c + k \in out
      <4>1. k \in 0 .. R - 1
        BY <1>2, <1>6, <1>9
      <4> QED
        BY <1>2, <1>9, <4>1
    <3>2. \A b \in c .. l : SlotOf(b) = SlotOf(n) => b = n
      BY <1>1, <2>1, OneSlotEach
    <3>3. ASSUME n \in out
          PROVE  \E k \in found : SlotOf(n) = Slot(WalkedTo(r, k))
      BY <1>9, <3>1, <3>3
    <3>4. ASSUME NEW k \in found, SlotOf(n) = Slot(WalkedTo(r, k))
          PROVE  n \in out
      BY <3>1, <3>2, <3>4
    <3> QED
      BY <3>3, <3>4
  <2>3. p.buffered[SlotOf(n)] = IF n \in out THEN None ELSE r.buffered[SlotOf(n)]
    BY <1>5, <2>1, <2>2
  <2> QED
    BY <1>1, <2>3
<1>18. w \ out \subseteq m \ gone
  BY <1>1, <1>2, <1>6 DEF far
<1>19. Stands(p, e, l, m \ gone, w \ out)
  BY <1>1, <1>4, <1>12, <1>13, <1>14, <1>15, <1>16, <1>17, <1>18 DEF Stands
<1> QED
  BY <1>4, <1>11, <1>14, <1>19 DEF p, out, gone, e

(***************************************************************************)
(* receive_packet of message n by a receiver r that stands at c, l, m, w   *)
(* leaves p and returns ok: it refuses a message up to current or marked,  *)
(* and accepts and hands out any other, as the unbounded receiver does.    *)
(***************************************************************************)
Received(r, c, l, m, w, n, p, ok) ==
  LET c0  == KeptCurrent(c, l)
      m0  == KeptMarks(c, l, m)
      c1  == SeenCurrent(c0, n)
      l1  == SeenLast(l, n)
      m1  == SeenMarks(c0, m0, n)
      m2  == m1 \cup {n}
      w2  == (w \cap m1) \cup {n}
      out == OutOf(r.is_ordered, c1, l1, m2, w2)
  IN  /\ p.is_ordered = r.is_ordered
      /\ p.skipped_sequences = IF GivesUp(c, l) THEN r.skipped_sequences + 1
                                               ELSE r.skipped_sequences
      /\ c0 \in Nat /\ c0 <= l
      /\ \/ /\ n <= c0
            /\ ok = FALSE
            /\ Stands(p, c0, l, m0, w \cap m0)
            /\ p.published = r.published
         \/ /\ n > c0 /\ n \in m1
            /\ ok = FALSE
            /\ Stands(p, c1, l1, m1, w \cap m1)
            /\ p.published = r.published
         \/ /\ n > c0 /\ n \notin m1
            /\ ok = TRUE
            /\ n \in c1 .. l1 /\ m1 \subseteq c1 .. l1
            /\ EndOf(c1, l1, m2) \in c1 .. l1
            /\ Stands(p, EndOf(c1, l1, m2), l1,
                      m2 \ RunOf(c1, l1, m2), w2 \ out)
            /\ p.published = r.published \o Ascending(out)

LEMMA ReceiveStands ==
  ASSUME WindowFitsRing,
         NEW r, NEW c, NEW l, NEW m, NEW w, Stands(r, c, l, m, w),
         NEW n \in Nat, n <= c + Farthest, n >= c - Latest
  PROVE  LET result == receive_packet(r, SequenceOf(n), n)
         IN  Received(r, c, l, m, w, n, result.receiver, result.accepted)
<1> DEFINE s       == SequenceOf(n)
           skipped == skip_current(r)
           moved   == advance_to(skipped, s)
           stored  == set_received(moved, s, n)
           result  == receive_packet(r, s, n)
           c0  == KeptCurrent(c, l)
           m0  == KeptMarks(c, l, m)
           c1  == SeenCurrent(c0, n)
           l1  == SeenLast(l, n)
           m1  == SeenMarks(c0, m0, n)
           m2  == m1 \cup {n}
           w2  == (w \cap m1) \cup {n}
           out == OutOf(r.is_ordered, c1, l1, m2, w2)
<1>1. c \in Nat /\ l \in Nat /\ c <= l /\ l - c <= Farthest
  BY DEF Stands
<1>2. /\ Stands(skipped, c0, l, m0, w \cap m0)
      /\ skipped.is_ordered = r.is_ordered
      /\ skipped.published = r.published
      /\ skipped.skipped_sequences = IF GivesUp(c, l)
                                     THEN r.skipped_sequences + 1
                                     ELSE r.skipped_sequences
  BY SkipStands
<1>3. c0 \in Nat /\ c0 <= l /\ c <= c0 /\ c0 <= c + 1
  BY <1>1, ReceiverAssumption DEF KeptCurrent, GivesUp
<1> HIDE DEF s, skipped, c0, m0
<1>4. is_greater_then(s, skipped.current_sequence) <=> n > c0
  <2>1. n - c0 <= HALF - 2 /\ c0 - n <= HALF - 2
    BY <1>1, <1>3, Bounds
  <2>2. skipped.current_sequence = SequenceOf(c0)
    BY <1>2 DEF Stands
  <2> QED
    BY <1>3, <2>1, <2>2, GreaterIsLater DEF s
<1>5. CASE n <= c0
  <2>1. ~ is_greater_then(s, skipped.current_sequence)
    BY <1>3, <1>4, <1>5
  <2>2. result.accepted = FALSE /\ result.receiver = skipped
    BY <2>1 DEF receive_packet, skipped
  <2> HIDE DEF result
  <2> QED
    BY <1>2, <1>3, <1>5, <2>2 DEF Received, result, s, c0, m0
<1>6. CASE n > c0
  <2>1. /\ Stands(moved, c1, l1, m1, (w \cap m0) \cap m1)
        /\ moved.is_ordered = skipped.is_ordered
        /\ moved.published = skipped.published
        /\ moved.skipped_sequences = skipped.skipped_sequences
    <3>1. c0 < n /\ n <= c0 + Farthest
      BY <1>1, <1>3, <1>6, Bounds
    <3> QED
      BY <1>2, <3>1, AdvanceStands DEF s
  <2>2. (w \cap m0) \cap m1 = w \cap m1
    BY DEF SeenMarks
  <2>3. n \in c1 .. l1 /\ m1 \subseteq c1 .. l1
    BY <1>1, <1>3, <1>6, <2>1 DEF SeenCurrent, SeenLast, Stands
  <2> HIDE DEF moved, stored, result, c1, l1, m1
  <2>4. is_received(moved, s) <=> n \in m1
    <3>1. SlotOf(n) \in moved.received <=> n \in m1
      BY <2>1, <2>3, ReadSlots
    <3> QED
      BY <3>1 DEF is_received, SlotOf, s
  <2>5. CASE n \in m1
    <3>1. result.accepted = FALSE /\ result.receiver = moved
      BY <1>4, <1>6, <2>4, <2>5 DEF receive_packet, skipped, moved, result
    <3> QED
      BY <1>2, <1>3, <1>6, <2>1, <2>2, <2>5, <3>1
         DEF Received, result, s, c0, m0, c1, l1, m1
  <2>6. CASE n \notin m1
    <3>1. result.accepted = TRUE /\ result.receiver = publish(stored)
      BY <1>4, <1>6, <2>4, <2>6 DEF receive_packet, skipped, moved, stored, result
    <3>2. /\ Stands(stored, c1, l1, m2, w2)
          /\ stored.is_ordered = moved.is_ordered
          /\ stored.published = moved.published
          /\ stored.skipped_sequences = moved.skipped_sequences
      <4> DEFINE x == set_received(moved, SequenceOf(n), n)
      <4>1. Stands(moved, c1, l1, m1, w \cap m1)
        BY <2>1, <2>2
      <4>2. /\ Stands(x, c1, l1, m1 \cup {n}, (w \cap m1) \cup {n})
            /\ x.is_ordered = moved.is_ordered
            /\ x.published = moved.published
            /\ x.skipped_sequences = moved.skipped_sequences
        BY <2>3, <2>6, <4>1, ReceivedStands
      <4> QED
        BY <4>2 DEF stored, s
    <3>3. stored.is_ordered = r.is_ordered
      BY <1>2, <2>1, <3>2
    <3> HIDE DEF m2, w2, out
    <3>4. /\ EndOf(c1, l1, m2) \in c1 .. l1
          /\ Stands(publish(stored), EndOf(c1, l1, m2), l1,
                    m2 \ RunOf(c1, l1, m2), w2 \ out)
          /\ publish(stored).is_ordered = stored.is_ordered
          /\ publish(stored).published = stored.published \o Ascending(out)
          /\ publish(stored).skipped_sequences = stored.skipped_sequences
      <4>1. out = OutOf(stored.is_ordered, c1, l1, m2, w2)
        BY <3>3 DEF out
      <4> DEFINE o == OutOf(stored.is_ordered, c1, l1, m2, w2)
                 q == publish(stored)
      <4>2. /\ EndOf(c1, l1, m2) \in c1 .. l1
            /\ Stands(q, EndOf(c1, l1, m2), l1, m2 \ RunOf(c1, l1, m2), w2 \ o)
            /\ q.is_ordered = stored.is_ordered
            /\ q.published = stored.published \o Ascending(o)
            /\ q.skipped_sequences = stored.skipped_sequences
        BY <3>2, PublishStands
      <4> QED
        BY <4>1, <4>2, Zenon
    <3>5. /\ publish(stored).published = r.published \o Ascending(out)
          /\ publish(stored).is_ordered = r.is_ordered
          /\ publish(stored).skipped_sequences
               = IF GivesUp(c, l) THEN r.skipped_sequences + 1
                                  ELSE r.skipped_sequences
      BY <1>2, <2>1, <3>2, <3>3, <3>4
    <3> QED
      BY <1>3, <1>6, <2>3, <2>6, <3>1, <3>4, <3>5
         DEF Received, result, s, c0, m0, c1, l1, m1, m2, w2, out
  <2> QED
    BY <2>5, <2>6
<1>7. n <= c0 \/ n > c0
  BY <1>3
<1> QED
  BY <1>5, <1>6, <1>7

(***************************************************************************)
(* What the unbounded receiver at c, l, m, w knows of the messages acc it  *)
(* accepted and of those hnd it handed out; o says whether it is ordered.  *)
(***************************************************************************)
Known(o, c, l, m, w, acc, hnd) ==
  /\ c \in Nat /\ l \in Nat /\ c <= l
  /\ m \subseteq c .. l /\ w \subseteq m
  /\ acc \subseteq Nat /\ \A n \in acc : 1 <= n /\ n <= l
  /\ m \subseteq acc /\ \A n \in acc : n > c => n \in m
  /\ hnd \subseteq acc
  /\ w \cap hnd = {}
  /\ m \ w \subseteq hnd
  /\ o => \A n \in hnd : n <= c

(***************************************************************************)
(* EndOf is the last message of the run, if there is a run.                *)
(***************************************************************************)
LEMMA RunEnds ==
  ASSUME NEW c \in Nat, NEW l \in Nat, c <= l, NEW m
  PROVE  /\ EndOf(c, l, m) \in c .. l
         /\ \A k \in RunOf(c, l, m) : k <= EndOf(c, l, m)
         /\ RunOf(c, l, m) = {} => EndOf(c, l, m) = c
         /\ RunOf(c, l, m) # {} => EndOf(c, l, m) \in RunOf(c, l, m)
<1> DEFINE S == RunOf(c, l, m)
           e == EndOf(c, l, m)
           D == {l - n : n \in S}
<1>1. S \subseteq c .. l
  BY DEF RunOf, Walked
<1>2. CASE S = {}
  <2>1. e = c
    BY <1>2 DEF EndOf
  <2> QED
    BY <1>2, <2>1
<1>3. CASE S # {}
  <2> HIDE DEF S
  <2>1. D \in SUBSET Nat /\ D # {}
    <3>1. \A n \in c .. l : l - n \in Nat
      OBVIOUS
    <3> QED
      BY <1>1, <1>3, <3>1
  <2>2. PICK d \in D : \A k \in D : d <= k
    BY <2>1, LeastNat
  <2>3. PICK n \in S : d = l - n
    BY <2>2
  <2>4. ASSUME NEW k \in S PROVE k <= n
    <3>1. l - n <= l - k
      BY <2>2, <2>3
    <3>2. k \in Nat /\ n \in Nat
      BY <1>1
    <3> QED
      BY <3>1, <3>2
  <2>5. e = CHOOSE x \in S : \A k \in S : k <= x
    BY <1>3 DEF EndOf, S
  <2>6. e \in S /\ \A k \in S : k <= e
    <3> HIDE DEF e
    <3> QED
      BY <2>4, <2>5
  <2> HIDE DEF e
  <2>7. e \in c .. l
    BY <1>1, <2>6
  <2> QED
    BY <1>3, <2>6, <2>7 DEF e, S
<1> QED
  BY <1>2, <1>3

(***************************************************************************)
(* Giving up or passing messages: current and last move forward, and only  *)
(* marks up to the new current are forgotten.                              *)
(***************************************************************************)
LEMMA KnownForget ==
  ASSUME NEW o, NEW c, NEW l, NEW m, NEW w, NEW acc, NEW hnd,
         Known(o, c, l, m, w, acc, hnd),
         NEW g \in Nat, NEW u \in Nat, c <= g, g <= u, l <= u,
         NEW k, k \subseteq m, k \subseteq g .. u,
         \A n \in m : n > g => n \in k
  PROVE  Known(o, g, u, k, w \cap k, acc, hnd)
<1>1. /\ c \in Nat /\ l \in Nat
      /\ acc \subseteq Nat /\ \A n \in acc : 1 <= n /\ n <= l
      /\ m \subseteq acc /\ \A n \in acc : n > c => n \in m
      /\ hnd \subseteq acc /\ w \cap hnd = {} /\ m \ w \subseteq hnd
      /\ o => \A n \in hnd : n <= c
  BY DEF Known
<1>2. \A n \in acc : 1 <= n /\ n <= u
  BY <1>1
<1>3. \A n \in acc : n > g => n \in k
  BY <1>1
<1>4. o => \A n \in hnd : n <= g
  BY <1>1
<1>5. (w \cap k) \cap hnd = {} /\ k \ (w \cap k) \subseteq hnd /\ k \subseteq acc
  BY <1>1
<1> QED
  BY <1>1, <1>2, <1>3, <1>4, <1>5 DEF Known

\* Accepting a message that is not marked: it was not accepted before.
LEMMA KnownReceive ==
  ASSUME NEW o, NEW c, NEW l, NEW m, NEW w, NEW acc, NEW hnd,
         Known(o, c, l, m, w, acc, hnd),
         NEW n \in c .. l, n >= 1, n \notin acc
  PROVE  Known(o, c, l, m \cup {n}, w \cup {n}, acc \cup {n}, hnd)
BY DEF Known

(***************************************************************************)
(* Handing out: what goes out was accepted and never handed out before,    *)
(* and on an ordered channel comes after all that was.                     *)
(***************************************************************************)
LEMMA KnownHandOut ==
  ASSUME NEW o \in BOOLEAN, NEW c, NEW l, NEW m, NEW w, NEW acc, NEW hnd,
         Known(o, c, l, m, w, acc, hnd)
  PROVE  LET out == OutOf(o, c, l, m, w)
         IN  /\ Known(o, EndOf(c, l, m), l, m \ RunOf(c, l, m), w \ out,
                      acc, hnd \cup out)
             /\ out \in SUBSET Nat /\ IsFiniteSet(out)
             /\ out \subseteq acc /\ out \cap hnd = {}
             /\ o => \A x \in out, y \in hnd : y < x
<1> DEFINE out  == OutOf(o, c, l, m, w)
           gone == RunOf(c, l, m)
           e    == EndOf(c, l, m)
<1>1. /\ c \in Nat /\ l \in Nat /\ c <= l
      /\ m \subseteq c .. l /\ w \subseteq m
      /\ acc \subseteq Nat /\ \A n \in acc : 1 <= n /\ n <= l
      /\ m \subseteq acc /\ \A n \in acc : n > c => n \in m
      /\ hnd \subseteq acc /\ w \cap hnd = {} /\ m \ w \subseteq hnd
      /\ o => \A n \in hnd : n <= c
  BY DEF Known
<1>2. /\ e \in c .. l
      /\ \A k \in gone : k <= e
      /\ gone = {} => e = c
      /\ gone # {} => e \in gone
  BY <1>1, RunEnds
<1>3. /\ gone \subseteq m /\ gone \subseteq c .. l
      /\ \A n \in c .. l : n <= e => n \in gone \/ n = e
  <2>1. gone \subseteq c .. l
    BY DEF RunOf, Walked
  <2>2. \A n \in gone : n \in m
    BY <1>1, <2>1 DEF RunOf
  <2>3. ASSUME NEW n \in c .. l, n <= e PROVE n \in gone \/ n = e
    <3>1. CASE gone = {}
      BY <1>1, <1>2, <2>3, <3>1
    <3>2. CASE gone # {}
      <4>1. e \in Walked(c, l) /\ \A k \in c .. e : k \in m
        BY <1>2, <3>2 DEF RunOf
      <4>2. n \in Walked(c, l)
        BY <1>1, <1>2, <2>3, <4>1, ReceiverAssumption DEF Walked
      <4>3. \A k \in c .. n : k \in m
        BY <1>1, <1>2, <2>3, <4>1
      <4> QED
        BY <4>2, <4>3 DEF RunOf
    <3> QED
      BY <3>1, <3>2
  <2> QED
    BY <2>1, <2>2, <2>3
<1>4. /\ out \subseteq w /\ w \cap gone \subseteq out
      /\ o => out \subseteq gone
  BY DEF OutOf, RunOf
<1> HIDE DEF out, gone, e
<1>5. out \in SUBSET Nat /\ IsFiniteSet(out)
  <2>1. out \in SUBSET (c .. l)
    BY <1>1, <1>4
  <2>2. IsFiniteSet(c .. l)
    BY <1>1, FS_Interval
  <2>3. c .. l \subseteq Nat
    BY <1>1
  <2> QED
    BY <2>1, <2>2, <2>3, FS_Subset
<1>6. out \subseteq acc /\ out \cap hnd = {}
  BY <1>1, <1>4
<1>7. o => \A x \in out, y \in hnd : y < x
  <2> SUFFICES ASSUME o, NEW x \in out, NEW y \in hnd PROVE y < x
    OBVIOUS
  <2>1. y <= c /\ x \in c .. l /\ x # y /\ y \in Nat
    BY <1>1, <1>4, <1>6
  <2> QED
    BY <1>1, <2>1
<1>8. m \ gone \subseteq e .. l
  <2>1. \A n \in m : n \notin gone => n \in c .. l /\ (n <= e => n = e)
    BY <1>1, <1>3
  <2>2. \A n \in c .. l : (n <= e => n = e) => n \in e .. l
    BY <1>1, <1>2
  <2> QED
    BY <2>1, <2>2
<1>9. w \ out \subseteq m \ gone
  BY <1>1, <1>4
<1>10. \A n \in acc : n > e => n \in m \ gone
  <2> SUFFICES ASSUME NEW n \in acc, n > e PROVE n \in m \ gone
    OBVIOUS
  <2>1. n \in Nat /\ e \in Nat /\ c <= e
    BY <1>1, <1>2
  <2>2. n > c /\ ~ (n <= e)
    BY <1>1, <2>1
  <2> QED
    BY <1>1, <1>2, <2>2
<1>11. /\ (w \ out) \cap (hnd \cup out) = {}
       /\ (m \ gone) \ (w \ out) \subseteq hnd \cup out
       /\ hnd \cup out \subseteq acc
  BY <1>1, <1>6
<1>12. o => \A n \in hnd \cup out : n <= e
  <2> SUFFICES ASSUME o, NEW n \in hnd \cup out PROVE n <= e
    OBVIOUS
  <2>1. CASE n \in hnd
    <3>1. n <= c /\ c <= e /\ n \in Nat /\ e \in Nat
      BY <1>1, <1>2, <2>1
    <3> QED
      BY <1>1, <3>1
  <2>2. CASE n \in out
    BY <1>2, <1>4, <2>2
  <2> QED
    BY <2>1, <2>2
<1>13. Known(o, e, l, m \ gone, w \ out, acc, hnd \cup out)
  <2>1. e \in Nat /\ e <= l
    BY <1>1, <1>2
  <2>2. m \ gone \subseteq acc
    BY <1>1
  <2> QED
    BY <1>1, <1>8, <1>9, <1>10, <1>11, <1>12, <2>1, <2>2 DEF Known
<1> QED
  BY <1>5, <1>6, <1>7, <1>13 DEF out, gone, e

(***************************************************************************)
(* What is known after the skip of receive_packet, and after it has seen   *)
(* that message n comes after current.                                     *)
(***************************************************************************)
LEMMA SeenKnown ==
  ASSUME NEW o, NEW c, NEW l, NEW m, NEW w, NEW acc, NEW hnd,
         Known(o, c, l, m, w, acc, hnd), NEW n \in Nat
  PROVE  LET c0 == KeptCurrent(c, l)
             m0 == KeptMarks(c, l, m)
             c1 == SeenCurrent(c0, n)
             l1 == SeenLast(l, n)
             m1 == SeenMarks(c0, m0, n)
         IN  /\ Known(o, c0, l, m0, w \cap m0, acc, hnd)
             /\ n > c0 =>
                  /\ Known(o, c1, l1, m1, w \cap m1, acc, hnd)
                  /\ n \notin m1 => n \notin acc
<1> DEFINE c0  == KeptCurrent(c, l)
           m0  == KeptMarks(c, l, m)
           w0  == w \cap m0
           c1  == SeenCurrent(c0, n)
           l1  == SeenLast(l, n)
           m1  == SeenMarks(c0, m0, n)
           w1  == w \cap m1
<1>1. /\ c \in Nat /\ l \in Nat /\ c <= l
      /\ m \subseteq c .. l /\ w \subseteq m
  BY DEF Known
<1>2. c0 \in Nat /\ c <= c0 /\ c0 <= l
  BY <1>1, ReceiverAssumption DEF KeptCurrent, GivesUp
<1>3. /\ m0 \subseteq m /\ m0 \subseteq c0 .. l
      /\ \A k \in m : k > c0 => k \in m0
  BY <1>1 DEF KeptMarks, KeptCurrent
<1>4. Known(o, c0, l, m0, w0, acc, hnd)
  <2> HIDE DEF c0, m0
  <2>1. Known(o, c, l, m, w, acc, hnd)
    OBVIOUS
  <2>2. l <= l
    BY <1>1
  <2>3. Known(o, c0, l, m0, w \cap m0, acc, hnd)
    BY <1>1, <1>2, <1>3, <2>1, <2>2, KnownForget
  <2> QED
    BY <2>3
<1>5. /\ l1 \in Nat /\ l <= l1 /\ n <= l1
  BY <1>1 DEF SeenLast
<1>6. m1 \subseteq m0
  BY DEF SeenMarks
<1>7. ASSUME n > c0
      PROVE  /\ Known(o, c1, l1, m1, w1, acc, hnd)
             /\ n \notin m1 => n \notin acc
  <2>1. c1 \in Nat /\ c0 <= c1 /\ c1 <= l1
    BY <1>2, <1>5, <1>7 DEF SeenCurrent
  <2>2. m1 \subseteq c1 .. l1 /\ \A k \in m0 : k > c1 => k \in m1
    <3>1. \A k \in c0 .. l : k \in c0 .. l1
      BY <1>1, <1>2, <1>5
    <3>2. CASE n = c0 + 1
      <4>1. c1 = c0 + 1 /\ m1 = m0 \ {c0}
        BY <3>2 DEF SeenCurrent, SeenMarks
      <4>2. \A k \in c0 .. l1 : k # c0 => k \in c1 .. l1
        BY <1>2, <1>5, <4>1
      <4>3. ~ (c0 > c1)
        BY <1>2, <4>1
      <4> QED
        BY <1>3, <3>1, <4>1, <4>2, <4>3
    <3>3. CASE n # c0 + 1
      <4>1. c1 = c0 /\ m1 = m0
        BY <3>3 DEF SeenCurrent, SeenMarks
      <4> QED
        BY <1>3, <3>1, <4>1
    <3> QED
      BY <3>2, <3>3
  <2>3. w0 \cap m1 = w1
    BY <1>6
  <2>4. Known(o, c1, l1, m1, w0 \cap m1, acc, hnd)
    <3> HIDE DEF c0, m0, w0, c1, l1, m1
    <3> QED
      BY <1>4, <1>5, <1>6, <2>1, <2>2, KnownForget
  <2>5. n \in acc => n \in m1
    <3>1. n \in acc => n \in m0
      BY <1>4, <1>7 DEF Known
    <3>2. n # c0
      BY <1>2, <1>7
    <3> QED
      BY <3>1, <3>2 DEF SeenMarks
  <2> QED
    BY <2>3, <2>4, <2>5
<1> QED
  BY <1>4, <1>7

-----------------------------------------------------------------------------
(***************************************************************************)
(* As long as nothing was given up, everything up to current was handed    *)
(* out, the message after current is missing, and an unordered channel     *)
(* holds back nothing within the window.                                   *)
(***************************************************************************)
Complete(o, c, m, acc, hnd) ==
  /\ \A n \in 1 .. c : n \in hnd
  /\ c \notin m /\ c + 1 \notin acc
  /\ ~ o => \A n \in acc : n < c + receive_window_size => n \in hnd

\* Without a mark at current there is no run.
LEMMA NoRun ==
  ASSUME NEW c \in Nat, NEW l \in Nat, NEW m, c \notin m
  PROVE  RunOf(c, l, m) = {} /\ EndOf(c, l, m) = c
<1>1. ASSUME NEW n \in RunOf(c, l, m) PROVE FALSE
  <2>1. n \in c .. l /\ \A k \in c .. n : k \in m
    BY DEF RunOf, Walked
  <2>2. c \in c .. n
    BY <2>1
  <2> QED
    BY <2>1, <2>2
<1>2. RunOf(c, l, m) = {}
  BY <1>1
<1> QED
  BY <1>2 DEF EndOf

(***************************************************************************)
(* The message after current arrives: no more than a window is known       *)
(* beyond it, so the walk reaches all that is marked.                      *)
(***************************************************************************)
LEMMA NextArrives ==
  ASSUME NEW o \in BOOLEAN, NEW c, NEW l, NEW m, NEW w, NEW acc, NEW hnd,
         Known(o, c, l, m, w, acc, hnd),
         c \in m, l <= c + receive_window_size - 1,
         \A n \in 1 .. c - 1 : n \in hnd
  PROVE  Complete(o, EndOf(c, l, m), m \ RunOf(c, l, m), acc,
                  hnd \cup OutOf(o, c, l, m, w))
<1> DEFINE W    == receive_window_size
           gone == RunOf(c, l, m)
           e    == EndOf(c, l, m)
           out  == OutOf(o, c, l, m, w)
<1>1. /\ c \in Nat /\ l \in Nat /\ c <= l
      /\ m \subseteq c .. l /\ w \subseteq m
      /\ acc \subseteq Nat /\ \A n \in acc : 1 <= n /\ n <= l
      /\ \A n \in acc : n > c => n \in m
      /\ m \ w \subseteq hnd
  BY DEF Known
<1>2. W \in Nat /\ W >= 1
  BY ReceiverAssumption
<1>3. Walked(c, l) = c .. l
  BY <1>1, <1>2 DEF Walked
<1>4. c \in gone
  BY <1>1, <1>3 DEF RunOf
<1>5. e \in gone /\ e \in c .. l /\ \A k \in gone : k <= e
  BY <1>1, <1>4, RunEnds
<1>6. \A n \in c .. e : n \in m /\ n \in gone
  <2>1. \A k \in c .. e : k \in m
    BY <1>5 DEF RunOf
  <2>2. ASSUME NEW n \in c .. e PROVE n \in gone
    <3>1. n \in c .. l /\ \A k \in c .. n : k \in c .. e
      BY <1>1, <1>5
    <3> QED
      BY <1>3, <2>1, <3>1 DEF RunOf
  <2> QED
    BY <2>1, <2>2
<1>7. e + 1 \notin m
  <2> SUFFICES ASSUME e + 1 \in m PROVE FALSE
    OBVIOUS
  <2>1. e + 1 \in c .. l /\ \A k \in c .. e + 1 : k \in c .. e \/ k = e + 1
    BY <1>1, <1>5
  <2>2. e + 1 \in gone
    BY <1>3, <1>6, <2>1 DEF RunOf
  <2>3. e + 1 <= e /\ e \in Int
    BY <1>1, <1>5, <2>2
  <2> HIDE DEF e
  <2> QED
    BY <2>3
<1>8. w \cap gone \subseteq out /\ (~ o => out = w \cap (c .. l))
  BY <1>3 DEF OutOf, RunOf
<1> HIDE DEF gone, e, out, W
<1>9. \A n \in 1 .. e : n \in hnd \cup out
  <2> SUFFICES ASSUME NEW n \in 1 .. e PROVE n \in hnd \cup out
    OBVIOUS
  <2>1. CASE n < c
    <3>1. n \in 1 .. c - 1
      BY <1>1, <1>5, <2>1
    <3> QED
      BY <3>1
  <2>2. CASE n >= c
    <3>1. n \in c .. e
      BY <1>1, <1>5, <2>2
    <3> QED
      BY <1>1, <1>6, <1>8, <3>1
  <2> QED
    BY <1>1, <1>5, <2>1, <2>2
<1>10. e + 1 \notin acc
  <2>1. e + 1 > c
    BY <1>1, <1>5
  <2> QED
    BY <1>1, <1>7, <2>1
<1>11. ASSUME ~ o, NEW n \in acc PROVE n \in hnd \cup out
  <2>1. n \in Nat /\ 1 <= n /\ n <= l
    BY <1>1
  <2>2. CASE n < c
    <3>1. n \in 1 .. c - 1
      BY <1>1, <2>1, <2>2
    <3> QED
      BY <3>1
  <2>3. CASE n >= c
    <3>1. n \in c .. l /\ (n = c \/ n > c)
      BY <1>1, <2>1, <2>3
    <3>2. n \in m
      BY <1>1, <3>1
    <3> QED
      BY <1>1, <1>8, <1>11, <3>1, <3>2
  <2> QED
    BY <1>1, <2>1, <2>2, <2>3
<1> QED
  BY <1>5, <1>9, <1>10, <1>11 DEF Complete, e, gone, out

(***************************************************************************)
(* A receiver r that stands at c, l, m, w and knows of the messages acc    *)
(* that it accepted and hnd that it handed out; and as long as it gave     *)
(* nothing up, it has handed out all it could.                             *)
(***************************************************************************)
Holds(r, c, l, m, w, acc, hnd) ==
  /\ Stands(r, c, l, m, w)
  /\ Known(r.is_ordered, c, l, m, w, acc, hnd)
  /\ r.skipped_sequences = 0 => Complete(r.is_ordered, c, m, acc, hnd)

(***************************************************************************)
(* The messages out may be handed out, upwards, after those of hnd: all    *)
(* are accepted and new and, on an ordered channel, come after the others. *)
(***************************************************************************)
MayFollow(o, out, acc, hnd) ==
  /\ out \in SUBSET Nat /\ IsFiniteSet(out)
  /\ out \subseteq acc /\ out \cap hnd = {}
  /\ o => \A x \in out, y \in hnd : y < x

\* Nothing may always be handed out, and adds nothing to a queue.
LEMMA NothingFollows ==
  ASSUME NEW o, NEW acc, NEW hnd, NEW q \in Seq(Nat)
  PROVE  /\ MayFollow(o, {}, acc, hnd)
         /\ q \o Ascending({}) = q /\ hnd \cup {} = hnd
<1>1. Ascending({}) = << >>
  BY FS_EmptySet DEF Ascending
<1>2. q \o << >> = q
  OBVIOUS
<1> QED
  BY <1>1, <1>2, FS_EmptySet DEF MayFollow

(***************************************************************************)
(* A message that arrives while nothing has been given up.                 *)
(***************************************************************************)
LEMMA ReceiveComplete ==
  ASSUME NEW o \in BOOLEAN, NEW c, NEW l, NEW m, NEW w, NEW acc, NEW hnd,
         Known(o, c, l, m, w, acc, hnd), Complete(o, c, m, acc, hnd),
         ~ GivesUp(c, l), NEW n \in Nat, n >= 1, n > c
  PROVE  LET c1  == SeenCurrent(c, n)
             l1  == SeenLast(l, n)
             m1  == SeenMarks(c, m, n)
             m2  == m1 \cup {n}
             w2  == (w \cap m1) \cup {n}
             out == OutOf(o, c1, l1, m2, w2)
         IN  /\ n \in m1 => Complete(o, c1, m1, acc, hnd)
             /\ n \notin m1 =>
                  Complete(o, EndOf(c1, l1, m2), m2 \ RunOf(c1, l1, m2),
                           acc \cup {n}, hnd \cup out)
<1> DEFINE W   == receive_window_size
           c1  == SeenCurrent(c, n)
           l1  == SeenLast(l, n)
           m1  == SeenMarks(c, m, n)
           w1  == w \cap m1
           m2  == m1 \cup {n}
           w2  == w1 \cup {n}
           out == OutOf(o, c1, l1, m2, w2)
<1>1. /\ c \in Nat /\ l \in Nat /\ c <= l /\ m \subseteq c .. l
      /\ m \subseteq acc /\ W \in Nat /\ W >= 1
  BY ReceiverAssumption DEF Known
<1>2. KeptCurrent(c, l) = c /\ KeptMarks(c, l, m) = m /\ l <= c + W
  BY <1>1 DEF KeptCurrent, KeptMarks, GivesUp
<1>3. /\ \A k \in 1 .. c : k \in hnd
      /\ c \notin m /\ c + 1 \notin acc
      /\ ~ o => \A k \in acc : k < c + W => k \in hnd
  BY DEF Complete
<1>4. /\ Known(o, c1, l1, m1, w1, acc, hnd)
      /\ n \notin m1 => n \notin acc
  <2> DEFINE d  == KeptCurrent(c, l)
             k  == KeptMarks(c, l, m)
             d1 == SeenCurrent(d, n)
             k1 == SeenMarks(d, k, n)
  <2>1. n > d => /\ Known(o, d1, SeenLast(l, n), k1, w \cap k1, acc, hnd)
                 /\ n \notin k1 => n \notin acc
    BY SeenKnown
  <2> HIDE DEF d, k
  <2>2. d = c /\ k = m
    BY <1>2 DEF d, k
  <2> QED
    BY <2>1, <2>2
<1>5. n = c + 1 => c1 = n /\ m1 = m
  BY <1>3 DEF SeenCurrent, SeenMarks
<1>6. n # c + 1 => c1 = c /\ m1 = m
  BY DEF SeenCurrent, SeenMarks
<1>7. n <= l1 /\ l <= l1 /\ (l1 = n \/ l1 = l) /\ l1 \in Nat
  BY <1>1 DEF SeenLast
<1> HIDE DEF c1, l1, m1, w1, m2, w2, out
<1>8. ASSUME n \in m1 PROVE Complete(o, c1, m1, acc, hnd)
  <2>1. n # c + 1
    BY <1>1, <1>3, <1>5, <1>8
  <2> QED
    BY <1>6, <2>1
<1>9. ASSUME n \notin m1
      PROVE  Complete(o, EndOf(c1, l1, m2), m2 \ RunOf(c1, l1, m2),
                      acc \cup {n}, hnd \cup out)
  <2>1. n \in c1 .. l1
    BY <1>1, <1>5, <1>6, <1>7
  <2>2. Known(o, c1, l1, m2, w2, acc \cup {n}, hnd)
    BY <1>4, <1>9, <2>1, KnownReceive DEF m2, w2
  <2>3. CASE n = c + 1
    <3>1. c1 \in m2 /\ l1 <= c1 + W - 1
      BY <1>1, <1>2, <1>5, <1>7, <2>3 DEF m2
    <3>2. \A k \in 1 .. c1 - 1 : k \in hnd
      BY <1>1, <1>3, <1>5, <2>3
    <3> QED
      BY <2>2, <3>1, <3>2, NextArrives DEF out
  <2>4. CASE n # c + 1
    <3>1. c1 = c /\ m1 = m
      BY <1>6, <2>4
    <3>2. c \notin m2
      BY <1>1, <1>3, <3>1 DEF m2
    <3>3. RunOf(c1, l1, m2) = {} /\ EndOf(c1, l1, m2) = c
      BY <1>1, <1>7, <3>1, <3>2, NoRun
    <3>4. ~ o /\ n < c + W => n \in out
      BY <2>1, <3>1 DEF out, OutOf, w2, Walked
    <3> QED
      BY <1>3, <2>4, <3>2, <3>3, <3>4 DEF Complete
  <2> QED
    BY <2>3, <2>4
<1> QED
  BY <1>8, <1>9 DEF c1, l1, m1, w1, m2, w2, out

(***************************************************************************)
(* Receiver r, which stood at c and had seen up to l, has become p with    *)
(* message n: it still holds, went only forward, and hands out what may    *)
(* follow.                                                                 *)
(***************************************************************************)
MovesOn(r, p, c, l, n, acc, hnd) ==
  \E g, u, k, v, out :
    /\ Holds(p, g, u, k, v, acc, hnd \cup out)
    /\ MayFollow(r.is_ordered, out, acc, hnd)
    /\ p.published = r.published \o Ascending(out)
    /\ p.is_ordered = r.is_ordered
    /\ c <= g /\ l <= u /\ u \in {l, n}

\* receive_packet of message n.
LEMMA ReceiveHolds ==
  ASSUME WindowFitsRing,
         NEW r, NEW c, NEW l, NEW m, NEW w, NEW acc, NEW hnd,
         Holds(r, c, l, m, w, acc, hnd),
         NEW n \in Nat, n >= 1, n <= c + Farthest, n >= c - Latest
  PROVE  LET result == receive_packet(r, SequenceOf(n), n)
         IN  MovesOn(r, result.receiver, c, l, n,
                     IF result.accepted THEN acc \cup {n} ELSE acc, hnd)
<1> DEFINE result == receive_packet(r, SequenceOf(n), n)
           p      == result.receiver
           acc2   == IF result.accepted THEN acc \cup {n} ELSE acc
           o   == r.is_ordered
           c0  == KeptCurrent(c, l)
           m0  == KeptMarks(c, l, m)
           c1  == SeenCurrent(c0, n)
           l1  == SeenLast(l, n)
           m1  == SeenMarks(c0, m0, n)
           m2  == m1 \cup {n}
           w2  == (w \cap m1) \cup {n}
           out == OutOf(o, c1, l1, m2, w2)
<1>1. /\ Stands(r, c, l, m, w)
      /\ Known(o, c, l, m, w, acc, hnd)
      /\ r.skipped_sequences = 0 => Complete(o, c, m, acc, hnd)
  BY DEF Holds
<1>2. /\ c \in Nat /\ l \in Nat /\ c <= l
      /\ o \in BOOLEAN /\ r.published \in Seq(Nat)
      /\ r.skipped_sequences \in Nat
  BY <1>1 DEF Stands
<1>3. Received(r, c, l, m, w, n, p, result.accepted)
  BY <1>1, ReceiveStands
<1>4. /\ p.is_ordered = o
      /\ p.skipped_sequences = IF GivesUp(c, l) THEN r.skipped_sequences + 1
                                                ELSE r.skipped_sequences
      /\ c0 \in Nat /\ c0 <= l
      /\ \/ /\ n <= c0
            /\ result.accepted = FALSE
            /\ Stands(p, c0, l, m0, w \cap m0)
            /\ p.published = r.published
         \/ /\ n > c0 /\ n \in m1
            /\ result.accepted = FALSE
            /\ Stands(p, c1, l1, m1, w \cap m1)
            /\ p.published = r.published
         \/ /\ n > c0 /\ n \notin m1
            /\ result.accepted = TRUE
            /\ n \in c1 .. l1 /\ m1 \subseteq c1 .. l1
            /\ EndOf(c1, l1, m2) \in c1 .. l1
            /\ Stands(p, EndOf(c1, l1, m2), l1,
                      m2 \ RunOf(c1, l1, m2), w2 \ out)
            /\ p.published = r.published \o Ascending(out)
  <2> HIDE DEF p, result
  <2> QED
    BY <1>3 DEF Received
<1>5. /\ Known(o, c0, l, m0, w \cap m0, acc, hnd)
      /\ n > c0 => /\ Known(o, c1, l1, m1, w \cap m1, acc, hnd)
                   /\ n \notin m1 => n \notin acc
  BY <1>1, SeenKnown
<1>6. p.skipped_sequences = 0 =>
        /\ ~ GivesUp(c, l) /\ c0 = c /\ m0 = m
        /\ Complete(o, c, m, acc, hnd)
  <2> HIDE DEF p
  <2> QED
    BY <1>1, <1>2, <1>4 DEF KeptCurrent, KeptMarks
<1>7. c <= c0
  BY <1>2 DEF KeptCurrent
<1>8. l <= l1 /\ l1 \in {l, n} /\ l1 \in Nat
  BY <1>2 DEF SeenLast
<1>9. n > c0 => c <= c1 /\ c1 \in Nat
  BY <1>2, <1>4, <1>7 DEF SeenCurrent
<1>10. ASSUME p.skipped_sequences = 0, n > c0
       PROVE  /\ n \in m1 => Complete(o, c1, m1, acc, hnd)
              /\ n \notin m1 =>
                   Complete(o, EndOf(c1, l1, m2), m2 \ RunOf(c1, l1, m2),
                            acc \cup {n}, hnd \cup out)
  <2>1. /\ ~ GivesUp(c, l) /\ c0 = c /\ m0 = m /\ n > c
        /\ Complete(o, c, m, acc, hnd)
    BY <1>6, <1>10
  <2>2. c1 = SeenCurrent(c, n) /\ m1 = SeenMarks(c, m, n)
    BY <2>1
  <2> HIDE DEF o, c0, m0, c1, m1
  <2> QED
    BY <1>1, <1>2, <2>1, <2>2, ReceiveComplete
<1>11. /\ MayFollow(o, {}, acc, hnd)
       /\ r.published \o Ascending({}) = r.published /\ hnd \cup {} = hnd
  BY <1>2, NothingFollows
<1> HIDE DEF p, result, o, c0, m0, c1, l1, m1, m2, w2, out
<1>12. CASE /\ n <= c0 /\ result.accepted = FALSE
            /\ Stands(p, c0, l, m0, w \cap m0) /\ p.published = r.published
  <2>1. acc2 = acc
    BY <1>12
  <2>2. Holds(p, c0, l, m0, w \cap m0, acc2, hnd \cup {})
    BY <1>4, <1>5, <1>6, <1>11, <1>12, <2>1 DEF Holds
  <2>3. /\ MayFollow(o, {}, acc2, hnd)
        /\ p.published = r.published \o Ascending({})
        /\ p.is_ordered = o
        /\ c <= c0 /\ l <= l /\ l \in {l, n}
    BY <1>2, <1>4, <1>7, <1>11, <1>12, <2>1
  <2> HIDE DEF acc2
  <2> QED
    BY <2>2, <2>3 DEF MovesOn, p, result, o, acc2
<1>13. CASE /\ n > c0 /\ n \in m1 /\ result.accepted = FALSE
            /\ Stands(p, c1, l1, m1, w \cap m1) /\ p.published = r.published
  <2>1. acc2 = acc
    BY <1>13
  <2>2. Holds(p, c1, l1, m1, w \cap m1, acc2, hnd \cup {})
    BY <1>4, <1>5, <1>10, <1>11, <1>13, <2>1 DEF Holds
  <2>3. /\ MayFollow(o, {}, acc2, hnd)
        /\ p.published = r.published \o Ascending({})
        /\ p.is_ordered = o
        /\ c <= c1 /\ l <= l1 /\ l1 \in {l, n}
    BY <1>4, <1>8, <1>9, <1>11, <1>13, <2>1
  <2> HIDE DEF acc2
  <2> QED
    BY <2>2, <2>3 DEF MovesOn, p, result, o, acc2
<1>14. CASE /\ n > c0 /\ n \notin m1 /\ result.accepted = TRUE
            /\ n \in c1 .. l1
            /\ EndOf(c1, l1, m2) \in c1 .. l1
            /\ Stands(p, EndOf(c1, l1, m2), l1,
                      m2 \ RunOf(c1, l1, m2), w2 \ out)
            /\ p.published = r.published \o Ascending(out)
  <2>1. acc2 = acc \cup {n}
    BY <1>14
  <2>2. Known(o, c1, l1, m2, w2, acc \cup {n}, hnd)
    BY <1>5, <1>14, KnownReceive DEF m2, w2
  <2>3. /\ Known(o, EndOf(c1, l1, m2), l1, m2 \ RunOf(c1, l1, m2), w2 \ out,
                 acc \cup {n}, hnd \cup out)
        /\ out \in SUBSET Nat /\ IsFiniteSet(out)
        /\ out \subseteq acc \cup {n} /\ out \cap hnd = {}
        /\ o => \A x \in out, y \in hnd : y < x
    BY <1>2, <2>2, KnownHandOut DEF out, o
  <2>4. Holds(p, EndOf(c1, l1, m2), l1, m2 \ RunOf(c1, l1, m2), w2 \ out,
              acc2, hnd \cup out)
    BY <1>4, <1>10, <1>14, <2>1, <2>3 DEF Holds
  <2>5. c <= EndOf(c1, l1, m2)
    BY <1>2, <1>8, <1>9, <1>14
  <2>6. /\ MayFollow(o, out, acc2, hnd)
        /\ p.published = r.published \o Ascending(out)
        /\ p.is_ordered = o
        /\ l <= l1 /\ l1 \in {l, n}
    BY <1>4, <1>8, <1>14, <2>1, <2>3 DEF MayFollow
  <2> HIDE DEF acc2
  <2> QED
    BY <2>4, <2>5, <2>6 DEF MovesOn, p, result, o, acc2
<1> QED
  BY <1>4, <1>12, <1>13, <1>14

(***************************************************************************)
(* The publish of a frame.                                                 *)
(***************************************************************************)
LEMMA PublishHolds ==
  ASSUME NEW r, NEW c, NEW l, NEW m, NEW w, NEW acc, NEW hnd,
         Holds(r, c, l, m, w, acc, hnd)
  PROVE  LET p   == publish(r)
             out == OutOf(r.is_ordered, c, l, m, w)
         IN  /\ Holds(p, EndOf(c, l, m), l, m \ RunOf(c, l, m), w \ out,
                      acc, hnd \cup out)
             /\ MayFollow(r.is_ordered, out, acc, hnd)
             /\ p.published = r.published \o Ascending(out)
             /\ p.is_ordered = r.is_ordered
             /\ EndOf(c, l, m) \in c .. l
<1> DEFINE p   == publish(r)
           o   == r.is_ordered
           out == OutOf(o, c, l, m, w)
           e   == EndOf(c, l, m)
           k   == m \ RunOf(c, l, m)
<1>1. /\ Stands(r, c, l, m, w)
      /\ Known(o, c, l, m, w, acc, hnd)
      /\ r.skipped_sequences = 0 => Complete(o, c, m, acc, hnd)
  BY DEF Holds
<1>2. c \in Nat /\ l \in Nat /\ o \in BOOLEAN
  BY <1>1 DEF Stands
<1>3. /\ e \in c .. l
      /\ Stands(p, e, l, k, w \ out)
      /\ p.is_ordered = o
      /\ p.published = r.published \o Ascending(out)
      /\ p.skipped_sequences = r.skipped_sequences
  BY <1>1, PublishStands
<1>4. /\ Known(o, e, l, k, w \ out, acc, hnd \cup out)
      /\ out \in SUBSET Nat /\ IsFiniteSet(out)
      /\ out \subseteq acc /\ out \cap hnd = {}
      /\ o => \A x \in out, y \in hnd : y < x
  BY <1>1, <1>2, KnownHandOut
<1>5. ASSUME r.skipped_sequences = 0
      PROVE  Complete(o, e, k, acc, hnd \cup out)
  <2>1. Complete(o, c, m, acc, hnd) /\ c \notin m
    BY <1>1, <1>5 DEF Complete
  <2>2. RunOf(c, l, m) = {} /\ e = c /\ k = m
    BY <1>2, <2>1, NoRun
  <2> HIDE DEF o, out, e, k
  <2> QED
    BY <2>1, <2>2 DEF Complete
<1> HIDE DEF p, o, out, e, k
<1>6. Holds(p, e, l, k, w \ out, acc, hnd \cup out)
  BY <1>3, <1>4, <1>5 DEF Holds
<1>7. MayFollow(o, out, acc, hnd)
  BY <1>4 DEF MayFollow
<1> QED
  BY <1>3, <1>6, <1>7 DEF p, o, out, e, k

(***************************************************************************)
(* A message that was accepted is refused when it comes again.             *)
(***************************************************************************)
LEMMA ReceiveRefuses ==
  ASSUME WindowFitsRing,
         NEW r, NEW c, NEW l, NEW m, NEW w, NEW acc, NEW hnd,
         Holds(r, c, l, m, w, acc, hnd), NEW n \in acc, n >= c - Latest
  PROVE  ~ receive_packet(r, SequenceOf(n), n).accepted
<1> DEFINE result == receive_packet(r, SequenceOf(n), n)
<1>1. /\ Stands(r, c, l, m, w)
      /\ Known(r.is_ordered, c, l, m, w, acc, hnd)
  BY DEF Holds
<1>2. n \in Nat /\ n <= c + Farthest
  BY <1>1, Bounds DEF Known, Stands
<1>3. Received(r, c, l, m, w, n, result.receiver, result.accepted)
  BY <1>1, <1>2, ReceiveStands
<1>4. LET c0 == KeptCurrent(c, l)
          m0 == KeptMarks(c, l, m)
      IN  n > c0 => n \in SeenMarks(c0, m0, n)
  BY <1>1, <1>2, SeenKnown
<1> HIDE DEF result
<1>5. result.accepted = FALSE
  BY <1>3, <1>4 DEF Received
<1> QED
  BY <1>5 DEF result

-----------------------------------------------------------------------------

(***************************************************************************)
(* Receiver r stands at message h, has seen up to message t, and marks     *)
(* exactly those of the messages acc that are in between.                  *)
(***************************************************************************)
Marks(r, h, t, acc) ==
  /\ h \in Nat /\ t \in Nat /\ h <= t /\ t - h <= Farthest
  /\ DOMAIN r = Fields
  /\ r.current_sequence = SequenceOf(h)
  /\ r.last_sequence = SequenceOf(t)
  /\ acc \subseteq Nat
  /\ \A n \in acc : n <= t
  /\ \A n \in h + 1 .. t : SlotOf(n) \in r.received <=> n \in acc
  /\ \A i \in r.received : \E n \in h .. t : i = SlotOf(n)

\* The marks of a receiver say exactly what was accepted.
LEMMA HoldsMarks ==
  ASSUME NEW r, NEW c, NEW l, NEW m, NEW w, NEW acc, NEW hnd,
         Holds(r, c, l, m, w, acc, hnd)
  PROVE  Marks(r, c, l, acc)
<1>1. /\ Stands(r, c, l, m, w)
      /\ Known(r.is_ordered, c, l, m, w, acc, hnd)
  BY DEF Holds
<1>2. \A n \in c .. l : SlotOf(n) \in r.received <=> n \in m
  BY <1>1, ReadSlots
<1>3. /\ c \in Nat /\ l \in Nat /\ c <= l
      /\ m \subseteq c .. l /\ m \subseteq acc
      /\ acc \subseteq Nat /\ \A n \in acc : n <= l
      /\ \A n \in acc : n > c => n \in m
  BY <1>1 DEF Known
<1>4. \A n \in c + 1 .. l : n \in c .. l /\ n > c
  BY <1>3
<1>5. \A n \in c + 1 .. l : SlotOf(n) \in r.received <=> n \in acc
  BY <1>2, <1>3, <1>4
<1>6. \A i \in r.received : \E n \in c .. l : i = SlotOf(n)
  BY <1>1, <1>3 DEF Stands
<1> QED
  BY <1>1, <1>3, <1>5, <1>6 DEF Marks, Stands

-----------------------------------------------------------------------------
(***************************************************************************)
(* The walk.  A recursive function over 0 .. N exists for every N: the     *)
(* least N without one would have a predecessor with one to extend.        *)
(***************************************************************************)
IsWalk(r, w0, N, f) ==
  f = [i \in 0 .. N |-> IF i = 0 THEN w0 ELSE nack_step(r, f[i - 1])]

LEMMA WalkExists ==
  ASSUME NEW r, NEW w0, NEW N \in Nat
  PROVE  \E f : IsWalk(r, w0, N, f)
<1> DEFINE Bad == {k \in Nat : ~ \E f : IsWalk(r, w0, k, f)}
<1>1. \E f : IsWalk(r, w0, 0, f)
  <2> DEFINE f == [i \in 0 .. 0 |-> w0]
  <2>1. IsWalk(r, w0, 0, f)
    BY DEF IsWalk
  <2> QED
    BY <2>1
<1>2. ASSUME NEW k \in Nat, NEW f, IsWalk(r, w0, k, f)
      PROVE  \E g : IsWalk(r, w0, k + 1, g)
  <2> DEFINE g == [i \in 0 .. k + 1 |->
                     IF i = k + 1 THEN nack_step(r, f[k]) ELSE f[i]]
  <2>1. ASSUME NEW i \in 0 .. k + 1
        PROVE  g[i] = IF i = 0 THEN w0 ELSE nack_step(r, g[i - 1])
    <3>1. \A j \in 0 .. k :
             f[j] = IF j = 0 THEN w0 ELSE nack_step(r, f[j - 1])
      BY <1>2 DEF IsWalk
    <3>2. CASE i = k + 1
      <4>1. k \in 0 .. k + 1 /\ k # k + 1 /\ i - 1 = k /\ i # 0
        BY <3>2
      <4>2. g[i] = nack_step(r, f[k]) /\ g[k] = f[k]
        BY <3>2, <4>1
      <4> HIDE DEF g
      <4> QED
        BY <4>1, <4>2
    <3>3. CASE i = 0
      <4>1. 0 \in 0 .. k /\ 0 # k + 1
        OBVIOUS
      <4> QED
        BY <3>1, <3>3, <4>1
    <3>4. CASE i # k + 1 /\ i # 0
      <4>1. /\ i \in 0 .. k /\ i - 1 \in 0 .. k + 1 /\ i - 1 # k + 1
        BY <3>4
      <4>2. g[i] = f[i] /\ g[i - 1] = f[i - 1]
        BY <3>4, <4>1
      <4>3. f[i] = nack_step(r, f[i - 1])
        BY <3>1, <3>4, <4>1
      <4> HIDE DEF g
      <4> QED
        BY <3>4, <4>2, <4>3
    <3> QED
      BY <3>2, <3>3, <3>4
  <2>2. g = [i \in 0 .. k + 1 |-> g[i]]
    OBVIOUS
  <2> HIDE DEF g
  <2>3. IsWalk(r, w0, k + 1, g)
    BY <2>1, <2>2 DEF IsWalk
  <2> QED
    BY <2>3
<1>3. Bad = {}
  <2> SUFFICES ASSUME Bad # {} PROVE FALSE
    OBVIOUS
  <2>1. Bad \in SUBSET Nat
    OBVIOUS
  <2> HIDE DEF Bad
  <2>2. PICK k \in Bad : \A j \in Bad : k <= j
    BY <2>1, LeastNat
  <2>3. k \in Nat /\ ~ \E f : IsWalk(r, w0, k, f)
    BY <2>2 DEF Bad
  <2>4. k # 0
    BY <1>1, <2>3
  <2>5. k - 1 \in Nat /\ ~ (k <= k - 1) /\ (k - 1) + 1 = k
    BY <2>3, <2>4
  <2>6. k - 1 \notin Bad
    BY <2>2, <2>5
  <2>7. PICK f : IsWalk(r, w0, k - 1, f)
    BY <2>5, <2>6 DEF Bad
  <2> QED
    BY <1>2, <2>3, <2>5, <2>7
<1> QED
  BY <1>3

\* The state of the walk before its first pass
WalkStart(r) == [seq   |-> previous_sequence(r.last_sequence),
                 nacks |-> << >>,
                 done  |-> FALSE]

\* create_nacks is NackGroups passes of nack_step.
LEMMA NackWalk ==
  ASSUME NEW r
  PROVE  \E f : /\ NackGroups \in Nat
                /\ f[0] = WalkStart(r)
                /\ \A i \in 1 .. NackGroups : f[i] = nack_step(r, f[i - 1])
                /\ create_nacks(r) = f[NackGroups].nacks
<1> DEFINE f == CHOOSE g : IsWalk(r, WalkStart(r), NackGroups, g)
<1>1. NackGroups \in Nat
  BY NackAssumption, ReceiverAssumption DEF NackGroups
<1>2. IsWalk(r, WalkStart(r), NackGroups, f)
  BY <1>1, WalkExists
<1>3. create_nacks(r) = f[NackGroups].nacks
  BY Zenon DEF create_nacks, IsWalk, WalkStart
<1> HIDE DEF f
<1>4. \A i \in 0 .. NackGroups :
         f[i] = IF i = 0 THEN WalkStart(r) ELSE nack_step(r, f[i - 1])
  BY <1>2 DEF IsWalk
<1>5. f[0] = WalkStart(r)
  BY <1>1, <1>4
<1>6. \A i \in 1 .. NackGroups : f[i] = nack_step(r, f[i - 1])
  BY <1>1, <1>4
<1> QED
  BY <1>1, <1>3, <1>5, <1>6

-----------------------------------------------------------------------------
(***************************************************************************)
(* The walk back from last.  Message p is past the end of the walk exactly *)
(* at current, and going d back from it is going d messages back.          *)
(***************************************************************************)
LEMMA WalkBack ==
  ASSUME NEW h \in Nat, NEW t \in Nat, h <= t, t - h <= Farthest,
         NEW p \in h .. t
  PROVE  /\ is_equal_to_or_less_than(SequenceOf(p), SequenceOf(h)) <=> p = h
         /\ \A d \in 0 .. p - h : ring_minus(SequenceOf(p), d) = SequenceOf(p - d)
<1>1. p \in Nat /\ h <= p /\ p - h <= HALF - 2 /\ h - p <= HALF - 2
  BY Bounds
<1>2. is_greater_then(SequenceOf(h), SequenceOf(p)) <=> h > p
  BY <1>1, GreaterIsLater
<1>3. SequenceOf(p) = SequenceOf(h) => p = h
  <2>1. p - h < U16_MAX
    BY <1>1, Bounds
  <2> QED
    BY <1>1, <2>1, SequenceInjective
<1>4. is_equal_to_or_less_than(SequenceOf(p), SequenceOf(h)) <=> p = h
  BY <1>1, <1>2, <1>3 DEF is_equal_to_or_less_than
<1>5. ASSUME NEW d \in 0 .. p - h
      PROVE  ring_minus(SequenceOf(p), d) = SequenceOf(p - d)
  <2>1. d \in 0 .. U16_MAX - 1 /\ d <= p
    BY <1>1, Bounds
  <2> QED
    BY <1>1, <2>1, SequenceMinus
<1> QED
  BY <1>4, <1>5

\* The same for one step of previous_sequence.
LEMMA OneBack ==
  ASSUME NEW p \in Nat, p >= 1
  PROVE  previous_sequence(SequenceOf(p)) = SequenceOf(p - 1)
<1>1. p - 1 \in Nat /\ (p - 1) + 1 = p
  OBVIOUS
<1>2. SequenceOf(p) = next_sequence(SequenceOf(p - 1))
  BY <1>1, SequenceNext
<1>3. SequenceOf(p - 1) \in SeqNo
  BY <1>1, SequenceAssumption, SequencePlus
<1> QED
  BY <1>2, <1>3, SequenceAssumption DEF next_sequence, previous_sequence, SeqNo

\* One before current is past the end of the walk.
LEMMA BeforeCurrent ==
  ASSUME NEW s \in SeqNo
  PROVE  is_equal_to_or_less_than(previous_sequence(s), s)
BY SequenceAssumption
   DEF is_equal_to_or_less_than, is_greater_then, previous_sequence, SeqNo

-----------------------------------------------------------------------------
(***************************************************************************)
(* The missing messages of a receiver that stands at h, has seen up to t   *)
(* and accepted acc, and the state w of a walk that asked only for these.  *)
(* Before the walk is done it stands at a message, or there is nothing     *)
(* between current and last at all.                                        *)
(***************************************************************************)
Missing(h, t, acc) == {n \in h + 1 .. t - 1 : n \notin acc}

AsksFor(h, t, acc) == {SequenceOf(n) : n \in Missing(h, t, acc)}

SoundGroups(h, t, acc) ==
  {g \in [start_sequence : SeqNo, flags : SUBSET Nat] :
     get_nacked(g) \subseteq AsksFor(h, t, acc)}

WalkSound(r, h, t, acc, w) ==
  /\ DOMAIN w = {"seq", "nacks", "done"}
  /\ w.nacks \in Seq(SoundGroups(h, t, acc))
  /\ w.done \in BOOLEAN
  /\ ~ w.done => \/ \E p \in h .. t - 1 : w.seq = SequenceOf(p)
                 \/ h = t /\ w.seq = previous_sequence(r.last_sequence)

\* Where the flags of a group reach: strictly after current.
LEMMA FlagsInside ==
  ASSUME NEW h \in Nat, NEW t \in Nat, h <= t, t - h <= Farthest,
         NEW p \in h + 1 .. t, NEW i \in Nat,
         \A j \in 0 .. i :
           ~ is_equal_to_or_less_than(ring_minus(SequenceOf(p), j + 1),
                                      SequenceOf(h))
  PROVE  /\ p - (i + 1) \in h + 1 .. p - 1
         /\ ring_minus(SequenceOf(p), i + 1) = SequenceOf(p - (i + 1))
<1>1. p \in h .. t /\ p > h
  OBVIOUS
<1>2. /\ is_equal_to_or_less_than(SequenceOf(p), SequenceOf(h)) <=> p = h
      /\ \A d \in 0 .. p - h : ring_minus(SequenceOf(p), d) = SequenceOf(p - d)
  BY <1>1, WalkBack
<1>3. p - (i + 1) > h
  <2> SUFFICES ASSUME p - (i + 1) <= h PROVE FALSE
    OBVIOUS
  <2> DEFINE j == p - h - 1
  <2>1. j \in 0 .. i /\ j + 1 = p - h /\ p - h \in 0 .. p - h /\ p - (p - h) = h
    BY <1>1
  <2> HIDE DEF j
  <2>2. ring_minus(SequenceOf(p), j + 1) = SequenceOf(h)
    BY <1>2, <2>1
  <2> QED
    BY <2>1, <2>2 DEF is_equal_to_or_less_than
<1>4. i + 1 \in 0 .. p - h
  BY <1>1, <1>3
<1> QED
  BY <1>1, <1>2, <1>3, <1>4

(***************************************************************************)
(* One pass of create_nacks: it is over, or goes past a received message,  *)
(* or asks for a group of missing ones.                                    *)
(***************************************************************************)
LEMMA StepSound ==
  ASSUME NEW r, NEW h, NEW t, NEW acc, Marks(r, h, t, acc),
         NEW w, WalkSound(r, h, t, acc, w)
  PROVE  WalkSound(r, h, t, acc, nack_step(r, w))
<1> DEFINE past(s) == is_equal_to_or_less_than(s, r.current_sequence)
           back(i) == ring_minus(w.seq, i + 1)
           inside  == {i \in 0 .. NACK_BITS - 1 :
                         \A j \in 0 .. i : ~ past(back(j))}
           group   == [start_sequence |-> w.seq,
                       flags |-> {i \in inside : ~ is_received(r, back(i))}]
           v       == nack_step(r, w)
           S       == SoundGroups(h, t, acc)
<1>1. /\ h \in Nat /\ t \in Nat /\ h <= t /\ t - h <= Farthest
      /\ r.current_sequence = SequenceOf(h)
      /\ r.last_sequence = SequenceOf(t)
      /\ \A n \in h + 1 .. t : is_received(r, SequenceOf(n)) <=> n \in acc
  BY DEF Marks, is_received, SlotOf
<1>2. /\ DOMAIN w = {"seq", "nacks", "done"}
      /\ w.nacks \in Seq(S) /\ w.done \in BOOLEAN
      /\ ~ w.done => \/ \E p \in h .. t - 1 : w.seq = SequenceOf(p)
                     \/ h = t /\ w.seq = previous_sequence(r.last_sequence)
  BY DEF WalkSound
<1>3. NACK_BITS \in Nat /\ NACK_BITS >= 1
  BY NackAssumption
<1>4. CASE w.done \/ past(w.seq)
  <2>1. v = [w EXCEPT !.done = TRUE]
    BY <1>4 DEF nack_step
  <2>2. /\ DOMAIN v = {"seq", "nacks", "done"}
        /\ v.nacks = w.nacks /\ v.done = TRUE
    BY <1>2, <2>1
  <2> HIDE DEF v
  <2>3. WalkSound(r, h, t, acc, v)
    BY <1>2, <2>2 DEF WalkSound
  <2> QED
    BY <2>3 DEF v
<1>5. CASE ~ w.done /\ ~ past(w.seq)
  <2>1. PICK p \in h + 1 .. t - 1 : w.seq = SequenceOf(p)
    <3>1. ~ (h = t /\ w.seq = previous_sequence(r.last_sequence))
      <4>1. SequenceOf(h) \in SeqNo
        BY <1>1, SequenceAssumption, SequencePlus
      <4> QED
        BY <1>1, <1>5, <4>1, BeforeCurrent
    <3>2. PICK p \in h .. t - 1 : w.seq = SequenceOf(p)
      BY <1>2, <1>5, <3>1
    <3>3. p # h
      BY <1>1, <1>5, <3>2 DEF is_equal_to_or_less_than
    <3>4. p \in h + 1 .. t - 1
      BY <1>1, <3>2, <3>3
    <3> QED
      BY <3>2, <3>4
  <2>2. p \in Nat /\ p \in h + 1 .. t /\ p \in h .. t /\ p >= 1
    BY <1>1
  <2>3. CASE is_received(r, w.seq)
    <3>1. v = [w EXCEPT !.seq = previous_sequence(@)]
      BY <1>5, <2>3 DEF nack_step
    <3>2. /\ DOMAIN v = {"seq", "nacks", "done"}
          /\ v.nacks = w.nacks /\ v.done = w.done
          /\ v.seq = previous_sequence(w.seq)
      BY <1>2, <3>1
    <3> HIDE DEF v
    <3>3. v.seq = SequenceOf(p - 1) /\ p - 1 \in h .. t - 1
      BY <1>1, <2>1, <2>2, <3>2, OneBack
    <3>4. WalkSound(r, h, t, acc, v)
      BY <1>2, <3>2, <3>3 DEF WalkSound
    <3> QED
      BY <3>4 DEF v
  <2>4. CASE ~ is_received(r, w.seq)
    <3>1. v = [seq   |-> back(NACK_BITS),
               nacks |-> Append(w.nacks, group),
               done  |-> inside # 0 .. NACK_BITS - 1]
      BY <1>5, <2>4 DEF nack_step
    <3>2. /\ DOMAIN v = {"seq", "nacks", "done"}
          /\ v.nacks = Append(w.nacks, group)
          /\ v.done \in BOOLEAN
          /\ ~ v.done => inside = 0 .. NACK_BITS - 1
          /\ v.seq = ring_minus(w.seq, NACK_BITS + 1)
      <4> HIDE DEF v, group, inside
      <4> QED
        BY <3>1
    <3>3. ASSUME NEW i \in inside
          PROVE  /\ i \in Nat /\ p - (i + 1) \in h + 1 .. t - 1
                 /\ back(i) = SequenceOf(p - (i + 1))
      <4>1. i \in Nat /\ \A j \in 0 .. i : ~ past(back(j))
        BY <1>3
      <4>2. \A j \in 0 .. i :
               ~ is_equal_to_or_less_than(ring_minus(SequenceOf(p), j + 1),
                                          SequenceOf(h))
        BY <1>1, <2>1, <4>1
      <4> HIDE DEF v, group, inside
      <4>3. h \in Nat /\ t \in Nat /\ h <= t /\ t - h <= Farthest
        BY <1>1
      <4>4. p \in h + 1 .. t
        BY <2>1, <4>3
      <4>5. /\ p - (i + 1) \in h + 1 .. p - 1
            /\ ring_minus(SequenceOf(p), i + 1) = SequenceOf(p - (i + 1))
        BY <4>1, <4>2, <4>3, <4>4, FlagsInside
      <4> QED
        BY <1>1, <2>1, <4>1, <4>5
    <3>4. group \in S
      <4>1. p \in Missing(h, t, acc)
        BY <1>1, <2>1, <2>2, <2>4 DEF Missing
      <4>2. ASSUME NEW i \in group.flags
            PROVE  i \in Nat /\ back(i) \in AsksFor(h, t, acc)
        <5>1. i \in inside /\ ~ is_received(r, back(i))
          OBVIOUS
        <5>2. /\ i \in Nat /\ p - (i + 1) \in h + 1 .. t - 1
              /\ back(i) = SequenceOf(p - (i + 1))
          BY <3>3, <5>1
        <5>3. p - (i + 1) \in Missing(h, t, acc)
          <6>1. p - (i + 1) \in h + 1 .. t
            BY <1>1, <5>2
          <6> QED
            BY <1>1, <5>1, <5>2, <6>1 DEF Missing
        <5> QED
          BY <5>2, <5>3 DEF AsksFor
      <4>3. w.seq \in AsksFor(h, t, acc)
        BY <2>1, <4>1 DEF AsksFor
      <4>4. get_nacked(group) \subseteq AsksFor(h, t, acc)
        BY <4>2, <4>3 DEF get_nacked
      <4>5. w.seq \in SeqNo /\ group.flags \subseteq Nat
        BY <2>1, <2>2, <4>2, SequenceAssumption, SequencePlus
      <4>6. group \in [start_sequence : SeqNo, flags : SUBSET Nat]
        BY <4>5
      <4> QED
        BY <4>4, <4>6 DEF SoundGroups
    <3>5. v.nacks \in Seq(S)
      <4> HIDE DEF S, group, v
      <4> QED
        BY <1>2, <3>2, <3>4
    <3>6. ASSUME ~ v.done
          PROVE  \E q \in h .. t - 1 : v.seq = SequenceOf(q)
      <4> DEFINE i == NACK_BITS - 1
      <4> HIDE DEF inside, v
      <4>1. i \in inside
        BY <1>3, <3>2, <3>6
      <4>2. p - NACK_BITS > h
        BY <1>1, <1>3, <3>3, <4>1
      <4>3. NACK_BITS + 1 \in 0 .. p - h /\ p - (NACK_BITS + 1) \in h .. t - 1
        BY <1>1, <1>3, <2>2, <4>2
      <4>4. ring_minus(SequenceOf(p), NACK_BITS + 1)
              = SequenceOf(p - (NACK_BITS + 1))
        BY <1>1, <2>2, <4>3, WalkBack
      <4> QED
        BY <2>1, <3>2, <4>3, <4>4
    <3> HIDE DEF v
    <3>7. WalkSound(r, h, t, acc, v)
      BY <3>2, <3>5, <3>6 DEF WalkSound
    <3> QED
      BY <3>7 DEF v
  <2> QED
    BY <2>3, <2>4
<1> QED
  BY <1>2, <1>4, <1>5

\* What holds before the first pass and is kept by every pass holds after all.
LEMMA WalkSoundAlways ==
  ASSUME NEW r, NEW h, NEW t, NEW acc, Marks(r, h, t, acc),
         NEW N \in Nat, NEW f, f[0] = WalkStart(r),
         \A i \in 1 .. N : f[i] = nack_step(r, f[i - 1])
  PROVE  \A i \in 0 .. N : WalkSound(r, h, t, acc, f[i])
<1> DEFINE Bad == {i \in 0 .. N : ~ WalkSound(r, h, t, acc, f[i])}
<1>1. WalkSound(r, h, t, acc, f[0])
  <2> DEFINE w == WalkStart(r)
  <2>1. /\ DOMAIN w = {"seq", "nacks", "done"}
        /\ w.nacks = << >> /\ w.done = FALSE
        /\ w.seq = previous_sequence(r.last_sequence)
    BY DEF WalkStart
  <2> HIDE DEF w
  <2>2. h \in Nat /\ t \in Nat /\ h <= t /\ r.last_sequence = SequenceOf(t)
    BY DEF Marks
  <2>3. h # t => w.seq = SequenceOf(t - 1) /\ t - 1 \in h .. t - 1
    BY <2>1, <2>2, OneBack
  <2>4. w.nacks \in Seq(SoundGroups(h, t, acc)) /\ w.done \in BOOLEAN
    <3>1. w.nacks \in Seq(SoundGroups(h, t, acc))
      <4> DEFINE S == SoundGroups(h, t, acc)
      <4> HIDE DEF S
      <4>1. w.nacks \in Seq(S)
        BY <2>1
      <4> QED
        BY <4>1 DEF S
    <3>2. w.done \in BOOLEAN
      BY <2>1
    <3> QED
      BY <3>1, <3>2
  <2>5. \/ \E p \in h .. t - 1 : w.seq = SequenceOf(p)
        \/ h = t /\ w.seq = previous_sequence(r.last_sequence)
    BY <2>1, <2>3
  <2>6. WalkSound(r, h, t, acc, w)
    BY <2>1, <2>4, <2>5 DEF WalkSound
  <2> QED
    BY <2>6 DEF w
<1>2. SUFFICES ASSUME Bad # {} PROVE FALSE
  OBVIOUS
<1>3. Bad \in SUBSET Nat
  OBVIOUS
<1> HIDE DEF Bad
<1>4. PICK k \in Bad : \A j \in Bad : k <= j
  BY <1>2, <1>3, LeastNat
<1>5. k \in 0 .. N /\ ~ WalkSound(r, h, t, acc, f[k])
  BY <1>4 DEF Bad
<1>6. k # 0
  BY <1>1, <1>5
<1>7. k \in 1 .. N /\ k - 1 \in 0 .. N /\ ~ (k <= k - 1)
  BY <1>5, <1>6
<1>8. WalkSound(r, h, t, acc, f[k - 1])
  BY <1>4, <1>7 DEF Bad
<1>9. f[k] = nack_step(r, f[k - 1])
  BY <1>7
<1> QED
  BY <1>5, <1>8, <1>9, StepSound

\* create_nacks asks only for missing messages.
LEMMA NacksAreMissing ==
  ASSUME NEW r, NEW h, NEW t, NEW acc, Marks(r, h, t, acc)
  PROVE  nacked_sequences(create_nacks(r)) \subseteq AsksFor(h, t, acc)
<1>1. PICK f : /\ NackGroups \in Nat
               /\ f[0] = WalkStart(r)
               /\ \A i \in 1 .. NackGroups : f[i] = nack_step(r, f[i - 1])
               /\ create_nacks(r) = f[NackGroups].nacks
  BY NackWalk
<1>2. \A i \in 0 .. NackGroups : WalkSound(r, h, t, acc, f[i])
  BY <1>1, WalkSoundAlways
<1>3. NackGroups \in 0 .. NackGroups
  BY <1>1
<1>4. create_nacks(r) \in Seq(SoundGroups(h, t, acc))
  BY <1>1, <1>2, <1>3 DEF WalkSound
<1>5. ASSUME NEW q \in Seq(SoundGroups(h, t, acc)), NEW i \in DOMAIN q
      PROVE  get_nacked(q[i]) \subseteq AsksFor(h, t, acc)
  <2>1. q[i] \in SoundGroups(h, t, acc)
    BY <1>5
  <2> QED
    BY <2>1 DEF SoundGroups
<1> QED
  BY <1>4, <1>5 DEF nacked_sequences

-----------------------------------------------------------------------------
(***************************************************************************)
(* The newest missing message is n, with everything after it accepted:     *)
(* after i passes the walk is i messages back from last, or has asked for  *)
(* n already.                                                              *)
(***************************************************************************)
WalkReaches(t, n, i, w) ==
  /\ i <= t - 1 - n => ~ w.done /\ w.seq = SequenceOf(t - 1 - i)
  /\ i > t - 1 - n => SequenceOf(n) \in nacked_sequences(w.nacks)

\* One pass gets one message further back, or asks for n.
LEMMA StepReaches ==
  ASSUME NEW r, NEW h, NEW t, NEW acc, Marks(r, h, t, acc),
         NEW n \in Missing(h, t, acc), \A m \in n + 1 .. t : m \in acc,
         NEW w, WalkSound(r, h, t, acc, w),
         NEW i \in Nat, WalkReaches(t, n, i, w)
  PROVE  WalkReaches(t, n, i + 1, nack_step(r, w))
<1> DEFINE v == nack_step(r, w)
           S == SoundGroups(h, t, acc)
<1>1. /\ h \in Nat /\ t \in Nat /\ h <= t /\ t - h <= Farthest
      /\ r.current_sequence = SequenceOf(h)
      /\ \A m \in h + 1 .. t : is_received(r, SequenceOf(m)) <=> m \in acc
  BY DEF Marks, is_received, SlotOf
<1>2. n \in h + 1 .. t - 1 /\ n \notin acc
  BY DEF Missing
<1>3. /\ DOMAIN w = {"seq", "nacks", "done"}
      /\ w.nacks \in Seq(S) /\ w.done \in BOOLEAN
  BY DEF WalkSound
<1>4. /\ v.nacks \in Seq(S)
      /\ \/ v.nacks = w.nacks
         \/ \E g : v.nacks = Append(w.nacks, g)
  <2>1. WalkSound(r, h, t, acc, v)
    BY StepSound
  <2> QED
    BY <1>3, <2>1 DEF WalkSound, nack_step
<1>5. CASE i <= t - 1 - n
  <2> DEFINE p == t - 1 - i
  <2>1. ~ w.done /\ w.seq = SequenceOf(p)
    BY <1>5 DEF WalkReaches
  <2>2. p \in n .. t - 1 /\ p \in h + 1 .. t /\ p \in h .. t /\ p # h /\ p \in Nat
        /\ p >= 1
    BY <1>1, <1>2, <1>5
  <2>3. ~ is_equal_to_or_less_than(w.seq, r.current_sequence)
    BY <1>1, <2>1, <2>2, WalkBack
  <2>4. CASE p = n
    <3>1. ~ is_received(r, w.seq)
      BY <1>1, <1>2, <2>1, <2>2, <2>4
    <3> DEFINE past(s) == is_equal_to_or_less_than(s, r.current_sequence)
               back(k) == ring_minus(w.seq, k + 1)
               inside  == {k \in 0 .. NACK_BITS - 1 :
                             \A j \in 0 .. k : ~ past(back(j))}
               g       == [start_sequence |-> w.seq,
                           flags |-> {k \in inside : ~ is_received(r, back(k))}]
    <3>2. v = [seq   |-> back(NACK_BITS),
               nacks |-> Append(w.nacks, g),
               done  |-> inside # 0 .. NACK_BITS - 1]
      BY <2>1, <2>3, <3>1 DEF nack_step
    <3>3. v.nacks = Append(w.nacks, g) /\ g.start_sequence = w.seq
      <4>1. g.start_sequence = w.seq
        OBVIOUS
      <4> HIDE DEF v, g, inside
      <4> QED
        BY <3>2, <4>1
    <3> HIDE DEF g
    <3>4. SequenceOf(n) \in get_nacked(v.nacks[Len(w.nacks) + 1])
      BY <1>3, <2>1, <2>4, <3>3 DEF get_nacked
    <3>5. Len(w.nacks) + 1 \in DOMAIN v.nacks
      BY <1>3, <3>3
    <3>6. SequenceOf(n) \in nacked_sequences(v.nacks)
      BY <3>4, <3>5 DEF nacked_sequences
    <3>7. ~ (i + 1 <= t - 1 - n)
      BY <1>1, <1>2, <2>4
    <3> QED
      BY <3>6, <3>7 DEF WalkReaches
  <2>5. CASE p # n
    <3>1. is_received(r, w.seq)
      <4>1. p \in n + 1 .. t
        BY <1>1, <1>2, <2>2, <2>5
      <4> QED
        BY <1>1, <2>1, <2>2, <4>1
    <3>2. v = [w EXCEPT !.seq = previous_sequence(@)]
      BY <2>1, <2>3, <3>1 DEF nack_step
    <3>3. v.done = w.done /\ v.seq = previous_sequence(w.seq)
      BY <1>3, <3>2
    <3>4. p - 1 = t - 1 - (i + 1) /\ i + 1 <= t - 1 - n
      BY <1>1, <1>2, <1>5, <2>2, <2>5
    <3> HIDE DEF p
    <3>5. v.seq = SequenceOf(p - 1)
      BY <2>1, <2>2, <3>3, OneBack
    <3>6. ~ (i + 1 > t - 1 - n)
      BY <1>1, <1>2, <3>4
    <3> HIDE DEF v
    <3>7. WalkReaches(t, n, i + 1, v)
      BY <2>1, <3>3, <3>4, <3>5, <3>6 DEF WalkReaches
    <3> QED
      BY <3>7 DEF v
  <2> QED
    BY <2>4, <2>5
<1>6. CASE i > t - 1 - n
  <2>1. SequenceOf(n) \in nacked_sequences(w.nacks)
    BY <1>6 DEF WalkReaches
  <2> HIDE DEF v
  <2>2. SequenceOf(n) \in nacked_sequences(v.nacks)
    <3>1. CASE v.nacks = w.nacks
      BY <2>1, <3>1
    <3>2. CASE \E g : v.nacks = Append(w.nacks, g)
      <4>1. PICK g : v.nacks = Append(w.nacks, g)
        BY <3>2
      <4>2. PICK j \in DOMAIN w.nacks : SequenceOf(n) \in get_nacked(w.nacks[j])
        BY <2>1 DEF nacked_sequences
      <4>3. j \in DOMAIN v.nacks /\ v.nacks[j] = w.nacks[j]
        BY <1>3, <4>1, <4>2
      <4> QED
        BY <4>2, <4>3 DEF nacked_sequences
    <3> QED
      BY <1>4, <3>1, <3>2
  <2>3. i + 1 > t - 1 - n /\ ~ (i + 1 <= t - 1 - n)
    BY <1>1, <1>2, <1>6
  <2>4. WalkReaches(t, n, i + 1, v)
    BY <2>2, <2>3 DEF WalkReaches
  <2> QED
    BY <2>4 DEF v
<1>7. t - 1 - n \in Int
  BY <1>1, <1>2
<1> QED
  BY <1>5, <1>6, <1>7

\* create_nacks asks for the newest missing message if its passes suffice.
LEMMA NewestIsNacked ==
  ASSUME NEW r, NEW h, NEW t, NEW acc, Marks(r, h, t, acc),
         NEW n \in Missing(h, t, acc), \A m \in n + 1 .. t : m \in acc,
         t - 1 - n < NackGroups
  PROVE  SequenceOf(n) \in nacked_sequences(create_nacks(r))
<1>1. PICK f : /\ NackGroups \in Nat
               /\ f[0] = WalkStart(r)
               /\ \A i \in 1 .. NackGroups : f[i] = nack_step(r, f[i - 1])
               /\ create_nacks(r) = f[NackGroups].nacks
  BY NackWalk
<1>2. \A i \in 0 .. NackGroups : WalkSound(r, h, t, acc, f[i])
  BY <1>1, WalkSoundAlways
<1>3. /\ h \in Nat /\ t \in Nat /\ n \in h + 1 .. t - 1
      /\ r.last_sequence = SequenceOf(t)
  BY DEF Marks, Missing
<1> DEFINE Bad == {i \in 0 .. NackGroups : ~ WalkReaches(t, n, i, f[i])}
<1>4. WalkReaches(t, n, 0, f[0])
  <2>1. /\ WalkStart(r).done = FALSE
        /\ WalkStart(r).seq = previous_sequence(r.last_sequence)
    BY DEF WalkStart
  <2>2. previous_sequence(r.last_sequence) = SequenceOf(t - 1 - 0)
    BY <1>3, OneBack
  <2>3. ~ (0 > t - 1 - n)
    BY <1>3
  <2> QED
    BY <1>1, <2>1, <2>2, <2>3 DEF WalkReaches
<1>5. Bad = {}
  <2> SUFFICES ASSUME Bad # {} PROVE FALSE
    OBVIOUS
  <2>1. Bad \in SUBSET Nat
    OBVIOUS
  <2> HIDE DEF Bad
  <2>2. PICK k \in Bad : \A j \in Bad : k <= j
    BY <2>1, LeastNat
  <2>3. k \in 0 .. NackGroups /\ ~ WalkReaches(t, n, k, f[k])
    BY <2>2 DEF Bad
  <2>4. k # 0
    BY <1>4, <2>3
  <2>5. /\ k \in 1 .. NackGroups /\ k - 1 \in 0 .. NackGroups
        /\ k - 1 \in Nat /\ (k - 1) + 1 = k /\ ~ (k <= k - 1)
    BY <1>1, <2>3, <2>4
  <2>6. WalkReaches(t, n, k - 1, f[k - 1])
    BY <2>2, <2>5 DEF Bad
  <2>7. f[k] = nack_step(r, f[k - 1]) /\ WalkSound(r, h, t, acc, f[k - 1])
    BY <1>1, <1>2, <2>5
  <2>8. WalkReaches(t, n, (k - 1) + 1, nack_step(r, f[k - 1]))
    BY <2>5, <2>6, <2>7, StepReaches
  <2> QED
    BY <2>3, <2>5, <2>7, <2>8
<1>6. NackGroups \in 0 .. NackGroups /\ NackGroups > t - 1 - n
  BY <1>1, <1>3
<1>7. WalkReaches(t, n, NackGroups, f[NackGroups])
  BY <1>5, <1>6
<1> QED
  BY <1>1, <1>6, <1>7 DEF WalkReaches

-----------------------------------------------------------------------------
(***************************************************************************)
(* Packets in place of numbers.  The receiver of a channel holds packets   *)
(* where the lemmas above speak of message numbers.  Its methods do the    *)
(* same with both, so that what is known of the numbers is known of the    *)
(* packets.  P is any set of packets, each with the sequence it goes by.   *)
(***************************************************************************)
Numbers(P) == \A p \in P : p # None /\ p.sequence \in SeqNo

Numbered(p) == IF p = None THEN None ELSE p.sequence

\* Receiver r holds packets of P where receiver q holds their numbers.
Same(P, r, q) ==
  /\ DOMAIN r = Fields /\ DOMAIN q = Fields
  /\ q.is_ordered = r.is_ordered
  /\ q.current_sequence = r.current_sequence
  /\ q.last_sequence = r.last_sequence
  /\ q.received = r.received
  /\ q.skipped_sequences = r.skipped_sequences
  /\ r.buffered \in [Slots -> P \cup {None}]
  /\ q.buffered = [i \in Slots |-> Numbered(r.buffered[i])]
  /\ r.published \in Seq(P)
  /\ q.published = [i \in DOMAIN r.published |-> r.published[i].sequence]

LEMMA NumbersType ==
  ASSUME NEW P, Numbers(P), NEW p \in P
  PROVE  /\ p # None /\ p.sequence \in Nat /\ p.sequence \in SeqNo
         /\ p.sequence # None
BY SequenceAssumption, ReceiverAssumption DEF Numbers, SeqNo

\* Every sequence has a slot.
LEMMA AnySlot ==
  ASSUME NEW s \in Nat PROVE Slot(s) \in Slots
BY ReceiverAssumption, Remainder DEF Slot, sequence_to_index, Slots

\* A slot that has a packet in one has its number in the other.
LEMMA SameBuffered ==
  ASSUME NEW P, Numbers(P), NEW r, NEW q, Same(P, r, q), NEW s, Slot(s) \in Slots
  PROVE  is_buffered(q, s) <=> is_buffered(r, s)
<1>1. r.buffered[Slot(s)] \in P \cup {None}
  BY DEF Same
<1>2. q.buffered[Slot(s)] = Numbered(r.buffered[Slot(s)])
  BY DEF Same
<1> QED
  BY <1>1, <1>2, NumbersType DEF is_buffered, Numbered

\* skip_current and advance_to leave the packets alone.
LEMMA SameSkip ==
  ASSUME NEW P, Numbers(P), NEW r, NEW q, Same(P, r, q)
  PROVE  Same(P, skip_current(r), skip_current(q))
BY DEF Same, skip_current, Fields

LEMMA SameAdvance ==
  ASSUME NEW P, Numbers(P), NEW r, NEW q, Same(P, r, q), NEW s
  PROVE  Same(P, advance_to(r, s), advance_to(q, s))
BY DEF Same, advance_to, Fields

\* set_buffered and set_received
LEMMA SameStore ==
  ASSUME NEW P, Numbers(P), NEW r, NEW q, Same(P, r, q), NEW p \in P
  PROVE  Same(P, set_received(r, p.sequence, p),
              set_received(q, p.sequence, p.sequence))
<1> DEFINE s == p.sequence
           R == set_received(r, s, p)
           Q == set_received(q, s, s)
<1>1. Slot(s) \in Slots
  BY NumbersType, AnySlot
<1>2. p # None /\ Numbered(p) = s
  BY NumbersType DEF Numbered
<1>3. /\ DOMAIN R = Fields /\ DOMAIN Q = Fields
      /\ Q.is_ordered = R.is_ordered
      /\ Q.current_sequence = R.current_sequence
      /\ Q.last_sequence = R.last_sequence
      /\ Q.received = R.received
      /\ Q.skipped_sequences = R.skipped_sequences
      /\ R.published = r.published /\ Q.published = q.published
      /\ R.buffered = [r.buffered EXCEPT ![Slot(s)] = p]
      /\ Q.buffered = [q.buffered EXCEPT ![Slot(s)] = s]
  BY DEF Same, set_received, Fields
<1>4. R.buffered \in [Slots -> P \cup {None}]
  BY <1>1, <1>3 DEF Same
<1>5. Q.buffered = [i \in Slots |-> Numbered(R.buffered[i])]
  <2>1. /\ q.buffered = [i \in Slots |-> Numbered(r.buffered[i])]
        /\ r.buffered \in [Slots -> P \cup {None}]
    BY DEF Same
  <2>2. \A i \in Slots : R.buffered[i] = IF i = Slot(s) THEN p ELSE r.buffered[i]
    BY <1>3, <2>1
  <2>3. Q.buffered = [i \in Slots |-> IF i = Slot(s) THEN s
                                                  ELSE Numbered(r.buffered[i])]
    BY <1>3, <2>1
  <2>4. \A i \in Slots : Numbered(R.buffered[i]) =
          IF i = Slot(s) THEN s ELSE Numbered(r.buffered[i])
    BY <1>2, <2>2
  <2> HIDE DEF Q, R, s
  <2> QED
    BY <2>3, <2>4
<1> HIDE DEF R, Q
<1>6. Same(P, R, Q)
  BY <1>3, <1>4, <1>5 DEF Same
<1> QED
  BY <1>6 DEF R, Q

\* The walk of publish visits the same slots and finds the same.
LEMMA SameWalk ==
  ASSUME NEW P, Numbers(P), NEW r, NEW q, Same(P, r, q), r.current_sequence \in Nat
  PROVE  /\ reach(q) = reach(r) /\ run(q) = run(r)
         /\ \A k \in Nat : WalkedTo(q, k) = WalkedTo(r, k)
         /\ \A k \in Nat : Slot(WalkedTo(r, k)) \in Slots
         /\ \A far : to_publish(q, far) = to_publish(r, far)
<1>1. /\ q.current_sequence = r.current_sequence
      /\ q.last_sequence = r.last_sequence
      /\ q.received = r.received
  BY DEF Same
<1>2. reach(q) = reach(r)
  BY <1>1 DEF reach
<1>3. \A k : WalkedTo(q, k) = WalkedTo(r, k)
  BY <1>1 DEF WalkedTo
<1>4. \A s : is_received(q, s) <=> is_received(r, s)
  BY <1>1 DEF is_received
<1>5. run(q) = run(r)
  BY <1>2, <1>3, <1>4 DEF run
<1>6. \A k \in Nat : Slot(WalkedTo(r, k)) \in Slots
  <2> SUFFICES ASSUME NEW k \in Nat PROVE Slot(WalkedTo(r, k)) \in Slots
    OBVIOUS
  <2>1. WalkedTo(r, k) \in Nat
    BY SequenceAssumption DEF WalkedTo, ring_plus
  <2> QED
    BY <2>1, AnySlot
<1>7. ASSUME NEW far PROVE to_publish(q, far) = to_publish(r, far)
  <2>1. \A k \in 0 .. far - 1 :
           is_buffered(q, WalkedTo(r, k)) <=> is_buffered(r, WalkedTo(r, k))
    <3> SUFFICES ASSUME NEW k \in 0 .. far - 1
                 PROVE  is_buffered(q, WalkedTo(r, k)) <=> is_buffered(r, WalkedTo(r, k))
      OBVIOUS
    <3>1. k \in Nat
      OBVIOUS
    <3> QED
      BY <1>6, <3>1, SameBuffered
  <2> QED
    BY <1>3, <1>4, <2>1 DEF to_publish
<1> QED
  BY <1>2, <1>3, <1>5, <1>6, <1>7

NumbersOf(s) == [i \in DOMAIN s |-> s[i].sequence]

\* The numbers of two queues joined are their numbers joined.
LEMMA SameJoin ==
  ASSUME NEW P, Numbers(P), NEW a \in Seq(P), NEW b \in Seq(P)
  PROVE  /\ a \o b \in Seq(P)
         /\ NumbersOf(a) \o NumbersOf(b) = NumbersOf(a \o b)
<1> DEFINE x == [i \in DOMAIN a |-> a[i].sequence]
           y == [i \in DOMAIN b |-> b[i].sequence]
           z == [i \in DOMAIN (a \o b) |-> (a \o b)[i].sequence]
<1>1. /\ x \in Seq(Nat) /\ Len(x) = Len(a) /\ y \in Seq(Nat) /\ Len(y) = Len(b)
      /\ Len(a) \in Nat /\ Len(b) \in Nat
  <2>1. /\ DOMAIN a = 1 .. Len(a) /\ DOMAIN b = 1 .. Len(b)
        /\ Len(a) \in Nat /\ Len(b) \in Nat
    OBVIOUS
  <2>2. x \in [1 .. Len(a) -> Nat] /\ y \in [1 .. Len(b) -> Nat]
    BY <2>1, NumbersType
  <2> QED
    BY <2>1, <2>2
<1>2. /\ a \o b \in Seq(P) /\ Len(a \o b) = Len(a) + Len(b)
      /\ \A i \in 1 .. Len(a) : (a \o b)[i] = a[i]
      /\ \A i \in 1 .. Len(b) : (a \o b)[Len(a) + i] = b[i]
  OBVIOUS
<1>3. z \in Seq(Nat) /\ Len(z) = Len(a) + Len(b)
  <2>1. z \in [1 .. Len(a) + Len(b) -> Nat]
    BY <1>2, NumbersType
  <2> QED
    BY <2>1
<1>4. /\ \A i \in 1 .. Len(a) : x[i] = a[i].sequence
      /\ \A i \in 1 .. Len(b) : y[i] = b[i].sequence
      /\ \A i \in 1 .. Len(a) + Len(b) : z[i] = (a \o b)[i].sequence
  BY <1>2
<1> HIDE DEF x, y, z
<1>5. ASSUME NEW i \in 1 .. Len(a) + Len(b) PROVE (x \o y)[i] = z[i]
  <2>1. CASE i <= Len(a)
    <3>1. i \in 1 .. Len(a) /\ (x \o y)[i] = x[i]
      BY <1>1, <2>1
    <3> QED
      BY <1>2, <1>4, <3>1
  <2>2. CASE i > Len(a)
    <3>1. PICK j \in 1 .. Len(b) : i = Len(a) + j
      <4>1. i - Len(a) \in 1 .. Len(b) /\ i = Len(a) + (i - Len(a))
        BY <2>2
      <4> QED
        BY <4>1
    <3>2. (x \o y)[i] = y[j]
      BY <1>1, <3>1
    <3> QED
      BY <1>2, <1>4, <3>1, <3>2
  <2> QED
    BY <1>1, <2>1, <2>2
<1>6. x \o y = z
  <2> DEFINE v == x \o y
  <2>1. v \in Seq(Nat)
    BY <1>1
  <2>2. Len(v) = Len(a) + Len(b)
    <3>1. x \in Seq(Nat) /\ y \in Seq(Nat)
      BY <1>1
    <3>2. Len(v) = Len(x) + Len(y)
      BY <3>1
    <3> QED
      BY <1>1, <3>2
  <2> HIDE DEF v
  <2>3. \A i \in 1 .. Len(v) : v[i] = z[i]
    BY <1>5, <2>2 DEF v
  <2>4. v = z
    BY <1>3, <2>1, <2>2, <2>3
  <2> QED
    BY <2>4 DEF v
<1> QED
  BY <1>2, <1>6 DEF NumbersOf, x, y, z

(***************************************************************************)
(* A walk moves the same slots to the queue, in the same order.            *)
(***************************************************************************)
LEMMA SameMove ==
  ASSUME NEW P, Numbers(P), NEW r, NEW q, Same(P, r, q), r.current_sequence \in Nat,
         NEW n \in Nat, NEW far \in Nat
  PROVE  Same(P, move_buffered(r, n, far), move_buffered(q, n, far))
<1> DEFINE R     == move_buffered(r, n, far)
           Q     == move_buffered(q, n, far)
           found == to_publish(r, far)
           out   == Ascending(found)
           at(k) == Slot(WalkedTo(r, k))
           taken == {at(k) : k \in found}
           more  == [i \in DOMAIN out |-> r.buffered[at(out[i])]]
           moreq == [i \in DOMAIN out |-> q.buffered[at(out[i])]]
<1>1. /\ q.current_sequence = r.current_sequence
      /\ q.received = r.received
      /\ \A k : WalkedTo(q, k) = WalkedTo(r, k)
      /\ \A k \in Nat : at(k) \in Slots
      /\ to_publish(q, far) = found
  <2>1. q.current_sequence = r.current_sequence /\ q.received = r.received
    BY DEF Same
  <2>2. \A k : WalkedTo(q, k) = WalkedTo(r, k)
    BY <2>1 DEF WalkedTo
  <2>3. \A k \in Nat : at(k) \in Slots
    BY SameWalk
  <2>4. to_publish(q, far) = found
    BY SameWalk
  <2> QED
    BY <2>1, <2>2, <2>3, <2>4
<1>2. found \in SUBSET Nat /\ IsFiniteSet(found)
  <2>1. found \subseteq 0 .. far - 1
    BY DEF to_publish
  <2>2. IsFiniteSet(0 .. far - 1)
    BY FS_Interval
  <2> QED
    BY <2>1, <2>2, FS_Subset
<1>3. /\ Cardinality(found) \in Nat /\ DOMAIN out = 1 .. Cardinality(found)
      /\ \A i \in DOMAIN out : out[i] \in found
  BY <1>2, AscendingLists
<1>4. \A k \in found : at(k) \in Slots /\ r.buffered[at(k)] # None
  <2> SUFFICES ASSUME NEW k \in found
               PROVE  at(k) \in Slots /\ r.buffered[at(k)] # None
    OBVIOUS
  <2>1. k \in Nat /\ is_buffered(r, WalkedTo(r, k))
    BY <1>2 DEF to_publish
  <2> QED
    BY <1>1, <2>1 DEF is_buffered
<1>5. \A k \in found : /\ r.buffered[at(k)] \in P
                       /\ q.buffered[at(k)] = r.buffered[at(k)].sequence
  <2> SUFFICES ASSUME NEW k \in found
               PROVE  /\ r.buffered[at(k)] \in P
                      /\ q.buffered[at(k)] = r.buffered[at(k)].sequence
    OBVIOUS
  <2>1. /\ r.buffered \in [Slots -> P \cup {None}]
        /\ q.buffered = [i \in Slots |-> Numbered(r.buffered[i])]
    BY DEF Same
  <2> QED
    BY <1>4, <2>1 DEF Numbered
<1>6. /\ more \in Seq(P) /\ Len(more) = Cardinality(found)
      /\ moreq = [i \in DOMAIN more |-> more[i].sequence]
  <2>1. /\ more \in [1 .. Cardinality(found) -> P]
        /\ \A i \in DOMAIN out : q.buffered[at(out[i])] = more[i].sequence
    BY <1>3, <1>5
  <2>2. DOMAIN more = DOMAIN out
    OBVIOUS
  <2> QED
    BY <1>3, <2>1, <2>2
<1>7. /\ DOMAIN R = Fields /\ DOMAIN Q = Fields
      /\ R.is_ordered = r.is_ordered /\ Q.is_ordered = q.is_ordered
      /\ R.last_sequence = r.last_sequence /\ Q.last_sequence = q.last_sequence
      /\ R.skipped_sequences = r.skipped_sequences
      /\ Q.skipped_sequences = q.skipped_sequences
  BY MoveFields DEF Same
<1>8. Q.current_sequence = R.current_sequence /\ Q.received = R.received
  <2>1. {Slot(WalkedTo(q, k)) : k \in 0 .. n - 1} = {at(k) : k \in 0 .. n - 1}
    BY <1>1
  <2>2. /\ R.current_sequence = IF n = 0 THEN r.current_sequence
                                          ELSE WalkedTo(r, n - 1)
        /\ R.received = r.received \ {at(k) : k \in 0 .. n - 1}
    BY MoveFields DEF Same
  <2>3. /\ Q.current_sequence = IF n = 0 THEN q.current_sequence
                                          ELSE WalkedTo(q, n - 1)
        /\ Q.received = q.received \ {Slot(WalkedTo(q, k)) : k \in 0 .. n - 1}
    BY MoveFields DEF Same
  <2> HIDE DEF R, Q, at
  <2> QED
    BY <1>1, <2>1, <2>2, <2>3
<1>9. /\ R.buffered = [i \in Slots |-> IF i \in taken THEN None ELSE r.buffered[i]]
      /\ R.published = r.published \o more
  BY DEF move_buffered, Same, Fields
<1>10. /\ Q.buffered = [i \in Slots |-> IF i \in taken THEN None ELSE q.buffered[i]]
       /\ Q.published = q.published \o moreq
  <2>1. /\ {Slot(WalkedTo(q, k)) : k \in found} = taken
        /\ [i \in DOMAIN out |-> q.buffered[Slot(WalkedTo(q, out[i]))]] = moreq
    BY <1>1
  <2>2. /\ Q.buffered = [i \in Slots |->
                           IF i \in {Slot(WalkedTo(q, k)) : k \in to_publish(q, far)}
                           THEN None ELSE q.buffered[i]]
        /\ Q.published = q.published \o
             [i \in DOMAIN Ascending(to_publish(q, far)) |->
                q.buffered[Slot(WalkedTo(q, Ascending(to_publish(q, far))[i]))]]
    BY DEF move_buffered, Same, Fields
  <2> HIDE DEF Q, taken, moreq, found
  <2> QED
    BY <1>1, <2>1, <2>2
<1> HIDE DEF R, Q, taken, more, moreq
<1>11. /\ R.buffered \in [Slots -> P \cup {None}]
       /\ Q.buffered = [i \in Slots |-> Numbered(R.buffered[i])]
  <2>1. /\ r.buffered \in [Slots -> P \cup {None}]
        /\ \A i \in Slots : q.buffered[i] = Numbered(r.buffered[i])
    BY DEF Same
  <2>2. Numbered(None) = None
    BY DEF Numbered
  <2> QED
    BY <1>9, <1>10, <2>1, <2>2
<1>12. /\ R.published \in Seq(P)
       /\ Q.published = [i \in DOMAIN R.published |-> R.published[i].sequence]
  <2>1. /\ r.published \in Seq(P)
        /\ q.published = [i \in DOMAIN r.published |-> r.published[i].sequence]
    BY DEF Same
  <2>2. /\ r.published \o more \in Seq(P)
        /\ [i \in DOMAIN r.published |-> r.published[i].sequence]
             \o [i \in DOMAIN more |-> more[i].sequence]
             = [i \in DOMAIN (r.published \o more) |->
                  (r.published \o more)[i].sequence]
    <3>1. r.published \in Seq(P) /\ more \in Seq(P)
      BY <1>6, <2>1
    <3>2. /\ r.published \o more \in Seq(P)
          /\ NumbersOf(r.published) \o NumbersOf(more)
               = NumbersOf(r.published \o more)
      BY <3>1, SameJoin
    <3> QED
      BY <3>2 DEF NumbersOf
  <2> QED
    BY <1>6, <1>9, <1>10, <2>1, <2>2
<1> QED
  BY <1>7, <1>8, <1>11, <1>12 DEF Same, R, Q

\* A receiver that is somewhere on the ring
OnRing(r) == r.current_sequence \in SeqNo /\ r.last_sequence \in SeqNo

LEMMA SamePublish ==
  ASSUME NEW P, Numbers(P), NEW r, NEW q, Same(P, r, q), OnRing(r)
  PROVE  Same(P, publish(r), publish(q))
<1>1. reach(r) \in Nat /\ r.current_sequence \in Nat
  BY SequenceAssumption, ReceiverAssumption DEF OnRing, SeqNo, reach, Distance
<1>2. run(r) \in Nat
  BY <1>1, RunExists
<1>3. /\ q.is_ordered = r.is_ordered /\ reach(q) = reach(r) /\ run(q) = run(r)
  BY <1>1, SameWalk DEF Same
<1> DEFINE far == IF r.is_ordered THEN run(r) ELSE reach(r)
<1>4. far \in Nat
  BY <1>1, <1>2
<1>5. /\ publish(r) = move_buffered(r, run(r), far)
      /\ publish(q) = move_buffered(q, run(r), far)
  BY <1>3 DEF publish
<1> HIDE DEF far
<1> QED
  BY <1>1, <1>2, <1>4, <1>5, SameMove

(***************************************************************************)
(* receive_packet takes and refuses the same packets.                      *)
(***************************************************************************)
LEMMA SameReceive ==
  ASSUME NEW P, Numbers(P), NEW r, NEW q, Same(P, r, q), OnRing(r), NEW p \in P
  PROVE  LET got == receive_packet(r, p.sequence, p)
             num == receive_packet(q, p.sequence, p.sequence)
         IN  /\ Same(P, got.receiver, num.receiver)
             /\ got.accepted = num.accepted /\ got.accepted \in BOOLEAN
<1> DEFINE s  == p.sequence
           r1 == skip_current(r)
           q1 == skip_current(q)
           r2 == advance_to(r1, s)
           q2 == advance_to(q1, s)
           r3 == set_received(r2, s, p)
           q3 == set_received(q2, s, s)
           got == receive_packet(r, s, p)
           num == receive_packet(q, s, s)
<1>1. s \in SeqNo
  BY NumbersType
<1>2. Same(P, r1, q1)
  BY SameSkip
<1>3. OnRing(r1)
  BY SequenceAssumption DEF OnRing, skip_current, next_sequence, SeqNo, Same, Fields
<1> HIDE DEF r1, q1, s
<1>4. Same(P, r2, q2)
  BY <1>2, SameAdvance
<1>5. OnRing(r2)
  BY <1>1, <1>2, <1>3 DEF OnRing, advance_to, Same, Fields
<1> HIDE DEF r2, q2
<1>6. Same(P, r3, q3)
  BY <1>4, SameStore DEF s
<1>7. OnRing(r3)
  BY <1>4, <1>5 DEF OnRing, set_received, Same, Fields
<1> HIDE DEF r3, q3
<1>8. Same(P, publish(r3), publish(q3))
  BY <1>6, <1>7, SamePublish
<1>9. /\ q1.current_sequence = r1.current_sequence
      /\ q2.received = r2.received
  BY <1>2, <1>4 DEF Same
<1>10. /\ got = IF ~ is_greater_then(s, r1.current_sequence)
                THEN [accepted |-> FALSE, receiver |-> r1]
                ELSE IF is_received(r2, s)
                THEN [accepted |-> FALSE, receiver |-> r2]
                ELSE [accepted |-> TRUE, receiver |-> publish(r3)]
       /\ num = IF ~ is_greater_then(s, q1.current_sequence)
                THEN [accepted |-> FALSE, receiver |-> q1]
                ELSE IF is_received(q2, s)
                THEN [accepted |-> FALSE, receiver |-> q2]
                ELSE [accepted |-> TRUE, receiver |-> publish(q3)]
  BY DEF receive_packet, r1, r2, r3, q1, q2, q3
<1> HIDE DEF got, num
<1>11. is_received(q2, s) <=> is_received(r2, s)
  BY <1>9 DEF is_received
<1>12. /\ Same(P, got.receiver, num.receiver)
       /\ got.accepted = num.accepted /\ got.accepted \in BOOLEAN
  <2>1. CASE ~ is_greater_then(s, r1.current_sequence)
    BY <1>2, <1>9, <1>10, <2>1
  <2>2. CASE is_greater_then(s, r1.current_sequence) /\ is_received(r2, s)
    BY <1>4, <1>9, <1>10, <1>11, <2>2
  <2>3. CASE is_greater_then(s, r1.current_sequence) /\ ~ is_received(r2, s)
    BY <1>8, <1>9, <1>10, <1>11, <2>3
  <2> QED
    BY <2>1, <2>2, <2>3
<1> QED
  BY <1>12 DEF got, num, s

-----------------------------------------------------------------------------
(***************************************************************************)
(* Queues of message numbers: what they list, and their order.             *)
(***************************************************************************)
Listed(s) == {s[i] : i \in DOMAIN s}

\* On an ordered channel upwards, on any channel each once
Ranked(o, s) ==
  \A i, j \in DOMAIN s : i < j => IF o THEN s[i] < s[j] ELSE s[i] # s[j]

\* What is listed after what may follow it is appended.
LEMMA ListedJoin ==
  ASSUME NEW a \in Seq(Nat), NEW b \in Seq(Nat)
  PROVE  Listed(a \o b) = Listed(a) \cup Listed(b)
<1> DEFINE z == a \o b
<1>1. /\ z \in Seq(Nat) /\ Len(z) = Len(a) + Len(b)
      /\ DOMAIN z = 1 .. Len(a) + Len(b)
      /\ DOMAIN a = 1 .. Len(a) /\ DOMAIN b = 1 .. Len(b)
      /\ Len(a) \in Nat /\ Len(b) \in Nat
  OBVIOUS
<1>2. \A i \in DOMAIN a : i \in DOMAIN z /\ z[i] = a[i]
  BY <1>1
<1>3. \A i \in DOMAIN b : Len(a) + i \in DOMAIN z /\ z[Len(a) + i] = b[i]
  BY <1>1
<1>4. ASSUME NEW i \in DOMAIN z
      PROVE  (\E j \in DOMAIN a : z[i] = a[j]) \/ (\E j \in DOMAIN b : z[i] = b[j])
  <2>1. CASE i <= Len(a)
    BY <1>1, <1>2, <2>1
  <2>2. CASE i > Len(a)
    <3>1. i - Len(a) \in DOMAIN b /\ i = Len(a) + (i - Len(a))
      BY <1>1, <2>2
    <3> QED
      BY <1>3, <3>1
  <2> QED
    BY <1>1, <2>1, <2>2
<1> HIDE DEF z
<1>5. Listed(z) \subseteq Listed(a) \cup Listed(b)
  BY <1>4 DEF Listed
<1>6. Listed(a) \subseteq Listed(z) /\ Listed(b) \subseteq Listed(z)
  BY <1>2, <1>3 DEF Listed
<1>7. Listed(z) = Listed(a) \cup Listed(b)
  BY <1>5, <1>6
<1> QED
  BY <1>7 DEF z

LEMMA RankedJoin ==
  ASSUME NEW o, NEW a \in Seq(Nat), NEW out, NEW acc,
         Ranked(o, a), MayFollow(o, out, acc, Listed(a))
  PROVE  /\ Ascending(out) \in Seq(Nat) /\ Listed(Ascending(out)) = out
         /\ Ranked(o, a \o Ascending(out))
<1> DEFINE b == Ascending(out)
           z == a \o b
<1>1. /\ out \in SUBSET Nat /\ IsFiniteSet(out) /\ out \cap Listed(a) = {}
      /\ o => \A x \in out, y \in Listed(a) : y < x
  BY DEF MayFollow
<1>2. /\ Cardinality(out) \in Nat /\ DOMAIN b = 1 .. Cardinality(out)
      /\ b = [i \in 1 .. Cardinality(out) |-> b[i]]
      /\ \A i \in DOMAIN b : b[i] \in out
      /\ \A i, j \in DOMAIN b : i < j => b[i] < b[j]
      /\ \A n \in out : \E i \in DOMAIN b : b[i] = n
  BY <1>1, AscendingLists
<1> HIDE DEF b
<1>3. b \in Seq(Nat)
  <2>1. b \in [1 .. Cardinality(out) -> Nat]
    BY <1>1, <1>2
  <2> QED
    BY <1>2, <2>1
<1>4. Listed(b) = out
  BY <1>2 DEF Listed
<1>5. /\ z \in Seq(Nat) /\ Len(z) = Len(a) + Len(b)
      /\ DOMAIN z = 1 .. Len(a) + Len(b)
      /\ DOMAIN a = 1 .. Len(a) /\ DOMAIN b = 1 .. Len(b)
      /\ Len(a) \in Nat /\ Len(b) \in Nat
      /\ \A i \in DOMAIN a : z[i] = a[i]
      /\ \A i \in DOMAIN b : z[Len(a) + i] = b[i]
  BY <1>3
<1> HIDE DEF z
<1>6. ASSUME NEW i \in DOMAIN z, NEW j \in DOMAIN z, i < j
      PROVE  IF o THEN z[i] < z[j] ELSE z[i] # z[j]
  <2>1. CASE j <= Len(a)
    <3>1. i \in DOMAIN a /\ j \in DOMAIN a
      BY <1>5, <1>6, <2>1
    <3> QED
      BY <1>5, <1>6, <3>1 DEF Ranked
  <2>2. CASE i <= Len(a) /\ j > Len(a)
    <3>1. i \in DOMAIN a /\ j - Len(a) \in DOMAIN b /\ j = Len(a) + (j - Len(a))
      BY <1>5, <1>6, <2>2
    <3>2. z[i] \in Listed(a) /\ z[j] \in out
      BY <1>2, <1>5, <3>1 DEF Listed
    <3> QED
      BY <1>1, <3>2
  <2>3. CASE i > Len(a)
    <3>1. /\ i \in 1 .. Len(a) + Len(b) /\ j \in 1 .. Len(a) + Len(b)
          /\ Len(a) \in Nat /\ Len(b) \in Nat
      BY <1>5
    <3>2. PICK x \in 1 .. Len(b) : i = Len(a) + x
      <4>1. i - Len(a) \in 1 .. Len(b) /\ i = Len(a) + (i - Len(a))
        BY <2>3, <3>1
      <4> QED
        BY <4>1
    <3>3. PICK y \in 1 .. Len(b) : j = Len(a) + y
      <4>1. j - Len(a) \in 1 .. Len(b) /\ j = Len(a) + (j - Len(a))
        BY <1>6, <2>3, <3>1
      <4> QED
        BY <4>1
    <3>4. x < y /\ x \in DOMAIN b /\ y \in DOMAIN b
      BY <1>5, <1>6, <3>1, <3>2, <3>3
    <3>5. b[x] < b[y] /\ b[x] \in Nat /\ b[y] \in Nat
      BY <1>1, <1>2, <3>4
    <3>6. z[i] = b[x] /\ z[j] = b[y]
      BY <1>5, <3>2, <3>3, <3>4
    <3> QED
      BY <3>5, <3>6
  <2> QED
    BY <1>5, <2>1, <2>2, <2>3
<1>7. Ranked(o, z)
  BY <1>6 DEF Ranked
<1> QED
  BY <1>3, <1>4, <1>7 DEF b, z

\* Three queues joined
LEMMA JoinJoin ==
  ASSUME NEW a \in Seq(Nat), NEW b \in Seq(Nat), NEW c \in Seq(Nat)
  PROVE  (a \o b) \o c = a \o (b \o c)
BY ConcatAssociative

\* The rest of a queue: its numbers, and what is listed before and in it.
LEMMA RestOf ==
  ASSUME NEW A, NEW P \in Seq(A), NEW g \in 0 .. Len(P)
  PROVE  LET Z == SubSeq(P, g + 1, Len(P))
         IN  /\ Z \in Seq(A) /\ Len(Z) = Len(P) - g /\ DOMAIN Z = 1 .. Len(P) - g
             /\ Len(P) \in Nat /\ DOMAIN P = 1 .. Len(P)
             /\ \A i \in 1 .. Len(P) - g : Z[i] = P[g + i] /\ g + i \in DOMAIN P
<1> DEFINE a == g + 1
           n == Len(P)
           Z == SubSeq(P, a, n)
<1>1. n \in Nat /\ DOMAIN P = 1 .. n /\ g \in Nat /\ a \in Int /\ n \in Int /\ g <= n
  OBVIOUS
<1>2. \A i \in a .. n : P[i] \in A
  OBVIOUS
<1> HIDE DEF a, n
<1>3. /\ Z \in Seq(A)
      /\ Len(Z) = IF a <= n THEN n - a + 1 ELSE 0
      /\ \A i \in 1 .. n - a + 1 : Z[i] = P[a + i - 1]
  BY <1>1, <1>2, SubSeqProperties
<1> HIDE DEF Z
<1>4. /\ n - a + 1 = n - g /\ (IF a <= n THEN n - a + 1 ELSE 0) = n - g
      /\ \A i \in 1 .. n - g : a + i - 1 = g + i /\ g + i \in 1 .. n
  BY <1>1 DEF a
<1>5. Len(Z) = n - g /\ DOMAIN Z = 1 .. n - g
  BY <1>3, <1>4
<1>6. \A i \in 1 .. n - g : Z[i] = P[g + i] /\ g + i \in DOMAIN P
  BY <1>1, <1>3, <1>4
<1> QED
  BY <1>1, <1>3, <1>5, <1>6 DEF Z, a, n

\* Below the end of the ring a message is its sequence.
LEMMA SmallSequence ==
  ASSUME NEW n \in Nat, n < U16_MAX
  PROVE  SequenceOf(n) = n /\ n \in SeqNo
<1>1. U16_MAX \in Nat \ {0} /\ 0 \in Nat /\ n \in 0 .. U16_MAX - 1
  BY SequenceAssumption
<1>2. n = U16_MAX * 0 + n
  BY <1>1
<1>3. n % U16_MAX = n
  BY <1>1, <1>2, RemainderUnique
<1> QED
  BY <1>1, <1>3 DEF SequenceOf, SeqNo

\* Where a receiver stands when its messages are below the end of the ring
LEMMA StandsLow ==
  ASSUME NEW q, NEW c, NEW l, NEW m, NEW w, Stands(q, c, l, m, w), l < U16_MAX
  PROVE  q.current_sequence = c /\ q.last_sequence = l
<1>1. c \in Nat /\ l \in Nat /\ c <= l
  BY DEF Stands
<1>2. c < U16_MAX
  BY <1>1, Bounds
<1> QED
  BY <1>1, <1>2, SmallSequence DEF Stands
=============================================================================
