--------------------------- MODULE ReceiverProofs ---------------------------
(***************************************************************************)
(* Theorems about ReceiverSpec, for any ring, buffer and window and any    *)
(* traffic within BoundedReordering: the receiver is the unbounded one,    *)
(* its marks are exact, it delivers at most once, in order and everything  *)
(* until it gives up, and asks for what is missing and nothing else.  What *)
(* its methods do is in ReceiverLemmas.                                    *)
(***************************************************************************)
EXTENDS ReceiverSpec, ReceiverLemmas

\* BoundedReordering keeps packets where the lemmas want them.
LEMMA WithinReach ==
  ASSUME BoundedReordering
  PROVE  /\ Ahead \in Nat /\ Behind \in Nat
         /\ Ahead <= Farthest /\ Behind <= Latest
BY SpecAssumption, SequenceAssumption, ReceiverAssumption
   DEF BoundedReordering, Farthest, Latest

-----------------------------------------------------------------------------
(***************************************************************************)
(* The refinement mapping of ReceiverSpec, and the inductive invariant: the*)
(* receiver stands for the unbounded receiver the mapping gives.           *)
(***************************************************************************)
MarkedSet == {n \in head .. top : Marked(n)}

WaitingSet == {n \in head .. top :
                 Marked(n) /\ rcv.buffered[Slot(SequenceOf(n))] = n}

StandsInv == Stands(rcv, head, top, MarkedSet, WaitingSet)

(***************************************************************************)
(* What the history variables and the mapping are after a step, from what  *)
(* the step made of the receiver.                                          *)
(***************************************************************************)
LEMMA FollowStands ==
  ASSUME StandsInv,
         head' = head + Distance(rcv.current_sequence, rcv'.current_sequence),
         top'  = top + Distance(rcv.last_sequence, rcv'.last_sequence),
         NEW c \in Nat, NEW l \in Nat, head <= c, c - head < U16_MAX,
         top <= l, l - top < U16_MAX,
         NEW m, NEW w, Stands(rcv', c, l, m, w)
  PROVE  /\ head' = c /\ top' = l
         /\ MarkedSet' = m /\ WaitingSet' = w
         /\ StandsInv'
<1>1. /\ head \in Nat /\ top \in Nat
      /\ rcv.current_sequence = SequenceOf(head)
      /\ rcv.last_sequence = SequenceOf(top)
  BY DEF StandsInv, Stands
<1>2. rcv'.current_sequence = SequenceOf(c) /\ rcv'.last_sequence = SequenceOf(l)
  BY DEF Stands
<1>3. head' = c
  <2>1. Distance(SequenceOf(head), SequenceOf(c)) = c - head
    BY <1>1, SequenceDistance
  <2> QED
    BY <1>1, <1>2, <2>1
<1>4. top' = l
  <2>1. Distance(SequenceOf(top), SequenceOf(l)) = l - top
    BY <1>1, SequenceDistance
  <2> QED
    BY <1>1, <1>2, <2>1
<1>5. /\ m = {n \in c .. l : SlotOf(n) \in rcv'.received}
      /\ w = {n \in c .. l : /\ SlotOf(n) \in rcv'.received
                             /\ rcv'.buffered[SlotOf(n)] = n}
  BY ReadSlots
<1>6. MarkedSet' = m
  BY <1>3, <1>4, <1>5 DEF MarkedSet, Marked, is_received, SlotOf
<1>7. WaitingSet' = w
  BY <1>3, <1>4, <1>5 DEF WaitingSet, Marked, is_received, SlotOf
<1>8. StandsInv'
  BY <1>3, <1>4, <1>6, <1>7 DEF StandsInv
<1> QED
  BY <1>3, <1>4, <1>6, <1>7, <1>8

\* A receiver after Start messages in order stands for one that has nothing.
LEMMA InitStands ==
  ASSUME Init
  PROVE  StandsInv /\ MarkedSet = {} /\ WaitingSet = {}
<1>1. PICK is_ordered \in BOOLEAN :
         rcv = [create(is_ordered) EXCEPT
                  !.current_sequence = SequenceOf(Start),
                  !.last_sequence    = SequenceOf(Start)]
  BY DEF Init
<1>2. /\ DOMAIN rcv = Fields
      /\ rcv.is_ordered = is_ordered
      /\ rcv.current_sequence = SequenceOf(Start)
      /\ rcv.last_sequence = SequenceOf(Start)
      /\ rcv.received = {}
      /\ rcv.buffered = [i \in Slots |-> None]
      /\ rcv.published = << >>
      /\ rcv.skipped_sequences = 0
  BY <1>1 DEF create, Fields
<1>3. head = Start /\ top = Start /\ Start \in Nat /\ Farthest \in Nat
  BY SpecAssumption, Bounds DEF Init
<1>4. MarkedSet = {} /\ WaitingSet = {}
  BY <1>2 DEF MarkedSet, WaitingSet, Marked, is_received
<1>5. rcv.received = {SlotOf(n) : n \in {}}
  BY <1>2
<1>6. rcv.published \in Seq(Nat) /\ rcv.buffered \in [Slots -> Nat \cup {None}]
  BY <1>2
<1>7. Stands(rcv, head, top, {}, {})
  BY <1>2, <1>3, <1>5, <1>6 DEF Stands
<1> QED
  BY <1>4, <1>7 DEF StandsInv

-----------------------------------------------------------------------------
(***************************************************************************)
(* What receive_packet does to the mapped receiver.                        *)
(***************************************************************************)
LEMMA ArriveStep ==
  ASSUME BoundedReordering, WindowFitsRing, StandsInv,
         NEW n \in 1 .. MaxMessage, Arrive(n)
  PROVE  LET c0  == KeptCurrent(head, top)
             m0  == KeptMarks(head, top, MarkedSet)
             c1  == SeenCurrent(c0, n)
             l1  == SeenLast(top, n)
             m1  == SeenMarks(c0, m0, n)
             m2  == m1 \cup {n}
             w2  == (WaitingSet \cap m1) \cup {n}
             out == OutOf(rcv.is_ordered, c1, l1, m2, w2)
         IN  /\ StandsInv'
             /\ rcv'.is_ordered = rcv.is_ordered
             /\ rcv'.skipped_sequences = IF GivesUp(head, top)
                                         THEN rcv.skipped_sequences + 1
                                         ELSE rcv.skipped_sequences
             /\ \/ /\ n <= c0 /\ accepted' = accepted
                   /\ head' = c0 /\ top' = top
                   /\ MarkedSet' = m0 /\ WaitingSet' = WaitingSet \cap m0
                   /\ rcv'.published = rcv.published
                \/ /\ n > c0 /\ n \in m1 /\ accepted' = accepted
                   /\ head' = c1 /\ top' = l1
                   /\ MarkedSet' = m1 /\ WaitingSet' = WaitingSet \cap m1
                   /\ rcv'.published = rcv.published
                \/ /\ n > c0 /\ n \notin m1 /\ accepted' = accepted \cup {n}
                   /\ n \in c1 .. l1 /\ m1 \subseteq c1 .. l1
                   /\ EndOf(c1, l1, m2) \in c1 .. l1
                   /\ head' = EndOf(c1, l1, m2) /\ top' = l1
                   /\ MarkedSet' = m2 \ RunOf(c1, l1, m2)
                   /\ WaitingSet' = w2 \ out
                   /\ rcv'.published = rcv.published \o Ascending(out)
<1> DEFINE result == receive_packet(rcv, SequenceOf(n), n)
           c0  == KeptCurrent(head, top)
           m0  == KeptMarks(head, top, MarkedSet)
           c1  == SeenCurrent(c0, n)
           l1  == SeenLast(top, n)
           m1  == SeenMarks(c0, m0, n)
           m2  == m1 \cup {n}
           w2  == (WaitingSet \cap m1) \cup {n}
           out == OutOf(rcv.is_ordered, c1, l1, m2, w2)
           e   == EndOf(c1, l1, m2)
<1>1. n \in Nat /\ n <= head + Farthest /\ n >= head - Latest
  <2>1. n \in Nat /\ n <= head + Ahead /\ n >= head - Behind
    BY SpecAssumption DEF Arrive
  <2>2. head \in Nat
    BY DEF StandsInv, Stands
  <2> QED
    BY <2>1, <2>2, WithinReach, Bounds
<1>2. /\ head \in Nat /\ top \in Nat /\ head <= top /\ top - head <= Farthest
      /\ Stands(rcv, head, top, MarkedSet, WaitingSet)
  BY DEF StandsInv, Stands
<1>3. /\ rcv' = result.receiver
      /\ accepted' = IF result.accepted THEN accepted \cup {n} ELSE accepted
      /\ head' = head + Distance(rcv.current_sequence, rcv'.current_sequence)
      /\ top'  = top + Distance(rcv.last_sequence, rcv'.last_sequence)
  BY DEF Arrive, Follow
<1>4. /\ rcv'.is_ordered = rcv.is_ordered
      /\ rcv'.skipped_sequences = IF GivesUp(head, top)
                                  THEN rcv.skipped_sequences + 1
                                  ELSE rcv.skipped_sequences
      /\ c0 \in Nat /\ c0 <= top
      /\ \/ /\ n <= c0
            /\ result.accepted = FALSE
            /\ Stands(rcv', c0, top, m0, WaitingSet \cap m0)
            /\ rcv'.published = rcv.published
         \/ /\ n > c0 /\ n \in m1
            /\ result.accepted = FALSE
            /\ Stands(rcv', c1, l1, m1, WaitingSet \cap m1)
            /\ rcv'.published = rcv.published
         \/ /\ n > c0 /\ n \notin m1
            /\ result.accepted = TRUE
            /\ n \in c1 .. l1 /\ m1 \subseteq c1 .. l1
            /\ e \in c1 .. l1
            /\ Stands(rcv', e, l1, m2 \ RunOf(c1, l1, m2), w2 \ out)
            /\ rcv'.published = rcv.published \o Ascending(out)
  <2>1. Received(rcv, head, top, MarkedSet, WaitingSet, n,
                 result.receiver, result.accepted)
    BY <1>1, <1>2, ReceiveStands
  <2>2. Received(rcv, head, top, MarkedSet, WaitingSet, n,
                 rcv', result.accepted)
    BY <1>3, <2>1
  <2> QED
    BY <2>2 DEF Received
<1> HIDE DEF result
<1>5. head <= c0 /\ c0 <= head + 1 /\ c0 - head < U16_MAX
  BY <1>2, Bounds DEF KeptCurrent
<1>6. /\ l1 \in Nat /\ top <= l1 /\ l1 - top < U16_MAX
      /\ l1 <= head + Farthest
  BY <1>1, <1>2, Bounds DEF SeenLast
<1>7. /\ n > c0 => c1 \in Nat /\ head <= c1 /\ c1 <= l1
      /\ c0 <= l1
  BY <1>1, <1>2, <1>4, <1>5, <1>6 DEF SeenCurrent, SeenLast
<1> HIDE DEF c0, m0, c1, l1, m1, m2, w2, out, e
<1>8. CASE n <= c0 /\ Stands(rcv', c0, top, m0, WaitingSet \cap m0)
  <2>1. /\ head' = c0 /\ top' = top
        /\ MarkedSet' = m0 /\ WaitingSet' = WaitingSet \cap m0 /\ StandsInv'
    <3>1. top <= top /\ top - top < U16_MAX
      BY <1>2, Bounds
    <3> QED
      BY <1>2, <1>3, <1>4, <1>5, <1>8, <3>1, FollowStands
  <2>2. accepted' = accepted /\ rcv'.published = rcv.published
    BY <1>1, <1>3, <1>4, <1>8
  <2> QED
    BY <1>4, <1>8, <2>1, <2>2 DEF c0, m0
<1>9. CASE n > c0 /\ n \in m1 /\ Stands(rcv', c1, l1, m1, WaitingSet \cap m1)
  <2>1. /\ head' = c1 /\ top' = l1
        /\ MarkedSet' = m1 /\ WaitingSet' = WaitingSet \cap m1 /\ StandsInv'
    <3>1. c1 \in Nat /\ head <= c1 /\ c1 - head < U16_MAX
      BY <1>2, <1>6, <1>7, <1>9, Bounds
    <3> QED
      BY <1>2, <1>3, <1>6, <1>9, <3>1, FollowStands
  <2>2. accepted' = accepted /\ rcv'.published = rcv.published
    BY <1>1, <1>3, <1>4, <1>9
  <2> QED
    BY <1>4, <1>9, <2>1, <2>2 DEF c0, m0, c1, l1, m1
<1>10. CASE /\ n > c0 /\ n \notin m1
            /\ Stands(rcv', e, l1, m2 \ RunOf(c1, l1, m2), w2 \ out)
  <2>1. /\ result.accepted = TRUE
        /\ n \in c1 .. l1 /\ m1 \subseteq c1 .. l1 /\ e \in c1 .. l1
        /\ rcv'.published = rcv.published \o Ascending(out)
    BY <1>1, <1>4, <1>10
  <2>2. /\ head' = e /\ top' = l1
        /\ MarkedSet' = m2 \ RunOf(c1, l1, m2)
        /\ WaitingSet' = w2 \ out /\ StandsInv'
    <3>1. e \in Nat /\ head <= e /\ e - head < U16_MAX
      <4>1. c1 \in Nat /\ head <= c1
        BY <1>7, <1>10
      <4>2. e \in Nat /\ c1 <= e /\ e <= l1
        BY <1>6, <2>1, <4>1
      <4> QED
        BY <1>2, <1>6, <4>1, <4>2, Bounds
    <3> QED
      BY <1>2, <1>3, <1>6, <1>10, <3>1, FollowStands
  <2>3. accepted' = accepted \cup {n}
    BY <1>3, <2>1
  <2> QED
    BY <1>4, <1>10, <2>1, <2>2, <2>3 DEF c0, m0, c1, l1, m1, m2, w2, out, e
<1> QED
  BY <1>4, <1>8, <1>9, <1>10

(***************************************************************************)
(* What the publish of a frame does to the mapped receiver.                *)
(***************************************************************************)
LEMMA PublishStep ==
  ASSUME StandsInv, Publish
  PROVE  LET m   == MarkedSet
             out == OutOf(rcv.is_ordered, head, top, m, WaitingSet)
         IN  /\ StandsInv'
             /\ rcv'.is_ordered = rcv.is_ordered
             /\ rcv'.skipped_sequences = rcv.skipped_sequences
             /\ accepted' = accepted
             /\ EndOf(head, top, m) \in head .. top
             /\ head' = EndOf(head, top, m) /\ top' = top
             /\ MarkedSet' = m \ RunOf(head, top, m)
             /\ WaitingSet' = WaitingSet \ out
             /\ rcv'.published = rcv.published \o Ascending(out)
<1> DEFINE m   == MarkedSet
           out == OutOf(rcv.is_ordered, head, top, m, WaitingSet)
           e   == EndOf(head, top, m)
<1>1. /\ head \in Nat /\ top \in Nat /\ head <= top /\ top - head <= Farthest
      /\ Stands(rcv, head, top, m, WaitingSet)
  BY DEF StandsInv, Stands
<1>2. /\ rcv' = publish(rcv) /\ accepted' = accepted
      /\ head' = head + Distance(rcv.current_sequence, rcv'.current_sequence)
      /\ top'  = top + Distance(rcv.last_sequence, rcv'.last_sequence)
  BY DEF Publish, Follow
<1>3. /\ e \in head .. top
      /\ Stands(rcv', e, top, m \ RunOf(head, top, m), WaitingSet \ out)
      /\ rcv'.is_ordered = rcv.is_ordered
      /\ rcv'.published = rcv.published \o Ascending(out)
      /\ rcv'.skipped_sequences = rcv.skipped_sequences
  <2> DEFINE p == publish(rcv)
  <2>1. /\ e \in head .. top
        /\ Stands(p, e, top, m \ RunOf(head, top, m), WaitingSet \ out)
        /\ p.is_ordered = rcv.is_ordered
        /\ p.published = rcv.published \o Ascending(out)
        /\ p.skipped_sequences = rcv.skipped_sequences
    BY <1>1, PublishStands
  <2> HIDE DEF p, m, out, e
  <2>2. rcv' = p
    BY <1>2 DEF p
  <2> QED
    BY <2>1, <2>2, Zenon
<1> HIDE DEF m, out, e
<1>4. e \in Nat /\ head <= e /\ e - head < U16_MAX /\ top - top < U16_MAX
  BY <1>1, <1>3, Bounds
<1>5. /\ head' = e /\ top' = top
      /\ MarkedSet' = m \ RunOf(head, top, m)
      /\ WaitingSet' = WaitingSet \ out /\ StandsInv'
  <2> DEFINE m2 == m \ RunOf(head, top, m)
             w2 == WaitingSet \ out
  <2>1. Stands(rcv', e, top, m2, w2)
    BY <1>3
  <2> HIDE DEF m2, w2
  <2>2. /\ head' = e /\ top' = top /\ MarkedSet' = m2
        /\ WaitingSet' = w2 /\ StandsInv'
    <3>1. /\ head' = head + Distance(rcv.current_sequence, rcv'.current_sequence)
          /\ top'  = top + Distance(rcv.last_sequence, rcv'.last_sequence)
          /\ top <= top
      BY <1>1, <1>2
    <3> QED
      BY <1>1, <1>4, <2>1, <3>1, FollowStands
  <2> QED
    BY <2>2 DEF m2, w2
<1> QED
  BY <1>2, <1>3, <1>5 DEF m, out, e

\* The application's step touches only the queue.
LEMMA TakeStep ==
  ASSUME StandsInv, Take
  PROVE  /\ StandsInv'
         /\ rcv'.is_ordered = rcv.is_ordered
         /\ rcv'.skipped_sequences = rcv.skipped_sequences
         /\ MarkedSet' = MarkedSet /\ WaitingSet' = WaitingSet
         /\ rcv.published # << >> /\ rcv'.published = Tail(rcv.published)
         /\ UNCHANGED <<head, top, accepted, handed>>
<1>1. /\ DOMAIN rcv = Fields /\ rcv.published \in Seq(Nat)
  BY DEF StandsInv, Stands
<1>2. /\ DOMAIN rcv' = Fields
      /\ rcv'.is_ordered = rcv.is_ordered
      /\ rcv'.current_sequence = rcv.current_sequence
      /\ rcv'.last_sequence = rcv.last_sequence
      /\ rcv'.received = rcv.received
      /\ rcv'.buffered = rcv.buffered
      /\ rcv'.skipped_sequences = rcv.skipped_sequences
      /\ rcv'.published = Tail(rcv.published)
      /\ rcv.published # << >>
      /\ UNCHANGED <<head, top, accepted, handed>>
  BY <1>1 DEF Take, take_published, Fields
<1>3. rcv'.published \in Seq(Nat)
  BY <1>1, <1>2
<1>4. MarkedSet' = MarkedSet /\ WaitingSet' = WaitingSet
  BY <1>2 DEF MarkedSet, WaitingSet, Marked, is_received
<1>5. StandsInv'
  BY <1>2, <1>3, <1>4 DEF StandsInv, Stands
<1> QED
  BY <1>2, <1>4, <1>5

-----------------------------------------------------------------------------
(***************************************************************************)
(* The unbounded receiver orders what it hands out in the same way.        *)
(***************************************************************************)
LEMMA SameOrder ==
  ASSUME NEW S PROVE Unbounded!Ascending(S) = Ascending(S)
BY Zenon DEF Unbounded!Ascending, Ascending, Unbounded!Cardinality, Cardinality

\* receive_packet is Arrive of the unbounded receiver.
LEMMA ArriveSimulates ==
  ASSUME BoundedReordering, WindowFitsRing, StandsInv,
         NEW n \in 1 .. MaxMessage, Arrive(n)
  PROVE  Unbounded!Arrive(n)
<1> DEFINE c0  == KeptCurrent(head, top)
           m0  == KeptMarks(head, top, MarkedSet)
           c1  == SeenCurrent(c0, n)
           l1  == SeenLast(top, n)
           m1  == SeenMarks(c0, m0, n)
           m2  == m1 \cup {n}
           w2  == (WaitingSet \cap m1) \cup {n}
           out == OutOf(rcv.is_ordered, c1, l1, m2, w2)
<1>1. rcv'.is_ordered = rcv.is_ordered
  BY ArriveStep
<1>2. \/ n <= c0 /\ Unbounded!Leave(c0, top, m0)
      \/ n > c0 /\ n \in m1 /\ Unbounded!Leave(c1, l1, m1)
      \/ n > c0 /\ n \notin m1 /\ Unbounded!HandOut(c1, l1, m2, w2)
  <2>1. \/ /\ n <= c0
           /\ head' = c0 /\ top' = top
           /\ MarkedSet' = m0 /\ WaitingSet' = WaitingSet \cap m0
           /\ rcv'.published = rcv.published
        \/ /\ n > c0 /\ n \in m1
           /\ head' = c1 /\ top' = l1
           /\ MarkedSet' = m1 /\ WaitingSet' = WaitingSet \cap m1
           /\ rcv'.published = rcv.published
        \/ /\ n > c0 /\ n \notin m1
           /\ head' = EndOf(c1, l1, m2) /\ top' = l1
           /\ MarkedSet' = m2 \ RunOf(c1, l1, m2)
           /\ WaitingSet' = w2 \ out
           /\ rcv'.published = rcv.published \o Ascending(out)
    BY ArriveStep
  <2> HIDE DEF c0, m0, c1, l1, m1, m2, w2
  <2>2. CASE /\ n <= c0
             /\ head' = c0 /\ top' = top
             /\ MarkedSet' = m0 /\ WaitingSet' = WaitingSet \cap m0
             /\ rcv'.published = rcv.published
    BY <2>2 DEF Unbounded!Leave, MarkedSet, WaitingSet
  <2>3. CASE /\ n > c0 /\ n \in m1
             /\ head' = c1 /\ top' = l1
             /\ MarkedSet' = m1 /\ WaitingSet' = WaitingSet \cap m1
             /\ rcv'.published = rcv.published
    BY <2>3 DEF Unbounded!Leave, MarkedSet, WaitingSet
  <2>4. CASE /\ n > c0 /\ n \notin m1
             /\ head' = EndOf(c1, l1, m2) /\ top' = l1
             /\ MarkedSet' = m2 \ RunOf(c1, l1, m2)
             /\ WaitingSet' = w2 \ out
             /\ rcv'.published = rcv.published \o Ascending(out)
    <3> DEFINE walked == Walked(c1, l1)
               gone   == RunOf(c1, l1, m2)
    <3>1. /\ walked = {k \in c1 .. l1 : k < c1 + receive_window_size}
          /\ gone = {k \in walked : \A j \in c1 .. k : j \in m2}
          /\ out = w2 \cap (IF rcv.is_ordered THEN gone ELSE walked)
      BY DEF Walked, RunOf, OutOf
    <3>2. head' = IF gone = {} THEN c1
                  ELSE CHOOSE k \in gone : \A j \in gone : j <= k
      BY <2>4 DEF EndOf
    <3>3. rcv'.published = rcv.published \o Unbounded!Ascending(out)
      BY <2>4, SameOrder
    <3>4. /\ {k \in head .. top : Marked(k)}' = m2 \ gone
          /\ {k \in head .. top :
                Marked(k) /\ rcv.buffered[Slot(SequenceOf(k))] = k}' = w2 \ out
      BY <2>4 DEF MarkedSet, WaitingSet
    <3> HIDE DEF walked, gone, out
    <3>5. Unbounded!HandOut(c1, l1, m2, w2)
      BY <2>4, <3>1, <3>2, <3>3, <3>4, Zenon DEF Unbounded!HandOut
    <3> QED
      BY <2>4, <3>5
  <2> QED
    BY <2>1, <2>2, <2>3, <2>4
<1>3. c0 \in Nat /\ n \in Nat
  BY SpecAssumption DEF KeptCurrent, StandsInv, Stands
<1>4. IF n <= c0 THEN Unbounded!Leave(c0, top, m0)
      ELSE IF n \in m1 THEN Unbounded!Leave(c1, l1, m1)
      ELSE Unbounded!HandOut(c1, l1, m2, w2)
  BY <1>2, <1>3
<1> QED
  BY <1>1, <1>4 DEF Unbounded!Arrive, KeptCurrent, KeptMarks, GivesUp,
     SeenCurrent, SeenLast, SeenMarks, MarkedSet, WaitingSet

\* Every step is a step of the unbounded receiver and keeps the invariant.
LEMMA NextSimulates ==
  ASSUME BoundedReordering, WindowFitsRing, StandsInv, [Next]_vars
  PROVE  StandsInv' /\ [Unbounded!Next]_(Unbounded!vars)
<1>1. ASSUME NEW n \in 1 .. MaxMessage, Arrive(n)
      PROVE  StandsInv' /\ Unbounded!Next
  <2>1. StandsInv'
    BY <1>1, ArriveStep
  <2>2. Unbounded!Arrive(n)
    BY <1>1, ArriveSimulates
  <2> QED
    BY <2>1, <2>2 DEF Unbounded!Next, Unbounded!Messages
<1>2. ASSUME Publish PROVE StandsInv' /\ Unbounded!Next
  <2>1. StandsInv' /\ rcv'.is_ordered = rcv.is_ordered
    BY <1>2, PublishStep
  <2>2. Unbounded!HandOut(head, top, MarkedSet, WaitingSet)
    <3> DEFINE m   == MarkedSet
               out == OutOf(rcv.is_ordered, head, top, m, WaitingSet)
    <3>1. /\ head' = EndOf(head, top, m) /\ top' = top
          /\ MarkedSet' = m \ RunOf(head, top, m)
          /\ WaitingSet' = WaitingSet \ out
          /\ rcv'.published = rcv.published \o Ascending(out)
      BY <1>2, PublishStep
    <3> DEFINE walked == Walked(head, top)
               gone   == RunOf(head, top, m)
    <3>2. /\ walked = {k \in head .. top : k < head + receive_window_size}
          /\ gone = {k \in walked : \A j \in head .. k : j \in m}
          /\ out = WaitingSet \cap (IF rcv.is_ordered THEN gone ELSE walked)
      BY DEF Walked, RunOf, OutOf
    <3>3. head' = IF gone = {} THEN head
                  ELSE CHOOSE k \in gone : \A j \in gone : j <= k
      BY <3>1 DEF EndOf
    <3>4. rcv'.published = rcv.published \o Unbounded!Ascending(out)
      BY <3>1, SameOrder
    <3>5. /\ {k \in head .. top : Marked(k)}' = m \ gone
          /\ {k \in head .. top :
                Marked(k) /\ rcv.buffered[Slot(SequenceOf(k))] = k}'
               = WaitingSet \ out
      BY <3>1 DEF MarkedSet, WaitingSet
    <3> HIDE DEF walked, gone, out, m
    <3>6. Unbounded!HandOut(head, top, m, WaitingSet)
      BY <3>1, <3>2, <3>3, <3>4, <3>5, Zenon DEF Unbounded!HandOut
    <3> QED
      BY <3>6 DEF m
  <2>3. Unbounded!Frame
    BY <2>1, <2>2 DEF Unbounded!Frame, MarkedSet, WaitingSet
  <2> QED
    BY <2>1, <2>3 DEF Unbounded!Next
<1>3. ASSUME Take PROVE StandsInv' /\ Unbounded!Next
  <2>1. StandsInv'
    BY <1>3, TakeStep
  <2>2. Unbounded!Take
    BY <1>3, TakeStep DEF Unbounded!Take, MarkedSet, WaitingSet
  <2> QED
    BY <2>1, <2>2 DEF Unbounded!Next
<1>4. ASSUME UNCHANGED vars
      PROVE  StandsInv' /\ UNCHANGED (Unbounded!vars)
  BY <1>4 DEF vars, StandsInv, MarkedSet, WaitingSet, Marked, Unbounded!vars
<1> QED
  BY <1>1, <1>2, <1>3, <1>4 DEF Next

(***************************************************************************)
(* The rings are invisible, for any ring, buffer and window: as long as no *)
(* packet is too far ahead of or behind current, receive_packet, publish   *)
(* and take_published do exactly what they would with unbounded sequences  *)
(* and a set in place of each SequenceBuffer.                              *)
(***************************************************************************)
THEOREM RefinesUnbounded ==
  ASSUME BoundedReordering, WindowFitsRing
  PROVE  Spec => ImplementsUnbounded
<1>1. Init => StandsInv
  BY InitStands
<1>2. Init => Unbounded!Init
  <2> SUFFICES ASSUME Init PROVE Unbounded!Init
    OBVIOUS
  <2>1. rcv.is_ordered \in BOOLEAN
    BY InitStands DEF StandsInv, Stands
  <2>2. MarkedSet = {} /\ WaitingSet = {}
    BY InitStands
  <2>3. rcv.published = << >> /\ head = Start /\ top = Start
    BY DEF Init, create
  <2> QED
    BY <2>1, <2>2, <2>3 DEF Unbounded!Init, MarkedSet, WaitingSet
<1>3. StandsInv /\ [Next]_vars => StandsInv' /\ [Unbounded!Next]_(Unbounded!vars)
  BY NextSimulates
<1> QED
  BY <1>1, <1>2, <1>3, PTL DEF Spec, ImplementsUnbounded, Unbounded!Spec

-----------------------------------------------------------------------------
(***************************************************************************)
(* The inductive invariant of the other theorems: the receiver stands for  *)
(* the mapped one, and accepted and handed are what that one knows of.     *)
(***************************************************************************)
HoldsInv ==
  Holds(rcv, head, top, MarkedSet, WaitingSet, accepted, handed)

\* What is appended can be read off the queue.
LEMMA AppendedIs ==
  ASSUME rcv.published \in Seq(Nat), NEW q \in Seq(Nat),
         rcv'.published = rcv.published \o q
  PROVE  Appended = q
<1>1. ASSUME NEW s \in Seq(Nat)
      PROVE  SubSeq(s \o q, Len(s) + 1, Len(s \o q)) = q
  OBVIOUS
<1> QED
  BY <1>1 DEF Appended

\* A step that leaves the queue alone or takes from it appends nothing.
LEMMA NothingAppended ==
  ASSUME rcv.published \in Seq(Nat),
         \/ rcv'.published = rcv.published
         \/ rcv.published # << >> /\ rcv'.published = Tail(rcv.published)
  PROVE  Appended = << >> /\ DOMAIN Appended = {}
<1>1. CASE rcv'.published = rcv.published
  BY <1>1 DEF Appended
<1>2. CASE rcv.published # << >> /\ rcv'.published = Tail(rcv.published)
  BY <1>2 DEF Appended
<1> QED
  BY <1>1, <1>2

(***************************************************************************)
(* Steps that hand out add to handed what they append.                     *)
(***************************************************************************)
LEMMA HandedIs ==
  ASSUME rcv.published \in Seq(Nat), NEW out \in SUBSET Nat, IsFiniteSet(out),
         rcv'.published = rcv.published \o Ascending(out),
         handed' = handed \cup {Appended[i] : i \in DOMAIN Appended}
  PROVE  Appended = Ascending(out) /\ handed' = handed \cup out
<1> DEFINE q == Ascending(out)
<1>1. /\ DOMAIN q = 1 .. Cardinality(out) /\ Cardinality(out) \in Nat
      /\ q = [i \in 1 .. Cardinality(out) |-> q[i]]
      /\ \A i \in DOMAIN q : q[i] \in out
      /\ \A n \in out : \E i \in DOMAIN q : q[i] = n
  BY AscendingLists
<1> HIDE DEF q
<1>2. q \in Seq(Nat)
  <2>1. q \in [1 .. Cardinality(out) -> Nat]
    BY <1>1
  <2> QED
    BY <1>1, <2>1
<1>3. Appended = q
  BY <1>2, AppendedIs DEF q
<1>4. {q[i] : i \in DOMAIN q} = out
  BY <1>1
<1> QED
  BY <1>3, <1>4 DEF q

(***************************************************************************)
(* A step appends to the queue the messages out, upwards, and they may be  *)
(* handed out after those that were.                                       *)
(***************************************************************************)
Hands(out) ==
  /\ Appended = Ascending(out)
  /\ MayFollow(rcv.is_ordered, out, accepted', handed)

\* Appending nothing, in the form of Hands.
LEMMA HandsNothing ==
  ASSUME Appended = << >>
  PROVE  Hands({})
<1>1. Ascending({}) = << >>
  BY FS_EmptySet DEF Ascending
<1> QED
  BY <1>1, FS_EmptySet DEF Hands, MayFollow

\* The initial receiver knows what it was given before, and lacks nothing.
LEMMA InitHolds ==
  ASSUME Init PROVE HoldsInv
<1>1. StandsInv /\ MarkedSet = {} /\ WaitingSet = {}
  BY InitStands
<1>2. head = Start /\ top = Start /\ Start \in Nat
      /\ accepted = 1 .. Start /\ handed = 1 .. Start
  BY SpecAssumption DEF Init
<1>3. Known(rcv.is_ordered, head, top, {}, {}, accepted, handed)
  BY <1>2 DEF Known
<1>4. Complete(rcv.is_ordered, head, {}, accepted, handed)
  BY <1>2 DEF Complete
<1> QED
  BY <1>1, <1>3, <1>4 DEF HoldsInv, Holds, StandsInv

(***************************************************************************)
(* The history follows a step that leaves a receiver that holds.           *)
(***************************************************************************)
LEMMA FollowHolds ==
  ASSUME HoldsInv, Follow,
         NEW c, NEW l, NEW m, NEW w, NEW out,
         Holds(rcv', c, l, m, w, accepted', handed \cup out),
         MayFollow(rcv.is_ordered, out, accepted', handed),
         rcv'.published = rcv.published \o Ascending(out),
         head <= c, c - head < U16_MAX, top <= l, l - top < U16_MAX
  PROVE  /\ HoldsInv' /\ Hands(out)
         /\ head' = c /\ top' = l /\ handed' = handed \cup out
<1>1. /\ StandsInv /\ rcv.published \in Seq(Nat)
  BY DEF HoldsInv, Holds, StandsInv, Stands
<1>2. Stands(rcv', c, l, m, w) /\ c \in Nat /\ l \in Nat
  BY DEF Holds, Stands
<1>3. /\ head' = head + Distance(rcv.current_sequence, rcv'.current_sequence)
      /\ top'  = top + Distance(rcv.last_sequence, rcv'.last_sequence)
      /\ handed' = handed \cup {Appended[i] : i \in DOMAIN Appended}
  BY DEF Follow
<1>4. head' = c /\ top' = l /\ MarkedSet' = m /\ WaitingSet' = w
  BY <1>1, <1>2, <1>3, FollowStands
<1>5. out \in SUBSET Nat /\ IsFiniteSet(out)
  BY DEF MayFollow
<1>6. Appended = Ascending(out) /\ handed' = handed \cup out
  BY <1>1, <1>3, <1>5, HandedIs
<1>7. HoldsInv'
  BY <1>4, <1>6 DEF HoldsInv
<1> QED
  BY <1>4, <1>6, <1>7 DEF Hands

\* receive_packet: whatever it gives up, refuses or accepts.
LEMMA ArriveHolds ==
  ASSUME BoundedReordering, WindowFitsRing, HoldsInv,
         NEW n \in 1 .. MaxMessage, Arrive(n)
  PROVE  HoldsInv' /\ \E out : Hands(out)
<1> DEFINE result == receive_packet(rcv, SequenceOf(n), n)
<1>1. /\ head \in Nat /\ top \in Nat /\ head <= top /\ top - head <= Farthest
  BY DEF HoldsInv, Holds, Stands
<1>2. n \in Nat /\ n >= 1 /\ n <= head + Farthest /\ n >= head - Latest
  <2>1. n \in Nat /\ n >= 1 /\ n <= head + Ahead /\ n >= head - Behind
    BY SpecAssumption DEF Arrive
  <2> QED
    BY <1>1, <2>1, WithinReach, Bounds
<1>3. /\ rcv' = result.receiver
      /\ accepted' = IF result.accepted THEN accepted \cup {n} ELSE accepted
      /\ Follow
  BY DEF Arrive
<1>4. PICK g, u, k, v, out :
         /\ Holds(result.receiver, g, u, k, v,
                  IF result.accepted THEN accepted \cup {n} ELSE accepted,
                  handed \cup out)
         /\ MayFollow(rcv.is_ordered, out,
                      IF result.accepted THEN accepted \cup {n} ELSE accepted,
                      handed)
         /\ result.receiver.published = rcv.published \o Ascending(out)
         /\ head <= g /\ top <= u /\ u \in {top, n}
  <2> DEFINE m == MarkedSet
             w == WaitingSet
  <2>1. Holds(rcv, head, top, m, w, accepted, handed)
    BY DEF HoldsInv
  <2> HIDE DEF m, w, result
  <2>2. MovesOn(rcv, result.receiver, head, top, n,
                IF result.accepted THEN accepted \cup {n} ELSE accepted, handed)
    BY <1>2, <2>1, ReceiveHolds DEF result
  <2> QED
    BY <2>2 DEF MovesOn
<1> HIDE DEF result
<1>5. /\ Holds(rcv', g, u, k, v, accepted', handed \cup out)
      /\ MayFollow(rcv.is_ordered, out, accepted', handed)
      /\ rcv'.published = rcv.published \o Ascending(out)
  BY <1>3, <1>4
<1>6. g \in Nat /\ u \in Nat /\ g <= u
  BY <1>4 DEF Holds, Stands
<1>7. g - head < U16_MAX /\ u - top < U16_MAX
  <2>1. u <= head + Farthest
    BY <1>1, <1>2, <1>4, Bounds
  <2> QED
    BY <1>1, <1>4, <1>6, <2>1, Bounds
<1> QED
  BY <1>3, <1>4, <1>5, <1>7, FollowHolds

\* The publish of a frame.
LEMMA FrameHolds ==
  ASSUME HoldsInv, Publish
  PROVE  LET out == OutOf(rcv.is_ordered, head, top, MarkedSet, WaitingSet)
         IN  HoldsInv' /\ Hands(out) /\ handed' = handed \cup out
<1> DEFINE m   == MarkedSet
           w   == WaitingSet
           p   == publish(rcv)
           out == OutOf(rcv.is_ordered, head, top, m, w)
           e   == EndOf(head, top, m)
           k   == m \ RunOf(head, top, m)
<1>1. /\ head \in Nat /\ top \in Nat /\ head <= top /\ top - head <= Farthest
  BY DEF HoldsInv, Holds, Stands
<1>2. rcv' = p /\ accepted' = accepted /\ Follow
  BY DEF Publish
<1>3. /\ Holds(p, e, top, k, w \ out, accepted, handed \cup out)
      /\ MayFollow(rcv.is_ordered, out, accepted, handed)
      /\ p.published = rcv.published \o Ascending(out)
      /\ e \in head .. top
  <2>1. Holds(rcv, head, top, m, w, accepted, handed)
    BY DEF HoldsInv
  <2> HIDE DEF m, w
  <2>2. /\ Holds(p, EndOf(head, top, m), top, m \ RunOf(head, top, m), w \ out,
                 accepted, handed \cup out)
        /\ MayFollow(rcv.is_ordered, out, accepted, handed)
        /\ p.published = rcv.published \o Ascending(out)
        /\ p.is_ordered = rcv.is_ordered
        /\ EndOf(head, top, m) \in head .. top
    BY <2>1, PublishHolds
  <2> QED
    BY <2>2
<1> HIDE DEF p, m, w, out, e, k
<1>4. head <= e /\ e - head < U16_MAX /\ top <= top /\ top - top < U16_MAX
  BY <1>1, <1>3, Bounds
<1>5. /\ Holds(rcv', e, top, k, w \ out, accepted', handed \cup out)
      /\ MayFollow(rcv.is_ordered, out, accepted', handed)
      /\ rcv'.published = rcv.published \o Ascending(out)
  BY <1>2, <1>3
<1>6. HoldsInv' /\ Hands(out) /\ handed' = handed \cup out
  BY <1>2, <1>4, <1>5, FollowHolds
<1> QED
  BY <1>6 DEF out, m, w

\* Every step keeps the invariant and hands out only what it may.
LEMMA NextHolds ==
  ASSUME BoundedReordering, WindowFitsRing, HoldsInv, [Next]_vars
  PROVE  HoldsInv' /\ \E out : Hands(out)
<1>1. StandsInv /\ rcv.published \in Seq(Nat)
  BY DEF HoldsInv, Holds, StandsInv, Stands
<1>2. ASSUME NEW n \in 1 .. MaxMessage, Arrive(n)
      PROVE  HoldsInv' /\ \E out : Hands(out)
  BY <1>2, ArriveHolds
<1>3. ASSUME Publish PROVE HoldsInv' /\ \E out : Hands(out)
  BY <1>3, FrameHolds
<1>4. ASSUME Take PROVE HoldsInv' /\ \E out : Hands(out)
  <2>1. /\ StandsInv'
        /\ rcv'.is_ordered = rcv.is_ordered
        /\ rcv'.skipped_sequences = rcv.skipped_sequences
        /\ MarkedSet' = MarkedSet /\ WaitingSet' = WaitingSet
        /\ rcv.published # << >> /\ rcv'.published = Tail(rcv.published)
        /\ UNCHANGED <<head, top, accepted, handed>>
    BY <1>1, <1>4, TakeStep
  <2>2. HoldsInv'
    BY <2>1 DEF HoldsInv, Holds, StandsInv
  <2>3. Appended = << >>
    BY <1>1, <2>1, NothingAppended
  <2> QED
    BY <2>2, <2>3, HandsNothing
<1>5. ASSUME UNCHANGED vars PROVE HoldsInv' /\ \E out : Hands(out)
  <2>1. HoldsInv'
    BY <1>5 DEF vars, HoldsInv, MarkedSet, WaitingSet, Marked
  <2>2. Appended = << >>
    BY <1>1, <1>5, NothingAppended DEF vars
  <2> QED
    BY <2>1, <2>2, HandsNothing
<1> QED
  BY <1>2, <1>3, <1>4, <1>5 DEF Next

\* HoldsInv is an invariant.
LEMMA AlwaysHolds ==
  ASSUME BoundedReordering, WindowFitsRing
  PROVE  Spec => []HoldsInv
<1>1. Init => HoldsInv
  BY InitHolds
<1>2. HoldsInv /\ [Next]_vars => HoldsInv'
  BY NextHolds
<1> QED
  BY <1>1, <1>2, PTL DEF Spec

-----------------------------------------------------------------------------
(***************************************************************************)
(* The marks say exactly what was accepted.                                *)
(***************************************************************************)
LEMMA MarksHold ==
  ASSUME HoldsInv PROVE Marks(rcv, head, top, accepted)
BY HoldsMarks DEF HoldsInv

(***************************************************************************)
(* MarksExact, for any ring, buffer, window and number of messages.        *)
(***************************************************************************)
THEOREM MarksAreExact ==
  ASSUME BoundedReordering, WindowFitsRing
  PROVE  Spec => []MarksExact
<1>1. HoldsInv => MarksExact
  BY MarksHold DEF Marks, MarksExact, Marked, is_received, SlotOf
<1> QED
  BY <1>1, AlwaysHolds, PTL

(***************************************************************************)
(* RefusesDuplicates: no message is accepted twice, under the same         *)
(* hypotheses.                                                             *)
(***************************************************************************)
THEOREM DuplicatesAreRefused ==
  ASSUME BoundedReordering, WindowFitsRing
  PROVE  Spec => []RefusesDuplicates
<1>1. HoldsInv => RefusesDuplicates
  <2> SUFFICES ASSUME HoldsInv, NEW n \in accepted, n >= head - Behind
               PROVE  ~ receive_packet(rcv, SequenceOf(n), n).accepted
    BY DEF RefusesDuplicates
  <2>1. n \in Nat /\ head \in Nat
    BY DEF HoldsInv, Holds, Known
  <2>2. n >= head - Latest
    BY <2>1, WithinReach, Bounds
  <2> QED
    BY <2>2, ReceiveRefuses DEF HoldsInv
<1> QED
  BY <1>1, AlwaysHolds, PTL

\* What Hands says of the sequence that is appended.
LEMMA HandsDistinct ==
  ASSUME NEW out, Hands(out)
  PROVE  /\ \A i, j \in DOMAIN Appended : Appended[i] = Appended[j] => i = j
         /\ \A i \in DOMAIN Appended :
              Appended[i] \in accepted' /\ Appended[i] \notin handed
         /\ \A i, j \in DOMAIN Appended : i < j => Appended[i] < Appended[j]
         /\ rcv.is_ordered =>
              \A i \in DOMAIN Appended, m \in handed : m < Appended[i]
<1> DEFINE q == Ascending(out)
<1>1. /\ out \in SUBSET Nat /\ IsFiniteSet(out)
      /\ Appended = q
      /\ out \subseteq accepted' /\ out \cap handed = {}
      /\ rcv.is_ordered => \A x \in out, y \in handed : y < x
  BY DEF Hands, MayFollow
<1>2. /\ Cardinality(out) \in Nat /\ DOMAIN q = 1 .. Cardinality(out)
      /\ \A i \in DOMAIN q : q[i] \in out
      /\ \A i, j \in DOMAIN q : i < j => q[i] < q[j]
  BY <1>1, AscendingLists
<1> HIDE DEF q
<1>3. ASSUME NEW i \in DOMAIN q, NEW j \in DOMAIN q, q[i] = q[j] PROVE i = j
  <2>1. i \in Nat /\ j \in Nat /\ q[i] \in Nat
    <3>1. i \in Nat /\ j \in Nat
      BY <1>2
    <3>2. q[i] \in out
      BY <1>2
    <3> QED
      BY <1>1, <3>1, <3>2
  <2>2. ~ (i < j) /\ ~ (j < i)
    BY <1>2, <1>3, <2>1
  <2> QED
    BY <2>1, <2>2
<1> QED
  BY <1>1, <1>2, <1>3

(***************************************************************************)
(* AtMostOnce: publish never hands a message out twice.                    *)
(***************************************************************************)
THEOREM HandedAtMostOnce ==
  ASSUME BoundedReordering, WindowFitsRing
  PROVE  Spec => AtMostOnce
<1>1. HoldsInv /\ [Next]_vars =>
        [/\ \A i, j \in DOMAIN Appended : Appended[i] = Appended[j] => i = j
         /\ \A i \in DOMAIN Appended :
              Appended[i] \in accepted' /\ Appended[i] \notin handed]_vars
  BY NextHolds, HandsDistinct
<1> QED
  BY <1>1, AlwaysHolds, PTL DEF Spec, AtMostOnce

(***************************************************************************)
(* InOrder: an ordered channel hands out in the order of sending.          *)
(***************************************************************************)
THEOREM HandedInOrder ==
  ASSUME BoundedReordering, WindowFitsRing
  PROVE  Spec => InOrder
<1>1. HoldsInv /\ [Next]_vars =>
        [rcv.is_ordered =>
           /\ \A i, j \in DOMAIN Appended : i < j => Appended[i] < Appended[j]
           /\ \A i \in DOMAIN Appended, m \in handed : m < Appended[i]]_vars
  BY NextHolds, HandsDistinct
<1> QED
  BY <1>1, AlwaysHolds, PTL DEF Spec, InOrder

(***************************************************************************)
(* FrameDelivers: the publish of a frame leaves nothing waiting that it    *)
(* could hand out.                                                         *)
(***************************************************************************)
THEOREM EveryFrameDelivers ==
  ASSUME BoundedReordering, WindowFitsRing
  PROVE  Spec => FrameDelivers
<1> DEFINE A == Publish =>
       \A n \in head .. head + receive_window_size - 1 :
         ( /\ n \in accepted /\ Marked(n)
           /\ rcv.is_ordered => \A m \in head .. n : Marked(m) )
         => n \in handed'
<1>1. HoldsInv => A
  <2> SUFFICES ASSUME HoldsInv, Publish,
                      NEW n \in head .. head + receive_window_size - 1,
                      n \in accepted, Marked(n),
                      rcv.is_ordered => \A m \in head .. n : Marked(m)
               PROVE  n \in handed'
    OBVIOUS
  <2> DEFINE out == OutOf(rcv.is_ordered, head, top, MarkedSet, WaitingSet)
  <2>1. /\ head \in Nat /\ top \in Nat
        /\ n <= top /\ MarkedSet \ WaitingSet \subseteq handed
    BY DEF HoldsInv, Holds, Known
  <2>2. n \in head .. top /\ n \in Walked(head, top)
    BY <2>1, ReceiverAssumption DEF Walked
  <2>3. n \in MarkedSet
    BY <2>2 DEF MarkedSet
  <2>4. rcv.is_ordered => n \in RunOf(head, top, MarkedSet)
    <3>1. \A m \in head .. n : m \in head .. top
      BY <2>1, <2>2
    <3>2. rcv.is_ordered => \A m \in head .. n : m \in MarkedSet
      BY <3>1 DEF MarkedSet
    <3> QED
      BY <2>2, <3>2 DEF RunOf
  <2>5. n \in WaitingSet => n \in out
    BY <2>2, <2>4 DEF OutOf
  <2>6. handed' = handed \cup out
    BY FrameHolds
  <2> QED
    BY <2>1, <2>3, <2>5, <2>6
<1>2. HoldsInv => [A]_vars
  BY <1>1
<1> HIDE DEF A
<1>3. Spec => [][A]_vars
  BY <1>2, AlwaysHolds, PTL
<1> QED
  BY <1>3 DEF A, FrameDelivers

(***************************************************************************)
(* ReliableUntilSkip: the channel is reliable until it gives up a message. *)
(***************************************************************************)
THEOREM NothingLostUntilSkip ==
  ASSUME BoundedReordering, WindowFitsRing
  PROVE  Spec => []ReliableUntilSkip
<1>1. HoldsInv => ReliableUntilSkip
  BY DEF HoldsInv, Holds, Complete, ReliableUntilSkip
<1> QED
  BY <1>1, AlwaysHolds, PTL

(***************************************************************************)
(* NackSound: for any width of a nack too, create_nacks asks for nothing   *)
(* that was accepted and for nothing outside current..last.                *)
(***************************************************************************)
THEOREM NacksAreSound ==
  ASSUME BoundedReordering, WindowFitsRing
  PROVE  Spec => []NackSound
<1>1. HoldsInv => NackSound
  <2> SUFFICES ASSUME HoldsInv, NEW s \in nacked_sequences(create_nacks(rcv))
               PROVE  \E n \in head + 1 .. top - 1 :
                        s = SequenceOf(n) /\ n \notin accepted
    BY DEF NackSound
  <2>1. s \in AsksFor(head, top, accepted)
    BY MarksHold, NacksAreMissing
  <2> QED
    BY <2>1 DEF AsksFor, Missing
<1> QED
  BY <1>1, AlwaysHolds, PTL

(***************************************************************************)
(* NacksNewestGap: the newest missing message is asked for in every frame  *)
(* until so many messages have arrived after it that the passes of the     *)
(* walk end before it.                                                     *)
(***************************************************************************)
THEOREM NewestGapIsNacked ==
  ASSUME BoundedReordering, WindowFitsRing
  PROVE  Spec => []NacksNewestGap
<1>1. HoldsInv => NacksNewestGap
  <2> SUFFICES ASSUME HoldsInv, NEW n \in head + 1 .. top - 1,
                      n \notin accepted,
                      \A m \in n + 1 .. top : m \in accepted,
                      top - 1 - n < NackGroups
               PROVE  SequenceOf(n) \in nacked_sequences(create_nacks(rcv))
    BY DEF NacksNewestGap
  <2>1. n \in Missing(head, top, accepted)
    BY DEF Missing
  <2>2. Marks(rcv, head, top, accepted)
    BY MarksHold
  <2> QED
    BY <2>1, <2>2, NewestIsNacked
<1> QED
  BY <1>1, AlwaysHolds, PTL

-----------------------------------------------------------------------------
(***************************************************************************)
(* Type correctness.  What HoldsInv does not say is that the receiver is a *)
(* record: every method returns the one it was given or an updated copy.   *)
(***************************************************************************)
IsRecord(r) == r = [f \in DOMAIN r |-> r[f]]

\* receive_packet returns a record.
LEMMA ReceiveRecord ==
  ASSUME NEW r, IsRecord(r), NEW s, NEW data
  PROVE  IsRecord(receive_packet(r, s, data).receiver)
<1> DEFINE skipped == skip_current(r)
           moved   == advance_to(skipped, s)
           stored  == set_received(moved, s, data)
           result  == receive_packet(r, s, data)
<1>1. IsRecord(skipped)
  BY DEF IsRecord, skip_current
<1>2. IsRecord(moved)
  BY DEF IsRecord, advance_to
<1>3. IsRecord(publish(stored))
  BY DEF IsRecord, publish, move_buffered
<1>4. \/ result.receiver = skipped
      \/ result.receiver = moved
      \/ result.receiver = publish(stored)
  BY DEF receive_packet
<1> QED
  BY <1>1, <1>2, <1>3, <1>4

\* Every step leaves the receiver a record.
LEMMA NextRecord ==
  ASSUME IsRecord(rcv), [Next]_vars
  PROVE  IsRecord(rcv')
<1>1. ASSUME NEW n \in 1 .. MaxMessage, Arrive(n) PROVE IsRecord(rcv')
  <2>1. rcv' = receive_packet(rcv, SequenceOf(n), n).receiver
    BY <1>1 DEF Arrive
  <2>2. IsRecord(receive_packet(rcv, SequenceOf(n), n).receiver)
    BY ReceiveRecord
  <2> QED
    BY <2>1, <2>2
<1>2. ASSUME Publish PROVE IsRecord(rcv')
  BY <1>2 DEF Publish, publish, move_buffered, IsRecord
<1>3. ASSUME Take PROVE IsRecord(rcv')
  BY <1>3 DEF Take, take_published, IsRecord
<1>4. ASSUME UNCHANGED vars PROVE IsRecord(rcv')
  BY <1>4 DEF vars
<1> QED
  BY <1>1, <1>2, <1>3, <1>4 DEF Next

\* What the invariants say of the fields, for a record, is its type.
LEMMA StandsType ==
  ASSUME HoldsInv, IsRecord(rcv)
  PROVE  TypeOK
<1>1. /\ head \in Nat /\ top \in Nat /\ DOMAIN rcv = Fields
      /\ rcv.is_ordered \in BOOLEAN
      /\ rcv.current_sequence = SequenceOf(head)
      /\ rcv.last_sequence = SequenceOf(top)
      /\ MarkedSet \subseteq head .. top
      /\ rcv.received = {SlotOf(n) : n \in MarkedSet}
      /\ rcv.buffered \in [Slots -> Nat \cup {None}]
      /\ rcv.published \in Seq(Nat)
      /\ rcv.skipped_sequences \in Nat
  BY DEF HoldsInv, Holds, Stands
<1>2. accepted \subseteq Nat /\ handed \subseteq Nat
  BY DEF HoldsInv, Holds, Known
<1>3. \A n \in Nat : SequenceOf(n) \in SeqNo
  BY SequenceAssumption, Remainder DEF SequenceOf, SeqNo
<1>4. \A n \in MarkedSet : SlotOf(n) \in Slots
  <2>1. \A n \in head .. top : n \in Nat
    BY <1>1
  <2> QED
    BY <1>1, <2>1, SlotType
<1>5. rcv.received \in SUBSET Slots
  BY <1>1, <1>4
<1>6. rcv = [is_ordered        |-> rcv.is_ordered,
             current_sequence  |-> rcv.current_sequence,
             last_sequence     |-> rcv.last_sequence,
             received          |-> rcv.received,
             buffered          |-> rcv.buffered,
             published         |-> rcv.published,
             skipped_sequences |-> rcv.skipped_sequences]
  BY <1>1 DEF IsRecord, Fields
<1>7. rcv.current_sequence \in SeqNo /\ rcv.last_sequence \in SeqNo
  BY <1>1, <1>3
<1>8. rcv \in Receivers
  BY <1>1, <1>5, <1>6, <1>7 DEF Receivers
<1> QED
  BY <1>1, <1>2, <1>8 DEF TypeOK

\* TypeOK holds of every receiver.
THEOREM ReceiverTypeOK ==
  ASSUME BoundedReordering, WindowFitsRing
  PROVE  Spec => []TypeOK
<1>1. Init => IsRecord(rcv)
  BY DEF Init, create, IsRecord
<1>2. IsRecord(rcv) /\ [Next]_vars => IsRecord(rcv)'
  BY NextRecord
<1>3. HoldsInv /\ IsRecord(rcv) => TypeOK
  BY StandsType
<1> QED
  BY <1>1, <1>2, <1>3, AlwaysHolds, PTL DEF Spec
=============================================================================
