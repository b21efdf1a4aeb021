--------------------------- MODULE ChannelLemmas ----------------------------
(***************************************************************************)
(* What the operations of a channel do, one end at a time, for any ring,   *)
(* buffers, window and redundancy.  The lemmas are about a channel record, *)
(* not about the state of a specification: ChannelProofs and LinkedProofs  *)
(* use them.                                                               *)
(*                                                                         *)
(* What a channel's receiver does with packets it does with their numbers  *)
(* (Same, of ReceiverLemmas): the first part says of one end, its receiver *)
(* and what it gave, what is known of a receiver of numbers.               *)
(***************************************************************************)
EXTENDS Channel, ReceiverLemmas

\* What send_reliable writes and resend_nacked repeats
Written ==
  {p \in ChannelPackets :
     /\ p.type \in {RELIABLE, RELIABLE_WITH_NACK}
     /\ p.sequence # 0
     /\ p.nacks = {}}

\* The same, of a sender that numbers its messages as its channel does
Message == {p \in Written : p.body = p.sequence}

\* What resend_nacked sends for a sequence that it does not hold
Nones ==
  {p \in ChannelPackets : p.type = NONE /\ p.sequence # 0 /\ p.nacks = {}}

\* A packet is not an empty slot, and neither is its number.
LEMMA CarriedType ==
  ASSUME NEW p \in Written \cup Nones
  PROVE  /\ p \in ChannelPackets /\ p # None
         /\ p.sequence \in Nat /\ p.sequence >= 1 /\ p.sequence \in SeqNo
         /\ p.nacks = {}
         /\ p \in Written => p.type \in {RELIABLE, RELIABLE_WITH_NACK}
         /\ p \in Nones => p.type = NONE
         /\ p.type # NACK
<1>1. p \in ChannelPackets /\ p.sequence # 0 /\ p.nacks = {}
  BY DEF Written, Nones
<1>2. p.sequence \in SeqNo
  BY <1>1 DEF ChannelPackets
<1>3. p.sequence \in Nat /\ p.sequence >= 1
  BY <1>1, <1>2, SequenceAssumption DEF SeqNo
<1>4. p # None
  BY <1>1, PacketAssumption
<1>5. /\ p \in Written => p.type \in {RELIABLE, RELIABLE_WITH_NACK}
      /\ p \in Nones => p.type = NONE
  BY DEF Written, Nones
<1>6. p.type # NACK
  BY <1>5 DEF RELIABLE, RELIABLE_WITH_NACK, NONE, NACK
<1> QED
  BY <1>1, <1>2, <1>3, <1>4, <1>5, <1>6

LEMMA CarriedNumbers ==
  ASSUME NEW P \in SUBSET (Written \cup Nones) PROVE Numbers(P)
BY CarriedType DEF Numbers

LEMMA MessageType ==
  ASSUME NEW p \in Message
  PROVE  /\ p \in Written /\ p # None /\ p.sequence \in Nat /\ p.sequence >= 1
         /\ p.sequence \in SeqNo /\ p.sequence # None /\ p.body = p.sequence
         /\ p.type \in {RELIABLE, RELIABLE_WITH_NACK} /\ p.nacks = {}
<1>1. p \in Written /\ p.body = p.sequence
  BY DEF Message
<1> QED
  BY <1>1, CarriedType, ReceiverAssumption

-----------------------------------------------------------------------------
(***************************************************************************)
(* One end of the channel: its receiver, of packets of P, the sequences it *)
(* gave to its application and the number of messages its peer has sent.   *)
(* The receiver holds what ReceiverLemmas say of it, with the sequences it *)
(* gave and those still in its queue as the ones handed out.               *)
(***************************************************************************)
GaveOK(P, r, G, N) ==
  /\ G \in Seq(Nat)
  /\ r.last_sequence <= N
  /\ \E q, m, w, acc :
       /\ Same(P, r, q)
       /\ Holds(q, r.current_sequence, r.last_sequence, m, w, acc,
                Listed(G \o q.published))
       /\ Ranked(r.is_ordered, G \o q.published)

(***************************************************************************)
(* A step of the receiver from r to s, seen with numbers as one from q to  *)
(* p that hands out what may follow.                                       *)
(***************************************************************************)
LEMMA GaveMoves ==
  ASSUME NEW P, NEW N \in Nat, N < U16_MAX, NEW G \in Seq(Nat),
         NEW r, NEW q, Same(P, r, q), q.published \in Seq(Nat),
         Ranked(r.is_ordered, G \o q.published),
         NEW s, NEW p, Same(P, s, p), p.is_ordered = q.is_ordered,
         NEW g, NEW u, NEW k, NEW v, NEW acc, NEW out, u <= N,
         Holds(p, g, u, k, v, acc, Listed(G \o q.published) \cup out),
         MayFollow(q.is_ordered, out, acc, Listed(G \o q.published)),
         p.published = q.published \o Ascending(out)
  PROVE  GaveOK(P, s, G, N)
<1> DEFINE H    == G \o q.published
           news == Ascending(out)
<1>2. H \in Seq(Nat)
  OBVIOUS
<1>3. q.is_ordered = r.is_ordered /\ s.is_ordered = r.is_ordered
  BY DEF Same
<1>4. /\ news \in Seq(Nat) /\ Listed(news) = out
      /\ Ranked(r.is_ordered, H \o news)
  <2> HIDE DEF H
  <2>1. /\ Ranked(r.is_ordered, H)
        /\ MayFollow(r.is_ordered, out, acc, Listed(H))
    BY <1>3 DEF H
  <2> QED
    BY <1>2, <2>1, RankedJoin
<1>5. H \o news = G \o p.published
  <2>1. (G \o q.published) \o news = G \o (q.published \o news)
    <3> HIDE DEF news
    <3> QED
      BY <1>4, JoinJoin
  <2> QED
    BY <2>1
<1>6. Listed(G \o p.published) = Listed(H) \cup out
  <2> HIDE DEF H, news
  <2> QED
    BY <1>2, <1>4, <1>5, ListedJoin
<1>7. /\ p.current_sequence = g /\ p.last_sequence = u
  <2>1. Stands(p, g, u, k, v) /\ u \in Nat
    BY DEF Holds, Stands
  <2> QED
    BY <2>1, Bounds, StandsLow
<1>8. s.current_sequence = g /\ s.last_sequence = u
  BY <1>7 DEF Same
<1>9. /\ Holds(p, s.current_sequence, s.last_sequence, k, v, acc,
               Listed(G \o p.published))
      /\ Ranked(s.is_ordered, G \o p.published)
  <2>1. Holds(p, g, u, k, v, acc, Listed(H) \cup out)
    OBVIOUS
  <2> HIDE DEF H, news
  <2> QED
    BY <1>3, <1>4, <1>5, <1>6, <1>8, <2>1
<1>10. s.last_sequence <= N
  BY <1>8
<1> QED
  BY <1>9, <1>10 DEF GaveOK

\* What GaveOK says of the receiver itself
LEMMA GaveParts ==
  ASSUME NEW P, NEW N \in Nat, N < U16_MAX, NEW G, NEW r, GaveOK(P, r, G, N)
  PROVE  /\ r.current_sequence \in Nat /\ r.last_sequence \in Nat
         /\ r.current_sequence <= r.last_sequence /\ r.last_sequence <= N
         /\ OnRing(r) /\ DOMAIN r = Fields /\ r.published \in Seq(P)
<1>1. PICK q, m, w, acc :
         /\ Same(P, r, q)
         /\ Holds(q, r.current_sequence, r.last_sequence, m, w, acc,
                  Listed(G \o q.published))
  BY DEF GaveOK
<1>2. Stands(q, r.current_sequence, r.last_sequence, m, w)
  BY <1>1 DEF Holds
<1>3. /\ r.current_sequence \in Nat /\ r.last_sequence \in Nat
      /\ r.current_sequence <= r.last_sequence /\ r.last_sequence <= N
  BY <1>2 DEF Stands, GaveOK
<1>4. OnRing(r)
  BY <1>3, Bounds DEF OnRing, SeqNo
<1>5. DOMAIN r = Fields /\ r.published \in Seq(P)
  BY <1>1 DEF Same
<1> QED
  BY <1>3, <1>4, <1>5

\* receive_packet of a packet the peer may have sent
LEMMA GaveReceive ==
  ASSUME WindowFitsRing, NEW P, Numbers(P), NEW N \in Nat, N <= Farthest,
         N <= Latest, NEW G, NEW r, GaveOK(P, r, G, N),
         NEW p \in P, p.sequence >= 1, p.sequence <= N
  PROVE  GaveOK(P, receive_packet(r, p.sequence, p).receiver, G, N)
<1> DEFINE n   == p.sequence
           got == receive_packet(r, n, p)
<1>0. N < U16_MAX
  BY Bounds
<1>1. PICK q, m, w, acc :
         /\ Same(P, r, q)
         /\ Holds(q, r.current_sequence, r.last_sequence, m, w, acc,
                  Listed(G \o q.published))
         /\ Ranked(r.is_ordered, G \o q.published)
  BY DEF GaveOK
<1> DEFINE num  == receive_packet(q, n, n)
           c    == r.current_sequence
           l    == r.last_sequence
           hnd  == Listed(G \o q.published)
           acc2 == IF num.accepted THEN acc \cup {n} ELSE acc
<1>2. /\ G \in Seq(Nat) /\ c \in Nat /\ l \in Nat /\ c <= l /\ l <= N
      /\ OnRing(r)
  BY <1>0, GaveParts DEF GaveOK
<1>3. n \in Nat
  BY Bounds DEF Numbers, SeqNo
<1>4. n >= 1 /\ n <= c + Farthest /\ n >= c - Latest
  BY <1>2, <1>3, Bounds
<1>5. SequenceOf(n) = n
  BY <1>0, <1>3, Bounds, SmallSequence
<1>6. /\ Same(P, got.receiver, num.receiver)
  BY <1>1, <1>2, SameReceive
<1>7. Holds(q, c, l, m, w, acc, hnd)
  BY <1>1
<1>8. q.published \in Seq(Nat)
  BY <1>7 DEF Holds, Stands
<1> HIDE DEF c, l, hnd, n
<1>9. MovesOn(q, num.receiver, c, l, n, acc2, hnd)
  BY <1>3, <1>4, <1>5, <1>7, ReceiveHolds
<1> HIDE DEF num, acc2, got
<1>10. PICK g, u, k, v, out :
         /\ Holds(num.receiver, g, u, k, v, acc2, hnd \cup out)
         /\ MayFollow(q.is_ordered, out, acc2, hnd)
         /\ num.receiver.published = q.published \o Ascending(out)
         /\ num.receiver.is_ordered = q.is_ordered
         /\ u \in {l, n}
  BY <1>9 DEF MovesOn
<1>11. u <= N
  BY <1>2, <1>10 DEF n
<1>12. GaveOK(P, got.receiver, G, N)
  BY <1>0, <1>1, <1>2, <1>6, <1>8, <1>10, <1>11, GaveMoves DEF hnd
<1> QED
  BY <1>12 DEF got, n

\* The publish of a frame
LEMMA GavePublish ==
  ASSUME NEW P, Numbers(P), NEW N \in Nat, N < U16_MAX,
         NEW G, NEW r, GaveOK(P, r, G, N)
  PROVE  GaveOK(P, publish(r), G, N)
<1>1. PICK q, m, w, acc :
         /\ Same(P, r, q)
         /\ Holds(q, r.current_sequence, r.last_sequence, m, w, acc,
                  Listed(G \o q.published))
         /\ Ranked(r.is_ordered, G \o q.published)
  BY DEF GaveOK
<1> DEFINE p   == publish(q)
           c   == r.current_sequence
           l   == r.last_sequence
           hnd == Listed(G \o q.published)
           out == OutOf(q.is_ordered, c, l, m, w)
<1>2. /\ G \in Seq(Nat) /\ c \in Nat /\ l \in Nat /\ c <= l /\ l <= N
      /\ OnRing(r)
  BY GaveParts DEF GaveOK
<1>3. Same(P, publish(r), p)
  BY <1>1, <1>2, SamePublish
<1>4. Holds(q, c, l, m, w, acc, hnd)
  BY <1>1
<1>5. q.published \in Seq(Nat)
  BY <1>4 DEF Holds, Stands
<1> HIDE DEF c, l, hnd
<1>6. /\ Holds(p, EndOf(c, l, m), l, m \ RunOf(c, l, m), w \ out, acc, hnd \cup out)
      /\ MayFollow(q.is_ordered, out, acc, hnd)
      /\ p.published = q.published \o Ascending(out)
      /\ p.is_ordered = q.is_ordered
      /\ EndOf(c, l, m) \in c .. l
  BY <1>4, PublishHolds
<1> HIDE DEF p, out
<1> QED
  BY <1>1, <1>2, <1>3, <1>5, <1>6, GaveMoves DEF hnd

\* The peer sends more, and perhaps other packets.
LEMMA GaveMore ==
  ASSUME NEW P, NEW Q, P \subseteq Q, NEW N \in Nat, NEW M \in Nat, N <= M,
         N < U16_MAX, NEW G, NEW r, GaveOK(P, r, G, N)
  PROVE  GaveOK(Q, r, G, M)
<1>1. r.last_sequence \in Nat /\ r.last_sequence <= N
  BY GaveParts
<1>2. r.last_sequence <= M
  BY <1>1
<1>3. PICK q, m, w, acc :
         /\ Same(P, r, q)
         /\ Holds(q, r.current_sequence, r.last_sequence, m, w, acc,
                  Listed(G \o q.published))
         /\ Ranked(r.is_ordered, G \o q.published)
  BY DEF GaveOK
<1>4. /\ r.buffered \in [Slots -> P \cup {None}] => r.buffered \in [Slots -> Q \cup {None}]
      /\ r.published \in Seq(P) => r.published \in Seq(Q)
  OBVIOUS
<1>5. Same(Q, r, q)
  BY <1>3, <1>4 DEF Same
<1> QED
  BY <1>2, <1>3, <1>5 DEF GaveOK

\* A new receiver
LEMMA GaveStart ==
  ASSUME NEW P, NEW o \in BOOLEAN PROVE GaveOK(P, create(o), << >>, 0)
<1> DEFINE r == create(o)
           G == << >> \o r.published
<1>1. /\ DOMAIN r = Fields /\ r.is_ordered = o
      /\ r.current_sequence = 0 /\ r.last_sequence = 0 /\ r.received = {}
      /\ r.buffered = [i \in Slots |-> None] /\ r.published = << >>
      /\ r.skipped_sequences = 0
  BY DEF create, Fields
<1>2. SequenceOf(0) = 0
  BY Bounds, SmallSequence
<1> HIDE DEF r
<1>3. Same(P, r, r)
  <2>1. Numbered(None) = None
    BY DEF Numbered
  <2>2. [i \in DOMAIN r.published |-> r.published[i].sequence] = << >>
    BY <1>1
  <2>3. [i \in Slots |-> Numbered(r.buffered[i])] = r.buffered
    BY <1>1, <2>1
  <2> QED
    BY <1>1, <2>2, <2>3 DEF Same
<1>4. G = << >> /\ Listed(G) = {}
  <2>1. << >> \o << >> = << >>
    OBVIOUS
  <2>2. G = << >>
    BY <1>1, <2>1
  <2> QED
    BY <2>2 DEF Listed
<1> HIDE DEF G
<1>5. Stands(r, 0, 0, {}, {})
  BY <1>1, <1>2, Bounds DEF Stands
<1>6. Known(r.is_ordered, 0, 0, {}, {}, {}, {})
  BY DEF Known
<1>7. Complete(r.is_ordered, 0, {}, {}, {})
  BY DEF Complete
<1>8. Holds(r, 0, 0, {}, {}, {}, Listed(G))
  BY <1>4, <1>5, <1>6, <1>7 DEF Holds
<1>9. Ranked(r.is_ordered, G)
  BY <1>4 DEF Ranked
<1>10. << >> \in Seq(Nat)
  OBVIOUS
<1>11. /\ Holds(r, r.current_sequence, r.last_sequence, {}, {}, {},
                Listed(<< >> \o r.published))
       /\ Ranked(r.is_ordered, << >> \o r.published)
  BY <1>1, <1>8, <1>9 DEF G
<1>12. GaveOK(P, r, << >>, 0)
  <2>1. \E q, m, w, acc :
          /\ Same(P, r, q)
          /\ Holds(q, r.current_sequence, r.last_sequence, m, w, acc,
                   Listed(<< >> \o q.published))
          /\ Ranked(r.is_ordered, << >> \o q.published)
    <3> WITNESS r, {}, {}, {}
    <3> QED
      BY <1>3, <1>11
  <2>2. r.last_sequence <= 0
    BY <1>1
  <2> QED
    BY <1>10, <2>1, <2>2 DEF GaveOK
<1> QED
  BY <1>12 DEF r

-----------------------------------------------------------------------------
(***************************************************************************)
(* The application takes the first i packets of the queue.                 *)
(***************************************************************************)
LEMMA GaveTake ==
  ASSUME NEW P, NEW N \in Nat, N < U16_MAX, NEW G, NEW r, GaveOK(P, r, G, N),
         NEW i \in 0 .. Len(r.published)
  PROVE  LET rest == SubSeq(r.published, i + 1, Len(r.published))
         IN  GaveOK(P, [r EXCEPT !.published = rest],
                    G \o SubSeq(NumbersOf(r.published), 1, i), N)
<1>1. PICK q, m, w, acc :
         /\ Same(P, r, q)
         /\ Holds(q, r.current_sequence, r.last_sequence, m, w, acc,
                  Listed(G \o q.published))
         /\ Ranked(r.is_ordered, G \o q.published)
  BY DEF GaveOK
<1> DEFINE X  == r.published
           n  == Len(X)
           X2 == SubSeq(X, i + 1, n)
           Q  == q.published
           Q1 == SubSeq(Q, 1, i)
           Q2 == SubSeq(Q, i + 1, n)
           r2 == [r EXCEPT !.published = X2]
           q2 == [q EXCEPT !.published = Q2]
           c  == r.current_sequence
           l  == r.last_sequence
<1>2. G \in Seq(Nat) /\ l <= N
  BY DEF GaveOK
<1>3. X \in Seq(P) /\ Q = [k \in DOMAIN X |-> X[k].sequence]
  BY <1>1 DEF Same
<1>4. Stands(q, c, l, m, w)
  BY <1>1 DEF Holds
<1>5. Q \in Seq(Nat)
  BY <1>4 DEF Stands
<1>6. n \in Nat /\ DOMAIN X = 1 .. n /\ i \in 0 .. n
  BY <1>3
<1>7. Len(Q) = n /\ \A k \in 1 .. n : Q[k] = X[k].sequence
  BY <1>3, <1>5, <1>6
<1>8. /\ X2 \in Seq(P) /\ DOMAIN X2 = 1 .. n - i
      /\ \A k \in 1 .. n - i : X2[k] = X[i + k] /\ i + k \in DOMAIN X
  <2> HIDE DEF X
  <2> QED
    BY <1>3, <1>6, RestOf
<1>9. /\ Q2 \in Seq(Nat) /\ DOMAIN Q2 = 1 .. n - i
      /\ \A k \in 1 .. n - i : Q2[k] = Q[i + k]
  <2> HIDE DEF Q, n
  <2> QED
    BY <1>5, <1>6, <1>7, RestOf
<1> HIDE DEF X2, Q2
<1>10. Q2 = [k \in DOMAIN X2 |-> X2[k].sequence]
  <2>1. \A k \in 1 .. n - i : Q2[k] = X2[k].sequence
    <3> SUFFICES ASSUME NEW k \in 1 .. n - i PROVE Q2[k] = X2[k].sequence
      OBVIOUS
    <3>1. i + k \in 1 .. n
      BY <1>6
    <3> HIDE DEF X, Q, n
    <3> QED
      BY <1>7, <1>8, <1>9, <3>1
  <2>2. Q2 = [k \in 1 .. n - i |-> Q2[k]]
    <3> HIDE DEF n
    <3> QED
      BY <1>9
  <2> HIDE DEF X, Q, n
  <2> QED
    BY <1>8, <2>1, <2>2
<1>11. DOMAIN r = Fields /\ DOMAIN q = Fields
  BY <1>1 DEF Same
<1>12. Same(P, r2, q2)
  BY <1>1, <1>8, <1>10, <1>11 DEF Same, Fields
<1>13. Stands(q2, c, l, m, w)
  BY <1>4, <1>9, <1>11 DEF Stands, Fields
<1>14. Q1 \in Seq(Nat) /\ Q1 \o Q2 = Q
  <2> HIDE DEF Q, n
  <2>1. \A k \in 1 .. i : Q[k] \in Nat
    BY <1>5, <1>6, <1>7
  <2>2. Q1 \in Seq(Nat)
    BY <1>6, <2>1, SubSeqProperties
  <2>3. 1 \in 1 .. Len(Q) + 1 /\ i \in 1 - 1 .. Len(Q) /\ n \in i .. Len(Q)
    BY <1>6, <1>7
  <2>4. SubSeq(Q, 1, i) \o SubSeq(Q, i + 1, n) = SubSeq(Q, 1, n)
    BY <1>5, <2>3, ConcatAdjacentSubSeq
  <2>5. SubSeq(Q, 1, n) = Q
    BY <1>5, <1>7, SubSeqFull
  <2> QED
    BY <2>2, <2>4, <2>5 DEF Q2
<1> HIDE DEF Q1
<1>15. G \o Q1 \in Seq(Nat) /\ (G \o Q1) \o Q2 = G \o Q
  <2> HIDE DEF Q
  <2>1. (G \o Q1) \o Q2 = G \o (Q1 \o Q2)
    BY <1>2, <1>9, <1>14, JoinJoin
  <2> QED
    BY <1>2, <1>14, <2>1
<1>16. /\ q2.published = Q2 /\ q2.is_ordered = q.is_ordered
       /\ q2.skipped_sequences = q.skipped_sequences
       /\ r2.current_sequence = c /\ r2.last_sequence = l
       /\ r2.is_ordered = r.is_ordered
  BY <1>11 DEF Fields
<1> HIDE DEF r2, q2, Q, c, l
<1>17. (G \o Q1) \o q2.published = G \o q.published
  BY <1>15, <1>16 DEF Q
<1>18. Holds(q2, c, l, m, w, acc, Listed((G \o Q1) \o q2.published))
  <2>1. Holds(q, c, l, m, w, acc, Listed((G \o Q1) \o q2.published))
    BY <1>1, <1>17 DEF c, l
  <2> QED
    BY <1>13, <1>16, <2>1 DEF Holds
<1>19. Ranked(r2.is_ordered, (G \o Q1) \o q2.published)
  BY <1>1, <1>16, <1>17
<1>20. GaveOK(P, r2, G \o Q1, N)
  BY <1>2, <1>12, <1>15, <1>16, <1>18, <1>19 DEF GaveOK
<1>21. Q = NumbersOf(X)
  BY <1>3 DEF NumbersOf
<1> QED
  BY <1>20, <1>21 DEF r2, X2, X, Q1

\* first_message is where the first message is that is not a NONE.
LEMMA FirstExists ==
  ASSUME NEW P, NEW s \in Seq(P)
  PROVE  /\ first_message(s) \in 1 .. Len(s) + 1
         /\ \A j \in 1 .. first_message(s) - 1 : s[j].type = NONE
         /\ first_message(s) <= Len(s) => s[first_message(s)].type # NONE
<1> DEFINE good(i) == /\ \A j \in 1 .. i - 1 : s[j].type = NONE
                      /\ i <= Len(s) => s[i].type # NONE
           ends    == {i \in 1 .. Len(s) + 1 : i <= Len(s) => s[i].type # NONE}
<1>1. Len(s) \in Nat
  OBVIOUS
<1>2. ends \in SUBSET Nat /\ Len(s) + 1 \in ends
  BY <1>1
<1>3. PICK i \in ends : \A k \in ends : i <= k
  BY <1>2, LeastNat
<1>4. i \in 1 .. Len(s) + 1
  OBVIOUS
<1>5. ASSUME NEW j \in 1 .. i - 1 PROVE s[j].type = NONE
  <2>1. j \in 1 .. Len(s) + 1 /\ ~ (i <= j) /\ j <= Len(s)
    BY <1>1, <1>4
  <2> QED
    BY <1>3, <2>1
<1>6. good(i)
  BY <1>5
<1>7. first_message(s) = CHOOSE k \in 1 .. Len(s) + 1 : good(k)
  BY DEF first_message
<1> HIDE DEF good
<1>8. first_message(s) \in 1 .. Len(s) + 1 /\ good(first_message(s))
  BY <1>4, <1>6, <1>7
<1> QED
  BY <1>8 DEF good

(***************************************************************************)
(* The order of a receiver stays, and as long as no more is sent than the  *)
(* window holds, nothing is skipped.                                       *)
(***************************************************************************)
Keeps(r, s) ==
  s.is_ordered = r.is_ordered /\ s.skipped_sequences = r.skipped_sequences

(***************************************************************************)
(* What receive_published gives: a message or nothing, after the NONEs     *)
(* before it in the queue.                                                 *)
(***************************************************************************)
Gives(P, messages) ==
  messages = << >> \/ \E p \in P : p.type # NONE /\ messages = << p >>

HandsOn(P, r, G, messages, N) ==
  /\ Gives(P, messages)
  /\ \E skip \in Seq(Nat) :
       /\ (\A p \in P : p.type # NONE) => skip = << >>
       /\ GaveOK(P, r, (G \o skip) \o NumbersOf(messages), N)

\* Nothing is given.
LEMMA HandsNone ==
  ASSUME NEW P, NEW r, NEW G, NEW N, GaveOK(P, r, G, N)
  PROVE  HandsOn(P, r, G, << >>, N)
<1>1. << >> \in Seq(Nat) /\ (G \o << >>) \o << >> = G /\ NumbersOf(<< >>) = << >>
  BY DEF GaveOK, NumbersOf
<1>2. GaveOK(P, r, (G \o << >>) \o NumbersOf(<< >>), N)
  BY <1>1
<1> QED
  BY <1>1, <1>2 DEF HandsOn, Gives

LEMMA GaveGives ==
  ASSUME NEW P, NEW N \in Nat, N < U16_MAX, NEW G, NEW ch,
         "receiver" \in DOMAIN ch, GaveOK(P, ch.receiver, G, N)
  PROVE  LET res == receive_published(ch)
         IN  /\ HandsOn(P, res.channel.receiver, G, res.messages, N)
             /\ res.channel = [ch EXCEPT !.receiver = res.channel.receiver]
             /\ Keeps(ch.receiver, res.channel.receiver)
<1> DEFINE r    == ch.receiver
           X    == r.published
           n    == Len(X)
           i    == first_message(X)
           Q    == NumbersOf(X)
           rest == SubSeq(X, i + 1, n)
           res  == receive_published(ch)
           r2   == [r EXCEPT !.published = rest]
<1>1. X \in Seq(P) /\ DOMAIN r = Fields
  BY GaveParts
<1>2. /\ n \in Nat /\ i \in 1 .. n + 1 /\ DOMAIN X = 1 .. n
      /\ \A j \in 1 .. i - 1 : X[j].type = NONE
      /\ i <= n => X[i].type # NONE
  BY <1>1, FirstExists
<1>3. Q \in Seq(Nat) /\ Len(Q) = n
  <2>1. PICK q, m, w, acc :
           /\ Same(P, r, q)
           /\ Holds(q, r.current_sequence, r.last_sequence, m, w, acc,
                    Listed(G \o q.published))
    BY DEF GaveOK
  <2>2. Q = q.published
    BY <2>1 DEF Same, NumbersOf
  <2>3. Q \in Seq(Nat)
    BY <2>1, <2>2 DEF Holds, Stands
  <2>4. DOMAIN Q = 1 .. n
    BY <1>2 DEF NumbersOf
  <2> HIDE DEF Q
  <2> QED
    BY <1>2, <2>3, <2>4
<1>4. G \in Seq(Nat)
  BY DEF GaveOK
<1>5. /\ res.messages = IF i > n THEN << >> ELSE << X[i] >>
      /\ res.channel = [ch EXCEPT !.receiver.published = rest]
  BY DEF receive_published
<1>6. res.channel.receiver = r2 /\ res.channel = [ch EXCEPT !.receiver = r2]
  BY <1>5
<1>7. Keeps(r, r2)
  BY <1>1 DEF Keeps, Fields
<1>8. (\A p \in P : p.type # NONE) => i = 1
  <2> SUFFICES ASSUME \A p \in P : p.type # NONE, i # 1 PROVE FALSE
    OBVIOUS
  <2>1. 1 \in 1 .. i - 1 /\ 1 \in 1 .. n
    BY <1>2
  <2>2. X[1].type = NONE /\ X[1] \in P
    BY <1>1, <1>2, <2>1
  <2> QED
    BY <2>2
<1> HIDE DEF i, n, Q, res
<1>9. CASE i > n
  <2>1. i = n + 1 /\ res.messages = << >> /\ n \in 0 .. n
    BY <1>2, <1>5, <1>9
  <2>2. rest = SubSeq(X, n + 1, n)
    <3>1. i + 1 \in Int /\ n + 1 \in Int /\ n \in Int /\ n < i + 1 /\ n < n + 1
      BY <1>2, <2>1
    <3> QED
      BY <3>1, SubSeqEmpty
  <2>3. GaveOK(P, r2, G \o SubSeq(Q, 1, n), N)
    <3>1. GaveOK(P, [r EXCEPT !.published = SubSeq(X, n + 1, n)],
                 G \o SubSeq(NumbersOf(X), 1, n), N)
      BY <2>1, GaveTake DEF n
    <3> QED
      BY <2>2, <3>1 DEF Q
  <2>4. SubSeq(Q, 1, n) = Q
    BY <1>3, SubSeqFull
  <2>5. NumbersOf(res.messages) = << >> /\ (G \o Q) \o << >> = G \o Q
    BY <1>3, <1>4, <2>1 DEF NumbersOf
  <2>6. (\A p \in P : p.type # NONE) => Q = << >>
    BY <1>2, <1>3, <1>8, <2>1
  <2>7. GaveOK(P, r2, (G \o Q) \o NumbersOf(res.messages), N)
    BY <2>3, <2>4, <2>5
  <2>8. Gives(P, res.messages)
    BY <2>1 DEF Gives
  <2> QED
    BY <1>3, <1>6, <1>7, <2>6, <2>7, <2>8 DEF res, HandsOn
<1>10. CASE i <= n
  <2>1. res.messages = << X[i] >> /\ i \in 0 .. n /\ i \in 1 .. n /\ X[i] \in P
    BY <1>1, <1>2, <1>5, <1>10
  <2> DEFINE skip == SubSeq(Q, 1, i - 1)
  <2>2. GaveOK(P, r2, G \o SubSeq(Q, 1, i), N)
    <3>1. GaveOK(P, [r EXCEPT !.published = SubSeq(X, i + 1, n)],
                 G \o SubSeq(NumbersOf(X), 1, i), N)
      BY <2>1, GaveTake DEF n
    <3> QED
      BY <3>1 DEF Q
  <2>3. skip \in Seq(Nat)
    <3>1. i - 1 \in Int /\ \A k \in 1 .. i - 1 : Q[k] \in Nat
      BY <1>2, <1>3, <2>1
    <3> QED
      BY <3>1, SubSeqProperties
  <2>4. SubSeq(Q, 1, i) = skip \o << Q[i] >>
    <3>1. 1 \in 1 .. Len(Q) /\ i \in 1 .. Len(Q)
      BY <1>2, <1>3, <2>1
    <3> QED
      BY <1>3, <3>1, SubSeqRecursiveSecond
  <2>5. << Q[i] >> = NumbersOf(res.messages) /\ << Q[i] >> \in Seq(Nat)
    <3>1. Q[i] = X[i].sequence /\ Q[i] \in Nat
      BY <1>2, <1>3, <2>1 DEF Q, NumbersOf
    <3>2. NumbersOf(<< X[i] >>) = << X[i].sequence >>
      BY DEF NumbersOf
    <3> QED
      BY <2>1, <3>1, <3>2
  <2>6. (\A p \in P : p.type # NONE) => skip = << >>
    <3> SUFFICES ASSUME i = 1 PROVE skip = << >>
      BY <1>8
    <3>1. 1 \in Int /\ i - 1 \in Int /\ i - 1 < 1
      OBVIOUS
    <3> QED
      BY <3>1, SubSeqEmpty
  <2> HIDE DEF skip
  <2> DEFINE z == << Q[i] >>
  <2>7. G \o (skip \o z) = (G \o skip) \o z
    <3>1. z \in Seq(Nat)
      BY <2>5
    <3> HIDE DEF z
    <3> QED
      BY <1>4, <2>3, <3>1, JoinJoin
  <2>8. GaveOK(P, r2, (G \o skip) \o NumbersOf(res.messages), N)
    BY <2>2, <2>4, <2>5, <2>7
  <2>9. Gives(P, res.messages)
    BY <1>2, <1>10, <2>1 DEF Gives
  <2> QED
    BY <1>6, <1>7, <2>3, <2>6, <2>8, <2>9 DEF res, HandsOn
<1> QED
  BY <1>2, <1>9, <1>10

-----------------------------------------------------------------------------
(***************************************************************************)
(* What GaveOK gives.                                                      *)
(***************************************************************************)
\* A list that goes upwards and lists 1 to c has i at i.
LEMMA NoHole ==
  ASSUME NEW s \in Seq(Nat), NEW c \in Nat, Ranked(TRUE, s), Listed(s) = 1 .. c
  PROVE  \A i \in DOMAIN s : s[i] = i
<1> DEFINE wrong == {i \in DOMAIN s : s[i] # i}
<1> SUFFICES ASSUME wrong # {} PROVE FALSE
  OBVIOUS
<1>1. /\ DOMAIN s = 1 .. Len(s) /\ Len(s) \in Nat
      /\ \A i \in DOMAIN s : s[i] \in 1 .. c
  BY DEF Listed
<1>2. \A i, j \in DOMAIN s : i < j => s[i] < s[j]
  BY DEF Ranked
<1>3. wrong \in SUBSET Nat
  BY <1>1
<1>4. PICK i \in wrong : \A k \in wrong : i <= k
  BY <1>3, LeastNat
<1>5. i \in DOMAIN s /\ s[i] # i /\ i \in Nat /\ i >= 1 /\ s[i] \in Nat
  BY <1>1
<1>6. \A j \in DOMAIN s : j < i => s[j] = j
  BY <1>1, <1>4, <1>5
<1>7. s[i] > i
  <2>1. CASE i = 1
    BY <1>1, <1>5, <2>1
  <2>2. CASE i > 1
    <3>1. i - 1 \in DOMAIN s /\ i - 1 < i
      BY <1>1, <1>5, <2>2
    <3>2. s[i - 1] = i - 1 /\ s[i - 1] < s[i]
      BY <1>2, <1>5, <1>6, <3>1
    <3> QED
      BY <1>5, <3>2
  <2> QED
    BY <1>5, <2>1, <2>2
<1>8. i \in Listed(s)
  BY <1>1, <1>5, <1>7
<1>9. PICK j \in DOMAIN s : s[j] = i
  BY <1>8 DEF Listed
<1>10. j \in Nat
  BY <1>1
<1>11. CASE j < i
  BY <1>6, <1>9, <1>10, <1>11
<1>12. CASE j = i
  BY <1>5, <1>9, <1>12
<1>13. CASE j > i
  <2>1. s[i] < s[j]
    BY <1>2, <1>5, <1>13
  <2> QED
    BY <1>5, <1>7, <1>9, <2>1
<1> QED
  BY <1>5, <1>10, <1>11, <1>12, <1>13

LEMMA GaveSound ==
  ASSUME NEW P, NEW N \in Nat, N < U16_MAX, NEW G, NEW r, GaveOK(P, r, G, N)
  PROVE  /\ Ranked(r.is_ordered, G)
         /\ r.is_ordered /\ r.skipped_sequences = 0 => \A i \in DOMAIN G : G[i] = i
         /\ r.received \subseteq Slots
         /\ nacked_sequences(create_nacks(r)) \subseteq 1 .. N
<1>1. PICK q, m, w, acc :
         /\ Same(P, r, q)
         /\ Holds(q, r.current_sequence, r.last_sequence, m, w, acc,
                  Listed(G \o q.published))
         /\ Ranked(r.is_ordered, G \o q.published)
  BY DEF GaveOK
<1> DEFINE c   == r.current_sequence
           l   == r.last_sequence
           H   == G \o q.published
           hnd == Listed(H)
<1>2. /\ G \in Seq(Nat) /\ c \in Nat /\ l \in Nat /\ c <= l /\ l <= N
  BY GaveParts DEF GaveOK
<1>3. /\ Stands(q, c, l, m, w)
      /\ Known(q.is_ordered, c, l, m, w, acc, hnd)
      /\ q.skipped_sequences = 0 => Complete(q.is_ordered, c, m, acc, hnd)
  BY <1>1 DEF Holds
<1>4. q.published \in Seq(Nat)
  BY <1>3 DEF Stands
<1>5. H \in Seq(Nat) /\ \A i \in DOMAIN G : i \in DOMAIN H /\ H[i] = G[i]
  <2>1. H \in Seq(Nat) /\ Len(H) = Len(G) + Len(q.published)
    BY <1>2, <1>4
  <2>2. \A i \in 1 .. Len(G) : H[i] = G[i]
    BY <1>2, <1>4
  <2>3. DOMAIN G = 1 .. Len(G) /\ Len(G) \in Nat /\ Len(q.published) \in Nat
    BY <1>2, <1>4
  <2>4. DOMAIN H = 1 .. Len(H)
    BY <2>1
  <2> HIDE DEF H
  <2> QED
    BY <2>1, <2>2, <2>3, <2>4
<1>6. Ranked(r.is_ordered, H)
  BY <1>1
<1>7. /\ q.is_ordered = r.is_ordered /\ q.current_sequence = c
      /\ q.last_sequence = l /\ q.received = r.received
      /\ q.skipped_sequences = r.skipped_sequences /\ DOMAIN r = Fields
  BY <1>1 DEF Same
<1> HIDE DEF H, c, l
<1>8. Ranked(r.is_ordered, G)
  BY <1>5, <1>6 DEF Ranked
<1>9. ASSUME r.is_ordered, r.skipped_sequences = 0
      PROVE  \A i \in DOMAIN G : G[i] = i
  <2>1. /\ \A n \in 1 .. c : n \in hnd
        /\ \A n \in hnd : n <= c
        /\ \A n \in hnd : n \in Nat /\ 1 <= n
    <3>1. q.is_ordered \in BOOLEAN
      BY <1>3 DEF Stands
    <3> QED
      BY <1>3, <1>7, <1>9, <3>1 DEF Known, Complete
  <2>2. hnd = 1 .. c
    <3> HIDE DEF hnd
    <3>1. \A n \in hnd : n \in 1 .. c
      BY <1>2, <2>1
    <3> QED
      BY <2>1, <3>1
  <2>3. Ranked(TRUE, H)
    BY <1>6, <1>9 DEF Ranked
  <2>4. \A i \in DOMAIN H : H[i] = i
    BY <1>2, <1>5, <2>2, <2>3, NoHole
  <2> QED
    BY <1>5, <2>4
<1>10. r.received \subseteq Slots
  <2>1. r.received = {SlotOf(n) : n \in m} /\ m \subseteq c .. l
    BY <1>3, <1>7 DEF Stands
  <2>2. \A n \in m : n \in Nat
    BY <1>2, <2>1
  <2> QED
    BY <2>1, <2>2, SlotType
<1>11. nacked_sequences(create_nacks(r)) \subseteq 1 .. N
  <2>1. Marks(q, c, l, acc)
    BY <1>1, HoldsMarks DEF c, l
  <2>2. Marks(r, c, l, acc)
    <3>1. /\ q.received = r.received /\ DOMAIN r = Fields
          /\ r.current_sequence = q.current_sequence
          /\ r.last_sequence = q.last_sequence
      BY <1>7 DEF c, l
    <3> QED
      BY <2>1, <3>1 DEF Marks
  <2>3. nacked_sequences(create_nacks(r)) \subseteq AsksFor(c, l, acc)
    BY <2>2, NacksAreMissing
  <2>4. ASSUME NEW n \in Missing(c, l, acc) PROVE SequenceOf(n) \in 1 .. N
    <3>1. n \in Nat /\ n >= 1 /\ n <= N
      BY <1>2 DEF Missing
    <3>2. SequenceOf(n) = n
      BY <3>1, Bounds, SmallSequence
    <3> QED
      BY <3>1, <3>2
  <2> QED
    BY <2>3, <2>4 DEF AsksFor
<1> QED
  BY <1>8, <1>9, <1>10, <1>11

LEMMA PublishKeeps ==
  ASSUME NEW r, DOMAIN r = Fields PROVE Keeps(r, publish(r))
<1>1. \E n, far : publish(r) = move_buffered(r, n, far)
  BY DEF publish
<1> QED
  BY <1>1, MoveFields DEF Keeps

LEMMA ReceiveKeeps ==
  ASSUME WindowFitsRing, NEW P, NEW N \in Nat, N <= receive_window_size,
         N < U16_MAX, NEW G, NEW r, GaveOK(P, r, G, N), NEW s, NEW data
  PROVE  Keeps(r, receive_packet(r, s, data).receiver)
<1> DEFINE c == r.current_sequence
           l == r.last_sequence
           moved  == advance_to(r, s)
           stored == set_received(moved, s, data)
           result == receive_packet(r, s, data)
<1>1. /\ c \in Nat /\ l \in Nat /\ c <= l /\ l <= N /\ DOMAIN r = Fields
  BY GaveParts
<1>2. l - c <= Farthest
  <2>1. PICK q, m, w, acc : Holds(q, c, l, m, w, acc, Listed(G \o q.published))
    BY DEF GaveOK
  <2> QED
    BY <2>1 DEF Holds, Stands
<1>3. SequenceOf(c) = c /\ SequenceOf(l) = l
  BY <1>1, Bounds, SmallSequence
<1>4. ~ (l - c > receive_window_size)
  BY <1>1, ReceiverAssumption
<1> HIDE DEF c, l
<1>5. ~ should_increment_current(c, l)
  BY <1>1, <1>2, <1>3, <1>4, ShouldIncrement
<1>6. skip_current(r) = r
  BY <1>5 DEF skip_current, c, l
<1>7. DOMAIN moved = Fields /\ Keeps(r, moved)
  BY <1>1 DEF advance_to, Fields, Keeps
<1> HIDE DEF moved
<1>8. DOMAIN stored = Fields /\ Keeps(r, stored)
  BY <1>7 DEF set_received, Fields, Keeps
<1> HIDE DEF stored
<1>9. Keeps(r, publish(stored))
  BY <1>8, PublishKeeps DEF Keeps
<1>10. \/ result.receiver = r \/ result.receiver = moved
       \/ result.receiver = publish(stored)
  BY <1>6 DEF receive_packet, moved, stored
<1>11. Keeps(r, r)
  BY DEF Keeps
<1> HIDE DEF result
<1>12. Keeps(r, result.receiver)
  BY <1>7, <1>9, <1>10, <1>11
<1> QED
  BY <1>12 DEF result

-----------------------------------------------------------------------------
(***************************************************************************)
(* The sending half, with at most M messages, packets of P: each slot up   *)
(* to the last sequence has the packet of that sequence, the others none,  *)
(* and only sequences up to N are to be sent again.                        *)
(***************************************************************************)
ChannelFields == {"receiver", "nack_queue", "send_sequence", "buffers", "nacked"}

HalfOK(P, ch, M, N) ==
  /\ DOMAIN ch = ChannelFields
  /\ ch.send_sequence \in 0 .. M
  /\ ch.buffers \in [0 .. SEND_BUFFER_SIZE - 1 -> P \cup {None}]
  /\ \A i \in 1 .. ch.send_sequence :
       ch.buffers[i] \in P /\ ch.buffers[i].sequence = i
  /\ \A i \in ch.send_sequence + 1 .. SEND_BUFFER_SIZE - 1 : ch.buffers[i] = None
  /\ ch.nacked \subseteq 1 .. N

\* Packets that can be sent again: rewrite_reliable_nack_to_reliable stays in P
Resendable(P) ==
  /\ P \subseteq Written
  /\ \A p \in P : Packet(RELIABLE, p.sequence, p.body, TRUE, {}) \in P

(***************************************************************************)
(* A packet for an end that has sent S messages and whose peer has sent N: *)
(* a packet of Q, or a nack of messages the end may have sent.             *)
(***************************************************************************)
PacketOf(Q, p, S, N) ==
  \/ p \in Q /\ p.sequence <= N
  \/ p \in ChannelPackets /\ p.type = NACK /\ p.nacks \subseteq 1 .. S

LEMMA MessageResendable == Resendable(Message)
<1>1. Message \subseteq Written
  BY DEF Message
<1>2. ASSUME NEW p \in Message
      PROVE  Packet(RELIABLE, p.sequence, p.body, TRUE, {}) \in Message
  <2>1. p.sequence \in SeqNo /\ p.sequence # 0 /\ p.body = p.sequence /\ p.body \in Nat
    BY MessageType
  <2> QED
    BY <2>1 DEF Packet, Message, Written, ChannelPackets
<1> QED
  BY <1>1, <1>2 DEF Resendable

\* Before the send buffers are used again, a sequence is its slot.
LEMMA SendSlotIs ==
  ASSUME NEW s \in Nat, s < SEND_BUFFER_SIZE PROVE SendSlot(s) = s
<1>1. /\ SEND_BUFFER_SIZE \in Nat \ {0} /\ 0 \in Nat
      /\ s \in 0 .. SEND_BUFFER_SIZE - 1
  BY ChannelAssumption
<1>2. s = SEND_BUFFER_SIZE * 0 + s
  BY <1>1
<1>3. s % SEND_BUFFER_SIZE = s
  BY <1>1, <1>2, RemainderUnique
<1> QED
  BY <1>3 DEF SendSlot, sequence_to_index

\* Another channel with the same buffers, and other nacks
LEMMA HalfSame ==
  ASSUME NEW P, NEW M, NEW N, NEW K, NEW ch, HalfOK(P, ch, M, N),
         NEW c, DOMAIN c = ChannelFields, c.send_sequence = ch.send_sequence,
         c.buffers = ch.buffers, c.nacked \subseteq 1 .. K
  PROVE  HalfOK(P, c, M, K)
BY DEF HalfOK

\* More may be sent, and more asked for.
LEMMA HalfMore ==
  ASSUME NEW P, NEW Q, P \subseteq Q, NEW M \in Nat, NEW N \in Nat,
         NEW K \in Nat, NEW L \in Nat, M <= K, N <= L,
         NEW ch, HalfOK(P, ch, M, N)
  PROVE  HalfOK(Q, ch, K, L)
<1>1. ch.send_sequence \in 0 .. K /\ 1 .. N \subseteq 1 .. L
  BY DEF HalfOK
<1>2. ch.buffers \in [0 .. SEND_BUFFER_SIZE - 1 -> Q \cup {None}]
  BY DEF HalfOK
<1> QED
  BY <1>1, <1>2 DEF HalfOK

(***************************************************************************)
(* receive_published                                                       *)
(***************************************************************************)
LEMMA HalfTake ==
  ASSUME NEW P, NEW M, NEW N, NEW ch, HalfOK(P, ch, M, N),
         NEW Q, NEW K \in Nat, K < U16_MAX, NEW G, GaveOK(Q, ch.receiver, G, K)
  PROVE  LET res == receive_published(ch)
         IN  /\ HalfOK(P, res.channel, M, N)
             /\ res.channel.send_sequence = ch.send_sequence
             /\ res.channel.nacked = ch.nacked
             /\ HandsOn(Q, res.channel.receiver, G, res.messages, K)
             /\ Keeps(ch.receiver, res.channel.receiver)
<1> DEFINE res == receive_published(ch)
           c   == res.channel
<1>1. DOMAIN ch = ChannelFields /\ ch.nacked \subseteq 1 .. N
  BY DEF HalfOK
<1>2. "receiver" \in DOMAIN ch
  BY <1>1 DEF ChannelFields
<1>3. /\ HandsOn(Q, c.receiver, G, res.messages, K)
      /\ c = [ch EXCEPT !.receiver = c.receiver]
      /\ Keeps(ch.receiver, c.receiver)
  BY <1>2, GaveGives
<1> HIDE DEF c
<1>4. /\ DOMAIN c = ChannelFields /\ c.send_sequence = ch.send_sequence
      /\ c.buffers = ch.buffers /\ c.nacked = ch.nacked
  BY <1>1, <1>3 DEF ChannelFields
<1>5. HalfOK(P, c, M, N)
  BY <1>1, <1>4, HalfSame
<1> QED
  BY <1>3, <1>4, <1>5 DEF c

(***************************************************************************)
(* receive_from_socket, of a packet that the peer may have sent            *)
(***************************************************************************)
LEMMA HalfReceive ==
  ASSUME WindowFitsRing, NEW P, NEW M, NEW N, NEW ch, HalfOK(P, ch, M, N),
         NEW Q \in SUBSET (Written \cup Nones), NEW K \in Nat, K <= Farthest,
         K <= Latest, NEW G, GaveOK(Q, ch.receiver, G, K),
         NEW p, PacketOf(Q, p, N, K)
  PROVE  LET res == receive_from_socket(ch, p)
         IN  /\ HalfOK(P, res.channel, M, N)
             /\ res.channel.send_sequence = ch.send_sequence
             /\ HandsOn(Q, res.channel.receiver, G, res.messages, K)
             /\ K <= receive_window_size => Keeps(ch.receiver, res.channel.receiver)
<1> DEFINE nacked == [ch EXCEPT !.nacked = @ \cup p.nacks]
           result == receive_packet(ch.receiver, p.sequence, p)
           got    == [nacked EXCEPT !.receiver = result.receiver]
           res    == receive_from_socket(ch, p)
<1>0. K < U16_MAX
  BY Bounds
<1>1. DOMAIN ch = ChannelFields /\ p.nacks \subseteq 1 .. N
  <2>1. DOMAIN ch = ChannelFields
    BY DEF HalfOK
  <2>2. p \in Q => p.nacks = {}
    BY CarriedType
  <2> QED
    BY <2>1, <2>2 DEF PacketOf
<1>2. /\ DOMAIN nacked = ChannelFields /\ nacked.receiver = ch.receiver
      /\ nacked.send_sequence = ch.send_sequence
      /\ nacked.buffers = ch.buffers /\ nacked.nacked = ch.nacked \cup p.nacks
  BY <1>1 DEF ChannelFields
<1>3. HalfOK(P, nacked, M, N)
  <2>1. nacked.nacked \subseteq 1 .. N
    BY <1>1, <1>2 DEF HalfOK
  <2> HIDE DEF nacked
  <2> QED
    BY <1>2, <2>1, HalfSame
<1> HIDE DEF nacked, result
<1>4. /\ DOMAIN got = ChannelFields /\ got.receiver = result.receiver
      /\ got.send_sequence = nacked.send_sequence
      /\ got.buffers = nacked.buffers /\ got.nacked = nacked.nacked
  BY <1>2 DEF ChannelFields
<1> HIDE DEF got
<1>5. HalfOK(P, got, M, N)
  <2>1. got.nacked \subseteq 1 .. N
    BY <1>3, <1>4 DEF HalfOK
  <2> QED
    BY <1>3, <1>4, <2>1, HalfSame
<1>7. res = IF p.type = NACK THEN [messages |-> << >>, channel |-> nacked]
            ELSE IF p.type # NONE /\ result.accepted THEN receive_published(got)
            ELSE [messages |-> << >>, channel |-> got]
  BY DEF receive_from_socket, nacked, got, result
<1> HIDE DEF res
<1>8. /\ HalfOK(P, res.channel, M, N)
      /\ res.channel.send_sequence = ch.send_sequence
      /\ HandsOn(Q, res.channel.receiver, G, res.messages, K)
      /\ K <= receive_window_size => Keeps(ch.receiver, res.channel.receiver)
  <2>1. CASE p.type = NACK
    <3>1. res.messages = << >> /\ res.channel = nacked
      BY <1>7, <2>1
    <3>2. HandsOn(Q, ch.receiver, G, << >>, K) /\ Keeps(ch.receiver, ch.receiver)
      BY HandsNone DEF Keeps
    <3> QED
      BY <1>2, <1>3, <3>1, <3>2
  <2>2. CASE p.type # NACK
    <3>1. p \in Q /\ p.sequence <= K
      BY <2>2 DEF PacketOf
    <3>2. GaveOK(Q, got.receiver, G, K)
      <4>1. p.sequence >= 1 /\ Numbers(Q)
        BY <3>1, CarriedType, CarriedNumbers
      <4>2. GaveOK(Q, receive_packet(ch.receiver, p.sequence, p).receiver, G, K)
        BY <3>1, <4>1, GaveReceive
      <4> QED
        BY <1>4, <4>2 DEF result
    <3>3. K <= receive_window_size => Keeps(ch.receiver, got.receiver)
      BY <1>0, <1>4, ReceiveKeeps DEF result
    <3>4. CASE p.type # NONE /\ result.accepted
      <4>1. res = receive_published(got)
        BY <1>7, <2>2, <3>4
      <4>2. /\ HalfOK(P, res.channel, M, N)
            /\ res.channel.send_sequence = got.send_sequence
            /\ HandsOn(Q, res.channel.receiver, G, res.messages, K)
            /\ Keeps(got.receiver, res.channel.receiver)
        BY <1>0, <1>5, <3>2, <4>1, HalfTake
      <4>3. K <= receive_window_size => Keeps(ch.receiver, res.channel.receiver)
        BY <3>3, <4>2 DEF Keeps
      <4> QED
        BY <1>2, <1>4, <4>2, <4>3
    <3>5. CASE ~ (p.type # NONE /\ result.accepted)
      <4>1. res.messages = << >> /\ res.channel = got
        BY <1>7, <2>2, <3>5
      <4>2. HandsOn(Q, got.receiver, G, << >>, K)
        BY <3>2, HandsNone
      <4> QED
        BY <1>2, <1>4, <1>5, <3>3, <4>1, <4>2
    <3> QED
      BY <3>4, <3>5
  <2> QED
    BY <2>1, <2>2
<1> QED
  BY <1>8 DEF res

\* What resend_nacked sends again: the packet, or a NONE of the same sequence
LEMMA HalfResend ==
  ASSUME NEW P, Resendable(P), NEW M \in Nat, NEW N \in Nat,
         M < SEND_BUFFER_SIZE, N < SEND_BUFFER_SIZE, N < U16_MAX,
         NEW ch, HalfOK(P, ch, M, N), NEW s \in ch.nacked
  PROVE  /\ resend(ch, s) \in P \cup Nones
         /\ resend(ch, s).sequence = s /\ s \in 1 .. N
         /\ s <= ch.send_sequence => resend(ch, s) \in P
<1> DEFINE p == ch.buffers[s]
           sent == resend(ch, s)
<1>1. /\ ch.send_sequence \in Nat /\ ch.send_sequence <= M
      /\ s \in 1 .. N /\ s \in Nat /\ SEND_BUFFER_SIZE \in Nat
  BY ChannelAssumption DEF HalfOK
<1>2. SendSlot(s) = s
  BY <1>1, SendSlotIs
<1>3. CASE s <= ch.send_sequence
  <2>1. s \in 1 .. ch.send_sequence
    BY <1>1, <1>3
  <2>2. p \in P /\ p.sequence = s
    BY <2>1 DEF HalfOK
  <2> HIDE DEF p
  <2>3. p # None
    BY <2>2, CarriedType DEF Resendable
  <2>4. sent = IF p.type = RELIABLE_WITH_NACK
               THEN Packet(RELIABLE, p.sequence, p.body, TRUE, {})
               ELSE p
    BY <1>2, <2>3 DEF resend, p
  <2> DEFINE again == Packet(RELIABLE, p.sequence, p.body, TRUE, {})
  <2>5. again \in P
    BY <2>2 DEF Resendable
  <2>6. again.sequence = s
    BY <2>2 DEF Packet
  <2> HIDE DEF again, sent
  <2>7. sent = again \/ sent = p
    BY <2>4 DEF again
  <2>8. sent \in P /\ sent.sequence = s
    BY <2>2, <2>5, <2>6, <2>7
  <2> QED
    BY <1>1, <2>8 DEF sent
<1>4. CASE ~ (s <= ch.send_sequence)
  <2>1. s \in ch.send_sequence + 1 .. SEND_BUFFER_SIZE - 1
    BY <1>1, <1>4
  <2>2. p = None
    BY <2>1 DEF HalfOK
  <2>3. sent = Packet(NONE, s, None, FALSE, {})
    BY <1>2, <2>2 DEF resend
  <2>4. s \in SeqNo /\ s # 0
    BY <1>1, Bounds DEF SeqNo
  <2>5. sent \in Nones /\ sent.sequence = s
    BY <2>3, <2>4 DEF Packet, Nones, ChannelPackets
  <2> QED
    BY <1>1, <1>4, <2>5
<1> QED
  BY <1>3, <1>4

(***************************************************************************)
(* update: the channel it leaves and what it sends to the peer.  While     *)
(* only what was sent is asked for, no NONE is sent.                       *)
(***************************************************************************)
LEMMA HalfUpdate ==
  ASSUME NEW P, Resendable(P), NEW M \in Nat, NEW N \in Nat,
         M < SEND_BUFFER_SIZE, N < SEND_BUFFER_SIZE, N < U16_MAX,
         NEW ch, HalfOK(P, ch, M, N),
         NEW Q, Numbers(Q), NEW K \in Nat, K < U16_MAX,
         NEW G, GaveOK(Q, ch.receiver, G, K)
  PROVE  /\ HalfOK(P, update(ch), M, 0)
         /\ update(ch).send_sequence = ch.send_sequence
         /\ GaveOK(Q, update(ch).receiver, G, K)
         /\ Keeps(ch.receiver, update(ch).receiver)
         /\ \A p \in update_sends(ch) :
              /\ PacketOf(P \cup Nones, p, K, N)
              /\ N <= ch.send_sequence => PacketOf(P, p, K, N)
<1> DEFINE c == update(ch)
<1>1. DOMAIN ch = ChannelFields
  BY DEF HalfOK
<1>2. /\ DOMAIN c = ChannelFields /\ c.send_sequence = ch.send_sequence
      /\ c.buffers = ch.buffers /\ c.nacked = {}
      /\ c.receiver = publish(ch.receiver)
  BY <1>1 DEF update, ChannelFields
<1> HIDE DEF c
<1>3. HalfOK(P, c, M, 0)
  BY <1>2, HalfSame
<1>4. GaveOK(Q, c.receiver, G, K) /\ Keeps(ch.receiver, c.receiver)
  BY <1>2, GavePublish, GaveParts, PublishKeeps
<1>5. ASSUME NEW p \in update_sends(ch)
      PROVE  /\ PacketOf(P \cup Nones, p, K, N)
             /\ N <= ch.send_sequence => PacketOf(P, p, K, N)
  <2> DEFINE nacks == create_nacks(ch.receiver)
  <2>1. CASE p \in nack_packets(nacks)
    <3>1. p = Packet(NACK, 0, None, FALSE, nacked_sequences(nacks))
      BY <2>1 DEF nack_packets
    <3> DEFINE S == nacked_sequences(nacks)
    <3>2. S \subseteq 1 .. K
      BY GaveSound
    <3> HIDE DEF S, nacks
    <3>3. S \in SUBSET SeqNo /\ 0 \in SeqNo
      BY <3>2, Bounds DEF SeqNo
    <3>4. p = Packet(NACK, 0, None, FALSE, S)
      BY <3>1 DEF S
    <3>5. p \in ChannelPackets /\ p.type = NACK /\ p.nacks = S
      BY <3>3, <3>4 DEF Packet, ChannelPackets
    <3> QED
      BY <3>2, <3>5 DEF PacketOf
  <2>2. CASE p \in {resend(ch, s) : s \in ch.nacked}
    <3>1. PICK s \in ch.nacked : p = resend(ch, s)
      BY <2>2
    <3>2. /\ p \in P \cup Nones /\ p.sequence = s /\ s \in 1 .. N
          /\ s <= ch.send_sequence => p \in P
      BY <3>1, HalfResend
    <3>3. p.sequence <= N /\ (N <= ch.send_sequence => s <= ch.send_sequence)
      BY <3>2 DEF HalfOK
    <3> QED
      BY <3>2, <3>3 DEF PacketOf
  <2> QED
    BY <1>5, <2>1, <2>2 DEF update_sends
<1> QED
  BY <1>2, <1>3, <1>4, <1>5 DEF c

\* The packet of the next message
LEMMA NextPacket ==
  ASSUME NEW P, NEW M \in Nat, M < SEND_BUFFER_SIZE, M < U16_MAX - 1,
         NEW N, NEW ch, HalfOK(P, ch, M, N), ch.send_sequence < M,
         NEW body \in Nat, NEW stale
  PROVE  LET p == reliable_packet(ch, body, stale)
         IN  /\ p \in Written /\ p.sequence = ch.send_sequence + 1
             /\ p.body = body
<1> DEFINE S == ch.send_sequence + 1
           p == reliable_packet(ch, body, stale)
<1>1. /\ ch.send_sequence \in Nat /\ S \in Nat /\ S >= 1 /\ S <= M
      /\ S < SEND_BUFFER_SIZE /\ SEND_BUFFER_SIZE \in Nat
      /\ S \in SeqNo /\ U16_MAX \in Nat /\ S # 0
  BY SequenceAssumption, ChannelAssumption DEF HalfOK, SeqNo
<1>2. next_sequence(ch.send_sequence) = S
  BY <1>1 DEF next_sequence
<1>3. SendSlot(S) = S
  BY <1>1, SendSlotIs
<1>4. ch.buffers[S] = None
  BY <1>1 DEF HalfOK
<1> HIDE DEF S
<1>5. \/ p = Packet(RELIABLE_WITH_NACK, S, body, FALSE, {})
      \/ p = Packet(RELIABLE, S, body, FALSE, {})
  BY <1>2, <1>3, <1>4 DEF reliable_packet
<1> HIDE DEF p
<1>6. /\ p.type \in {RELIABLE, RELIABLE_WITH_NACK} /\ p.sequence = S
      /\ p.body = body /\ p.padded = FALSE /\ p.nacks = {}
      /\ p = [type |-> p.type, sequence |-> S, body |-> body, padded |-> FALSE,
              nacks |-> {}]
  BY <1>5 DEF Packet
<1>7. p \in ChannelPackets
  BY <1>1, <1>6 DEF ChannelPackets
<1>8. p \in Written
  BY <1>1, <1>6, <1>7 DEF Written
<1> QED
  BY <1>6, <1>8 DEF S, p

\* send_reliable of the next packet
LEMMA HalfSend ==
  ASSUME NEW P, NEW M \in Nat, NEW N, M < SEND_BUFFER_SIZE,
         NEW ch, HalfOK(P, ch, M, N), NEW p \in P,
         p.sequence = ch.send_sequence + 1, p.sequence <= M
  PROVE  LET c == send_reliable(ch, p)
         IN  /\ HalfOK(P, c, M, N) /\ c.send_sequence = p.sequence
             /\ c.nacked = ch.nacked /\ c.receiver = ch.receiver
<1> DEFINE S == p.sequence
           c == send_reliable(ch, p)
<1>1. /\ ch.send_sequence \in Nat /\ S = ch.send_sequence + 1 /\ S \in Nat
      /\ S >= 1 /\ S <= M /\ S < SEND_BUFFER_SIZE /\ SEND_BUFFER_SIZE \in Nat
  BY ChannelAssumption DEF HalfOK
<1>2. SendSlot(S) = S
  BY <1>1, SendSlotIs
<1>3. DOMAIN ch = ChannelFields
  BY DEF HalfOK
<1>4. /\ DOMAIN c = ChannelFields /\ c.send_sequence = S
      /\ c.buffers = [ch.buffers EXCEPT ![S] = p]
      /\ c.nacked = ch.nacked /\ c.receiver = ch.receiver
  BY <1>2, <1>3 DEF send_reliable, ChannelFields
<1> HIDE DEF c, S
<1>5. HalfOK(P, c, M, N)
  <2>1. /\ ch.buffers \in [0 .. SEND_BUFFER_SIZE - 1 -> P \cup {None}]
        /\ S \in 0 .. SEND_BUFFER_SIZE - 1
    BY <1>1 DEF HalfOK
  <2>2. c.buffers \in [0 .. SEND_BUFFER_SIZE - 1 -> P \cup {None}]
    BY <1>4, <2>1
  <2>3. \A i \in 0 .. SEND_BUFFER_SIZE - 1 :
           c.buffers[i] = IF i = S THEN p ELSE ch.buffers[i]
    BY <1>4, <2>1
  <2>4. ASSUME NEW i \in 1 .. S
        PROVE  c.buffers[i] \in P /\ c.buffers[i].sequence = i
    <3>1. i \in 0 .. SEND_BUFFER_SIZE - 1 /\ (i # S => i \in 1 .. ch.send_sequence)
      BY <1>1
    <3>2. \A k \in 1 .. ch.send_sequence :
             ch.buffers[k] \in P /\ ch.buffers[k].sequence = k
      BY DEF HalfOK
    <3> QED
      BY <2>3, <3>1, <3>2 DEF S
  <2>5. ASSUME NEW i \in S + 1 .. SEND_BUFFER_SIZE - 1 PROVE c.buffers[i] = None
    <3>1. /\ i \in 0 .. SEND_BUFFER_SIZE - 1 /\ i # S
          /\ i \in ch.send_sequence + 1 .. SEND_BUFFER_SIZE - 1
      BY <1>1
    <3> QED
      BY <2>3, <3>1 DEF HalfOK
  <2>6. c.nacked \subseteq 1 .. N /\ S \in 0 .. M
    BY <1>1, <1>4 DEF HalfOK
  <2> QED
    BY <1>4, <2>2, <2>4, <2>5, <2>6 DEF HalfOK
<1> QED
  BY <1>4, <1>5 DEF S, c

\* A new channel
LEMMA HalfStart ==
  ASSUME NEW P, NEW M \in Nat, NEW N, NEW o
  PROVE  LET ch == create_channel(o)
         IN  /\ HalfOK(P, ch, M, N) /\ ch.send_sequence = 0 /\ ch.nacked = {}
             /\ ch.receiver = create(o)
<1> DEFINE ch == create_channel(o)
<1>1. /\ DOMAIN ch = ChannelFields /\ ch.receiver = create(o)
      /\ ch.send_sequence = 0 /\ ch.nacked = {}
      /\ ch.buffers = [i \in 0 .. SEND_BUFFER_SIZE - 1 |-> None]
  BY DEF create_channel, ChannelFields
<1> HIDE DEF ch
<1>2. ch.send_sequence \in 0 .. M /\ ch.nacked \subseteq 1 .. N
  BY <1>1
<1>3. /\ \A i \in 1 .. ch.send_sequence : FALSE
      /\ \A i \in ch.send_sequence + 1 .. SEND_BUFFER_SIZE - 1 : ch.buffers[i] = None
  BY <1>1, ChannelAssumption
<1>4. HalfOK(P, ch, M, N)
  BY <1>1, <1>2, <1>3 DEF HalfOK
<1> QED
  BY <1>1, <1>4 DEF ch

=============================================================================
