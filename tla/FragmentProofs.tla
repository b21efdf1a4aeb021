--------------------------- MODULE FragmentProofs ---------------------------
(***************************************************************************)
(* Theorems about FragmentSpec: messages sent whole or in fragments, for   *)
(* any ring, buffer, window, sizes of messages and reordering within       *)
(* FragmentAssumption, and any number of packets within one turn of the    *)
(* ring.                                                                   *)
(*                                                                         *)
(* The argument has three parts: what the sender has laid out, what        *)
(* assemble makes of the fragments stored, and the queue between the       *)
(* receiver and the application.                                           *)
(***************************************************************************)
EXTENDS FragmentSpec, ReceiverLemmas

(***************************************************************************)
(* One turn of the ring, 65532 packets in the code: the sequences and the  *)
(* group ids of different messages are different.  After that a group id   *)
(* is used again, and fragments left from its first use would be taken for *)
(* fragments of the new message.                                           *)
(***************************************************************************)
OneTurn == MaxPackets + 3 <= U16_MAX

-----------------------------------------------------------------------------
(***************************************************************************)
(* What the sender has laid out.                                           *)
(***************************************************************************)
Chunk == Nat \X Nat

\* The message a packet belongs to
MessageIn(p) == IF p.type = RELIABLE THEN p.body[1][1] ELSE p.body[1]

\* Packet n of S is message m of M, whole.
WholeAt(S, M, n) ==
  LET m == MessageIn(S[n])
  IN  /\ S[n].type = RELIABLE
      /\ m \in DOMAIN M
      /\ S[n].body = M[m] /\ M[m] = << <<m, 1>> >>

\* The numbers of the packets of the group that the header p is from
GroupAt(p) == p.start .. p.start + p.count - 1

\* Packet n of S is a fragment of message m of M, whose group is all there.
FragmentAt(S, M, n) ==
  LET p == S[n]
      m == MessageIn(p)
  IN  /\ p.type = FRAGMENT
      /\ m \in DOMAIN M
      /\ p.start >= 1 /\ p.start + p.count - 1 <= Len(S)
      /\ n \in GroupAt(p)
      /\ p.body = <<m, n - p.start + 1>>
      /\ M[m] = [i \in 1 .. p.count |-> <<m, i>>]
      /\ \A j \in GroupAt(p) :
           /\ S[j].type = FRAGMENT /\ S[j].group = p.group
           /\ S[j].start = p.start /\ S[j].count = p.count
           /\ MessageIn(S[j]) = m

Laid(S, M) ==
  /\ S \in Seq(Packets) /\ M \in Seq(Seq(Chunk))
  /\ \A n \in DOMAIN S : S[n].sequence = n
  /\ \A n \in DOMAIN S : WholeAt(S, M, n) \/ FragmentAt(S, M, n)
  /\ \A m \in DOMAIN M : \E n \in DOMAIN S : MessageIn(S[n]) = m
  /\ \A a, b \in DOMAIN S : a < b => MessageIn(S[a]) <= MessageIn(S[b])
  /\ \A a, b \in DOMAIN S :
       /\ S[a].type = FRAGMENT /\ S[b].type = FRAGMENT
       /\ S[a].group = S[b].group
       => a \in GroupAt(S[b])

\* The groups so far have ids up to g, no more than there are packets.
Grouped(S, g) ==
  /\ g \in Nat /\ g >= 1 /\ g <= Len(S) + 1
  /\ \A n \in DOMAIN S : S[n].type = FRAGMENT => S[n].group <= g

\* What the receiver keeps of a packet
Kept(p) == IF p.type = FRAGMENT THEN [p EXCEPT !.body = None] ELSE p

KeptOf(S) == {Kept(S[n]) : n \in DOMAIN S}

FragmentsOf(S) == {S[n] : n \in {k \in DOMAIN S : S[k].type = FRAGMENT}}

\* What is laid out at n, and what the receiver keeps of it.
LEMMA PacketAt ==
  ASSUME NEW S, NEW M, Laid(S, M), NEW n \in DOMAIN S
  PROVE  /\ S[n] \in Packets /\ S[n].sequence = n
         /\ n \in Nat /\ n >= 1 /\ n <= Len(S) /\ n \in SeqNo
         /\ S[n].type \in {RELIABLE, FRAGMENT}
         /\ S[n].group \in Nat /\ S[n].start \in Nat /\ S[n].count \in Nat
         /\ Kept(S[n]) \in Packets /\ Kept(S[n]) # None
         /\ Kept(S[n]).sequence = n /\ Kept(S[n]).type = S[n].type
         /\ Kept(S[n]).group = S[n].group /\ Kept(S[n]).start = S[n].start
         /\ Kept(S[n]).count = S[n].count
         /\ S[n].type = RELIABLE => Kept(S[n]) = S[n]
         /\ S[n].type = FRAGMENT => Kept(S[n]) = [S[n] EXCEPT !.body = None]
<1> DEFINE p == S[n]
<1>1. /\ S \in Seq(Packets) /\ p.sequence = n /\ DOMAIN S = 1 .. Len(S)
      /\ Len(S) \in Nat
  BY DEF Laid
<1>2. p \in Packets /\ n \in Nat /\ n >= 1 /\ n <= Len(S)
  BY <1>1
<1> HIDE DEF p
<1>3. /\ p.type \in {RELIABLE, FRAGMENT} /\ p.sequence \in SeqNo
      /\ p.group \in Nat /\ p.start \in SeqNo /\ p.count \in Nat
  BY <1>2 DEF Packets
<1>4. p.start \in Nat
  BY <1>3, SequenceAssumption DEF SeqNo
<1>5. RELIABLE # FRAGMENT
  BY DEF RELIABLE, FRAGMENT
<1>6. /\ Kept(p) \in Packets
      /\ Kept(p).sequence = p.sequence /\ Kept(p).type = p.type
      /\ Kept(p).group = p.group /\ Kept(p).start = p.start
      /\ Kept(p).count = p.count
  BY <1>2 DEF Kept, Packets
<1>7. Kept(p) # None
  BY <1>6, PacketAssumption
<1>8. /\ p.type = RELIABLE => Kept(p) = p
      /\ p.type = FRAGMENT => Kept(p) = [p EXCEPT !.body = None]
  BY <1>5 DEF Kept
<1> QED
  BY <1>1, <1>2, <1>3, <1>4, <1>6, <1>7, <1>8 DEF p

\* Whole or fragment, a packet belongs to a message that was sent.
LEMMA MessageAt ==
  ASSUME NEW S, NEW M, Laid(S, M), NEW n \in DOMAIN S
  PROVE  /\ MessageIn(S[n]) \in DOMAIN M /\ MessageIn(S[n]) \in Nat
         /\ S[n].type = RELIABLE => WholeAt(S, M, n)
         /\ S[n].type = FRAGMENT => FragmentAt(S, M, n)
<1>1. WholeAt(S, M, n) \/ FragmentAt(S, M, n)
  BY DEF Laid
<1>2. MessageIn(S[n]) \in DOMAIN M
  BY <1>1 DEF WholeAt, FragmentAt
<1>3. MessageIn(S[n]) \in Nat
  <2>1. M \in Seq(Seq(Chunk))
    BY DEF Laid
  <2>2. DOMAIN M = 1 .. Len(M) /\ Len(M) \in Nat
    BY <2>1
  <2> QED
    BY <1>2, <2>2
<1>4. RELIABLE # FRAGMENT
  BY DEF RELIABLE, FRAGMENT
<1>5. /\ WholeAt(S, M, n) => S[n].type = RELIABLE
      /\ FragmentAt(S, M, n) => S[n].type = FRAGMENT
  BY DEF WholeAt, FragmentAt
<1> QED
  BY <1>1, <1>2, <1>3, <1>4, <1>5

\* The packets of the group that packet n is in.
InGroup(S, n) == {S[j] : j \in GroupAt(S[n])}

LEMMA GroupSize ==
  ASSUME NEW S, NEW M, Laid(S, M), NEW x \in DOMAIN S, S[x].type = FRAGMENT
  PROVE  /\ IsFiniteSet(InGroup(S, x))
         /\ Cardinality(InGroup(S, x)) = S[x].count
         /\ S[x].count \in Nat /\ S[x].start \in Nat /\ S[x].count >= 1
         /\ GroupAt(S[x]) \subseteq DOMAIN S
<1> DEFINE first == S[x].start
           count == S[x].count
           I     == first .. first + count - 1
           F     == {S[j] : j \in I}
           f     == [j \in I |-> S[j]]
<1>1. /\ first \in Nat /\ count \in Nat /\ S \in Seq(Packets)
      /\ \A n \in DOMAIN S : S[n].sequence = n
  BY PacketAt DEF Laid
<1>2. FragmentAt(S, M, x)
  BY MessageAt
<1>3. first >= 1 /\ first + count - 1 <= Len(S) /\ x \in I
  BY <1>2 DEF FragmentAt, GroupAt
<1>4. I \subseteq DOMAIN S
  BY <1>1, <1>3
<1>5. count >= 1
  BY <1>1, <1>3
<1> HIDE DEF first, count
<1>6. f \in [I -> F]
  OBVIOUS
<1>7. ASSUME NEW a \in I, NEW b \in I, f[a] = f[b] PROVE a = b
  <2>1. S[a] = S[b] /\ a \in DOMAIN S /\ b \in DOMAIN S
    BY <1>4, <1>7
  <2> QED
    BY <1>1, <2>1
<1>8. f \in Injection(I, F)
  BY <1>6, <1>7 DEF Injection, IsInjective
<1>9. f \in Surjection(I, F)
  BY <1>6 DEF Surjection
<1>10. ExistsBijection(I, F)
  BY <1>8, <1>9 DEF ExistsBijection, Bijection
<1>11. IsFiniteSet(I) /\ Cardinality(I) = count
  <2>1. first \in Int /\ first + count - 1 \in Int /\ ~ (first > first + count - 1)
        /\ (first + count - 1) - first + 1 = count
    BY <1>1, <1>5
  <2>2. /\ IsFiniteSet(first .. first + count - 1)
        /\ Cardinality(first .. first + count - 1) =
             IF first > first + count - 1 THEN 0
             ELSE (first + count - 1) - first + 1
    BY <2>1, FS_Interval
  <2> QED
    BY <2>1, <2>2
<1>12. IsFiniteSet(F) /\ Cardinality(F) = count
  <2> HIDE DEF I, F
  <2> QED
    BY <1>10, <1>11, FS_Bijection
<1> QED
  BY <1>1, <1>4, <1>5, <1>12 DEF InGroup, GroupAt, first, count

-----------------------------------------------------------------------------
(***************************************************************************)
(* assemble, on any fragments R that were sent and the header of any       *)
(* fragment x: it succeeds exactly when the whole group is in R, takes the *)
(* group away and gives the message; else nothing changes.  In particular  *)
(* it never takes a group away without giving its message.                 *)
(***************************************************************************)
Assembled(S, M, R, x, joined) ==
  LET F == InGroup(S, x)
  IN  /\ F \subseteq R => /\ joined.ok = TRUE
                          /\ joined.body = M[MessageIn(S[x])]
                          /\ joined.received = R \ F
      /\ ~ (F \subseteq R) => joined.ok = FALSE /\ joined.received = R

LEMMA AssembleGroup ==
  ASSUME NEW S, NEW M, Laid(S, M), NEW R, R \subseteq FragmentsOf(S),
         NEW x \in DOMAIN S, S[x].type = FRAGMENT
  PROVE  Assembled(S, M, R, x, assemble(R, Kept(S[x])))
<1> DEFINE p     == Kept(S[x])
           first == S[x].start
           count == S[x].count
           m     == MessageIn(S[x])
           F     == InGroup(S, x)
           map   == OfGroup(R, p.group)
           seqs  == group_sequences(p)
           all   == \A i \in DOMAIN seqs : \E f \in map : f.sequence = seqs[i]
           joined == assemble(R, p)
<1>1. /\ p.group = S[x].group /\ p.start = first /\ p.count = count
      /\ first \in Nat /\ count \in Nat
      /\ \A n \in DOMAIN S : S[n].sequence = n /\ n \in SeqNo
  BY PacketAt
<1>2. FragmentAt(S, M, x)
  BY MessageAt
<1>3. /\ IsFiniteSet(F) /\ Cardinality(F) = count
      /\ GroupAt(S[x]) \subseteq DOMAIN S /\ count >= 1
  BY GroupSize
<1>4. \A j \in GroupAt(S[x]) : /\ S[j].type = FRAGMENT /\ S[j].group = p.group
                               /\ S[j].start = first /\ S[j].count = count
                               /\ MessageIn(S[j]) = m
  BY <1>1, <1>2 DEF FragmentAt
<1>5. map = R \cap F
  <2>1. ASSUME NEW f \in map PROVE f \in R /\ f \in F
    <3>1. f \in R /\ f.group = p.group
      BY DEF OfGroup
    <3>2. PICK n \in DOMAIN S : f = S[n] /\ S[n].type = FRAGMENT
      BY <3>1 DEF FragmentsOf
    <3>3. n \in GroupAt(S[x])
      BY <1>1, <3>1, <3>2 DEF Laid
    <3> QED
      BY <3>1, <3>2, <3>3 DEF InGroup
  <2>2. ASSUME NEW f \in R, f \in F PROVE f \in map
    <3>1. PICK j \in GroupAt(S[x]) : f = S[j]
      BY <2>2 DEF InGroup
    <3> QED
      BY <1>4, <3>1 DEF OfGroup
  <2> HIDE DEF map, F
  <2> QED
    BY <2>1, <2>2
<1>6. /\ joined = IF Cardinality(map) # p.count
                  THEN [ok |-> FALSE, body |-> << >>, received |-> R]
                  ELSE [ok       |-> all,
                        body     |-> IF all THEN Bodies(map, seqs) ELSE << >>,
                        received |-> R \ map]
  BY DEF assemble
<1> HIDE DEF joined, map
<1>7. CASE ~ (F \subseteq R)
  <2>1. map \in SUBSET F /\ map # F
    BY <1>5, <1>7
  <2>2. Cardinality(map) # Cardinality(F)
    <3> HIDE DEF F
    <3> QED
      BY <1>3, <2>1, FS_Subset
  <2>3. joined = [ok |-> FALSE, body |-> << >>, received |-> R]
    BY <1>1, <1>3, <1>6, <2>2
  <2>4. joined.ok = FALSE /\ joined.received = R
    BY <2>3
  <2> QED
    BY <1>7, <2>4 DEF Assembled, joined
<1>8. CASE F \subseteq R
  <2>1. map = F
    BY <1>5, <1>8
  <2>2. Cardinality(map) = p.count
    BY <1>1, <1>3, <2>1
  <2>3. /\ DOMAIN seqs = 1 .. count
        /\ \A i \in 1 .. count : /\ seqs[i] = first + i - 1
                                 /\ first + i - 1 \in GroupAt(S[x])
    <3>1. DOMAIN seqs = 1 .. count
      BY <1>1 DEF group_sequences
    <3>2. ASSUME NEW i \in 1 .. count
          PROVE  /\ seqs[i] = first + i - 1
                 /\ first + i - 1 \in GroupAt(S[x])
      <4>1. first + i - 1 \in GroupAt(S[x])
        BY <1>1 DEF GroupAt
      <4>2. first + i - 1 \in SeqNo
        BY <1>1, <1>3, <4>1
      <4>3. seqs[i] = ring_plus(first, i - 1)
        BY <1>1 DEF group_sequences
      <4>4. first + (i - 1) < U16_MAX
        BY <1>1, <4>2, SequenceAssumption DEF SeqNo
      <4>5. ring_plus(first, i - 1) = first + i - 1
        BY <1>1, <4>4, SequenceAssumption DEF ring_plus
      <4> QED
        BY <4>1, <4>3, <4>5
    <3> QED
      BY <3>1, <3>2
  <2> HIDE DEF seqs, first, count
  <2>4. ASSUME NEW i \in 1 .. count
        PROVE  /\ S[first + i - 1] \in map
               /\ S[first + i - 1].sequence = seqs[i]
               /\ \A f \in map : f.sequence = seqs[i] => f = S[first + i - 1]
               /\ S[first + i - 1].body = <<m, i>>
    <3> DEFINE j == first + i - 1
    <3>1. j \in GroupAt(S[x]) /\ j \in DOMAIN S /\ seqs[i] = j
      BY <1>3, <2>3
    <3>2. S[j] \in map /\ S[j].sequence = j
      BY <1>1, <2>1, <3>1 DEF InGroup
    <3>3. ASSUME NEW f \in map, f.sequence = j PROVE f = S[j]
      <4>1. PICK n \in GroupAt(S[x]) : f = S[n]
        BY <2>1 DEF InGroup
      <4>2. n = j
        BY <1>1, <1>3, <3>3, <4>1
      <4> QED
        BY <4>1, <4>2
    <3>4. FragmentAt(S, M, j) /\ S[j].start = first /\ MessageIn(S[j]) = m
      BY <1>4, <3>1, MessageAt
    <3>5. S[j].body = <<m, j - first + 1>>
      BY <3>4 DEF FragmentAt
    <3>6. j - first + 1 = i
      BY <1>1
    <3> HIDE DEF j
    <3>7. S[j].body = <<m, i>>
      BY <3>5, <3>6
    <3> QED
      BY <3>1, <3>2, <3>3, <3>7 DEF j
  <2>5. all
    BY <2>3, <2>4
  <2>6. Bodies(map, seqs) = [i \in 1 .. count |-> <<m, i>>]
    <3>1. Bodies(map, seqs) = [i \in 1 .. count |->
             (CHOOSE f \in map : f.sequence = seqs[i]).body]
      BY <2>3 DEF Bodies
    <3>2. ASSUME NEW i \in 1 .. count
          PROVE  (CHOOSE f \in map : f.sequence = seqs[i]) = S[first + i - 1]
      BY <2>4
    <3>3. \A i \in 1 .. count :
             (CHOOSE f \in map : f.sequence = seqs[i]).body = <<m, i>>
      BY <2>4, <3>2
    <3> QED
      BY <3>1, <3>3
  <2>7. M[m] = [i \in 1 .. count |-> <<m, i>>]
    BY <1>2 DEF FragmentAt, count
  <2>8. joined = [ok |-> all, body |-> Bodies(map, seqs), received |-> R \ map]
    BY <1>6, <2>2, <2>5
  <2> HIDE DEF all, F, m
  <2>9. joined.ok = TRUE /\ joined.body = M[m] /\ joined.received = R \ F
    BY <2>1, <2>5, <2>6, <2>7, <2>8
  <2> QED
    BY <1>8, <2>9 DEF Assembled, joined, F, m
<1> QED
  BY <1>7, <1>8

-----------------------------------------------------------------------------
(***************************************************************************)
(* The application's side, when the receiver has accepted the packets acc, *)
(* those of T were taken from its queue, R is stored and D was delivered.  *)
(* A fragment that was accepted is still stored as long as its message was *)
(* not delivered: this is what makes a complete group come out.            *)
(***************************************************************************)
PacketsIn(S, m) == {n \in DOMAIN S : MessageIn(S[n]) = m}

Intact(S, M, T, D) ==
  \A i \in DOMAIN D : \E x \in T : D[i] = M[MessageIn(S[x])]

Stored(S, M, acc, R, D) ==
  \A n \in acc :
    S[n].type = FRAGMENT => S[n] \in R \/ M[MessageIn(S[n])] \in Listed(D)

Given(S, M, T, D) ==
  \A m \in DOMAIN M : PacketsIn(S, m) \subseteq T => M[m] \in Listed(D)

InTurn(D) == \A i, j \in DOMAIN D : i < j => MessageOf(D[i]) <= MessageOf(D[j])

Handing(S, M, o, acc, T, R, D) ==
  /\ T \subseteq acc /\ acc \subseteq DOMAIN S
  /\ R \subseteq FragmentsOf(S)
  /\ D \in Seq(Seq(Chunk))
  /\ Intact(S, M, T, D)
  /\ Stored(S, M, acc, R, D)
  /\ Given(S, M, T, D)
  /\ o => InTurn(D)

\* A message is known by its first chunk.
LEMMA FirstChunk ==
  ASSUME NEW S, NEW M, Laid(S, M), NEW n \in DOMAIN S
  PROVE  /\ M[MessageIn(S[n])] \in Seq(Chunk)
         /\ MessageOf(M[MessageIn(S[n])]) = MessageIn(S[n])
<1> DEFINE m == MessageIn(S[n])
<1>1. m \in DOMAIN M /\ M \in Seq(Seq(Chunk))
  BY MessageAt DEF Laid
<1>2. M[m] \in Seq(Chunk)
  BY <1>1
<1>3. M[m][1] = <<m, 1>>
  <2>1. CASE S[n].type = RELIABLE
    <3>1. M[m] = << <<m, 1>> >>
      BY <2>1, MessageAt DEF WholeAt
    <3> HIDE DEF m
    <3> QED
      BY <3>1
  <2>2. CASE S[n].type = FRAGMENT
    <3>1. M[m] = [i \in 1 .. S[n].count |-> <<m, i>>]
      BY <2>2, MessageAt DEF FragmentAt
    <3>2. S[n].count \in Nat /\ S[n].count >= 1
      BY <2>2, GroupSize
    <3> HIDE DEF m
    <3> QED
      BY <3>1, <3>2
  <2> QED
    BY <2>1, <2>2, PacketAt
<1>4. MessageOf(M[m]) = m
  BY <1>3 DEF MessageOf
<1> QED
  BY <1>2, <1>4

\* A queue with one more at its end
LEMMA OneMore ==
  ASSUME NEW A, NEW D \in Seq(A), NEW e \in A
  PROVE  /\ D \o << e >> \in Seq(A)
         /\ Len(D) \in Nat /\ DOMAIN D = 1 .. Len(D)
         /\ DOMAIN (D \o << e >>) = 1 .. Len(D) + 1
         /\ \A i \in DOMAIN D : (D \o << e >>)[i] = D[i]
         /\ (D \o << e >>)[Len(D) + 1] = e
         /\ Listed(D \o << e >>) = Listed(D) \cup {e}
<1> DEFINE E == D \o << e >>
<1>1. E = Append(D, e)
  BY AppendIsConcat
<1>2. /\ Append(D, e) \in Seq(A)
      /\ Len(Append(D, e)) = Len(D) + 1
      /\ \A i \in 1 .. Len(D) : Append(D, e)[i] = D[i]
      /\ Append(D, e)[Len(D) + 1] = e
  BY AppendProperties
<1> HIDE DEF E
<1>3. /\ Len(D) \in Nat /\ DOMAIN D = 1 .. Len(D)
  OBVIOUS
<1>4. /\ E \in Seq(A) /\ DOMAIN E = 1 .. Len(D) + 1
      /\ \A i \in DOMAIN D : E[i] = D[i]
      /\ E[Len(D) + 1] = e
  BY <1>1, <1>2, <1>3
<1>5. Listed(E) = Listed(D) \cup {e}
  <2>1. ASSUME NEW i \in DOMAIN E PROVE E[i] \in Listed(D) \cup {e}
    <3>1. CASE i = Len(D) + 1
      BY <1>4, <3>1
    <3>2. CASE i \in DOMAIN D
      BY <1>4, <3>2 DEF Listed
    <3> QED
      BY <1>3, <1>4, <3>1, <3>2
  <2>2. ASSUME NEW i \in DOMAIN D PROVE D[i] \in Listed(E)
    <3>1. i \in DOMAIN E /\ E[i] = D[i]
      BY <1>3, <1>4
    <3> QED
      BY <3>1 DEF Listed
  <2>3. e \in Listed(E)
    <3>1. Len(D) + 1 \in DOMAIN E
      BY <1>3, <1>4
    <3> QED
      BY <1>4, <3>1 DEF Listed
  <2>4. Listed(E) \subseteq Listed(D) \cup {e}
    BY <2>1 DEF Listed
  <2>5. Listed(D) \subseteq Listed(E)
    BY <2>2 DEF Listed
  <2> QED
    BY <2>3, <2>4, <2>5
<1> QED
  BY <1>3, <1>4, <1>5 DEF E

(***************************************************************************)
(* Packet x is taken and its message delivered; what is no longer stored   *)
(* afterwards is of this message.                                          *)
(***************************************************************************)
LEMMA GiveOne ==
  ASSUME NEW S, NEW M, Laid(S, M), NEW o, NEW acc, NEW T, NEW R, NEW D,
         Handing(S, M, o, acc, T, R, D),
         NEW x \in acc, o => \A y \in T : y < x,
         NEW Q, Q \subseteq R,
         \A n \in acc : S[n] \in R /\ S[n] \notin Q
                          => MessageIn(S[n]) = MessageIn(S[x])
  PROVE  Handing(S, M, o, acc, T \cup {x}, Q, D \o << M[MessageIn(S[x])] >>)
<1> DEFINE m == MessageIn(S[x])
           e == M[m]
           E == D \o << e >>
           U == T \cup {x}
<1>1. /\ T \subseteq acc /\ acc \subseteq DOMAIN S /\ R \subseteq FragmentsOf(S)
      /\ D \in Seq(Seq(Chunk)) /\ Intact(S, M, T, D)
      /\ Stored(S, M, acc, R, D) /\ Given(S, M, T, D)
      /\ o => InTurn(D)
  BY DEF Handing
<1>2. e \in Seq(Chunk) /\ MessageOf(e) = m /\ m \in Nat
  BY <1>1, FirstChunk, MessageAt
<1> HIDE DEF e
<1>3. /\ E \in Seq(Seq(Chunk))
      /\ Len(D) \in Nat /\ DOMAIN D = 1 .. Len(D)
      /\ DOMAIN E = 1 .. Len(D) + 1
      /\ \A i \in DOMAIN D : E[i] = D[i]
      /\ E[Len(D) + 1] = e
      /\ Listed(E) = Listed(D) \cup {e}
  BY <1>1, <1>2, OneMore
<1> HIDE DEF E
<1>4. Intact(S, M, U, E)
  <2> SUFFICES ASSUME NEW i \in DOMAIN E
               PROVE  \E y \in U : E[i] = M[MessageIn(S[y])]
    BY DEF Intact
  <2>1. CASE i = Len(D) + 1
    BY <1>3, <2>1 DEF e
  <2>2. CASE i \in DOMAIN D
    BY <1>1, <1>3, <2>2 DEF Intact
  <2> QED
    BY <1>3, <2>1, <2>2
<1>5. Stored(S, M, acc, Q, E)
  <2> SUFFICES ASSUME NEW n \in acc, S[n].type = FRAGMENT
               PROVE  S[n] \in Q \/ M[MessageIn(S[n])] \in Listed(E)
    BY DEF Stored
  <2>1. S[n] \in R \/ M[MessageIn(S[n])] \in Listed(D)
    BY <1>1 DEF Stored
  <2>2. CASE S[n] \in R /\ S[n] \notin Q
    BY <1>3, <2>2 DEF e
  <2> QED
    BY <1>3, <2>1, <2>2
<1>6. Given(S, M, U, E)
  <2> SUFFICES ASSUME NEW k \in DOMAIN M, PacketsIn(S, k) \subseteq U
               PROVE  M[k] \in Listed(E)
    BY DEF Given
  <2>1. CASE k = m
    BY <1>3, <2>1 DEF e
  <2>2. CASE k # m
    <3>1. x \notin PacketsIn(S, k)
      BY <2>2 DEF PacketsIn
    <3> QED
      BY <1>1, <1>3, <3>1 DEF Given
  <2> QED
    BY <2>1, <2>2
<1>7. ASSUME o PROVE InTurn(E)
  <2> SUFFICES ASSUME NEW i \in DOMAIN E, NEW j \in DOMAIN E, i < j
               PROVE  MessageOf(E[i]) <= MessageOf(E[j])
    BY DEF InTurn
  <2>1. CASE j \in DOMAIN D
    <3>1. i \in DOMAIN D
      BY <1>3, <2>1
    <3> QED
      BY <1>1, <1>3, <1>7, <2>1, <3>1 DEF InTurn
  <2>2. CASE j = Len(D) + 1
    <3>1. i \in DOMAIN D
      BY <1>3, <2>2
    <3>2. PICK y \in T : D[i] = M[MessageIn(S[y])]
      BY <1>1, <3>1 DEF Intact
    <3>3. y < x /\ y \in DOMAIN S /\ x \in DOMAIN S
      BY <1>1, <1>7
    <3>4. MessageIn(S[y]) <= m
      BY <3>3 DEF Laid
    <3>5. MessageOf(D[i]) = MessageIn(S[y])
      BY <3>2, <3>3, FirstChunk
    <3> QED
      BY <1>2, <1>3, <2>2, <3>1, <3>4, <3>5
  <2> QED
    BY <1>3, <2>1, <2>2
<1>8. U \subseteq acc /\ Q \subseteq FragmentsOf(S)
  BY <1>1
<1>9. Handing(S, M, o, acc, U, Q, E)
  BY <1>1, <1>3, <1>4, <1>5, <1>6, <1>7, <1>8 DEF Handing
<1> QED
  BY <1>9 DEF E, e

(***************************************************************************)
(* Fragment x is taken while its group is not all stored.  If x was the    *)
(* last of the group to be taken, one of the others is no longer stored,   *)
(* and so the message was delivered before.                                *)
(***************************************************************************)
LEMMA GiveNone ==
  ASSUME NEW S, NEW M, Laid(S, M), NEW o, NEW acc, NEW T, NEW R, NEW D,
         Handing(S, M, o, acc, T, R, D),
         NEW x \in acc, S[x].type = FRAGMENT, ~ (InGroup(S, x) \subseteq R)
  PROVE  Handing(S, M, o, acc, T \cup {x}, R, D)
<1> DEFINE m == MessageIn(S[x])
           U == T \cup {x}
<1>1. /\ T \subseteq acc /\ acc \subseteq DOMAIN S /\ R \subseteq FragmentsOf(S)
      /\ D \in Seq(Seq(Chunk)) /\ Intact(S, M, T, D)
      /\ Stored(S, M, acc, R, D) /\ Given(S, M, T, D)
      /\ o => InTurn(D)
  BY DEF Handing
<1>2. Intact(S, M, U, D)
  BY <1>1 DEF Intact
<1>3. Given(S, M, U, D)
  <2> SUFFICES ASSUME NEW k \in DOMAIN M, PacketsIn(S, k) \subseteq U
               PROVE  M[k] \in Listed(D)
    BY DEF Given
  <2>1. CASE k = m
    <3>1. PICK f \in InGroup(S, x) : f \notin R
      OBVIOUS
    <3>2. PICK j \in GroupAt(S[x]) : f = S[j]
      BY DEF InGroup
    <3>3. j \in DOMAIN S
      BY <1>1, GroupSize
    <3>4. S[j].type = FRAGMENT /\ MessageIn(S[j]) = m
      <4>1. FragmentAt(S, M, x)
        BY <1>1, MessageAt
      <4> QED
        BY <3>2, <4>1 DEF FragmentAt
    <3>5. j \in acc
      BY <1>1, <2>1, <3>3, <3>4 DEF PacketsIn
    <3> QED
      BY <1>1, <2>1, <3>1, <3>2, <3>4, <3>5 DEF Stored
  <2>2. CASE k # m
    <3>1. x \notin PacketsIn(S, k)
      BY <2>2 DEF PacketsIn
    <3> QED
      BY <1>1, <3>1 DEF Given
  <2> QED
    BY <2>1, <2>2
<1>4. U \subseteq acc
  BY <1>1
<1> QED
  BY <1>1, <1>2, <1>3, <1>4 DEF Handing

-----------------------------------------------------------------------------
(***************************************************************************)
(* receive_published.  Its queue pub has the kept packets of numbers in    *)
(* acc, on an ordered channel upwards and after all that was taken.        *)
(***************************************************************************)
Queued(S, o, acc, T, pub) ==
  /\ pub \in Seq(KeptOf(S))
  /\ \A i \in DOMAIN pub : pub[i].sequence \in acc
  /\ o => /\ \A y \in T, i \in DOMAIN pub : y < pub[i].sequence
          /\ \A i, j \in DOMAIN pub : i < j => pub[i].sequence < pub[j].sequence

\* The numbers of the first g packets of the queue
FirstOf(pub, g) == {pub[j].sequence : j \in 1 .. g}

\* One pass of receive_published, and the state before the first
Pass(w) == IF w.messages = << >> THEN receive_published_internal(w) ELSE w

PassStart(pub, R) == [published |-> pub, received |-> R, messages |-> << >>]

\* After i passes: g packets are gone, all i of them as long as none gave a message.
PassedAt(S, M, o, acc, T, D, pub, i, w) ==
  /\ DOMAIN w = {"published", "received", "messages"}
  /\ w.messages \in Seq(Seq(Chunk))
  /\ \E g \in 0 .. i :
       /\ w.published = SubSeq(pub, g + 1, Len(pub))
       /\ w.messages = << >> => g = i
       /\ Handing(S, M, o, acc, T \cup FirstOf(pub, g), w.received,
                  D \o w.messages)

\* The packet at the front is handled.
LEMMA InternalOK ==
  ASSUME NEW S, NEW M, Laid(S, M), NEW o, NEW acc, NEW T, NEW R, NEW D,
         Handing(S, M, o, acc, T, R, D),
         NEW x \in acc, o => \A y \in T : y < x,
         NEW w, DOMAIN w = {"published", "received", "messages"},
         w.received = R, w.messages = << >>, Head(w.published) = Kept(S[x])
  PROVE  LET v == receive_published_internal(w)
         IN  /\ DOMAIN v = {"published", "received", "messages"}
             /\ v.published = Tail(w.published)
             /\ v.messages \in Seq(Seq(Chunk))
             /\ Handing(S, M, o, acc, T \cup {x}, v.received, D \o v.messages)
<1> DEFINE p == Kept(S[x])
           v == receive_published_internal(w)
           joined == assemble(R, p)
           e == M[MessageIn(S[x])]
<1>1. /\ acc \subseteq DOMAIN S /\ R \subseteq FragmentsOf(S)
      /\ D \in Seq(Seq(Chunk)) /\ x \in DOMAIN S
  BY DEF Handing
<1>2. /\ p.type = S[x].type /\ S[x].type \in {RELIABLE, FRAGMENT}
      /\ RELIABLE # FRAGMENT
      /\ S[x].type = RELIABLE => p = S[x]
  BY <1>1, PacketAt DEF RELIABLE, FRAGMENT
<1>3. e \in Seq(Chunk) /\ << e >> \in Seq(Seq(Chunk))
  BY <1>1, FirstChunk
<1>4. D \o << >> = D /\ << >> \in Seq(Seq(Chunk))
  BY <1>1
<1>5. CASE S[x].type = RELIABLE
  <2>1. p.body = e
    BY <1>1, <1>2, <1>5, MessageAt DEF WholeAt
  <2>2. v = [w EXCEPT !.published = Tail(@), !.messages = << p.body >>]
    BY <1>2, <1>5 DEF receive_published_internal
  <2> HIDE DEF p, e
  <2>3. /\ DOMAIN v = {"published", "received", "messages"}
        /\ v.published = Tail(w.published)
        /\ v.received = R /\ v.messages = << e >>
    BY <2>1, <2>2
  <2>4. Handing(S, M, o, acc, T \cup {x}, R, D \o << e >>)
    BY GiveOne DEF e
  <2> QED
    BY <1>3, <2>3, <2>4
<1>6. CASE S[x].type = FRAGMENT
  <2>1. v = [published |-> Tail(w.published),
             received  |-> joined.received,
             messages  |-> IF joined.ok THEN << joined.body >> ELSE << >>]
    BY <1>2, <1>6 DEF receive_published_internal
  <2>2. Assembled(S, M, R, x, joined)
    BY <1>1, <1>6, AssembleGroup
  <2> HIDE DEF joined, v
  <2>3. /\ DOMAIN v = {"published", "received", "messages"}
        /\ v.published = Tail(w.published)
        /\ v.received = joined.received
        /\ v.messages = IF joined.ok THEN << joined.body >> ELSE << >>
    BY <2>1
  <2>4. CASE InGroup(S, x) \subseteq R
    <3>1. /\ joined.ok = TRUE /\ joined.body = e
          /\ joined.received = R \ InGroup(S, x)
      BY <2>2, <2>4 DEF Assembled
    <3>2. v.messages = << e >> /\ v.received = R \ InGroup(S, x)
      BY <2>3, <3>1
    <3>3. ASSUME NEW n \in acc, S[n] \in R, S[n] \notin R \ InGroup(S, x)
          PROVE  MessageIn(S[n]) = MessageIn(S[x])
      <4>1. PICK j \in GroupAt(S[x]) : S[n] = S[j]
        BY <3>3 DEF InGroup
      <4>2. MessageIn(S[j]) = MessageIn(S[x])
        BY <1>1, <1>6, MessageAt DEF FragmentAt
      <4> QED
        BY <4>1, <4>2
    <3>4. Handing(S, M, o, acc, T \cup {x}, R \ InGroup(S, x), D \o << e >>)
      <4> DEFINE Q == R \ InGroup(S, x)
      <4>1. /\ Q \subseteq R
            /\ \A n \in acc : S[n] \in R /\ S[n] \notin Q
                                => MessageIn(S[n]) = MessageIn(S[x])
        BY <3>3
      <4> HIDE DEF Q
      <4>2. Handing(S, M, o, acc, T \cup {x}, Q, D \o << e >>)
        BY <4>1, GiveOne
      <4> QED
        BY <4>2 DEF Q
    <3> QED
      BY <1>3, <2>3, <3>2, <3>4 DEF v
  <2>5. CASE ~ (InGroup(S, x) \subseteq R)
    <3>1. joined.ok = FALSE /\ joined.received = R
      BY <2>2, <2>5 DEF Assembled
    <3>2. v.messages = << >> /\ v.received = R
      BY <2>3, <3>1
    <3>3. Handing(S, M, o, acc, T \cup {x}, R, D)
      BY <1>6, <2>5, GiveNone
    <3> QED
      BY <1>4, <2>3, <3>2, <3>3 DEF v
  <2> QED
    BY <2>4, <2>5
<1> QED
  BY <1>2, <1>5, <1>6

LEMMA PassOK ==
  ASSUME NEW S, NEW M, Laid(S, M), NEW o, NEW acc, acc \subseteq DOMAIN S,
         NEW T, NEW D \in Seq(Seq(Chunk)),
         NEW pub, Queued(S, o, acc, T, pub),
         NEW i \in 0 .. Len(pub) - 1, NEW w,
         PassedAt(S, M, o, acc, T, D, pub, i, w)
  PROVE  PassedAt(S, M, o, acc, T, D, pub, i + 1, Pass(w))
<1>1. /\ DOMAIN w = {"published", "received", "messages"}
      /\ w.messages \in Seq(Seq(Chunk))
  BY DEF PassedAt
<1>2. PICK g \in 0 .. i :
         /\ w.published = SubSeq(pub, g + 1, Len(pub))
         /\ w.messages = << >> => g = i
         /\ Handing(S, M, o, acc, T \cup FirstOf(pub, g), w.received,
                    D \o w.messages)
  BY DEF PassedAt
<1>3. pub \in Seq(KeptOf(S)) /\ Len(pub) \in Nat /\ DOMAIN pub = 1 .. Len(pub)
  BY DEF Queued
<1>4. CASE w.messages # << >>
  <2>1. Pass(w) = w
    BY <1>4 DEF Pass
  <2>2. g \in 0 .. i + 1
    BY <1>3
  <2>3. PassedAt(S, M, o, acc, T, D, pub, i + 1, w)
    BY <1>1, <1>2, <1>4, <2>2 DEF PassedAt
  <2> QED
    BY <2>1, <2>3
<1>5. CASE w.messages = << >>
  <2> DEFINE x == pub[i + 1].sequence
             U == T \cup FirstOf(pub, i)
             v == receive_published_internal(w)
  <2>1. g = i /\ D \o w.messages = D
    BY <1>2, <1>5
  <2>2. Handing(S, M, o, acc, U, w.received, D)
    BY <1>2, <2>1
  <2>3. /\ i + 1 \in 1 .. Len(pub) /\ i + 1 \in DOMAIN pub
        /\ Len(pub) \in i + 1 .. Len(pub) /\ i \in Nat
    BY <1>3
  <2>4. x \in acc /\ x \in DOMAIN S
    BY <2>3 DEF Queued
  <2>5. pub[i + 1] = Kept(S[x])
    <3>1. pub[i + 1] \in KeptOf(S)
      BY <1>3, <2>3
    <3>2. PICK n \in DOMAIN S : pub[i + 1] = Kept(S[n])
      BY <3>1 DEF KeptOf
    <3>3. Kept(S[n]).sequence = n
      BY PacketAt
    <3> QED
      BY <3>2, <3>3
  <2>6. /\ Head(w.published) = pub[i + 1]
        /\ Tail(w.published) = SubSeq(pub, (i + 1) + 1, Len(pub))
    BY <1>2, <1>3, <2>1, <2>3, HeadTailOfSubSeq
  <2>7. ASSUME o, NEW y \in U PROVE y < x
    <3>1. CASE y \in T
      BY <2>3, <2>7, <3>1 DEF Queued
    <3>2. CASE y \in FirstOf(pub, i)
      <4>1. PICK j \in 1 .. i : y = pub[j].sequence
        BY <3>2 DEF FirstOf
      <4>2. j \in DOMAIN pub /\ j < i + 1
        BY <1>3, <2>3
      <4> QED
        BY <2>3, <2>7, <4>1, <4>2 DEF Queued
    <3> QED
      BY <3>1, <3>2
  <2>8. U \cup {x} = T \cup FirstOf(pub, i + 1)
    <3>1. 1 .. i + 1 = (1 .. i) \cup {i + 1}
      BY <2>3
    <3> QED
      BY <3>1 DEF FirstOf
  <2> HIDE DEF x, U
  <2>9. /\ DOMAIN v = {"published", "received", "messages"}
        /\ v.published = Tail(w.published)
        /\ v.messages \in Seq(Seq(Chunk))
        /\ Handing(S, M, o, acc, U \cup {x}, v.received, D \o v.messages)
    BY <1>1, <1>5, <2>2, <2>4, <2>5, <2>6, <2>7, InternalOK
  <2>10. Pass(w) = v
    BY <1>5 DEF Pass
  <2> HIDE DEF v
  <2>11. PassedAt(S, M, o, acc, T, D, pub, i + 1, v)
    <3>1. i + 1 \in 0 .. i + 1
      BY <2>3
    <3>2. v.published = SubSeq(pub, (i + 1) + 1, Len(pub))
      BY <2>6, <2>9
    <3>3. Handing(S, M, o, acc, T \cup FirstOf(pub, i + 1), v.received,
                  D \o v.messages)
      BY <2>8, <2>9
    <3> QED
      BY <2>9, <3>1, <3>2, <3>3 DEF PassedAt
  <2> QED
    BY <2>10, <2>11
<1> QED
  BY <1>4, <1>5

\* The recursive function of receive_published exists, for any number of passes.
IsDrain(w0, N, f) ==
  f = [i \in 0 .. N |-> IF i = 0 THEN w0 ELSE Pass(f[i - 1])]

LEMMA DrainExists ==
  ASSUME NEW w0, NEW N \in Nat
  PROVE  \E f : IsDrain(w0, N, f)
<1> DEFINE Bad == {k \in Nat : ~ \E f : IsDrain(w0, k, f)}
<1>1. \E f : IsDrain(w0, 0, f)
  <2> DEFINE f == [i \in 0 .. 0 |-> w0]
  <2>1. IsDrain(w0, 0, f)
    BY DEF IsDrain
  <2> QED
    BY <2>1
<1>2. ASSUME NEW k \in Nat, NEW f, IsDrain(w0, k, f)
      PROVE  \E g : IsDrain(w0, k + 1, g)
  <2> DEFINE g == [i \in 0 .. k + 1 |-> IF i = k + 1 THEN Pass(f[k]) ELSE f[i]]
  <2>1. ASSUME NEW i \in 0 .. k + 1
        PROVE  g[i] = IF i = 0 THEN w0 ELSE Pass(g[i - 1])
    <3>1. \A j \in 0 .. k : f[j] = IF j = 0 THEN w0 ELSE Pass(f[j - 1])
      BY <1>2 DEF IsDrain
    <3>2. CASE i = k + 1
      <4>1. k \in 0 .. k + 1 /\ k # k + 1 /\ i - 1 = k /\ i # 0
        BY <3>2
      <4>2. g[i] = Pass(f[k]) /\ g[k] = f[k]
        BY <3>2, <4>1
      <4> HIDE DEF g
      <4> QED
        BY <4>1, <4>2
    <3>3. CASE i = 0
      <4>1. 0 \in 0 .. k /\ 0 # k + 1
        OBVIOUS
      <4> QED
        BY <3>1, <3>3, <4>1
    <3>4. CASE i # k + 1 /\ i # 0
      <4>1. i \in 0 .. k /\ i - 1 \in 0 .. k + 1 /\ i - 1 # k + 1
        BY <3>4
      <4>2. g[i] = f[i] /\ g[i - 1] = f[i - 1]
        BY <3>4, <4>1
      <4>3. f[i] = Pass(f[i - 1])
        BY <3>1, <3>4, <4>1
      <4> HIDE DEF g
      <4> QED
        BY <3>4, <4>2, <4>3
    <3> QED
      BY <3>2, <3>3, <3>4
  <2>2. g = [i \in 0 .. k + 1 |-> g[i]]
    OBVIOUS
  <2> HIDE DEF g
  <2>3. IsDrain(w0, k + 1, g)
    BY <2>1, <2>2 DEF IsDrain
  <2> QED
    BY <2>3
<1>3. Bad = {}
  <2> SUFFICES ASSUME Bad # {} PROVE FALSE
    OBVIOUS
  <2>1. Bad \in SUBSET Nat
    OBVIOUS
  <2> HIDE DEF Bad
  <2>2. PICK k \in Bad : \A j \in Bad : k <= j
    BY <2>1, LeastNat
  <2>3. k \in Nat /\ ~ \E f : IsDrain(w0, k, f)
    BY <2>2 DEF Bad
  <2>4. k # 0
    BY <1>1, <2>3
  <2>5. k - 1 \in Nat /\ ~ (k <= k - 1) /\ (k - 1) + 1 = k
    BY <2>3, <2>4
  <2>6. k - 1 \notin Bad
    BY <2>2, <2>5
  <2>7. PICK f : IsDrain(w0, k - 1, f)
    BY <2>5, <2>6 DEF Bad
  <2> QED
    BY <1>2, <2>3, <2>5, <2>7
<1> QED
  BY <1>3

\* receive_published is as many passes as the queue is long.
LEMMA DrainIs ==
  ASSUME NEW pub, NEW R, Len(pub) \in Nat
  PROVE  \E f : /\ f[0] = PassStart(pub, R)
                /\ \A i \in 1 .. Len(pub) : f[i] = Pass(f[i - 1])
                /\ receive_published(pub, R) = f[Len(pub)]
<1> DEFINE f == CHOOSE g : IsDrain(PassStart(pub, R), Len(pub), g)
<1>1. IsDrain(PassStart(pub, R), Len(pub), f)
  BY DrainExists
<1>2. receive_published(pub, R) = f[Len(pub)]
  BY Zenon DEF receive_published, IsDrain, PassStart, Pass
<1> HIDE DEF f
<1>3. \A i \in 0 .. Len(pub) :
         f[i] = IF i = 0 THEN PassStart(pub, R) ELSE Pass(f[i - 1])
  BY <1>1 DEF IsDrain
<1>4. f[0] = PassStart(pub, R)
  BY <1>3
<1>5. \A i \in 1 .. Len(pub) : f[i] = Pass(f[i - 1])
  BY <1>3
<1> QED
  BY <1>2, <1>4, <1>5

(***************************************************************************)
(* receive_published takes the first g packets of its queue, and leaves    *)
(* the application's side in order.                                        *)
(***************************************************************************)
LEMMA DrainOK ==
  ASSUME NEW S, NEW M, Laid(S, M), NEW o, NEW acc, NEW T, NEW R, NEW D,
         Handing(S, M, o, acc, T, R, D),
         NEW pub, Queued(S, o, acc, T, pub)
  PROVE  LET result == receive_published(pub, R)
         IN  \E g \in 0 .. Len(pub) :
               /\ result.published = SubSeq(pub, g + 1, Len(pub))
               /\ Handing(S, M, o, acc, T \cup FirstOf(pub, g), result.received,
                          D \o result.messages)
<1> DEFINE N == Len(pub)
<1>1. /\ pub \in Seq(KeptOf(S)) /\ N \in Nat
      /\ acc \subseteq DOMAIN S /\ D \in Seq(Seq(Chunk))
  BY DEF Queued, Handing
<1>2. PICK f : /\ f[0] = PassStart(pub, R)
               /\ \A i \in 1 .. N : f[i] = Pass(f[i - 1])
               /\ receive_published(pub, R) = f[N]
  BY <1>1, DrainIs
<1> DEFINE Bad == {i \in 0 .. N : ~ PassedAt(S, M, o, acc, T, D, pub, i, f[i])}
<1>3. PassedAt(S, M, o, acc, T, D, pub, 0, f[0])
  <2> DEFINE w == PassStart(pub, R)
  <2>1. /\ DOMAIN w = {"published", "received", "messages"}
        /\ w.published = pub /\ w.received = R /\ w.messages = << >>
    BY DEF PassStart
  <2> HIDE DEF w
  <2>2. SubSeq(pub, 0 + 1, N) = pub
    BY <1>1, SubSeqFull
  <2>3. T \cup FirstOf(pub, 0) = T
    BY DEF FirstOf
  <2>4. D \o << >> = D /\ << >> \in Seq(Seq(Chunk)) /\ 0 \in 0 .. 0
    BY <1>1
  <2>5. Handing(S, M, o, acc, T \cup FirstOf(pub, 0), w.received, D \o w.messages)
    BY <2>1, <2>3, <2>4
  <2>6. PassedAt(S, M, o, acc, T, D, pub, 0, w)
    BY <2>1, <2>2, <2>4, <2>5 DEF PassedAt
  <2> QED
    BY <1>2, <2>6 DEF w
<1>4. Bad = {}
  <2> SUFFICES ASSUME Bad # {} PROVE FALSE
    OBVIOUS
  <2>1. Bad \in SUBSET Nat
    OBVIOUS
  <2> HIDE DEF Bad
  <2>2. PICK k \in Bad : \A j \in Bad : k <= j
    BY <2>1, LeastNat
  <2>3. k \in 0 .. N /\ ~ PassedAt(S, M, o, acc, T, D, pub, k, f[k])
    BY <2>2 DEF Bad
  <2>4. k # 0
    BY <1>3, <2>3
  <2>5. /\ k \in 1 .. N /\ k - 1 \in 0 .. N /\ k - 1 \in 0 .. N - 1
        /\ (k - 1) + 1 = k /\ ~ (k <= k - 1)
    BY <1>1, <2>3, <2>4
  <2>6. PassedAt(S, M, o, acc, T, D, pub, k - 1, f[k - 1])
    BY <2>2, <2>5 DEF Bad
  <2>7. PassedAt(S, M, o, acc, T, D, pub, (k - 1) + 1, Pass(f[k - 1]))
    BY <1>1, <2>5, <2>6, PassOK
  <2>8. f[k] = Pass(f[k - 1])
    BY <1>2, <2>5
  <2> QED
    BY <2>3, <2>5, <2>7, <2>8
<1>5. PassedAt(S, M, o, acc, T, D, pub, N, f[N])
  <2>1. N \in 0 .. N
    BY <1>1
  <2> QED
    BY <1>4, <2>1
<1>6. \E g \in 0 .. N :
         /\ f[N].published = SubSeq(pub, g + 1, Len(pub))
         /\ Handing(S, M, o, acc, T \cup FirstOf(pub, g), f[N].received,
                    D \o f[N].messages)
  BY <1>5 DEF PassedAt
<1> QED
  BY <1>2, <1>6

-----------------------------------------------------------------------------
(***************************************************************************)
(* The receiving side: the receiver r, which stands at message h, and the  *)
(* application's side.  What the receiver handed out is what was taken and *)
(* what is in the queue.                                                   *)
(***************************************************************************)
SideOK(S, M, r, h, T, R, D) ==
  \E q, l, m, w, acc :
    /\ Same(KeptOf(S), r, q)
    /\ Holds(q, h, l, m, w, acc, T \cup Listed(q.published))
    /\ l <= Len(S)
    /\ Handing(S, M, r.is_ordered, acc, T, R, D)
    /\ Queued(S, r.is_ordered, acc, T, r.published)

LEMMA KeptNumbers ==
  ASSUME NEW S, NEW M, Laid(S, M)
  PROVE  /\ Numbers(KeptOf(S))
         /\ \A p \in KeptOf(S) : p.sequence \in DOMAIN S
         /\ Len(S) \in Nat /\ DOMAIN S = 1 .. Len(S) /\ Len(S) < U16_MAX
<1>1. \A p \in KeptOf(S) : \E n \in DOMAIN S : p = Kept(S[n])
  BY DEF KeptOf
<1>2. \A n \in DOMAIN S : /\ Kept(S[n]) # None /\ Kept(S[n]).sequence = n
                          /\ n \in SeqNo
  BY PacketAt
<1>3. Numbers(KeptOf(S)) /\ \A p \in KeptOf(S) : p.sequence \in DOMAIN S
  BY <1>1, <1>2 DEF Numbers
<1>4. Len(S) \in Nat /\ DOMAIN S = 1 .. Len(S)
  BY DEF Laid
<1>5. Len(S) < U16_MAX
  <2>1. CASE Len(S) = 0
    BY <2>1, Bounds
  <2>2. CASE Len(S) # 0
    <3>1. Len(S) \in DOMAIN S
      BY <1>4, <2>2
    <3> QED
      BY <1>2, <3>1, SequenceAssumption DEF SeqNo
  <2> QED
    BY <2>1, <2>2
<1> QED
  BY <1>3, <1>4, <1>5

\* The queue, said of its numbers
LEMMA QueuedNumbers ==
  ASSUME NEW S, NEW r, NEW q, Same(KeptOf(S), r, q),
         NEW o \in BOOLEAN, NEW acc, NEW T
  PROVE  Queued(S, o, acc, T, r.published)
           <=> /\ Listed(q.published) \subseteq acc
               /\ o => /\ \A y \in T, z \in Listed(q.published) : y < z
                       /\ Ranked(TRUE, q.published)
<1> DEFINE P == r.published
           G == q.published
<1>1. /\ P \in Seq(KeptOf(S)) /\ G = [i \in DOMAIN P |-> P[i].sequence]
  BY DEF Same
<1>2. DOMAIN G = DOMAIN P /\ \A i \in DOMAIN P : G[i] = P[i].sequence
  BY <1>1
<1> HIDE DEF P, G
<1>3. Listed(G) \subseteq acc <=> \A i \in DOMAIN P : P[i].sequence \in acc
  BY <1>2 DEF Listed
<1>4. (\A y \in T, z \in Listed(G) : y < z)
        <=> \A y \in T, i \in DOMAIN P : y < P[i].sequence
  BY <1>2 DEF Listed
<1>5. Ranked(TRUE, G)
        <=> \A i, j \in DOMAIN P : i < j => P[i].sequence < P[j].sequence
  BY <1>2 DEF Ranked
<1>6. Queued(S, o, acc, T, P)
        <=> /\ Listed(G) \subseteq acc
            /\ o => /\ \A y \in T, z \in Listed(G) : y < z
                    /\ Ranked(TRUE, G)
  BY <1>1, <1>3, <1>4, <1>5 DEF Queued
<1> QED
  BY <1>6 DEF P, G

\* What the numbered receiver says of the one with packets
LEMMA SideParts ==
  ASSUME NEW S, NEW M, Laid(S, M), NEW r, NEW h, NEW T, NEW R, NEW D,
         SideOK(S, M, r, h, T, R, D)
  PROVE  /\ DOMAIN r = Fields /\ r.is_ordered \in BOOLEAN
         /\ h \in Nat /\ h <= Len(S) /\ r.current_sequence = h
         /\ OnRing(r)
<1>1. PICK q, l, m, w, acc :
         /\ Same(KeptOf(S), r, q)
         /\ Holds(q, h, l, m, w, acc, T \cup Listed(q.published))
         /\ l <= Len(S)
  BY DEF SideOK
<1>2. Stands(q, h, l, m, w)
  BY <1>1 DEF Holds
<1>3. h \in Nat /\ l \in Nat /\ h <= l /\ q.is_ordered \in BOOLEAN
  BY <1>2 DEF Stands
<1>4. Len(S) \in Nat /\ Len(S) < U16_MAX
  BY KeptNumbers
<1>5. l < U16_MAX /\ h < U16_MAX
  BY <1>1, <1>3, <1>4, Bounds
<1>6. q.current_sequence = h /\ q.last_sequence = l
  BY <1>2, <1>5, StandsLow
<1>7. /\ r.current_sequence = h /\ r.last_sequence = l
      /\ DOMAIN r = Fields /\ r.is_ordered \in BOOLEAN
  BY <1>1, <1>3, <1>6 DEF Same
<1>8. OnRing(r)
  BY <1>3, <1>5, <1>7, Bounds DEF OnRing, SeqNo
<1> QED
  BY <1>1, <1>3, <1>4, <1>7, <1>8

(***************************************************************************)
(* A step of the receiver from r to s, with numbers from q to p, that      *)
(* hands out what may follow.                                              *)
(***************************************************************************)
LEMMA SideMoves ==
  ASSUME NEW S, NEW M, Laid(S, M), NEW r, NEW T, NEW R, NEW D,
         NEW q, Same(KeptOf(S), r, q), q.published \in Seq(Nat),
         NEW b, Queued(S, r.is_ordered, b, T, r.published),
         NEW s, NEW p, Same(KeptOf(S), s, p), p.is_ordered = q.is_ordered,
         NEW g, NEW u, NEW k, NEW v, NEW acc, NEW out, u <= Len(S),
         Holds(p, g, u, k, v, acc, (T \cup Listed(q.published)) \cup out),
         MayFollow(q.is_ordered, out, acc, T \cup Listed(q.published)),
         p.published = q.published \o Ascending(out),
         Handing(S, M, r.is_ordered, acc, T, R, D)
  PROVE  SideOK(S, M, s, g, T, R, D)
<1> DEFINE o    == r.is_ordered
           G    == q.published
           hnd  == T \cup Listed(G)
           news == Ascending(out)
<1>1. q.is_ordered = o /\ s.is_ordered = o
  BY DEF Same
<1>2. /\ out \in SUBSET Nat /\ IsFiniteSet(out)
      /\ out \subseteq acc /\ out \cap hnd = {}
      /\ o => \A x \in out, y \in hnd : y < x
  BY <1>1 DEF MayFollow
<1>3. o \in BOOLEAN /\ hnd \subseteq acc
  <2>1. p.is_ordered \in BOOLEAN /\ hnd \cup out \subseteq acc
    BY DEF Holds, Stands, Known
  <2> QED
    BY <1>1, <2>1
<1> HIDE DEF o, G
<1>4. news \in Seq(Nat) /\ Listed(news) = out
  <2>1. /\ Ranked(FALSE, << >>) /\ MayFollow(FALSE, out, acc, Listed(<< >>))
        /\ << >> \in Seq(Nat)
    BY <1>2 DEF Ranked, MayFollow, Listed
  <2> HIDE DEF news
  <2> QED
    BY <2>1, RankedJoin DEF news
<1>5. Listed(p.published) = Listed(G) \cup out
  <2>1. G \in Seq(Nat)
    BY DEF G
  <2> HIDE DEF news
  <2>2. Listed(G \o news) = Listed(G) \cup Listed(news)
    BY <1>4, <2>1, ListedJoin
  <2> QED
    BY <1>4, <2>2 DEF G, news
<1>6. hnd \cup out = T \cup Listed(p.published)
  BY <1>5
<1>7. Holds(p, g, u, k, v, acc, T \cup Listed(p.published))
  <2>1. Holds(p, g, u, k, v, acc, hnd \cup out)
    BY DEF G
  <2> QED
    BY <1>6, <2>1
<1>8. Queued(S, o, acc, T, s.published)
  <2>1. Listed(p.published) \subseteq acc
    BY <1>2, <1>3, <1>5
  <2>2. ASSUME o
        PROVE  /\ \A y \in T, z \in Listed(p.published) : y < z
               /\ Ranked(TRUE, p.published)
    <3>1. /\ \A y \in T, z \in Listed(G) : y < z
          /\ Ranked(TRUE, G)
      BY <1>3, <2>2, QueuedNumbers DEF o, G
    <3>2. \A y \in T, z \in Listed(p.published) : y < z
      BY <1>2, <1>5, <2>2, <3>1
    <3>3. MayFollow(TRUE, out, acc, Listed(G))
      BY <1>2, <2>2 DEF MayFollow
    <3>4. Ranked(TRUE, G \o news)
      <4>1. G \in Seq(Nat)
        BY DEF G
      <4> QED
        BY <3>1, <3>3, <4>1, RankedJoin
    <3> QED
      BY <3>2, <3>4 DEF G
  <2> QED
    BY <1>3, <2>1, <2>2, QueuedNumbers
<1>9. Handing(S, M, s.is_ordered, acc, T, R, D)
  BY <1>1 DEF o
<1> QED
  BY <1>1, <1>7, <1>8, <1>9 DEF SideOK

(***************************************************************************)
(* receive_packet of what is kept of packet n, with Q stored afterwards:   *)
(* all that was stored, and n if it is a fragment.                         *)
(***************************************************************************)
LEMMA SideReceive ==
  ASSUME WindowFitsRing, NEW S, NEW M, Laid(S, M),
         NEW r, NEW h, NEW T, NEW R, NEW D, SideOK(S, M, r, h, T, R, D),
         NEW n \in DOMAIN S, n <= h + Farthest, n >= h - Latest,
         NEW Q, R \subseteq Q, Q \subseteq FragmentsOf(S),
         S[n].type = FRAGMENT => S[n] \in Q
  PROVE  \E g \in Nat : /\ g >= h
                        /\ SideOK(S, M, receive_packet(r, n, Kept(S[n])).receiver,
                                  g, T, Q, D)
<1> DEFINE p   == Kept(S[n])
           got == receive_packet(r, n, p)
<1>1. PICK q, l, m, w, b :
         /\ Same(KeptOf(S), r, q)
         /\ Holds(q, h, l, m, w, b, T \cup Listed(q.published))
         /\ l <= Len(S)
         /\ Handing(S, M, r.is_ordered, b, T, R, D)
         /\ Queued(S, r.is_ordered, b, T, r.published)
  BY DEF SideOK
<1> DEFINE num == receive_packet(q, n, n)
           acc == IF num.accepted THEN b \cup {n} ELSE b
           hnd == T \cup Listed(q.published)
<1>2. /\ p \in KeptOf(S) /\ p.sequence = n /\ n \in Nat /\ n >= 1 /\ n <= Len(S)
      /\ n < U16_MAX
  <2>1. p \in KeptOf(S)
    BY DEF KeptOf
  <2>2. /\ p.sequence = n /\ n \in Nat /\ n >= 1 /\ n <= Len(S)
    BY PacketAt
  <2>3. Len(S) \in Nat /\ Len(S) < U16_MAX
    BY KeptNumbers
  <2> QED
    BY <2>1, <2>2, <2>3, Bounds
<1>3. OnRing(r) /\ h \in Nat /\ Numbers(KeptOf(S))
  BY SideParts, KeptNumbers
<1>4. Same(KeptOf(S), got.receiver, num.receiver)
  <2>1. Same(KeptOf(S), receive_packet(r, p.sequence, p).receiver,
             receive_packet(q, p.sequence, p.sequence).receiver)
    BY <1>1, <1>2, <1>3, SameReceive
  <2> QED
    BY <1>2, <2>1
<1>5. SequenceOf(n) = n
  BY <1>2, SmallSequence
<1> HIDE DEF hnd, p
<1>6. MovesOn(q, num.receiver, h, l, n, acc, hnd)
  BY <1>1, <1>2, <1>5, ReceiveHolds DEF hnd
<1> HIDE DEF num, acc, got
<1>7. PICK g, u, k, v, out :
         /\ Holds(num.receiver, g, u, k, v, acc, hnd \cup out)
         /\ MayFollow(q.is_ordered, out, acc, hnd)
         /\ num.receiver.published = q.published \o Ascending(out)
         /\ num.receiver.is_ordered = q.is_ordered
         /\ h <= g /\ l <= u /\ u \in {l, n}
  BY <1>6 DEF MovesOn
<1>8. u <= Len(S) /\ q.published \in Seq(Nat) /\ g \in Nat
  <2>1. q.published \in Seq(Nat)
    BY <1>1 DEF Holds, Stands
  <2>2. g \in Nat
    BY <1>7 DEF Holds, Stands
  <2> QED
    BY <1>1, <1>2, <1>7, <2>1, <2>2
<1>9. Handing(S, M, r.is_ordered, acc, T, Q, D)
  <2>1. b \subseteq acc /\ acc \subseteq b \cup {n}
    BY DEF acc
  <2>2. /\ T \subseteq b /\ b \subseteq DOMAIN S
        /\ D \in Seq(Seq(Chunk)) /\ Intact(S, M, T, D)
        /\ Stored(S, M, b, R, D) /\ Given(S, M, T, D)
        /\ r.is_ordered => InTurn(D)
    BY <1>1 DEF Handing
  <2>3. Stored(S, M, acc, Q, D)
    BY <2>1, <2>2 DEF Stored
  <2>4. T \subseteq acc /\ acc \subseteq DOMAIN S
    BY <2>1, <2>2
  <2> QED
    BY <2>2, <2>3, <2>4 DEF Handing
<1>10. SideOK(S, M, got.receiver, g, T, Q, D)
  <2> DEFINE new == num.receiver
             rcd == got.receiver
  <2>1. /\ Same(KeptOf(S), rcd, new) /\ new.is_ordered = q.is_ordered
        /\ Holds(new, g, u, k, v, acc, (T \cup Listed(q.published)) \cup out)
        /\ MayFollow(q.is_ordered, out, acc, T \cup Listed(q.published))
        /\ new.published = q.published \o Ascending(out)
    BY <1>4, <1>7 DEF hnd
  <2> HIDE DEF new, rcd
  <2>2. SideOK(S, M, rcd, g, T, Q, D)
    BY <1>1, <1>8, <1>9, <2>1, SideMoves
  <2> QED
    BY <2>2 DEF rcd
<1> QED
  BY <1>7, <1>8, <1>10 DEF got, p

\* Channel::update
LEMMA SidePublish ==
  ASSUME NEW S, NEW M, Laid(S, M),
         NEW r, NEW h, NEW T, NEW R, NEW D, SideOK(S, M, r, h, T, R, D)
  PROVE  \E g \in Nat : g >= h /\ SideOK(S, M, publish(r), g, T, R, D)
<1>1. PICK q, l, m, w, b :
         /\ Same(KeptOf(S), r, q)
         /\ Holds(q, h, l, m, w, b, T \cup Listed(q.published))
         /\ l <= Len(S)
         /\ Handing(S, M, r.is_ordered, b, T, R, D)
         /\ Queued(S, r.is_ordered, b, T, r.published)
  BY DEF SideOK
<1> DEFINE new == publish(q)
           rcd == publish(r)
           out == OutOf(q.is_ordered, h, l, m, w)
           hnd == T \cup Listed(q.published)
           g   == EndOf(h, l, m)
           k   == m \ RunOf(h, l, m)
           v   == w \ out
<1>2. OnRing(r) /\ h \in Nat /\ Numbers(KeptOf(S))
  BY SideParts, KeptNumbers
<1>3. Same(KeptOf(S), rcd, new)
  BY <1>1, <1>2, SamePublish
<1>4. /\ Holds(new, g, l, k, v, b, hnd \cup out)
      /\ MayFollow(q.is_ordered, out, b, hnd)
      /\ new.published = q.published \o Ascending(out)
      /\ new.is_ordered = q.is_ordered
      /\ g \in h .. l
  <2> HIDE DEF hnd
  <2>1. Holds(q, h, l, m, w, b, hnd)
    BY <1>1 DEF hnd
  <2> QED
    BY <2>1, PublishHolds
<1>5. q.published \in Seq(Nat) /\ l \in Nat
  BY <1>1 DEF Holds, Stands
<1> HIDE DEF new, rcd, out, g, k, v
<1>6. SideOK(S, M, rcd, g, T, R, D)
  BY <1>1, <1>3, <1>4, <1>5, SideMoves
<1>7. g \in Nat /\ g >= h
  BY <1>2, <1>4, <1>5
<1> QED
  BY <1>6, <1>7 DEF rcd

(***************************************************************************)
(* receive_published, on the receiving side.                               *)
(***************************************************************************)
LEMMA SideHand ==
  ASSUME NEW S, NEW M, Laid(S, M),
         NEW r, NEW h, NEW T, NEW R, NEW D, SideOK(S, M, r, h, T, R, D)
  PROVE  LET result == receive_published(r.published, R)
             gone   == Len(r.published) - Len(result.published)
             more   == {n \in 1 .. Len(S) : \E i \in 1 .. gone :
                          r.published[i].sequence = S[n].sequence}
         IN  SideOK(S, M, [r EXCEPT !.published = result.published], h,
                    T \cup more, result.received, D \o result.messages)
<1>1. PICK q, l, m, w, acc :
         /\ Same(KeptOf(S), r, q)
         /\ Holds(q, h, l, m, w, acc, T \cup Listed(q.published))
         /\ l <= Len(S)
         /\ Handing(S, M, r.is_ordered, acc, T, R, D)
         /\ Queued(S, r.is_ordered, acc, T, r.published)
  BY DEF SideOK
<1> DEFINE P      == r.published
           G      == q.published
           result == receive_published(P, R)
           gone   == Len(P) - Len(result.published)
           more   == {n \in 1 .. Len(S) : \E i \in 1 .. gone :
                        P[i].sequence = S[n].sequence}
           o      == r.is_ordered
           E      == D \o result.messages
<1>2. PICK g \in 0 .. Len(P) :
         /\ result.published = SubSeq(P, g + 1, Len(P))
         /\ Handing(S, M, o, acc, T \cup FirstOf(P, g), result.received, E)
  BY <1>1, DrainOK
<1> DEFINE P2 == SubSeq(P, g + 1, Len(P))
           G2 == SubSeq(G, g + 1, Len(G))
           r2 == [r EXCEPT !.published = result.published]
           q2 == [q EXCEPT !.published = G2]
           T2 == T \cup more
<1>3. /\ P \in Seq(KeptOf(S)) /\ G = [i \in DOMAIN P |-> P[i].sequence]
      /\ DOMAIN r = Fields /\ DOMAIN q = Fields /\ q.is_ordered = o
  BY <1>1 DEF Same
<1>4. G \in Seq(Nat)
  BY <1>1 DEF Holds, Stands
<1>5. /\ Len(G) = Len(P) /\ DOMAIN G = DOMAIN P
      /\ \A i \in DOMAIN P : G[i] = P[i].sequence
  BY <1>3, <1>4
<1>6. /\ P2 \in Seq(KeptOf(S)) /\ Len(P2) = Len(P) - g
      /\ DOMAIN P2 = 1 .. Len(P) - g
      /\ Len(P) \in Nat /\ DOMAIN P = 1 .. Len(P)
      /\ \A i \in 1 .. Len(P) - g : P2[i] = P[g + i] /\ g + i \in DOMAIN P
  <2> HIDE DEF P
  <2> QED
    BY <1>3, RestOf
<1>7. /\ G2 \in Seq(Nat) /\ Len(G2) = Len(P) - g
      /\ DOMAIN G2 = 1 .. Len(P) - g
      /\ \A i \in 1 .. Len(P) - g : G2[i] = G[g + i]
  <2>1. g \in 0 .. Len(G)
    BY <1>5
  <2>2. /\ G2 \in Seq(Nat) /\ Len(G2) = Len(G) - g
        /\ DOMAIN G2 = 1 .. Len(G) - g
        /\ Len(G) \in Nat /\ DOMAIN G = 1 .. Len(G)
        /\ \A i \in 1 .. Len(G) - g : G2[i] = G[g + i] /\ g + i \in DOMAIN G
    <3> HIDE DEF G
    <3> QED
      BY <1>4, <2>1, RestOf
  <2> QED
    BY <1>5, <2>2
<1>8. result.published = P2
  BY <1>2
<1> HIDE DEF result, P, G, P2, G2, E, o
<1>9. gone = g
  BY <1>6, <1>8
<1>10. \A i \in DOMAIN P : P[i].sequence \in acc /\ P[i].sequence \in DOMAIN S
  <2>1. \A i \in DOMAIN P : P[i].sequence \in acc
    BY <1>1 DEF Queued, P
  <2>2. acc \subseteq DOMAIN S
    BY <1>1 DEF Handing
  <2> QED
    BY <2>1, <2>2
<1>11. more = FirstOf(P, g)
  <2>1. DOMAIN S = 1 .. Len(S) /\ \A n \in DOMAIN S : S[n].sequence = n
    BY KeptNumbers DEF Laid
  <2>2. 1 .. g \subseteq DOMAIN P
    BY <1>6
  <2>3. ASSUME NEW n \in more PROVE n \in FirstOf(P, g)
    <3>1. n \in DOMAIN S
      BY <2>1
    <3>2. PICK i \in 1 .. g : P[i].sequence = S[n].sequence
      BY <1>9
    <3>3. n = P[i].sequence
      BY <2>1, <3>1, <3>2
    <3> QED
      BY <3>3 DEF FirstOf
  <2>4. ASSUME NEW n \in FirstOf(P, g) PROVE n \in more
    <3>1. PICK i \in 1 .. g : n = P[i].sequence
      BY DEF FirstOf
    <3>2. n \in DOMAIN S
      BY <1>10, <2>2, <3>1
    <3>3. P[i].sequence = S[n].sequence
      BY <2>1, <3>1, <3>2
    <3> QED
      BY <1>9, <2>1, <3>1, <3>2, <3>3
  <2> HIDE DEF more
  <2> QED
    BY <2>3, <2>4
<1> HIDE DEF gone, more
<1>12. Handing(S, M, o, acc, T2, result.received, E)
  BY <1>2, <1>11
<1>13. \A i \in 1 .. Len(P) - g : G2[i] = P2[i].sequence
  BY <1>5, <1>6, <1>7
<1>14. G2 = [i \in DOMAIN P2 |-> P2[i].sequence]
  <2>1. G2 = [i \in 1 .. Len(P) - g |-> G2[i]]
    <3> DEFINE c == Len(P) - g
    <3> HIDE DEF c
    <3> QED
      BY <1>7 DEF c
  <2> QED
    BY <1>6, <1>13, <2>1
<1>15. /\ Same(KeptOf(S), r2, q2)
       /\ r2.is_ordered = o /\ r2.published = P2 /\ q2.published = G2
       /\ q2.is_ordered = q.is_ordered
       /\ q2.skipped_sequences = q.skipped_sequences
  BY <1>1, <1>3, <1>6, <1>8, <1>14 DEF Same, Fields, o
<1>16. T2 \cup Listed(G2) = T \cup Listed(G)
  <2>1. ASSUME NEW i \in DOMAIN G PROVE G[i] \in FirstOf(P, g) \cup Listed(G2)
    <3>1. CASE i <= g
      <4>1. i \in 1 .. g /\ G[i] = P[i].sequence
        BY <1>5, <1>6, <3>1
      <4> QED
        BY <4>1 DEF FirstOf
    <3>2. CASE i > g
      <4>1. i - g \in 1 .. Len(P) - g /\ g + (i - g) = i
        BY <1>5, <1>6, <3>2
      <4>2. G2[i - g] = G[i] /\ i - g \in DOMAIN G2
        BY <1>7, <4>1
      <4> QED
        BY <4>2 DEF Listed
    <3> QED
      BY <1>5, <1>6, <3>1, <3>2
  <2>2. FirstOf(P, g) \subseteq Listed(G)
    <3> SUFFICES ASSUME NEW i \in 1 .. g PROVE P[i].sequence \in Listed(G)
      BY DEF FirstOf
    <3>1. i \in DOMAIN P
      BY <1>6
    <3>2. i \in DOMAIN G /\ G[i] = P[i].sequence
      BY <1>5, <3>1
    <3> QED
      BY <3>2 DEF Listed
  <2>3. Listed(G2) \subseteq Listed(G)
    <3> SUFFICES ASSUME NEW i \in DOMAIN G2 PROVE G2[i] \in Listed(G)
      BY DEF Listed
    <3>1. G2[i] = G[g + i] /\ g + i \in DOMAIN G
      BY <1>5, <1>6, <1>7
    <3> QED
      BY <3>1 DEF Listed
  <2>4. Listed(G) \subseteq FirstOf(P, g) \cup Listed(G2)
    BY <2>1 DEF Listed
  <2> QED
    BY <1>11, <2>2, <2>3, <2>4
<1>17. Holds(q2, h, l, m, w, acc, T2 \cup Listed(q2.published))
  <2>1. Stands(q2, h, l, m, w)
    <3>1. Stands(q, h, l, m, w)
      BY <1>1 DEF Holds
    <3> QED
      BY <1>3, <1>7, <3>1 DEF Stands, Fields
  <2> HIDE DEF q2, T2
  <2>2. Holds(q, h, l, m, w, acc, T2 \cup Listed(q2.published))
    BY <1>1, <1>15, <1>16 DEF G
  <2> QED
    BY <1>15, <2>1, <2>2 DEF Holds
<1>18. Queued(S, o, acc, T2, P2)
  <2>1. \A i \in DOMAIN P2 : P2[i].sequence \in acc
    BY <1>6, <1>10
  <2>2. ASSUME o, NEW y \in T2, NEW i \in DOMAIN P2 PROVE y < P2[i].sequence
    <3>1. P2[i] = P[g + i] /\ g + i \in DOMAIN P /\ g < g + i /\ g \in Nat
      BY <1>6
    <3>2. CASE y \in T
      BY <1>1, <2>2, <3>1, <3>2 DEF Queued, P, o
    <3>3. CASE y \in FirstOf(P, g)
      <4>1. PICK j \in 1 .. g : y = P[j].sequence
        BY <3>3 DEF FirstOf
      <4>2. j \in DOMAIN P /\ j < g + i
        BY <1>6, <3>1
      <4> QED
        BY <1>1, <2>2, <3>1, <4>1, <4>2 DEF Queued, P, o
    <3> QED
      BY <1>11, <2>2, <3>2, <3>3
  <2>3. ASSUME o, NEW i \in DOMAIN P2, NEW j \in DOMAIN P2, i < j
        PROVE  P2[i].sequence < P2[j].sequence
    <3>1. /\ P2[i] = P[g + i] /\ g + i \in DOMAIN P
          /\ P2[j] = P[g + j] /\ g + j \in DOMAIN P /\ g + i < g + j
      BY <1>6, <2>3
    <3> QED
      BY <1>1, <2>3, <3>1 DEF Queued, P, o
  <2> HIDE DEF T2
  <2> QED
    BY <1>6, <2>1, <2>2, <2>3 DEF Queued
<1> HIDE DEF r2, q2, T2
<1>19. SideOK(S, M, r2, h, T2, result.received, E)
  BY <1>1, <1>12, <1>15, <1>17, <1>18 DEF SideOK
<1> QED
  BY <1>19 DEF r2, T2, more, gone, result, E, P

-----------------------------------------------------------------------------
(***************************************************************************)
(* The sender sends one more message, in the packets E: whole, or as the   *)
(* fragments of a new group.                                               *)
(***************************************************************************)
Longer(S, M, U, N) ==
  /\ Len(S) <= Len(U) /\ \A n \in DOMAIN S : n \in DOMAIN U /\ U[n] = S[n]
  /\ \A m \in DOMAIN M : m \in DOMAIN N /\ N[m] = M[m]

SentWhole(S, M, E, e) ==
  LET k == Len(M) + 1
  IN  /\ e = << <<k, 1>> >>
      /\ \A i \in DOMAIN E : E[i].type = RELIABLE /\ E[i].body = e

SentInGroup(S, M, E, e, group) ==
  LET k == Len(M) + 1
  IN  /\ e = [i \in 1 .. Len(E) |-> <<k, i>>]
      /\ \A i \in DOMAIN E :
           /\ E[i].type = FRAGMENT /\ E[i].body = <<k, i>>
           /\ E[i].group = group
           /\ E[i].start = Len(S) + 1 /\ E[i].count = Len(E)
      /\ \A n \in DOMAIN S : S[n].type = FRAGMENT => S[n].group # group

LEMMA LaidMore ==
  ASSUME NEW S, NEW M, Laid(S, M), NEW E \in Seq(Packets), E # << >>,
         NEW e \in Seq(Chunk), NEW group,
         \A i \in DOMAIN E : E[i].sequence = Len(S) + i,
         SentWhole(S, M, E, e) \/ SentInGroup(S, M, E, e, group)
  PROVE  /\ Laid(S \o E, Append(M, e))
         /\ Longer(S, M, S \o E, Append(M, e))
         /\ Len(S \o E) = Len(S) + Len(E)
         /\ \A n \in DOMAIN (S \o E) : n \in DOMAIN S \/
              \E i \in DOMAIN E : (S \o E)[n] = E[i]
<1> DEFINE L == Len(S)
           U == S \o E
           N == Append(M, e)
           k == Len(M) + 1
<1>1. /\ S \in Seq(Packets) /\ M \in Seq(Seq(Chunk))
      /\ L \in Nat /\ DOMAIN S = 1 .. L /\ Len(E) \in Nat /\ Len(E) >= 1
      /\ DOMAIN E = 1 .. Len(E) /\ Len(M) \in Nat /\ DOMAIN M = 1 .. Len(M)
  BY DEF Laid
<1>2. /\ U \in Seq(Packets) /\ Len(U) = L + Len(E) /\ DOMAIN U = 1 .. L + Len(E)
      /\ \A n \in DOMAIN S : n \in DOMAIN U /\ U[n] = S[n]
      /\ \A i \in DOMAIN E : L + i \in DOMAIN U /\ U[L + i] = E[i]
  <2>1. /\ U \in Seq(Packets) /\ Len(U) = Len(S) + Len(E)
        /\ \A i \in 1 .. Len(S) + Len(E) :
             U[i] = IF i <= Len(S) THEN S[i] ELSE E[i - Len(S)]
    BY <1>1, ConcatProperties
  <2> HIDE DEF U
  <2>2. DOMAIN U = 1 .. L + Len(E)
    BY <2>1
  <2>3. \A n \in DOMAIN S : n \in DOMAIN U /\ U[n] = S[n]
    BY <1>1, <2>1, <2>2
  <2>4. ASSUME NEW i \in DOMAIN E PROVE L + i \in DOMAIN U /\ U[L + i] = E[i]
    <3>1. L + i \in 1 .. L + Len(E) /\ ~ (L + i <= L) /\ (L + i) - L = i
      BY <1>1
    <3> QED
      BY <2>1, <2>2, <3>1
  <2> QED
    BY <2>1, <2>2, <2>3, <2>4
<1>3. /\ N \in Seq(Seq(Chunk)) /\ DOMAIN N = 1 .. k
      /\ \A m \in DOMAIN M : m \in DOMAIN N /\ N[m] = M[m]
      /\ N[k] = e /\ k \in DOMAIN N /\ k \in Nat
  <2>1. /\ N \in Seq(Seq(Chunk)) /\ Len(N) = Len(M) + 1
        /\ \A i \in 1 .. Len(M) : N[i] = M[i]
        /\ N[Len(M) + 1] = e
    BY <1>1, AppendProperties
  <2> HIDE DEF N
  <2> QED
    BY <1>1, <2>1
<1> HIDE DEF U, N
<1>4. ASSUME NEW n \in DOMAIN U
      PROVE  n \in DOMAIN S \/ \E i \in DOMAIN E : n = L + i /\ U[n] = E[i]
  <2>1. CASE n <= L
    BY <1>1, <1>2, <2>1
  <2>2. CASE n > L
    <3>1. n - L \in DOMAIN E /\ n = L + (n - L)
      BY <1>1, <1>2, <2>2
    <3> QED
      BY <1>2, <3>1
  <2> QED
    BY <1>1, <1>2, <2>1, <2>2
<1>5. Longer(S, M, U, N)
  BY <1>1, <1>2, <1>3 DEF Longer
<1>6. RELIABLE # FRAGMENT
  BY DEF RELIABLE, FRAGMENT
<1>7. \A i \in DOMAIN E : MessageIn(E[i]) = k
  <2> SUFFICES ASSUME NEW i \in DOMAIN E PROVE MessageIn(E[i]) = k
    OBVIOUS
  <2> HIDE DEF k
  <2>1. CASE SentWhole(S, M, E, e)
    <3>1. E[i].type = RELIABLE /\ E[i].body = << <<k, 1>> >>
      BY <2>1 DEF SentWhole, k
    <3> QED
      BY <3>1 DEF MessageIn
  <2>2. CASE SentInGroup(S, M, E, e, group)
    <3>1. E[i].type = FRAGMENT /\ E[i].body = <<k, i>>
      BY <2>2 DEF SentInGroup, k
    <3> QED
      BY <1>6, <3>1 DEF MessageIn
  <2> QED
    BY <2>1, <2>2
<1>8. \A n \in DOMAIN U : U[n].sequence = n
  BY <1>2, <1>4 DEF Laid
<1>9. \A n \in DOMAIN S : WholeAt(U, N, n) \/ FragmentAt(U, N, n)
  <2> SUFFICES ASSUME NEW n \in DOMAIN S PROVE WholeAt(U, N, n) \/ FragmentAt(U, N, n)
    OBVIOUS
  <2>1. U[n] = S[n] /\ MessageIn(S[n]) \in DOMAIN M
    BY <1>2, MessageAt
  <2>2. CASE S[n].type = RELIABLE
    <3>1. WholeAt(S, M, n)
      BY <2>2, MessageAt
    <3>2. WholeAt(U, N, n)
      BY <1>3, <2>1, <3>1 DEF WholeAt
    <3> QED
      BY <3>2
  <2>3. CASE S[n].type = FRAGMENT
    <3>1. FragmentAt(S, M, n) /\ GroupAt(S[n]) \subseteq DOMAIN S
      BY <2>3, MessageAt, GroupSize
    <3>2. \A j \in GroupAt(S[n]) : U[j] = S[j]
      BY <1>2, <3>1
    <3>3. S[n].start + S[n].count - 1 <= Len(U)
      <4> DEFINE z == S[n].start + S[n].count - 1
      <4>1. z \in Int
        BY PacketAt
      <4>2. z <= L
        BY <3>1 DEF FragmentAt
      <4> HIDE DEF z, L
      <4>3. z <= Len(U)
        BY <1>1, <1>2, <4>1, <4>2
      <4> QED
        BY <4>3 DEF z
    <3>4. FragmentAt(U, N, n)
      BY <1>3, <2>1, <3>1, <3>2, <3>3 DEF FragmentAt
    <3> QED
      BY <3>4
  <2> QED
    BY <2>2, <2>3, PacketAt
<1>10. \A i \in DOMAIN E : WholeAt(U, N, L + i) \/ FragmentAt(U, N, L + i)
  <2> SUFFICES ASSUME NEW i \in DOMAIN E
               PROVE  WholeAt(U, N, L + i) \/ FragmentAt(U, N, L + i)
    OBVIOUS
  <2>1. U[L + i] = E[i] /\ MessageIn(U[L + i]) = k
    BY <1>2, <1>7
  <2>2. CASE SentWhole(S, M, E, e)
    <3>1. E[i].type = RELIABLE /\ E[i].body = e /\ e = << <<k, 1>> >>
      BY <2>2 DEF SentWhole
    <3> HIDE DEF k, L
    <3>2. WholeAt(U, N, L + i)
      BY <1>3, <2>1, <3>1 DEF WholeAt
    <3> QED
      BY <3>2
  <2>3. CASE SentInGroup(S, M, E, e, group)
    <3>1. /\ e = [a \in 1 .. Len(E) |-> <<k, a>>]
          /\ \A a \in DOMAIN E :
               /\ E[a].type = FRAGMENT /\ E[a].body = <<k, a>>
               /\ E[a].group = group
               /\ E[a].start = L + 1 /\ E[a].count = Len(E)
      BY <2>3 DEF SentInGroup
    <3> DEFINE p == U[L + i]
    <3>2. /\ p.type = FRAGMENT /\ p.body = <<k, i>> /\ p.group = group
          /\ p.start = L + 1 /\ p.count = Len(E) /\ MessageIn(p) = k
      BY <2>1, <3>1
    <3>3. GroupAt(p) = L + 1 .. L + Len(E)
      <4>1. (L + 1) + Len(E) - 1 = L + Len(E)
        BY <1>1
      <4> QED
        BY <3>2, <4>1 DEF GroupAt
    <3>4. ASSUME NEW j \in GroupAt(p)
          PROVE  /\ U[j].type = FRAGMENT /\ U[j].group = p.group
                 /\ U[j].start = p.start /\ U[j].count = p.count
                 /\ MessageIn(U[j]) = k
      <4>1. j - L \in DOMAIN E /\ j = L + (j - L)
        BY <1>1, <3>3
      <4>2. U[j] = E[j - L]
        BY <1>2, <4>1
      <4> QED
        BY <1>7, <3>1, <3>2, <4>1, <4>2
    <3>5. L + i \in GroupAt(p) /\ (L + i) - p.start + 1 = i
      <4>1. L + i \in L + 1 .. L + Len(E) /\ (L + i) - (L + 1) + 1 = i
        <5> HIDE DEF L
        <5> QED
          BY <1>1
      <4> QED
        BY <3>2, <3>3, <4>1
    <3>6. p.start >= 1 /\ p.start + p.count - 1 <= Len(U)
      BY <1>1, <1>2, <3>2
    <3>7. N[k] = [a \in 1 .. p.count |-> <<k, a>>] /\ k \in DOMAIN N
      BY <1>3, <3>1, <3>2
    <3> HIDE DEF p, k, L
    <3>8. p.body = <<k, (L + i) - p.start + 1>>
      BY <3>2, <3>5
    <3>9. FragmentAt(U, N, L + i)
      BY <3>2, <3>4, <3>5, <3>6, <3>7, <3>8 DEF FragmentAt, p
    <3> QED
      BY <3>9
  <2> QED
    BY <2>2, <2>3
<1>11. \A n \in DOMAIN U : WholeAt(U, N, n) \/ FragmentAt(U, N, n)
  BY <1>4, <1>9, <1>10
<1>12. \A m \in DOMAIN N : \E n \in DOMAIN U : MessageIn(U[n]) = m
  <2> SUFFICES ASSUME NEW m \in DOMAIN N PROVE \E n \in DOMAIN U : MessageIn(U[n]) = m
    OBVIOUS
  <2>1. CASE m \in DOMAIN M
    BY <1>2, <2>1 DEF Laid
  <2>2. CASE m = k
    <3>1. 1 \in DOMAIN E
      BY <1>1
    <3> QED
      BY <1>2, <1>7, <2>2, <3>1
  <2> QED
    BY <1>1, <1>3, <2>1, <2>2
<1>13. ASSUME NEW a \in DOMAIN U, NEW b \in DOMAIN U, a < b
       PROVE  MessageIn(U[a]) <= MessageIn(U[b])
  <2>1. CASE b \in DOMAIN S
    <3>1. a \in DOMAIN S
      BY <1>1, <1>2, <1>13, <2>1
    <3> QED
      BY <1>2, <1>13, <2>1, <3>1 DEF Laid
  <2>2. CASE b \notin DOMAIN S
    <3>1. MessageIn(U[b]) = k
      BY <1>4, <1>7, <2>2
    <3>2. CASE a \in DOMAIN S
      <4>1. MessageIn(U[a]) \in DOMAIN M
        BY <1>2, <3>2, MessageAt
      <4> QED
        BY <1>1, <3>1, <4>1
    <3>3. CASE a \notin DOMAIN S
      <4>1. MessageIn(U[a]) = k
        BY <1>4, <1>7, <3>3
      <4> QED
        BY <1>1, <3>1, <4>1
    <3> QED
      BY <3>2, <3>3
  <2> QED
    BY <2>1, <2>2
<1>14. ASSUME NEW a \in DOMAIN U, NEW b \in DOMAIN U,
              U[a].type = FRAGMENT, U[b].type = FRAGMENT,
              U[a].group = U[b].group
       PROVE  a \in GroupAt(U[b])
  <2>1. CASE a \in DOMAIN S /\ b \in DOMAIN S
    BY <1>2, <1>14, <2>1 DEF Laid
  <2>2. CASE ~ (a \in DOMAIN S /\ b \in DOMAIN S)
    <3>1. PICK c \in DOMAIN E : E[c].type = FRAGMENT
      BY <1>4, <1>14, <2>2
    <3>2. SentInGroup(S, M, E, e, group)
      BY <1>6, <3>1 DEF SentWhole
    <3>3. /\ \A i \in DOMAIN E : /\ E[i].group = group
                                 /\ E[i].start = L + 1 /\ E[i].count = Len(E)
          /\ \A n \in DOMAIN S : S[n].type = FRAGMENT => S[n].group # group
      BY <3>2 DEF SentInGroup
    <3>4. a \notin DOMAIN S /\ b \notin DOMAIN S
      BY <1>2, <1>4, <1>14, <2>2, <3>3
    <3>5. PICK i \in DOMAIN E : a = L + i
      BY <1>4, <3>4
    <3>6. PICK j \in DOMAIN E : U[b] = E[j]
      BY <1>4, <3>4
    <3>7. U[b].start = L + 1 /\ U[b].count = Len(E)
      BY <3>3, <3>6
    <3>8. L + i \in L + 1 .. (L + 1) + Len(E) - 1
      BY <1>1
    <3> QED
      BY <3>5, <3>7, <3>8 DEF GroupAt
  <2> QED
    BY <2>1, <2>2
<1>15. Laid(U, N)
  BY <1>2, <1>3, <1>8, <1>11, <1>12, <1>13, <1>14 DEF Laid
<1>16. \A n \in DOMAIN U : n \in DOMAIN S \/ \E i \in DOMAIN E : U[n] = E[i]
  BY <1>4
<1> QED
  BY <1>2, <1>5, <1>15, <1>16 DEF U, N

(***************************************************************************)
(* More packets change nothing on the receiving side: a new message has a  *)
(* packet that cannot have been taken yet.                                 *)
(***************************************************************************)
LEMMA SideMore ==
  ASSUME NEW S, NEW M, Laid(S, M), NEW U, NEW N, Laid(U, N),
         Longer(S, M, U, N),
         NEW r, NEW h, NEW T, NEW R, NEW D, SideOK(S, M, r, h, T, R, D)
  PROVE  SideOK(U, N, r, h, T, R, D)
<1>1. PICK q, l, m, w, acc :
         /\ Same(KeptOf(S), r, q)
         /\ Holds(q, h, l, m, w, acc, T \cup Listed(q.published))
         /\ l <= Len(S)
         /\ Handing(S, M, r.is_ordered, acc, T, R, D)
         /\ Queued(S, r.is_ordered, acc, T, r.published)
  BY DEF SideOK
<1>2. /\ Len(S) <= Len(U) /\ \A n \in DOMAIN S : n \in DOMAIN U /\ U[n] = S[n]
      /\ \A k \in DOMAIN M : k \in DOMAIN N /\ N[k] = M[k]
  BY DEF Longer
<1>3. KeptOf(S) \subseteq KeptOf(U)
  BY <1>2 DEF KeptOf
<1>4. FragmentsOf(S) \subseteq FragmentsOf(U)
  BY <1>2 DEF FragmentsOf
<1>5. \A n \in DOMAIN S : /\ MessageIn(U[n]) = MessageIn(S[n])
                          /\ MessageIn(S[n]) \in DOMAIN M
                          /\ N[MessageIn(U[n])] = M[MessageIn(S[n])]
  BY <1>2, MessageAt
<1>6. /\ T \subseteq acc /\ acc \subseteq DOMAIN S /\ R \subseteq FragmentsOf(S)
      /\ D \in Seq(Seq(Chunk)) /\ Intact(S, M, T, D)
      /\ Stored(S, M, acc, R, D) /\ Given(S, M, T, D)
      /\ r.is_ordered => InTurn(D)
  BY <1>1 DEF Handing
<1>7. Intact(U, N, T, D)
  <2> SUFFICES ASSUME NEW i \in DOMAIN D
               PROVE  \E x \in T : D[i] = N[MessageIn(U[x])]
    BY DEF Intact
  <2>1. PICK x \in T : D[i] = M[MessageIn(S[x])]
    BY <1>6 DEF Intact
  <2> QED
    BY <1>5, <1>6, <2>1
<1>8. Stored(U, N, acc, R, D)
  <2> SUFFICES ASSUME NEW n \in acc, U[n].type = FRAGMENT
               PROVE  U[n] \in R \/ N[MessageIn(U[n])] \in Listed(D)
    BY DEF Stored
  <2>1. n \in DOMAIN S /\ U[n] = S[n]
    BY <1>2, <1>6
  <2> QED
    BY <1>5, <1>6, <2>1 DEF Stored
<1>9. Given(U, N, T, D)
  <2> SUFFICES ASSUME NEW k \in DOMAIN N, PacketsIn(U, k) \subseteq T
               PROVE  N[k] \in Listed(D)
    BY DEF Given
  <2>1. PICK n \in DOMAIN U : MessageIn(U[n]) = k
    BY DEF Laid
  <2>2. n \in T /\ n \in DOMAIN S
    BY <1>6, <2>1 DEF PacketsIn
  <2>3. k \in DOMAIN M
    BY <1>5, <2>1, <2>2
  <2>4. PacketsIn(S, k) \subseteq PacketsIn(U, k)
    BY <1>2, <1>5 DEF PacketsIn
  <2>5. M[k] \in Listed(D)
    BY <1>6, <2>3, <2>4 DEF Given
  <2> QED
    BY <1>2, <2>3, <2>5
<1>10. Handing(U, N, r.is_ordered, acc, T, R, D)
  <2>1. acc \subseteq DOMAIN U
    BY <1>2, <1>6
  <2> QED
    BY <1>4, <1>6, <1>7, <1>8, <1>9, <2>1 DEF Handing
<1>11. r.published \in Seq(KeptOf(U)) /\ r.buffered \in [Slots -> KeptOf(U) \cup {None}]
  <2>1. r.published \in Seq(KeptOf(S)) /\ r.buffered \in [Slots -> KeptOf(S) \cup {None}]
    BY <1>1 DEF Same
  <2> QED
    BY <1>3, <2>1
<1>12. Same(KeptOf(U), r, q)
  BY <1>1, <1>11 DEF Same
<1>13. Queued(U, r.is_ordered, acc, T, r.published)
  BY <1>1, <1>11 DEF Queued
<1>14. l <= Len(U)
  <2>1. l \in Nat /\ Len(S) \in Nat /\ Len(U) \in Nat
    BY <1>1, KeptNumbers DEF Holds, Stands
  <2> QED
    BY <1>1, <1>2, <2>1
<1> QED
  BY <1>1, <1>10, <1>12, <1>13, <1>14 DEF SideOK

\* A new receiver, before anything was sent
LEMMA SideStart ==
  ASSUME NEW o \in BOOLEAN
  PROVE  Laid(<< >>, << >>) /\ SideOK(<< >>, << >>, create(o), 0, {}, {}, << >>)
<1> DEFINE r == create(o)
           S == << >>
<1>1. /\ DOMAIN r = Fields /\ r.is_ordered = o
      /\ r.current_sequence = 0 /\ r.last_sequence = 0 /\ r.received = {}
      /\ r.buffered = [i \in Slots |-> None] /\ r.published = << >>
      /\ r.skipped_sequences = 0
  BY DEF create, Fields
<1>2. SequenceOf(0) = 0
  BY Bounds, SmallSequence
<1>3. DOMAIN S = {} /\ Len(S) = 0
  OBVIOUS
<1>4. S \in Seq(Packets) /\ S \in Seq(Seq(Chunk)) /\ S \in Seq(KeptOf(S))
  OBVIOUS
<1> HIDE DEF r, S
<1>5. Laid(S, S)
  BY <1>3, <1>4 DEF Laid
<1>6. Listed(S) = {}
  BY <1>3 DEF Listed
<1>7. Same(KeptOf(S), r, r)
  <2>1. Numbered(None) = None
    BY DEF Numbered
  <2>2. [i \in DOMAIN r.published |-> r.published[i].sequence] = << >>
    BY <1>1
  <2>3. [i \in Slots |-> Numbered(r.buffered[i])] = r.buffered
    BY <1>1, <2>1
  <2> QED
    BY <1>1, <2>2, <2>3 DEF Same
<1>8. Stands(r, 0, 0, {}, {})
  BY <1>1, <1>2, Bounds DEF Stands
<1>9. Known(r.is_ordered, 0, 0, {}, {}, {}, {})
  BY DEF Known
<1>10. Complete(r.is_ordered, 0, {}, {}, {})
  BY DEF Complete
<1>11. Holds(r, 0, 0, {}, {}, {}, {})
  BY <1>8, <1>9, <1>10 DEF Holds
<1>12. {} \cup Listed(r.published) = {}
  BY <1>1, <1>6 DEF S
<1>13. Holds(r, 0, 0, {}, {}, {}, {} \cup Listed(r.published))
  BY <1>11, <1>12
<1>14. Handing(S, S, r.is_ordered, {}, {}, {}, S)
  <2>1. Intact(S, S, {}, S) /\ InTurn(S) /\ Given(S, S, {}, S)
    BY <1>3 DEF Intact, InTurn, Given
  <2>2. Stored(S, S, {}, {}, S)
    BY DEF Stored
  <2> QED
    BY <1>4, <2>1, <2>2 DEF Handing
<1>15. Queued(S, r.is_ordered, {}, {}, r.published)
  BY <1>1, <1>3, <1>4 DEF Queued, S
<1>16. 0 <= Len(S)
  BY <1>3
<1>17. SideOK(S, S, r, 0, {}, {}, S)
  <2>1. \E q, l, m, w, acc :
           /\ Same(KeptOf(S), r, q)
           /\ Holds(q, 0, l, m, w, acc, {} \cup Listed(q.published))
           /\ l <= Len(S)
           /\ Handing(S, S, r.is_ordered, acc, {}, {}, S)
           /\ Queued(S, r.is_ordered, acc, {}, r.published)
    <3> WITNESS r, 0, {}, {}, {}
    <3> QED
      BY <1>7, <1>13, <1>14, <1>15, <1>16
  <2> QED
    BY <2>1 DEF SideOK
<1> QED
  BY <1>5, <1>17 DEF S, r

-----------------------------------------------------------------------------
(***************************************************************************)
(* The inductive invariant.                                                *)
(***************************************************************************)
SentOK ==
  /\ Laid(sent, messages) /\ Grouped(sent, next_group)
  /\ Len(sent) <= MaxPackets

IInv == SentOK /\ SideOK(sent, messages, rcv, head, taken, received, delivered)

LEMMA InitOK ==
  ASSUME Init PROVE IInv
<1>1. PICK o \in BOOLEAN : rcv = create(o)
  BY DEF Init
<1>2. /\ sent = << >> /\ messages = << >> /\ next_group = 1
      /\ received = {} /\ head = 0 /\ taken = {} /\ delivered = << >>
  BY DEF Init
<1>3. Laid(<< >>, << >>) /\ SideOK(<< >>, << >>, create(o), 0, {}, {}, << >>)
  BY SideStart
<1>4. Grouped(<< >>, 1) /\ Len(<< >>) <= MaxPackets
  BY FragmentAssumption DEF Grouped
<1> QED
  BY <1>1, <1>2, <1>3, <1>4 DEF IInv, SentOK

\* The sender's steps: a message e in the packets E
LEMMA SenderStep ==
  ASSUME IInv, NEW E \in Seq(Packets), E # << >>, NEW e \in Seq(Chunk),
         NEW group,
         \A i \in DOMAIN E : E[i].sequence = Len(sent) + i,
         \/ SentWhole(sent, messages, E, e)
         \/ SentInGroup(sent, messages, E, e, group),
         sent' = sent \o E, messages' = Append(messages, e),
         Len(sent) + Len(E) <= MaxPackets,
         next_group' \in Nat, next_group' >= next_group,
         next_group' <= next_group + 1,
         \A i \in DOMAIN E : E[i].type = FRAGMENT => E[i].group <= next_group',
         UNCHANGED <<rcv, received, head, taken, delivered>>
  PROVE  IInv'
<1>1. /\ Laid(sent, messages) /\ Grouped(sent, next_group)
      /\ SideOK(sent, messages, rcv, head, taken, received, delivered)
  BY DEF IInv, SentOK
<1>2. /\ Laid(sent', messages')
      /\ Longer(sent, messages, sent', messages')
      /\ Len(sent') = Len(sent) + Len(E)
      /\ \A n \in DOMAIN sent' : n \in DOMAIN sent \/
           \E i \in DOMAIN E : sent'[n] = E[i]
  BY <1>1, LaidMore
<1>3. SideOK(sent', messages', rcv', head', taken', received', delivered')
  BY <1>1, <1>2, SideMore
<1>4. /\ Len(sent) \in Nat /\ Len(E) \in Nat /\ Len(E) >= 1
      /\ next_group \in Nat /\ next_group >= 1 /\ next_group <= Len(sent) + 1
  <2>1. Len(sent) \in Nat
    BY <1>1, KeptNumbers
  <2>2. Len(E) \in Nat /\ Len(E) >= 1
    OBVIOUS
  <2> QED
    BY <1>1, <2>1, <2>2 DEF Grouped
<1>5. Len(sent') <= MaxPackets /\ next_group' >= 1 /\ next_group' <= Len(sent') + 1
  BY <1>2, <1>4
<1>6. ASSUME NEW n \in DOMAIN sent', sent'[n].type = FRAGMENT
      PROVE  sent'[n].group <= next_group'
  <2>1. CASE n \in DOMAIN sent
    <3>1. sent'[n] = sent[n] /\ sent[n].group \in Nat
      BY <1>1, <1>2, <2>1, PacketAt DEF Longer
    <3>2. sent[n].group <= next_group
      BY <1>1, <1>6, <2>1, <3>1 DEF Grouped
    <3> QED
      BY <1>4, <3>1, <3>2
  <2>2. CASE \E i \in DOMAIN E : sent'[n] = E[i]
    BY <1>6, <2>2
  <2> QED
    BY <1>2, <2>1, <2>2
<1>7. Grouped(sent', next_group')
  BY <1>5, <1>6 DEF Grouped
<1> QED
  BY <1>2, <1>3, <1>5, <1>7 DEF IInv, SentOK

LEMMA SendWholeStep ==
  ASSUME OneTurn, IInv, SendWhole PROVE IInv'
<1> DEFINE L == Len(sent)
           k == Len(messages) + 1
           e == << <<k, 1>> >>
           p == Packet(RELIABLE, L + 1, e, 0, 0, 0)
<1>1. /\ L \in Nat /\ sent \in Seq(Packets)
      /\ Len(messages) \in Nat /\ messages \in Seq(Seq(Chunk))
      /\ next_group \in Nat
  BY KeptNumbers DEF IInv, SentOK, Laid, Grouped
<1>2. L < MaxPackets /\ MaxPackets \in Nat /\ MaxPackets + 3 <= U16_MAX
  BY FragmentAssumption DEF SendWhole, OneTurn
<1>3. L + 1 < U16_MAX /\ L + 1 \in Nat /\ L < U16_MAX
  BY <1>1, <1>2, Bounds
<1>4. SequenceOf(L + 1) = L + 1 /\ L + 1 \in SeqNo
  <2> HIDE DEF L
  <2> QED
    BY <1>3, SmallSequence
<1>5. next_sequence(SequenceOf(L)) = L + 1
  BY <1>1, <1>4, SequenceNext
<1>6. Chunks(1) = e
  <2>1. Chunks(1) = [i \in 1 .. 1 |-> <<k, i>>]
    BY DEF Chunks
  <2> HIDE DEF k
  <2> QED
    BY <2>1
<1>7. k \in Nat /\ <<k, 1>> \in Chunk
  BY <1>1 DEF Chunk
<1>8. e \in Seq(Chunk)
  <2> HIDE DEF k
  <2> QED
    BY <1>7
<1>9. p \in Packets /\ p.sequence = L + 1 /\ p.type = RELIABLE /\ p.body = e
  <2> HIDE DEF e, L
  <2>1. 0 \in SeqNo /\ e \in Seq(Nat \X Nat)
    BY <1>8, Bounds DEF SeqNo, Chunk
  <2> QED
    BY <1>4, <2>1 DEF Packet, Packets
<1> HIDE DEF p, e, k, L
<1> DEFINE E == << p >>
<1>10. /\ E \in Seq(Packets) /\ E # << >> /\ Len(E) = 1 /\ DOMAIN E = {1} /\ E[1] = p
  BY <1>9
<1>11. sent' = sent \o E
  <2>1. sent' = Append(sent, p)
    BY <1>5, <1>6 DEF SendWhole, p, L
  <2> QED
    BY <1>1, <1>9, <2>1, AppendIsConcat
<1> HIDE DEF E
<1>12. SentWhole(sent, messages, E, e)
  BY <1>9, <1>10 DEF SentWhole, e, k
<1>13. \A i \in DOMAIN E : E[i].sequence = Len(sent) + i
  BY <1>9, <1>10 DEF L
<1>14. \A i \in DOMAIN E : E[i].type = FRAGMENT => E[i].group <= next_group'
  BY <1>9, <1>10 DEF RELIABLE, FRAGMENT
<1>15. Len(sent) + Len(E) <= MaxPackets
  BY <1>1, <1>2, <1>10 DEF L
<1>16. /\ next_group' \in Nat /\ next_group' >= next_group
       /\ next_group' <= next_group + 1
  BY <1>1 DEF SendWhole
<1>17. messages' = Append(messages, e)
  BY <1>6 DEF SendWhole
<1>18. UNCHANGED <<rcv, received, head, taken, delivered>>
  BY DEF SendWhole
<1> QED
  BY <1>8, <1>10, <1>11, <1>12, <1>13, <1>14, <1>15, <1>16, <1>17, <1>18,
     SenderStep

LEMMA SendFragmentsStep ==
  ASSUME OneTurn, IInv, NEW k \in Sizes, SendFragments(k) PROVE IInv'
<1> DEFINE L == Len(sent)
           m == Len(messages) + 1
           g == next_group'
           e == [i \in 1 .. k |-> <<m, i>>]
           E == create_fragments(SequenceOf(L), g, e)
<1>1. /\ L \in Nat /\ sent \in Seq(Packets)
      /\ m \in Nat /\ messages \in Seq(Seq(Chunk))
      /\ next_group \in Nat /\ next_group <= L + 1
      /\ \A n \in DOMAIN sent : sent[n].type = FRAGMENT
                                  => sent[n].group <= next_group
  BY KeptNumbers DEF IInv, SentOK, Laid, Grouped
<1>2. /\ k \in Nat /\ k > 0 /\ L + k <= MaxPackets /\ MaxPackets \in Nat
      /\ MaxPackets + 3 <= U16_MAX /\ U16_MAX \in Nat
  BY FragmentAssumption, Bounds DEF SendFragments, OneTurn
<1>3. g = next_group + 1
  <2>1. g = get_next_group(next_group)
    BY DEF SendFragments
  <2>2. ~ (next_group + 1 >= U16_MAX - 1)
    BY <1>1, <1>2
  <2> QED
    BY <2>1, <2>2 DEF get_next_group
<1>4. Chunks(k) = e
  BY DEF Chunks
<1>5. /\ e \in Seq(Chunk) /\ Len(e) = k
      /\ \A i \in 1 .. k : e[i] = <<m, i>> /\ e[i] \in Chunk
  <2>1. \A i \in 1 .. k : <<m, i>> \in Chunk
    BY <1>1 DEF Chunk
  <2> HIDE DEF m
  <2> QED
    BY <1>2, <2>1
<1>6. ASSUME NEW i \in 1 .. k
      PROVE  ring_plus(SequenceOf(L), i) = L + i /\ L + i \in SeqNo
  <2>1. L < U16_MAX /\ L + i < U16_MAX /\ L + i \in Nat
        /\ i \in 0 .. U16_MAX - 1
    BY <1>1, <1>2
  <2> HIDE DEF L
  <2>2. SequenceOf(L) = L /\ SequenceOf(L + i) = L + i /\ L + i \in SeqNo
    BY <1>1, <2>1, SmallSequence
  <2> QED
    BY <1>1, <1>2, <2>1, <2>2 DEF ring_plus
<1> HIDE DEF L, m, g, e
<1>7. 1 \in 1 .. k
  BY <1>2
<1>8. E = [i \in 1 .. k |-> Packet(FRAGMENT, L + i, e[i], g, L + 1, k)]
  BY <1>5, <1>6, <1>7 DEF create_fragments
<1>9. \A i \in 1 .. k :
        LET p == Packet(FRAGMENT, L + i, e[i], g, L + 1, k)
        IN  /\ p \in Packets
            /\ p.type = FRAGMENT /\ p.sequence = L + i /\ p.body = e[i]
            /\ p.group = g /\ p.start = L + 1 /\ p.count = k
  <2> SUFFICES ASSUME NEW i \in 1 .. k
               PROVE  LET p == Packet(FRAGMENT, L + i, e[i], g, L + 1, k)
                      IN  /\ p \in Packets
                          /\ p.type = FRAGMENT /\ p.sequence = L + i
                          /\ p.body = e[i]
                          /\ p.group = g /\ p.start = L + 1 /\ p.count = k
    OBVIOUS
  <2>1. L + i \in SeqNo /\ L + 1 \in SeqNo
    BY <1>6, <1>7
  <2>2. e[i] \in Nat \X Nat
    BY <1>5 DEF Chunk
  <2>3. g \in Nat
    BY <1>1, <1>3
  <2> QED
    BY <1>2, <2>1, <2>2, <2>3 DEF Packet, Packets
<1>10. /\ E \in Seq(Packets) /\ E # << >> /\ Len(E) = k /\ DOMAIN E = 1 .. k
       /\ \A i \in 1 .. k : /\ E[i].type = FRAGMENT /\ E[i].sequence = L + i
                            /\ E[i].body = e[i] /\ E[i].group = g
                            /\ E[i].start = L + 1 /\ E[i].count = k
  <2>1. E \in Seq(Packets) /\ Len(E) = k /\ DOMAIN E = 1 .. k
    <3>1. E \in [1 .. k -> Packets]
      BY <1>8, <1>9
    <3> HIDE DEF E
    <3> QED
      BY <1>2, <3>1
  <2>2. E # << >>
    <3> HIDE DEF E
    <3> QED
      BY <1>2, <2>1
  <2>3. \A i \in 1 .. k : E[i] = Packet(FRAGMENT, L + i, e[i], g, L + 1, k)
    BY <1>8
  <2> HIDE DEF E
  <2> QED
    BY <1>9, <2>1, <2>2, <2>3
<1>11. sent' = sent \o E
  BY <1>4 DEF SendFragments, L, g
<1> HIDE DEF E
<1>12. \A n \in DOMAIN sent : sent[n].type = FRAGMENT => sent[n].group # g
  BY <1>1, <1>3
<1>13. SentInGroup(sent, messages, E, e, g)
  <2>1. e = [i \in 1 .. Len(E) |-> <<m, i>>]
    BY <1>10 DEF e
  <2> QED
    BY <1>5, <1>10, <1>12, <2>1 DEF SentInGroup, m, L
<1>14. \A i \in DOMAIN E : E[i].sequence = Len(sent) + i
  BY <1>10 DEF L
<1>15. /\ next_group' \in Nat /\ next_group' >= next_group
       /\ next_group' <= next_group + 1
  BY <1>1, <1>3 DEF g
<1>16. \A i \in DOMAIN E : E[i].type = FRAGMENT => E[i].group <= next_group'
  <2>1. g <= g
    BY <1>1, <1>3
  <2> QED
    BY <1>10, <2>1 DEF g
<1>17. Len(sent) + Len(E) <= MaxPackets
  BY <1>2, <1>10 DEF L
<1>18. messages' = Append(messages, e)
  BY <1>4 DEF SendFragments
<1>19. UNCHANGED <<rcv, received, head, taken, delivered>>
  BY DEF SendFragments
<1> QED
  BY <1>5, <1>10, <1>11, <1>13, <1>14, <1>15, <1>16, <1>17, <1>18, <1>19,
     SenderStep

\* head is the packet current_sequence stands for, before and after.
LEMMA Followed ==
  ASSUME NEW g \in Nat, head \in Nat, g >= head,
         rcv.current_sequence = head, rcv'.current_sequence = g, Follow
  PROVE  head' = g
<1>1. Distance(head, g) = g - head
  BY DEF Distance
<1> QED
  BY <1>1 DEF Follow

\* What CanArrive says of the reordering
LEMMA Arrives ==
  ASSUME IInv, NEW n \in DOMAIN sent, CanArrive(n)
  PROVE  /\ head \in Nat /\ n <= head + Farthest /\ n >= head - Latest
         /\ sent[n].sequence = n
<1>1. head \in Nat
  BY SideParts DEF IInv, SentOK
<1>2. n \in Nat /\ sent[n].sequence = n
  BY PacketAt DEF IInv, SentOK
<1>3. /\ Ahead \in Nat /\ Behind \in Nat
      /\ Ahead + 2 <= RECEIVE_BUFFER_SIZE /\ Ahead + 2 <= HALF /\ Behind + 3 <= HALF
  BY FragmentAssumption
<1>4. Ahead <= Farthest /\ Behind <= Latest
  BY <1>3, Bounds DEF Farthest, Latest
<1> QED
  BY <1>1, <1>2, <1>3, <1>4, Bounds DEF CanArrive

LEMMA ArriveFragmentStep ==
  ASSUME WindowFitsRing, IInv, NEW n \in DOMAIN sent, ArriveFragment(n)
  PROVE  IInv'
<1> DEFINE p == sent[n]
           Q == receive_fragment(received, p)
           r == receive_packet(rcv, n, Kept(p)).receiver
<1>1. /\ SentOK /\ Laid(sent, messages)
      /\ SideOK(sent, messages, rcv, head, taken, received, delivered)
  BY DEF IInv, SentOK
<1>2. /\ head \in Nat /\ n <= head + Farthest /\ n >= head - Latest
      /\ p.sequence = n /\ p.type = FRAGMENT
  BY Arrives DEF ArriveFragment
<1>3. Kept(p) = [p EXCEPT !.body = None]
  BY <1>2 DEF Kept
<1>4. rcv' = r /\ received' = Q
  <2>1. LET result == process_fragment_message(rcv, received, p)
        IN  rcv' = result.receiver /\ received' = result.received
    BY DEF ArriveFragment
  <2> QED
    BY <1>2, <1>3, <2>1 DEF process_fragment_message
<1>5. UNCHANGED <<next_group, sent, messages, taken, delivered>> /\ Follow
  BY DEF ArriveFragment
<1>6. received \subseteq FragmentsOf(sent) /\ p \in FragmentsOf(sent)
  <2>1. received \subseteq FragmentsOf(sent)
    BY <1>1 DEF SideOK, Handing
  <2> QED
    BY <1>2, <2>1 DEF FragmentsOf
<1>7. received \subseteq Q /\ Q \subseteq FragmentsOf(sent) /\ p \in Q
  <2>1. CASE \E f \in received : f.group = p.group /\ f.sequence = p.sequence
    <3>1. PICK f \in received : f.sequence = n
      BY <1>2, <2>1
    <3>2. PICK j \in DOMAIN sent : f = sent[j]
      BY <1>6, <3>1 DEF FragmentsOf
    <3>3. f = p
      BY <1>1, <3>1, <3>2, PacketAt
    <3>4. Q = received
      BY <2>1 DEF receive_fragment
    <3> QED
      BY <1>6, <3>1, <3>3, <3>4
  <2>2. CASE ~ \E f \in received : f.group = p.group /\ f.sequence = p.sequence
    <3>1. Q = received \cup {p}
      BY <2>2 DEF receive_fragment
    <3> QED
      BY <1>6, <3>1
  <2> QED
    BY <2>1, <2>2
<1> HIDE DEF Q
<1>8. PICK g \in Nat : /\ g >= head
                       /\ SideOK(sent, messages, r, g, taken, Q, delivered)
  BY <1>1, <1>2, <1>7, SideReceive
<1> HIDE DEF r
<1>9. r.current_sequence = g /\ rcv.current_sequence = head
  BY <1>1, <1>8, SideParts
<1>10. head' = g
  BY <1>2, <1>4, <1>5, <1>8, <1>9, Followed
<1> QED
  BY <1>1, <1>4, <1>5, <1>8, <1>10 DEF IInv, SentOK

\* The two steps that hand out: r is the receiver, which stands at g.
LEMMA HandStep ==
  ASSUME SentOK, NEW r, NEW g,
         SideOK(sent, messages, r, g, taken, received, delivered),
         Hand(r, received), head' = g,
         UNCHANGED <<next_group, sent, messages>>
  PROVE  IInv' /\ rcv'.current_sequence = r.current_sequence
<1> DEFINE result == receive_published(r.published, received)
           gone   == Len(r.published) - Len(result.published)
           more   == {n \in 1 .. Len(sent) : \E i \in 1 .. gone :
                        r.published[i].sequence = sent[n].sequence}
<1>1. Laid(sent, messages)
  BY DEF SentOK
<1>2. SideOK(sent, messages, [r EXCEPT !.published = result.published], g,
             taken \cup more, result.received, delivered \o result.messages)
  BY <1>1, SideHand
<1>3. /\ rcv' = [r EXCEPT !.published = result.published]
      /\ received' = result.received
      /\ delivered' = delivered \o result.messages
      /\ taken' = taken \cup more
  BY DEF Hand
<1>4. DOMAIN r = Fields
  BY <1>1, SideParts
<1> HIDE DEF result, more
<1>5. rcv'.current_sequence = r.current_sequence
  BY <1>3, <1>4 DEF Fields
<1>6. SideOK(sent', messages', rcv', head', taken', received', delivered')
  BY <1>2, <1>3
<1> QED
  BY <1>5, <1>6 DEF IInv, SentOK

LEMMA ArriveWholeStep ==
  ASSUME WindowFitsRing, IInv, NEW n \in DOMAIN sent, ArriveWhole(n)
  PROVE  IInv'
<1> DEFINE p == sent[n]
           got == receive_packet(rcv, n, p)
           r == got.receiver
<1>1. /\ SentOK /\ Laid(sent, messages)
      /\ SideOK(sent, messages, rcv, head, taken, received, delivered)
  BY DEF IInv, SentOK
<1>2. /\ head \in Nat /\ n <= head + Farthest /\ n >= head - Latest
      /\ p.sequence = n /\ p.type = RELIABLE /\ p.type # FRAGMENT
  BY Arrives DEF ArriveWhole, RELIABLE, FRAGMENT
<1>3. Kept(p) = p
  BY <1>2 DEF Kept
<1>4. received \subseteq FragmentsOf(sent) /\ received \subseteq received
  BY <1>1 DEF SideOK, Handing
<1>5. PICK g \in Nat : /\ g >= head
                       /\ SideOK(sent, messages, r, g, taken, received, delivered)
  <2>1. \E g \in Nat : /\ g >= head
                       /\ SideOK(sent, messages,
                                 receive_packet(rcv, n, Kept(sent[n])).receiver,
                                 g, taken, received, delivered)
    BY <1>1, <1>2, <1>4, SideReceive
  <2> QED
    BY <1>3, <2>1
<1>6. /\ UNCHANGED <<next_group, sent, messages>> /\ Follow
      /\ \/ rcv' = r /\ UNCHANGED <<received, taken, delivered>>
         \/ Hand(r, received)
  BY <1>2 DEF ArriveWhole
<1> HIDE DEF r
<1>7. r.current_sequence = g /\ rcv.current_sequence = head
  BY <1>1, <1>5, SideParts
<1>8. CASE rcv' = r /\ UNCHANGED <<received, taken, delivered>>
  <2>1. head' = g
    BY <1>2, <1>5, <1>6, <1>7, <1>8, Followed
  <2> QED
    BY <1>1, <1>5, <1>6, <1>8, <2>1 DEF IInv, SentOK
<1>9. CASE Hand(r, received)
  <2>1. rcv'.current_sequence = g
    <3>1. DOMAIN r = Fields
      BY <1>1, <1>5, SideParts
    <3>2. rcv' = [r EXCEPT !.published =
                    receive_published(r.published, received).published]
      BY <1>9 DEF Hand
    <3> QED
      BY <1>7, <3>1, <3>2 DEF Fields
  <2>2. head' = g
    BY <1>2, <1>5, <1>6, <1>7, <2>1, Followed
  <2> QED
    BY <1>1, <1>5, <1>6, <1>9, <2>2, HandStep
<1> QED
  BY <1>6, <1>8, <1>9

LEMMA PublishStep ==
  ASSUME IInv, Publish PROVE IInv'
<1> DEFINE r == publish(rcv)
<1>1. /\ SentOK /\ Laid(sent, messages)
      /\ SideOK(sent, messages, rcv, head, taken, received, delivered)
  BY DEF IInv, SentOK
<1>2. /\ rcv' = r /\ Follow
      /\ UNCHANGED <<next_group, sent, messages, received, taken, delivered>>
  BY DEF Publish
<1>3. PICK g \in Nat :
         g >= head /\ SideOK(sent, messages, r, g, taken, received, delivered)
  BY <1>1, SidePublish
<1> HIDE DEF r
<1>4. r.current_sequence = g /\ rcv.current_sequence = head /\ head \in Nat
  BY <1>1, <1>3, SideParts
<1>5. head' = g
  BY <1>2, <1>3, <1>4, Followed
<1> QED
  BY <1>1, <1>2, <1>3, <1>5 DEF IInv, SentOK

LEMMA TakeStep ==
  ASSUME IInv, Take PROVE IInv'
<1>1. SentOK /\ SideOK(sent, messages, rcv, head, taken, received, delivered)
  BY DEF IInv
<1>2. /\ Hand(rcv, received) /\ head' = head
      /\ UNCHANGED <<next_group, sent, messages>>
  BY DEF Take
<1> QED
  BY <1>1, <1>2, HandStep

LEMMA NextOK ==
  ASSUME WindowFitsRing, OneTurn, IInv, [Next]_vars PROVE IInv'
<1>1. CASE \E k \in Sizes : SendFragments(k)
  BY <1>1, SendFragmentsStep
<1>2. CASE SendWhole
  BY <1>2, SendWholeStep
<1>3. CASE \E n \in DOMAIN sent : ArriveFragment(n)
  BY <1>3, ArriveFragmentStep
<1>4. CASE \E n \in DOMAIN sent : ArriveWhole(n)
  BY <1>4, ArriveWholeStep
<1>5. CASE Publish
  BY <1>5, PublishStep
<1>6. CASE Take
  BY <1>6, TakeStep
<1>7. CASE UNCHANGED vars
  BY <1>7 DEF vars, IInv, SentOK
<1> QED
  BY <1>1, <1>2, <1>3, <1>4, <1>5, <1>6, <1>7 DEF Next

LEMMA AlwaysOK ==
  ASSUME WindowFitsRing, OneTurn PROVE Spec => []IInv
<1>1. Init => IInv
  BY InitOK
<1>2. IInv /\ [Next]_vars => IInv'
  BY NextOK
<1> QED
  BY <1>1, <1>2, PTL DEF Spec

-----------------------------------------------------------------------------
(***************************************************************************)
(* The group ids, the packets on both sides and what was taken always have *)
(* their types: get_next_group and create_fragments stay in their ranges,  *)
(* and receive_fragment stores only fragments that were sent.              *)
(***************************************************************************)
THEOREM FragmentTypeOK ==
  ASSUME WindowFitsRing, OneTurn PROVE Spec => []TypeOK
<1>1. ASSUME IInv PROVE TypeOK
  <2>1. /\ Laid(sent, messages) /\ Grouped(sent, next_group)
        /\ Len(sent) <= MaxPackets
        /\ SideOK(sent, messages, rcv, head, taken, received, delivered)
    BY <1>1 DEF IInv, SentOK
  <2>2. next_group \in 1 .. U16_MAX - 2
    <3>1. Len(sent) \in Nat /\ MaxPackets \in Nat
      BY <2>1, KeptNumbers, FragmentAssumption
    <3> QED
      BY <2>1, <3>1, Bounds DEF Grouped, OneTurn
  <2>3. \A n \in DOMAIN sent : sent[n] \in Packets /\ Kept(sent[n]) \in Packets
    BY <2>1, PacketAt
  <2>4. rcv.published \in Seq(KeptOf(sent))
    BY <2>1 DEF SideOK, Same
  <2>5. \A i \in DOMAIN rcv.published : rcv.published[i] \in Packets
    <3>1. KeptOf(sent) \subseteq Packets
      BY <2>3 DEF KeptOf
    <3> QED
      BY <2>4, <3>1
  <2>6. received \subseteq FragmentsOf(sent) /\ taken \subseteq DOMAIN sent
    BY <2>1 DEF SideOK, Handing
  <2>7. received \subseteq {sent[n] : n \in DOMAIN sent}
    BY <2>6 DEF FragmentsOf
  <2>8. rcv.current_sequence \in SeqNo /\ rcv.last_sequence \in SeqNo
    BY <2>1, SideParts DEF OnRing
  <2> QED
    BY <2>2, <2>3, <2>5, <2>6, <2>7, <2>8 DEF TypeOK
<1> QED
  BY <1>1, AlwaysOK, PTL

(***************************************************************************)
(* Whatever packets arrive, in whatever order and however often, what      *)
(* receive_published gives the application is one of the messages sent,    *)
(* with all its chunks in order: assemble never mixes two groups and never *)
(* puts one together with a chunk missing.                                 *)
(***************************************************************************)
THEOREM AssemblyIsIntact ==
  ASSUME WindowFitsRing, OneTurn PROVE Spec => []AssembledIntact
<1>1. ASSUME IInv PROVE AssembledIntact
  <2>1. Laid(sent, messages)
    BY <1>1 DEF IInv, SentOK
  <2>2. taken \subseteq DOMAIN sent /\ Intact(sent, messages, taken, delivered)
    BY <1>1 DEF IInv, SideOK, Handing
  <2> SUFFICES ASSUME NEW i \in DOMAIN delivered
               PROVE  \E m \in DOMAIN messages : delivered[i] = messages[m]
    BY DEF AssembledIntact
  <2>3. PICK x \in taken : delivered[i] = messages[MessageIn(sent[x])]
    BY <2>2 DEF Intact
  <2>4. MessageIn(sent[x]) \in DOMAIN messages
    BY <2>1, <2>2, MessageAt
  <2> QED
    BY <2>3, <2>4
<1> QED
  BY <1>1, AlwaysOK, PTL

(***************************************************************************)
(* On an ordered channel no message comes after one that was sent later,   *)
(* although assemble delivers a group at the first of its fragments that   *)
(* is taken from the queue when all are stored.                            *)
(***************************************************************************)
THEOREM NoMessageOvertakes ==
  ASSUME WindowFitsRing, OneTurn PROVE Spec => []NoneOvertakes
<1>1. ASSUME IInv PROVE NoneOvertakes
  <2>1. rcv.is_ordered => InTurn(delivered)
    BY <1>1 DEF IInv, SideOK, Handing
  <2> QED
    BY <2>1 DEF InTurn, NoneOvertakes
<1> QED
  BY <1>1, AlwaysOK, PTL

(***************************************************************************)
(* Once all packets of a message were taken from the published queue, the  *)
(* message was delivered: a fragment that receive_packet accepted stays in *)
(* the map until assemble delivers its message, whatever late copies and   *)
(* skipped sequences come in between.                                      *)
(***************************************************************************)
THEOREM CompleteGroupsAreDelivered ==
  ASSUME WindowFitsRing, OneTurn PROVE Spec => []GroupsDelivered
<1>1. ASSUME IInv PROVE GroupsDelivered
  <2>1. Given(sent, messages, taken, delivered)
    BY <1>1 DEF IInv, SideOK, Handing
  <2> SUFFICES ASSUME NEW m \in DOMAIN messages, PacketsOf(m) \subseteq taken
               PROVE  \E i \in DOMAIN delivered : delivered[i] = messages[m]
    BY DEF GroupsDelivered
  <2>2. PacketsIn(sent, m) = PacketsOf(m)
    BY DEF PacketsIn, PacketsOf, MessageIn
  <2>3. messages[m] \in Listed(delivered)
    BY <2>1, <2>2 DEF Given
  <2> QED
    BY <2>3 DEF Listed
<1> QED
  BY <1>1, AlwaysOK, PTL
=============================================================================
