--------------------------- MODULE ChannelProofs ----------------------------
(***************************************************************************)
(* Theorems about ChannelSpec: two channels over a network that loses,     *)
(* duplicates and reorders, for any ring, buffers, window, redundancy and  *)
(* numbers of messages within ShortExchange.                               *)
(***************************************************************************)
EXTENDS ChannelSpec, ChannelLemmas

(***************************************************************************)
(* No more messages than the rings can keep apart, 1022 in the code: as    *)
(* the network may delay any packet to the end, the first may come after   *)
(* the last.                                                               *)
(***************************************************************************)
ShortExchange ==
  \A e \in Ends : /\ MaxSend[e] <= Farthest
                  /\ MaxSend[e] <= Latest
                  /\ MaxSend[e] < SEND_BUFFER_SIZE

-----------------------------------------------------------------------------
(***************************************************************************)
(* One end: its receiver, what its application was given and the number of *)
(* messages its peer has sent.  Here a message's body is its sequence.     *)
(***************************************************************************)
Bodies(D) == [i \in DOMAIN D |-> D[i].body]

EndOK(r, D, N) == D \in Seq(Message) /\ GaveOK(Message, r, Bodies(D), N)

\* The sending half: only messages that were sent are to be sent again.
SenderOK(ch, M) == HalfOK(Message, ch, M, ch.send_sequence)

PacketOK(p, S, N) == PacketOf(Message, p, S, N)

LEMMA BodiesType ==
  ASSUME NEW D \in Seq(Message)
  PROVE  Bodies(D) \in Seq(Nat) /\ Bodies(D) = NumbersOf(D)
<1>1. DOMAIN D = 1 .. Len(D) /\ Len(D) \in Nat
  OBVIOUS
<1>2. \A i \in DOMAIN D : D[i].body = D[i].sequence /\ D[i].body \in Nat
  BY <1>1, MessageType
<1>3. Bodies(D) \in [1 .. Len(D) -> Nat]
  BY <1>1, <1>2 DEF Bodies
<1>4. Bodies(D) = NumbersOf(D)
  BY <1>2 DEF Bodies, NumbersOf
<1> QED
  BY <1>1, <1>3, <1>4

LEMMA MessageCarried ==
  /\ Message \in SUBSET (Written \cup Nones) /\ Numbers(Message)
  /\ \A p \in Message : p.type # NONE
<1>1. Message \in SUBSET (Written \cup Nones)
  BY DEF Message
<1>2. \A p \in Message : p.type # NONE
  BY MessageType DEF RELIABLE, RELIABLE_WITH_NACK, NONE
<1> QED
  BY <1>1, <1>2, CarriedNumbers

LEMMA EndParts ==
  ASSUME NEW N \in Nat, N < U16_MAX, NEW D, NEW r, EndOK(r, D, N)
  PROVE  /\ r.last_sequence \in Nat /\ r.last_sequence <= N /\ OnRing(r)
         /\ D \in Seq(Message)
BY GaveParts DEF EndOK

LEMMA EndMore ==
  ASSUME NEW N \in Nat, NEW M \in Nat, N <= M, N < U16_MAX,
         NEW D, NEW r, EndOK(r, D, N)
  PROVE  EndOK(r, D, M)
BY GaveMore DEF EndOK

LEMMA EndStart ==
  ASSUME NEW o \in BOOLEAN PROVE EndOK(create(o), << >>, 0)
<1>1. Bodies(<< >>) = << >> /\ << >> \in Seq(Message)
  BY DEF Bodies
<1> QED
  BY <1>1, GaveStart DEF EndOK

LEMMA EndSound ==
  ASSUME NEW N \in Nat, N < U16_MAX, NEW D, NEW r, EndOK(r, D, N)
  PROVE  /\ Ranked(r.is_ordered, Bodies(D))
         /\ r.is_ordered /\ r.skipped_sequences = 0 =>
              \A i \in DOMAIN D : D[i].body = i
         /\ r.received \subseteq Slots
         /\ nacked_sequences(create_nacks(r)) \subseteq 1 .. N
<1> DEFINE G == Bodies(D)
<1>1. DOMAIN G = DOMAIN D /\ \A i \in DOMAIN D : G[i] = D[i].body
  BY DEF Bodies
<1>2. GaveOK(Message, r, G, N)
  BY DEF EndOK
<1> HIDE DEF G
<1>3. /\ Ranked(r.is_ordered, G)
      /\ r.is_ordered /\ r.skipped_sequences = 0 => \A i \in DOMAIN G : G[i] = i
      /\ r.received \subseteq Slots
      /\ nacked_sequences(create_nacks(r)) \subseteq 1 .. N
  BY <1>2, GaveSound
<1>4. r.is_ordered /\ r.skipped_sequences = 0 => \A i \in DOMAIN D : D[i].body = i
  BY <1>1, <1>3
<1> QED
  BY <1>3, <1>4 DEF G

\* What is handed on of messages is what is delivered.
LEMMA EndHands ==
  ASSUME NEW r, NEW D \in Seq(Message), NEW messages, NEW N,
         HandsOn(Message, r, Bodies(D), messages, N)
  PROVE  EndOK(r, D \o messages, N)
<1>1. PICK skip \in Seq(Nat) :
         /\ (\A p \in Message : p.type # NONE) => skip = << >>
         /\ GaveOK(Message, r, (Bodies(D) \o skip) \o NumbersOf(messages), N)
  BY DEF HandsOn
<1>2. skip = << >> /\ Bodies(D) \in Seq(Nat) /\ Bodies(D) = NumbersOf(D)
  BY <1>1, MessageCarried, BodiesType
<1>3. messages \in Seq(Message)
  <2>1. messages = << >> \/ \E p \in Message : messages = << p >>
    BY DEF HandsOn, Gives
  <2>2. \A p \in Message : << p >> \in Seq(Message)
    OBVIOUS
  <2>3. << >> \in Seq(Message)
    OBVIOUS
  <2> QED
    BY <2>1, <2>2, <2>3
<1>4. D \o messages \in Seq(Message)
  BY <1>3
<1>5. NumbersOf(D) \o NumbersOf(messages) = NumbersOf(D \o messages)
  BY <1>3, MessageCarried, SameJoin
<1>6. Bodies(D) \o << >> = Bodies(D)
  BY <1>2
<1>7. GaveOK(Message, r, NumbersOf(D \o messages), N)
  BY <1>1, <1>2, <1>5, <1>6
<1> QED
  BY <1>4, <1>7, BodiesType DEF EndOK

\* receive_published
LEMMA TakeOK ==
  ASSUME NEW N \in Nat, N < U16_MAX, NEW M, NEW ch, NEW D,
         SenderOK(ch, M), EndOK(ch.receiver, D, N)
  PROVE  LET res == receive_published(ch)
         IN  /\ SenderOK(res.channel, M)
             /\ res.channel.send_sequence = ch.send_sequence
             /\ EndOK(res.channel.receiver, D \o res.messages, N)
<1> DEFINE res == receive_published(ch)
           S   == ch.send_sequence
           G   == Bodies(D)
<1>0. HalfOK(Message, ch, M, S) /\ GaveOK(Message, ch.receiver, G, N)
  BY DEF SenderOK, EndOK
<1> HIDE DEF S, G
<1>1. /\ HalfOK(Message, res.channel, M, S)
      /\ res.channel.send_sequence = ch.send_sequence
      /\ HandsOn(Message, res.channel.receiver, G, res.messages, N)
  BY <1>0, HalfTake
<1> HIDE DEF res
<1>2. EndOK(res.channel.receiver, D \o res.messages, N)
  BY <1>1, EndHands DEF EndOK, G
<1> QED
  BY <1>1, <1>2 DEF SenderOK, res, S

\* receive_from_socket, of a packet that is in order
LEMMA ReceiveOK ==
  ASSUME WindowFitsRing, NEW N \in Nat, N <= Farthest, N <= Latest,
         NEW M, NEW ch, NEW D, NEW p,
         SenderOK(ch, M), EndOK(ch.receiver, D, N), PacketOK(p, ch.send_sequence, N)
  PROVE  LET res == receive_from_socket(ch, p)
         IN  /\ SenderOK(res.channel, M)
             /\ res.channel.send_sequence = ch.send_sequence
             /\ EndOK(res.channel.receiver, D \o res.messages, N)
<1> DEFINE res == receive_from_socket(ch, p)
           S   == ch.send_sequence
           G   == Bodies(D)
<1>0. /\ HalfOK(Message, ch, M, S) /\ GaveOK(Message, ch.receiver, G, N)
      /\ PacketOf(Message, p, S, N)
  BY DEF SenderOK, EndOK, PacketOK
<1> HIDE DEF S, G
<1>1. /\ HalfOK(Message, res.channel, M, S)
      /\ res.channel.send_sequence = ch.send_sequence
      /\ HandsOn(Message, res.channel.receiver, G, res.messages, N)
  BY <1>0, HalfReceive, MessageCarried
<1> HIDE DEF res
<1>2. EndOK(res.channel.receiver, D \o res.messages, N)
  BY <1>1, EndHands DEF EndOK, G
<1> QED
  BY <1>1, <1>2 DEF SenderOK, res, S

\* update: the channel it leaves and what it sends to the peer
LEMMA UpdateOK ==
  ASSUME NEW N \in Nat, N < U16_MAX, NEW M \in Nat, M < SEND_BUFFER_SIZE,
         M < U16_MAX - 1, NEW ch, NEW D, SenderOK(ch, M), EndOK(ch.receiver, D, N)
  PROVE  /\ SenderOK(update(ch), M)
         /\ update(ch).send_sequence = ch.send_sequence
         /\ EndOK(update(ch).receiver, D, N)
         /\ \A p \in update_sends(ch) : PacketOK(p, N, ch.send_sequence)
<1> DEFINE S == ch.send_sequence
           G == Bodies(D)
           c == update(ch)
<1>1. S \in Nat /\ S <= M /\ S <= S /\ SEND_BUFFER_SIZE \in Nat
  BY ChannelAssumption DEF SenderOK, HalfOK
<1>2. S < SEND_BUFFER_SIZE /\ S < U16_MAX
  BY <1>1, Bounds
<1>3. HalfOK(Message, ch, M, S) /\ GaveOK(Message, ch.receiver, G, N)
  BY DEF SenderOK, EndOK
<1> HIDE DEF S, G
<1>4. /\ HalfOK(Message, c, M, 0)
      /\ c.send_sequence = ch.send_sequence
      /\ GaveOK(Message, c.receiver, G, N)
      /\ Keeps(ch.receiver, c.receiver)
      /\ \A p \in update_sends(ch) :
           /\ PacketOf(Message \cup Nones, p, N, S)
           /\ S <= ch.send_sequence => PacketOf(Message, p, N, S)
  <2>1. Numbers(Message)
    BY MessageCarried
  <2> QED
    BY <1>1, <1>2, <1>3, <2>1, HalfUpdate, MessageResendable, Zenon
<1> HIDE DEF c
<1>5. HalfOK(Message, c, M, S)
  <2>1. Message \subseteq Message /\ 0 \in Nat /\ 0 <= S /\ M <= M
    BY <1>1
  <2> QED
    BY <1>1, <1>4, <2>1, HalfMore
<1>6. \A p \in update_sends(ch) : PacketOK(p, N, S)
  BY <1>1, <1>4 DEF PacketOK, S
<1> QED
  BY <1>4, <1>5, <1>6 DEF SenderOK, EndOK, S, c, G

\* send_reliable of the next message
LEMMA SendOK ==
  ASSUME NEW M \in Nat, M < SEND_BUFFER_SIZE, M < U16_MAX - 1,
         NEW ch, SenderOK(ch, M), ch.send_sequence < M, NEW stale
  PROVE  LET S == ch.send_sequence + 1
             p == reliable_packet(ch, S, stale)
             c == send_reliable(ch, p)
         IN  /\ p \in Message /\ p.sequence = S
             /\ SenderOK(c, M) /\ c.send_sequence = S
             /\ c.receiver = ch.receiver
<1> DEFINE S == ch.send_sequence + 1
           p == reliable_packet(ch, S, stale)
           c == send_reliable(ch, p)
<1>1. /\ ch.send_sequence \in Nat /\ S \in Nat /\ S <= M /\ ch.send_sequence <= S
      /\ HalfOK(Message, ch, M, ch.send_sequence)
  BY DEF SenderOK, HalfOK
<1>2. p \in Written /\ p.sequence = S /\ p.body = S
  <2> DEFINE b == S
  <2>1. b \in Nat
    BY <1>1
  <2> HIDE DEF b
  <2>2. LET k == reliable_packet(ch, b, stale)
        IN  k \in Written /\ k.sequence = ch.send_sequence + 1 /\ k.body = b
    BY <1>1, <2>1, NextPacket
  <2> QED
    BY <2>2 DEF b
<1>3. p \in Message
  BY <1>2 DEF Message
<1> HIDE DEF p
<1>4. /\ HalfOK(Message, c, M, ch.send_sequence) /\ c.send_sequence = S
      /\ c.receiver = ch.receiver
  BY <1>1, <1>2, <1>3, HalfSend
<1> HIDE DEF c, S
<1>5. HalfOK(Message, c, M, S)
  <2>1. Message \subseteq Message /\ M <= M
    OBVIOUS
  <2> QED
    BY <1>1, <1>4, <2>1, HalfMore
<1> QED
  BY <1>2, <1>3, <1>4, <1>5 DEF SenderOK, S, p, c

-----------------------------------------------------------------------------
(***************************************************************************)
(* The inductive invariant: both halves of both ends, and the packets in   *)
(* flight.                                                                 *)
(***************************************************************************)
EndsOK ==
  /\ DOMAIN channel = Ends /\ DOMAIN delivered = Ends
  /\ \A e \in Ends :
       /\ SenderOK(channel[e], MaxSend[e])
       /\ EndOK(channel[e].receiver, delivered[e], channel[Peer(e)].send_sequence)

NetOK ==
  \A m \in net :
    /\ m.to \in Ends
    /\ PacketOK(m.packet, channel[m.to].send_sequence,
                channel[Peer(m.to)].send_sequence)

CountsOK == lost \in 0 .. MaxLost /\ duplicated \in 0 .. MaxDuplicated

IInv == EndsOK /\ NetOK /\ CountsOK

\* Each end is the peer of the other.
LEMMA Peers ==
  ASSUME NEW e \in Ends
  PROVE  /\ Peer(e) \in Ends /\ Peer(e) # e /\ Peer(Peer(e)) = e
         /\ Ends = {e, Peer(e)}
BY ChannelSpecAssumption DEF Ends, Peer

\* What ShortExchange gives at each end
LEMMA Short ==
  ASSUME ShortExchange, EndsOK, NEW e \in Ends
  PROVE  /\ MaxSend[e] \in Nat /\ MaxSend[e] <= Farthest /\ MaxSend[e] <= Latest
         /\ MaxSend[e] < SEND_BUFFER_SIZE /\ MaxSend[e] < U16_MAX - 1
         /\ channel[e].send_sequence \in Nat
         /\ channel[e].send_sequence <= Farthest
         /\ channel[e].send_sequence <= Latest
         /\ channel[e].send_sequence < U16_MAX
<1>1. /\ MaxSend[e] \in Nat /\ MaxSend[e] <= Farthest /\ MaxSend[e] <= Latest
      /\ MaxSend[e] < SEND_BUFFER_SIZE
  BY ChannelSpecAssumption DEF ShortExchange
<1>2. channel[e].send_sequence \in 0 .. MaxSend[e]
  BY DEF EndsOK, SenderOK, HalfOK
<1> QED
  BY <1>1, <1>2, Bounds

(***************************************************************************)
(* A step at end e that leaves channel c there and D delivered.            *)
(***************************************************************************)
LEMMA StepAt ==
  ASSUME ShortExchange, EndsOK, NetOK, NEW e \in Ends, NEW c, NEW D,
         channel' = [channel EXCEPT ![e] = c],
         DOMAIN delivered' = Ends, delivered'[e] = D,
         delivered'[Peer(e)] = delivered[Peer(e)],
         SenderOK(c, MaxSend[e]), c.send_sequence >= channel[e].send_sequence,
         EndOK(c.receiver, D, channel[Peer(e)].send_sequence)
  PROVE  /\ EndsOK'
         /\ \A m \in net :
              /\ m.to \in Ends
              /\ PacketOK(m.packet, channel'[m.to].send_sequence,
                          channel'[Peer(m.to)].send_sequence)
<1> DEFINE f == Peer(e)
<1>1. f \in Ends /\ f # e /\ Peer(f) = e /\ Ends = {e, f}
  BY Peers
<1>2. DOMAIN channel' = Ends /\ channel'[e] = c /\ channel'[f] = channel[f]
  BY <1>1 DEF EndsOK
<1>3. /\ channel[e].send_sequence \in Nat /\ channel[e].send_sequence < U16_MAX
  BY Short
<1>4. c.send_sequence \in Nat
  BY ChannelSpecAssumption DEF SenderOK, HalfOK
<1>5. /\ SenderOK(channel[f], MaxSend[f])
      /\ EndOK(channel[f].receiver, delivered[f], channel[e].send_sequence)
  BY <1>1 DEF EndsOK
<1>6. EndOK(channel[f].receiver, delivered[f], c.send_sequence)
  BY <1>3, <1>4, <1>5, EndMore
<1>7. EndsOK'
  <2>1. /\ SenderOK(channel'[e], MaxSend[e])
        /\ EndOK(channel'[e].receiver, delivered'[e], channel'[f].send_sequence)
    BY <1>2
  <2>2. /\ SenderOK(channel'[f], MaxSend[f])
        /\ EndOK(channel'[f].receiver, delivered'[f], channel'[e].send_sequence)
    BY <1>2, <1>5, <1>6
  <2> HIDE DEF f
  <2>3. \A g \in Ends :
          /\ SenderOK(channel'[g], MaxSend[g])
          /\ EndOK(channel'[g].receiver, delivered'[g], channel'[Peer(g)].send_sequence)
    <3> SUFFICES ASSUME NEW g \in Ends
                 PROVE  /\ SenderOK(channel'[g], MaxSend[g])
                        /\ EndOK(channel'[g].receiver, delivered'[g],
                                 channel'[Peer(g)].send_sequence)
      OBVIOUS
    <3>1. CASE g = e
      BY <2>1, <3>1 DEF f
    <3>2. CASE g = f
      BY <1>1, <2>2, <3>2
    <3> QED
      BY <1>1, <3>1, <3>2
  <2> QED
    BY <1>2, <2>3 DEF EndsOK
<1>8. ASSUME NEW m \in net
      PROVE  /\ m.to \in Ends
             /\ PacketOK(m.packet, channel'[m.to].send_sequence,
                         channel'[Peer(m.to)].send_sequence)
  <2> DEFINE p == m.packet
             S == channel[m.to].send_sequence
             N == channel[Peer(m.to)].send_sequence
             T == channel'[m.to].send_sequence
             O == channel'[Peer(m.to)].send_sequence
  <2>1. m.to \in Ends /\ PacketOK(p, S, N)
    BY DEF NetOK
  <2>2. Peer(m.to) \in Ends /\ S \in Nat /\ N \in Nat
    BY <2>1, Peers, Short
  <2>3. T \in Nat /\ O \in Nat /\ S <= T /\ N <= O
    <3>1. CASE m.to = e
      BY <1>2, <1>4, <2>2, <3>1
    <3>2. CASE m.to = f
      BY <1>1, <1>2, <1>4, <2>2, <3>2
    <3> QED
      BY <1>1, <2>1, <3>1, <3>2
  <2>4. PacketOK(p, T, O)
    <3> HIDE DEF S, N, T, O, p
    <3>1. CASE p \in Message /\ p.sequence <= N
      <4>1. p.sequence \in Nat
        BY <3>1, MessageType
      <4> QED
        BY <2>2, <2>3, <3>1, <4>1 DEF PacketOK, PacketOf
    <3>2. CASE p \in ChannelPackets /\ p.type = NACK /\ p.nacks \subseteq 1 .. S
      <4>1. 1 .. S \subseteq 1 .. T
        BY <2>2, <2>3
      <4> QED
        BY <3>2, <4>1 DEF PacketOK, PacketOf
    <3> QED
      BY <2>1, <3>1, <3>2 DEF PacketOK, PacketOf
  <2> QED
    BY <2>1, <2>4
<1> QED
  BY <1>7, <1>8

-----------------------------------------------------------------------------
(***************************************************************************)
(* Every step keeps the invariant.                                         *)
(***************************************************************************)
LEMMA InitOK ==
  ASSUME Init PROVE IInv
<1>1. PICK o \in BOOLEAN : channel = [e \in Ends |-> create_channel(o)]
  BY DEF Init
<1> DEFINE ch == create_channel(o)
<1>2. /\ DOMAIN ch = ChannelFields /\ ch.receiver = create(o)
      /\ ch.send_sequence = 0 /\ ch.nacked = {}
      /\ ch.buffers = [i \in 0 .. SEND_BUFFER_SIZE - 1 |-> None]
  BY DEF create_channel, ChannelFields
<1>3. \A e \in Ends : channel[e] = ch
  BY <1>1
<1> HIDE DEF ch
<1>4. ASSUME NEW M \in Nat PROVE SenderOK(ch, M)
  <2>1. ch.send_sequence \in 0 .. M /\ ch.nacked \subseteq 1 .. ch.send_sequence
    BY <1>2
  <2>2. /\ \A i \in 1 .. ch.send_sequence : FALSE
        /\ \A i \in ch.send_sequence + 1 .. SEND_BUFFER_SIZE - 1 : ch.buffers[i] = None
    BY <1>2, ChannelAssumption
  <2> QED
    BY <1>2, <2>1, <2>2 DEF SenderOK, HalfOK
<1>5. EndOK(ch.receiver, << >>, ch.send_sequence)
  BY <1>2, EndStart
<1>6. \A e \in Ends : /\ delivered[e] = << >> /\ MaxSend[e] \in Nat
                      /\ channel[Peer(e)] = ch
  BY <1>3, Peers, ChannelSpecAssumption DEF Init
<1>7. EndsOK
  BY <1>1, <1>3, <1>4, <1>5, <1>6 DEF EndsOK, Init
<1>8. NetOK /\ CountsOK
  BY ChannelSpecAssumption DEF NetOK, CountsOK, Init
<1> QED
  BY <1>7, <1>8 DEF IInv

\* New packets of e to its peer join those in flight.
LEMMA NetJoin ==
  ASSUME NEW e \in Ends, NEW new, net' \subseteq net \cup ToPeer(e, new),
         \A m \in net : /\ m.to \in Ends
                        /\ PacketOK(m.packet, channel'[m.to].send_sequence,
                                    channel'[Peer(m.to)].send_sequence),
         \A p \in new : PacketOK(p, channel'[Peer(e)].send_sequence,
                                 channel'[e].send_sequence)
  PROVE  NetOK'
<1> SUFFICES ASSUME NEW m \in net'
             PROVE  /\ m.to \in Ends
                    /\ PacketOK(m.packet, channel'[m.to].send_sequence,
                                channel'[Peer(m.to)].send_sequence)
  BY DEF NetOK
<1>1. CASE m \in net
  BY <1>1
<1>2. CASE m \in ToPeer(e, new)
  <2>1. PICK p \in new : m = [to |-> Peer(e), packet |-> p]
    BY <1>2 DEF ToPeer
  <2>2. m.to = Peer(e) /\ m.packet = p /\ Peer(e) \in Ends /\ Peer(Peer(e)) = e
    BY <2>1, Peers
  <2> QED
    BY <2>2
<1> QED
  BY <1>1, <1>2

LEMMA SendStep ==
  ASSUME ShortExchange, IInv, NEW e \in Ends, Send(e)
  PROVE  IInv'
<1> DEFINE ch == channel[e]
           S  == ch.send_sequence + 1
<1>1. PICK stale \in StaleNacks :
         LET p == reliable_packet(ch, S, stale)
         IN  /\ channel' = [channel EXCEPT ![e] = send_reliable(ch, p)]
             /\ net' = net \cup ToPeer(e, {p})
  BY DEF Send
<1> DEFINE p == reliable_packet(ch, S, stale)
           c == send_reliable(ch, p)
<1>2. /\ SenderOK(ch, MaxSend[e]) /\ ch.send_sequence < MaxSend[e]
      /\ EndOK(ch.receiver, delivered[e], channel[Peer(e)].send_sequence)
      /\ delivered' = delivered /\ DOMAIN delivered = Ends
  BY DEF IInv, EndsOK, Send
<1>3. /\ MaxSend[e] \in Nat /\ MaxSend[e] < SEND_BUFFER_SIZE
      /\ MaxSend[e] < U16_MAX - 1 /\ ch.send_sequence \in Nat
  BY Short DEF IInv
<1>4. /\ p \in Message /\ p.sequence = S
      /\ SenderOK(c, MaxSend[e]) /\ c.send_sequence = S
      /\ c.receiver = ch.receiver
  BY <1>2, <1>3, SendOK
<1>5. /\ channel' = [channel EXCEPT ![e] = c] /\ net' = net \cup ToPeer(e, {p})
  BY <1>1
<1> HIDE DEF p, c
<1>6. c.send_sequence >= ch.send_sequence
  BY <1>3, <1>4
<1>7. /\ EndsOK'
      /\ \A m \in net :
           /\ m.to \in Ends
           /\ PacketOK(m.packet, channel'[m.to].send_sequence,
                       channel'[Peer(m.to)].send_sequence)
  BY <1>2, <1>4, <1>5, <1>6, StepAt DEF IInv
<1>8. channel'[e] = c
  BY <1>5 DEF IInv, EndsOK
<1>9. PacketOK(p, channel'[Peer(e)].send_sequence, channel'[e].send_sequence)
  BY <1>3, <1>4, <1>8 DEF PacketOK, PacketOf
<1>10. NetOK'
  BY <1>5, <1>7, <1>9, NetJoin
<1>11. CountsOK'
  BY DEF IInv, CountsOK, Send
<1> QED
  BY <1>7, <1>10, <1>11 DEF IInv

LEMMA UpdateStep ==
  ASSUME ShortExchange, IInv, NEW e \in Ends, Update(e)
  PROVE  IInv'
<1> DEFINE ch == channel[e]
           c  == update(ch)
           N  == channel[Peer(e)].send_sequence
<1>1. /\ channel' = [channel EXCEPT ![e] = c]
      /\ net' = net \cup ToPeer(e, update_sends(ch))
      /\ delivered' = delivered
  BY DEF Update
<1>2. /\ SenderOK(ch, MaxSend[e]) /\ DOMAIN delivered = Ends
      /\ EndOK(ch.receiver, delivered[e], N)
  BY DEF IInv, EndsOK
<1>3. /\ MaxSend[e] \in Nat /\ MaxSend[e] < SEND_BUFFER_SIZE
      /\ MaxSend[e] < U16_MAX - 1
      /\ ch.send_sequence \in Nat /\ N \in Nat /\ N < U16_MAX
      /\ Peer(e) \in Ends /\ Peer(e) # e
  BY Short, Peers DEF IInv
<1>4. /\ SenderOK(c, MaxSend[e])
      /\ c.send_sequence = ch.send_sequence
      /\ EndOK(c.receiver, delivered[e], N)
      /\ \A p \in update_sends(ch) : PacketOK(p, N, ch.send_sequence)
  BY <1>2, <1>3, UpdateOK
<1> HIDE DEF c
<1>5. c.send_sequence >= ch.send_sequence
  BY <1>3, <1>4
<1>6. /\ EndsOK'
      /\ \A m \in net :
           /\ m.to \in Ends
           /\ PacketOK(m.packet, channel'[m.to].send_sequence,
                       channel'[Peer(m.to)].send_sequence)
  BY <1>1, <1>2, <1>4, <1>5, StepAt DEF IInv
<1>7. channel'[e] = c /\ channel'[Peer(e)] = channel[Peer(e)]
  BY <1>1, <1>3 DEF IInv, EndsOK
<1>8. \A p \in update_sends(ch) :
        PacketOK(p, channel'[Peer(e)].send_sequence, channel'[e].send_sequence)
  BY <1>4, <1>7
<1>9. NetOK'
  BY <1>1, <1>6, <1>8, NetJoin
<1>10. CountsOK'
  BY DEF IInv, CountsOK, Update
<1> QED
  BY <1>6, <1>9, <1>10 DEF IInv

\* A receiving step at e that leaves no new packet in flight
LEMMA HandleStep ==
  ASSUME ShortExchange, IInv, NEW e \in Ends, NEW res, Handle(e, res),
         net' \subseteq net,
         SenderOK(res.channel, MaxSend[e]),
         res.channel.send_sequence = channel[e].send_sequence,
         EndOK(res.channel.receiver, delivered[e] \o res.messages,
               channel[Peer(e)].send_sequence)
  PROVE  EndsOK' /\ NetOK'
<1> DEFINE c == res.channel
           D == delivered[e] \o res.messages
<1>1. DOMAIN delivered = Ends /\ Peer(e) # e /\ Peer(e) \in Ends
  BY Peers DEF IInv, EndsOK
<1>2. /\ channel' = [channel EXCEPT ![e] = c]
      /\ DOMAIN delivered' = Ends /\ delivered'[e] = D
      /\ delivered'[Peer(e)] = delivered[Peer(e)]
  BY <1>1 DEF Handle
<1>3. c.send_sequence >= channel[e].send_sequence
  BY Short DEF IInv
<1> HIDE DEF c, D
<1>4. SenderOK(c, MaxSend[e]) /\ EndOK(c.receiver, D, channel[Peer(e)].send_sequence)
  BY DEF c, D
<1>5. /\ EndsOK'
      /\ \A m \in net :
           /\ m.to \in Ends
           /\ PacketOK(m.packet, channel'[m.to].send_sequence,
                       channel'[Peer(m.to)].send_sequence)
  BY <1>2, <1>3, <1>4, StepAt DEF IInv
<1>6. NetOK'
  BY <1>5 DEF NetOK
<1> QED
  BY <1>5, <1>6

\* A packet is taken from the socket, the last or not the last time.
LEMMA DeliverStep ==
  ASSUME ShortExchange, WindowFitsRing, IInv, NEW m \in net,
         Handle(m.to, receive_from_socket(channel[m.to], m.packet)),
         net' \subseteq net
  PROVE  EndsOK' /\ NetOK'
<1> DEFINE e   == m.to
           ch  == channel[e]
           N   == channel[Peer(e)].send_sequence
           res == receive_from_socket(ch, m.packet)
<1>1. e \in Ends /\ PacketOK(m.packet, ch.send_sequence, N)
  BY DEF IInv, NetOK
<1>2. Peer(e) \in Ends
  BY <1>1, Peers
<1>3. N \in Nat /\ N <= Farthest /\ N <= Latest
  BY <1>2, Short DEF IInv
<1>4. SenderOK(ch, MaxSend[e]) /\ EndOK(ch.receiver, delivered[e], N)
  BY <1>1 DEF IInv, EndsOK
<1>5. /\ SenderOK(res.channel, MaxSend[e])
      /\ res.channel.send_sequence = ch.send_sequence
      /\ EndOK(res.channel.receiver, delivered[e] \o res.messages, N)
  BY <1>1, <1>3, <1>4, ReceiveOK
<1>6. Handle(e, res)
  OBVIOUS
<1> HIDE DEF res
<1> QED
  BY <1>1, <1>5, <1>6, HandleStep

LEMMA TakeStep ==
  ASSUME ShortExchange, IInv, NEW e \in Ends, Take(e)
  PROVE  EndsOK' /\ NetOK'
<1> DEFINE ch  == channel[e]
           N   == channel[Peer(e)].send_sequence
           res == receive_published(ch)
<1>1. N \in Nat /\ N < U16_MAX
  BY Peers, Short DEF IInv
<1>2. SenderOK(ch, MaxSend[e]) /\ EndOK(ch.receiver, delivered[e], N)
  BY DEF IInv, EndsOK
<1>3. /\ SenderOK(res.channel, MaxSend[e])
      /\ res.channel.send_sequence = ch.send_sequence
      /\ EndOK(res.channel.receiver, delivered[e] \o res.messages, N)
  BY <1>1, <1>2, TakeOK
<1>4. Handle(e, res) /\ net' \subseteq net
  BY DEF Take
<1> HIDE DEF res
<1> QED
  BY <1>3, <1>4, HandleStep

LEMMA NextOK ==
  ASSUME ShortExchange, WindowFitsRing, IInv, [Next]_vars
  PROVE  IInv'
<1>1. ASSUME NEW e \in Ends, Send(e) PROVE IInv'
  BY <1>1, SendStep
<1>2. ASSUME NEW e \in Ends, Update(e) PROVE IInv'
  BY <1>2, UpdateStep
<1>3. ASSUME NEW e \in Ends, Take(e) PROVE IInv'
  <2>1. EndsOK' /\ NetOK'
    BY <1>3, TakeStep
  <2> QED
    BY <1>3, <2>1 DEF IInv, CountsOK, Take
<1>4. ASSUME NEW m \in net, Deliver(m) PROVE IInv'
  <2>1. /\ Handle(m.to, receive_from_socket(channel[m.to], m.packet))
        /\ net' \subseteq net /\ lost' = lost /\ duplicated' = duplicated
    BY <1>4 DEF Deliver
  <2>2. EndsOK' /\ NetOK'
    BY <2>1, DeliverStep
  <2> QED
    BY <2>1, <2>2 DEF IInv, CountsOK
<1>5. ASSUME NEW m \in net, DeliverCopy(m) PROVE IInv'
  <2>1. /\ Handle(m.to, receive_from_socket(channel[m.to], m.packet))
        /\ net' \subseteq net /\ lost' = lost
        /\ duplicated < MaxDuplicated /\ duplicated' = duplicated + 1
    BY <1>5 DEF DeliverCopy
  <2>2. EndsOK' /\ NetOK'
    BY <2>1, DeliverStep
  <2> QED
    BY <2>1, <2>2, ChannelSpecAssumption DEF IInv, CountsOK
<1>6. ASSUME NEW m \in net, Lose(m) PROVE IInv'
  <2>1. /\ net' \subseteq net /\ channel' = channel /\ delivered' = delivered
        /\ lost < MaxLost /\ lost' = lost + 1 /\ duplicated' = duplicated
    BY <1>6 DEF Lose
  <2>2. EndsOK'
    BY <2>1 DEF IInv, EndsOK
  <2>3. NetOK'
    BY <2>1 DEF IInv, NetOK
  <2> QED
    BY <2>1, <2>2, <2>3, ChannelSpecAssumption DEF IInv, CountsOK
<1>7. CASE UNCHANGED vars
  <2>1. /\ channel' = channel /\ delivered' = delivered /\ net' = net
        /\ lost' = lost /\ duplicated' = duplicated
    BY <1>7 DEF vars
  <2> QED
    BY <2>1 DEF IInv, EndsOK, NetOK, CountsOK
<1> QED
  BY <1>1, <1>2, <1>3, <1>4, <1>5, <1>6, <1>7 DEF Next

LEMMA AlwaysOK ==
  ASSUME ShortExchange, WindowFitsRing
  PROVE  Spec => []IInv
<1>1. Init => IInv
  BY InitOK
<1>2. IInv /\ [Next]_vars => IInv'
  BY NextOK
<1> QED
  BY <1>1, <1>2, PTL DEF Spec

-----------------------------------------------------------------------------
(***************************************************************************)
(* Type correctness: whatever the network does, the counters stay on the   *)
(* ring, the marks on the slots, and only packets are sent, kept for a     *)
(* resend and delivered.                                                   *)
(***************************************************************************)
THEOREM ChannelTypeOK ==
  ASSUME ShortExchange, WindowFitsRing
  PROVE  Spec => []TypeOK
<1>1. IInv => TypeOK
  <2> SUFFICES ASSUME IInv PROVE TypeOK
    OBVIOUS
  <2>1. ASSUME NEW e \in Ends
        PROVE  /\ channel[e].send_sequence \in 0 .. MaxSend[e]
               /\ channel[e].receiver.current_sequence \in SeqNo
               /\ channel[e].receiver.received \subseteq Slots
               /\ channel[e].nacked \subseteq SeqNo
               /\ channel[e].buffers
                    \in [0 .. SEND_BUFFER_SIZE - 1 -> ChannelPackets \cup {None}]
               /\ \A i \in DOMAIN delivered[e] : /\ delivered[e][i] \in ChannelPackets
                                                 /\ delivered[e][i].body \in Nat
    <3> DEFINE ch == channel[e]
               N  == channel[Peer(e)].send_sequence
    <3>1. SenderOK(ch, MaxSend[e]) /\ EndOK(ch.receiver, delivered[e], N)
      BY <2>1 DEF IInv, EndsOK
    <3>2. /\ N \in Nat /\ N < U16_MAX /\ ch.send_sequence \in Nat
          /\ ch.send_sequence < U16_MAX /\ U16_MAX \in Nat
      BY <2>1, Peers, Short, Bounds DEF IInv
    <3>3. /\ OnRing(ch.receiver) /\ delivered[e] \in Seq(Message)
          /\ ch.receiver.received \subseteq Slots
      BY <3>1, <3>2, EndParts, EndSound
    <3>4. \A p \in Message : p \in ChannelPackets /\ p.body \in Nat
      BY MessageType DEF Written
    <3>5. \A i \in DOMAIN delivered[e] : delivered[e][i] \in Message
      BY <3>3
    <3>6. ch.buffers \in [0 .. SEND_BUFFER_SIZE - 1 -> ChannelPackets \cup {None}]
      BY <3>1, <3>4 DEF SenderOK, HalfOK
    <3>7. ch.nacked \subseteq SeqNo
      <4>1. 1 .. ch.send_sequence \subseteq SeqNo
        BY <3>2 DEF SeqNo
      <4> QED
        BY <3>1, <4>1 DEF SenderOK, HalfOK
    <3> QED
      BY <3>1, <3>3, <3>4, <3>5, <3>6, <3>7 DEF SenderOK, HalfOK, OnRing
  <2>2. \A m \in net : m.to \in Ends /\ m.packet \in ChannelPackets
    BY DEF IInv, NetOK, PacketOK, PacketOf, Message, Written
  <2> QED
    BY <2>1, <2>2 DEF TypeOK, IInv, CountsOK
<1> QED
  BY <1>1, AlwaysOK, PTL

(***************************************************************************)
(* Whatever is lost, duplicated, reordered, nacked and sent again, each    *)
(* message is delivered at most once, on an ordered channel in the order   *)
(* of sending, and without a hole until the receiver skips.                *)
(***************************************************************************)
THEOREM OnceAndInOrder ==
  ASSUME ShortExchange, WindowFitsRing
  PROVE  Spec => []DeliveredOnceInOrder
<1>1. IInv => DeliveredOnceInOrder
  <2> SUFFICES ASSUME IInv, NEW e \in Ends
               PROVE  LET r == channel[e].receiver
                          D == delivered[e]
                      IN  /\ \A i, j \in DOMAIN D :
                               i < j => IF r.is_ordered THEN D[i].body < D[j].body
                                                        ELSE D[i].body # D[j].body
                          /\ (r.is_ordered /\ r.skipped_sequences = 0) =>
                               \A i \in DOMAIN D : D[i].body = i
    BY DEF DeliveredOnceInOrder
  <2> DEFINE r == channel[e].receiver
             D == delivered[e]
             N == channel[Peer(e)].send_sequence
  <2>1. EndOK(r, D, N)
    BY DEF IInv, EndsOK
  <2>2. N \in Nat /\ N < U16_MAX
    BY Peers, Short DEF IInv
  <2> HIDE DEF r, D, N
  <2>3. /\ Ranked(r.is_ordered, Bodies(D))
        /\ r.is_ordered /\ r.skipped_sequences = 0 =>
             \A i \in DOMAIN D : D[i].body = i
    BY <2>1, <2>2, EndSound
  <2>4. \A i, j \in DOMAIN D :
          i < j => IF r.is_ordered THEN D[i].body < D[j].body
                                   ELSE D[i].body # D[j].body
    BY <2>3 DEF Ranked, Bodies
  <2> QED
    BY <2>3, <2>4 DEF r, D
<1> QED
  BY <1>1, AlwaysOK, PTL

(***************************************************************************)
(* No receiver gets ahead of its sender.                                   *)
(***************************************************************************)
THEOREM ReceiverStaysBehind ==
  ASSUME ShortExchange, WindowFitsRing
  PROVE  Spec => []ReceiverBehindSender
<1>1. IInv => ReceiverBehindSender
  BY DEF IInv, EndsOK, EndOK, GaveOK, ReceiverBehindSender
<1> QED
  BY <1>1, AlwaysOK, PTL

-----------------------------------------------------------------------------
(***************************************************************************)
(* The send buffers, when they are used again and again.  This needs no    *)
(* bound on the messages but that of one turn of the ring, 65534 in the    *)
(* code for 1024 buffers: beyond it slots shift by one.                    *)
(***************************************************************************)
OneTurnOfRing == \A e \in Ends : MaxSend[e] < U16_MAX

\* Division with remainder of numbers that may be negative
LEMMA IntRemainder ==
  ASSUME NEW m \in Nat \ {0}, NEW n \in Int
  PROVE  /\ n % m \in 0 .. m - 1
         /\ n \div m \in Int
         /\ n = m * (n \div m) + (n % m)
OBVIOUS

LEMMA IntMonotone ==
  ASSUME NEW m \in Nat \ {0}, NEW p \in Int, NEW q \in Int, p < q
  PROVE  m * p + m <= m * q
<1>1. PICK d \in Nat : q = p + 1 + d
  <2>1. q - p - 1 \in Nat /\ q = p + 1 + (q - p - 1)
    OBVIOUS
  <2> QED
    BY <2>1
<1>2. m * q = m * p + m + m * d /\ m * p \in Int
  BY <1>1
<1>3. m * d \in Nat
  OBVIOUS
<1> QED
  BY <1>2, <1>3

LEMMA IntUnique ==
  ASSUME NEW m \in Nat \ {0}, NEW n \in Int, NEW q \in Int,
         NEW r \in 0 .. m - 1, n = m * q + r
  PROVE  n % m = r
<1> DEFINE p == n \div m
           s == n % m
<1>1. p \in Int /\ s \in 0 .. m - 1 /\ n = m * p + s
  BY IntRemainder
<1> HIDE DEF p, s
<1>2. m * p \in Int /\ m * q \in Int
  BY <1>1
<1>3. ~ (p < q)
  BY <1>1, <1>2, IntMonotone
<1>4. ~ (q < p)
  BY <1>1, <1>2, IntMonotone
<1>5. p = q
  BY <1>1, <1>3, <1>4
<1>6. s = r
  BY <1>1, <1>2, <1>5
<1> QED
  BY <1>6 DEF s

\* A sequence and its slot have the same newest message.
LEMMA NewestOfSlot ==
  ASSUME NEW n \in Nat, NEW s \in Nat
  PROVE  /\ SendSlot(s) \in 0 .. SEND_BUFFER_SIZE - 1
         /\ Newest(n, SendSlot(s)) = Newest(n, s)
<1> DEFINE m == SEND_BUFFER_SIZE
           r == s % m
           q == s \div m
           t == (n - s) % m
           k == (n - s) \div m
<1>1. m \in Nat \ {0} /\ n - s \in Int
  BY ChannelAssumption
<1>2. r \in 0 .. m - 1 /\ q \in Int /\ s = m * q + r
  BY <1>1, IntRemainder
<1>3. t \in 0 .. m - 1 /\ k \in Int /\ n - s = m * k + t
  BY <1>1, IntRemainder
<1>4. SendSlot(s) = r
  BY DEF SendSlot, sequence_to_index
<1> HIDE DEF r, q, t, k, m
<1>5. /\ m * (k + q) = m * k + m * q /\ m * k \in Int /\ m * q \in Int
      /\ k + q \in Int /\ n - r \in Int
  BY <1>1, <1>2, <1>3
<1>6. n - r = m * (k + q) + t
  BY <1>2, <1>3, <1>5
<1>7. (n - r) % m = t
  BY <1>1, <1>3, <1>5, <1>6, IntUnique
<1> QED
  BY <1>2, <1>4, <1>7 DEF Newest, m, t

\* The next message is the newest of its own slot and of no other.
LEMMA NewestNext ==
  ASSUME NEW n \in Nat, NEW i \in 0 .. SEND_BUFFER_SIZE - 1
  PROVE  Newest(n + 1, i) = IF i = SendSlot(n + 1) THEN n + 1 ELSE Newest(n, i)
<1> DEFINE m == SEND_BUFFER_SIZE
           t == (n - i) % m
           k == (n - i) \div m
           j == (n + 1) % m
           u == ((n + 1) - i) % m
<1>1. /\ m \in Nat \ {0} /\ i \in 0 .. m - 1 /\ i \in Int /\ n - i \in Int
      /\ (n + 1) - i \in Int /\ n + 1 \in Int
  BY ChannelAssumption
<1>2. t \in 0 .. m - 1 /\ k \in Int /\ n - i = m * k + t
  BY <1>1, IntRemainder
<1>3. /\ SendSlot(n + 1) = j
      /\ Newest(n, i) = n - t /\ Newest(n + 1, i) = (n + 1) - u
  BY DEF SendSlot, sequence_to_index, Newest
<1>4. \A q \in Int : \A x \in 0 .. m - 1 : (n + 1) - i = m * q + x => u = x
  BY <1>1, IntUnique
<1>5. \A q \in Int : n + 1 = m * q + i => j = i
  BY <1>1, IntUnique
<1>6. \E q \in Int : n + 1 = m * q + j
  BY <1>1, IntRemainder
<1> HIDE DEF m, t, k, j, u
<1>7. m * k \in Int /\ m * (k + 1) = m * k + m /\ k + 1 \in Int
  BY <1>1, <1>2
<1>8. CASE t = m - 1
  <2>1. (n + 1) - i = m * (k + 1) + 0 /\ n + 1 = m * (k + 1) + i
    BY <1>1, <1>2, <1>7, <1>8
  <2>2. u = 0 /\ j = i
    <3>1. 0 \in 0 .. m - 1
      BY <1>1
    <3> QED
      BY <1>4, <1>5, <1>7, <2>1, <3>1
  <2> QED
    BY <1>3, <2>2
<1>9. CASE t # m - 1
  <2>1. t + 1 \in 0 .. m - 1 /\ (n + 1) - i = m * k + (t + 1)
    BY <1>1, <1>2, <1>7, <1>9
  <2>2. u = t + 1
    BY <1>2, <1>4, <2>1
  <2>3. j # i
    <3> SUFFICES ASSUME j = i PROVE FALSE
      OBVIOUS
    <3>1. PICK q \in Int : n + 1 = m * q + i
      BY <1>6
    <3>2. m * q \in Int /\ 0 \in 0 .. m - 1
      BY <1>1
    <3>3. (n + 1) - i = m * q + 0
      BY <1>1, <3>1, <3>2
    <3>4. u = 0
      BY <1>4, <3>2, <3>3
    <3> QED
      BY <1>2, <2>2, <3>4
  <2>4. (n + 1) - u = n - t
    BY <1>1, <1>2, <2>2
  <2> QED
    BY <1>3, <2>3, <2>4
<1> QED
  BY <1>8, <1>9

-----------------------------------------------------------------------------
(***************************************************************************)
(* Slot i of a sender that sent n messages holds the newest of its         *)
(* messages, if it has one.                                                *)
(***************************************************************************)
SlotHolds(b, n, i) ==
  IF Newest(n, i) > 0
  THEN /\ b # None /\ b.type \in {RELIABLE, RELIABLE_WITH_NACK}
       /\ b.sequence = Newest(n, i) /\ b.body = Newest(n, i)
  ELSE b = None

BuffersOK(ch, M) ==
  /\ DOMAIN ch = ChannelFields
  /\ ch.send_sequence \in 0 .. M
  /\ DOMAIN ch.buffers = 0 .. SEND_BUFFER_SIZE - 1
  /\ \A i \in 0 .. SEND_BUFFER_SIZE - 1 :
       SlotHolds(ch.buffers[i], ch.send_sequence, i)

SendersOK ==
  DOMAIN channel = Ends /\ \A e \in Ends : BuffersOK(channel[e], MaxSend[e])

\* What leaves the counter and the buffers alone
LEMMA BuffersSame ==
  ASSUME NEW ch, NEW M, BuffersOK(ch, M), NEW c, DOMAIN c = DOMAIN ch,
         c.send_sequence = ch.send_sequence, c.buffers = ch.buffers
  PROVE  BuffersOK(c, M)
BY DEF BuffersOK

LEMMA TakeBuffers ==
  ASSUME NEW ch, NEW M, BuffersOK(ch, M)
  PROVE  BuffersOK(receive_published(ch).channel, M)
<1> DEFINE c == receive_published(ch).channel
<1>1. DOMAIN ch = ChannelFields
  BY DEF BuffersOK
<1>2. /\ DOMAIN c = DOMAIN ch /\ c.send_sequence = ch.send_sequence
      /\ c.buffers = ch.buffers
  BY <1>1 DEF receive_published, ChannelFields
<1> QED
  BY <1>2, BuffersSame

LEMMA ReceiveBuffers ==
  ASSUME NEW ch, NEW M, BuffersOK(ch, M), NEW p
  PROVE  BuffersOK(receive_from_socket(ch, p).channel, M)
<1> DEFINE nacked == [ch EXCEPT !.nacked = @ \cup p.nacks]
           result == receive_packet(ch.receiver, p.sequence, p)
           got    == [nacked EXCEPT !.receiver = result.receiver]
           res    == receive_from_socket(ch, p)
<1>1. DOMAIN ch = ChannelFields
  BY DEF BuffersOK
<1>2. /\ DOMAIN nacked = DOMAIN ch /\ nacked.send_sequence = ch.send_sequence
      /\ nacked.buffers = ch.buffers
  BY <1>1 DEF ChannelFields
<1>3. BuffersOK(nacked, M)
  <2> HIDE DEF nacked
  <2> QED
    BY <1>2, BuffersSame
<1>4. res = IF p.type = NACK THEN [messages |-> << >>, channel |-> nacked]
            ELSE IF p.type # NONE /\ result.accepted THEN receive_published(got)
            ELSE [messages |-> << >>, channel |-> got]
  BY DEF receive_from_socket
<1> HIDE DEF nacked, result
<1>5. /\ DOMAIN got = DOMAIN nacked /\ got.send_sequence = nacked.send_sequence
      /\ got.buffers = nacked.buffers
  BY <1>1, <1>2 DEF ChannelFields
<1> HIDE DEF got, res
<1>6. BuffersOK(got, M)
  BY <1>3, <1>5, BuffersSame
<1>7. BuffersOK(receive_published(got).channel, M)
  BY <1>6, TakeBuffers
<1>8. BuffersOK(res.channel, M)
  BY <1>3, <1>4, <1>6, <1>7
<1> QED
  BY <1>8 DEF res

LEMMA UpdateBuffers ==
  ASSUME NEW ch, NEW M, BuffersOK(ch, M)
  PROVE  BuffersOK(update(ch), M)
<1> DEFINE c == update(ch)
<1>1. DOMAIN ch = ChannelFields
  BY DEF BuffersOK
<1>2. /\ DOMAIN c = DOMAIN ch /\ c.send_sequence = ch.send_sequence
      /\ c.buffers = ch.buffers
  BY <1>1 DEF update, ChannelFields
<1> HIDE DEF c
<1>3. BuffersOK(c, M)
  BY <1>2, BuffersSame
<1> QED
  BY <1>3 DEF c

\* send_reliable of the next message, into a slot used before or not
LEMMA SendBuffers ==
  ASSUME NEW M \in Nat, M < U16_MAX, NEW ch, BuffersOK(ch, M),
         ch.send_sequence < M, NEW stale \in SUBSET SeqNo
  PROVE  BuffersOK(send_reliable(ch,
                     reliable_packet(ch, ch.send_sequence + 1, stale)), M)
<1> DEFINE n == ch.send_sequence
           S == n + 1
           p == reliable_packet(ch, S, stale)
           c == send_reliable(ch, p)
           i == SendSlot(S)
<1>1. DOMAIN ch = ChannelFields /\ n \in Nat /\ S \in Nat /\ S \in 0 .. M /\ S >= 1
  BY DEF BuffersOK
<1>2. next_sequence(n) = S /\ S \in SeqNo
  BY <1>1, SequenceAssumption DEF next_sequence, SeqNo
<1>3. PICK nacks \in SUBSET SeqNo :
        \/ p = Packet(RELIABLE_WITH_NACK, S, S, FALSE, nacks)
        \/ p = Packet(RELIABLE, S, S, FALSE, nacks)
  <2>1. {} \in SUBSET SeqNo
    OBVIOUS
  <2> QED
    BY <1>2, <2>1 DEF reliable_packet
<1> HIDE DEF p
<1>4. /\ p \in ChannelPackets /\ p.sequence = S /\ p.body = S
      /\ p.type \in {RELIABLE, RELIABLE_WITH_NACK}
  <2>1. S \in Nat \cup {None} /\ FALSE \in BOOLEAN /\ nacks \in SUBSET SeqNo
    BY <1>1
  <2> HIDE DEF S
  <2>2. PICK type \in {RELIABLE, RELIABLE_WITH_NACK} :
           p = Packet(type, S, S, FALSE, nacks)
    BY <1>3
  <2>3. p = [type |-> type, sequence |-> S, body |-> S, padded |-> FALSE,
             nacks |-> nacks]
    BY <2>2 DEF Packet
  <2>4. type \in {RELIABLE, RELIABLE_WITH_NACK, NACK, NONE}
    OBVIOUS
  <2> QED
    BY <1>2, <2>1, <2>3, <2>4 DEF ChannelPackets
<1>5. p # None
  BY <1>4, PacketAssumption
<1>6. /\ DOMAIN c = ChannelFields /\ c.send_sequence = S
      /\ c.buffers = [ch.buffers EXCEPT ![i] = p]
  BY <1>1, <1>4 DEF send_reliable, ChannelFields
<1>7. DOMAIN ch.buffers = 0 .. SEND_BUFFER_SIZE - 1
  BY DEF BuffersOK
<1> HIDE DEF c
<1>8. ASSUME NEW j \in 0 .. SEND_BUFFER_SIZE - 1
      PROVE  SlotHolds(c.buffers[j], S, j)
  <2>1. /\ SlotHolds(ch.buffers[j], n, j)
        /\ c.buffers[j] = IF j = i THEN p ELSE ch.buffers[j]
    BY <1>6, <1>7 DEF BuffersOK
  <2>2. Newest(S, j) = IF j = i THEN S ELSE Newest(n, j)
    BY <1>1, NewestNext
  <2> HIDE DEF i, n, S
  <2>3. CASE j = i
    BY <1>1, <1>4, <1>5, <2>1, <2>2, <2>3 DEF SlotHolds
  <2>4. CASE j # i
    BY <2>1, <2>2, <2>4 DEF SlotHolds
  <2> QED
    BY <2>3, <2>4
<1>9. DOMAIN c.buffers = 0 .. SEND_BUFFER_SIZE - 1
  BY <1>6, <1>7
<1>10. BuffersOK(c, M)
  <2> HIDE DEF S, i
  <2> QED
    BY <1>1, <1>6, <1>8, <1>9 DEF BuffersOK
<1> QED
  BY <1>10 DEF c, p

\* A new channel
LEMMA StartBuffers ==
  ASSUME NEW M \in Nat, NEW o PROVE BuffersOK(create_channel(o), M)
<1> DEFINE ch == create_channel(o)
<1>1. /\ DOMAIN ch = ChannelFields /\ ch.send_sequence = 0
      /\ ch.buffers = [i \in 0 .. SEND_BUFFER_SIZE - 1 |-> None]
  BY DEF create_channel, ChannelFields
<1> HIDE DEF ch
<1>2. ASSUME NEW i \in 0 .. SEND_BUFFER_SIZE - 1
      PROVE  SlotHolds(ch.buffers[i], ch.send_sequence, i)
  <2>1. (0 - i) % SEND_BUFFER_SIZE \in 0 .. SEND_BUFFER_SIZE - 1
    <3>1. SEND_BUFFER_SIZE \in Nat \ {0} /\ 0 - i \in Int
      BY ChannelAssumption
    <3> QED
      BY <3>1, IntRemainder
  <2>2. ~ (Newest(0, i) > 0)
    BY <2>1, ChannelAssumption DEF Newest
  <2> QED
    BY <1>1, <2>2 DEF SlotHolds
<1>3. BuffersOK(ch, M)
  BY <1>1, <1>2 DEF BuffersOK
<1> QED
  BY <1>3 DEF ch

\* A step at end e that leaves good buffers there
LEMMA BuffersAt ==
  ASSUME SendersOK, NEW e \in Ends, NEW c,
         channel' = [channel EXCEPT ![e] = c], BuffersOK(c, MaxSend[e])
  PROVE  SendersOK'
<1>1. /\ DOMAIN channel' = Ends
      /\ \A f \in Ends : channel'[f] = IF f = e THEN c ELSE channel[f]
  BY DEF SendersOK
<1> QED
  BY <1>1 DEF SendersOK

LEMMA SendersStep ==
  ASSUME OneTurnOfRing, SendersOK, [Next]_vars
  PROVE  SendersOK'
<1>1. ASSUME NEW e \in Ends, Send(e) PROVE SendersOK'
  <2>1. PICK stale \in StaleNacks :
           channel' = [channel EXCEPT ![e] =
                         send_reliable(channel[e],
                           reliable_packet(channel[e],
                                           channel[e].send_sequence + 1, stale))]
    BY <1>1 DEF Send
  <2>2. /\ MaxSend[e] \in Nat /\ MaxSend[e] < U16_MAX
        /\ BuffersOK(channel[e], MaxSend[e])
        /\ channel[e].send_sequence < MaxSend[e] /\ stale \in SUBSET SeqNo
    BY <1>1, ChannelSpecAssumption DEF OneTurnOfRing, SendersOK, Send
  <2>3. BuffersOK(send_reliable(channel[e],
                    reliable_packet(channel[e],
                                    channel[e].send_sequence + 1, stale)),
                  MaxSend[e])
    BY <2>2, SendBuffers
  <2> QED
    BY <2>1, <2>3, BuffersAt
<1>2. ASSUME NEW e \in Ends, Update(e) PROVE SendersOK'
  <2>1. channel' = [channel EXCEPT ![e] = update(channel[e])]
    BY <1>2 DEF Update
  <2>2. BuffersOK(update(channel[e]), MaxSend[e])
    BY UpdateBuffers DEF SendersOK
  <2> QED
    BY <2>1, <2>2, BuffersAt
<1>3. ASSUME NEW e \in Ends, Take(e) PROVE SendersOK'
  <2>1. channel' = [channel EXCEPT ![e] = receive_published(channel[e]).channel]
    BY <1>3 DEF Take, Handle
  <2>2. BuffersOK(receive_published(channel[e]).channel, MaxSend[e])
    BY TakeBuffers DEF SendersOK
  <2> QED
    BY <2>1, <2>2, BuffersAt
<1>4. ASSUME NEW m \in net, Deliver(m) \/ DeliverCopy(m) PROVE SendersOK'
  <2> DEFINE c == receive_from_socket(channel[m.to], m.packet).channel
  <2>1. channel' = [channel EXCEPT ![m.to] = c]
    BY <1>4 DEF Deliver, DeliverCopy, Handle
  <2>2. CASE m.to \in Ends
    <3>1. BuffersOK(c, MaxSend[m.to])
      BY <2>2, ReceiveBuffers DEF SendersOK
    <3> HIDE DEF c
    <3> QED
      BY <2>1, <2>2, <3>1, BuffersAt
  <2>3. CASE m.to \notin Ends
    <3>1. DOMAIN channel' = Ends /\ \A f \in Ends : channel'[f] = channel[f]
      BY <2>1, <2>3 DEF SendersOK
    <3> QED
      BY <3>1 DEF SendersOK
  <2> QED
    BY <2>2, <2>3
<1>5. ASSUME NEW m \in net, Lose(m) PROVE SendersOK'
  BY <1>5 DEF Lose, SendersOK
<1>6. CASE UNCHANGED vars
  BY <1>6 DEF vars, SendersOK
<1> QED
  BY <1>1, <1>2, <1>3, <1>4, <1>5, <1>6 DEF Next

(***************************************************************************)
(* Whatever a nack asks for, whenever it comes and whatever old bytes were *)
(* read as one, resend_nacked answers with the newest message of the slot, *)
(* and with a NONE only if the slot was never used.                        *)
(***************************************************************************)
THEOREM ResendsAreNewest ==
  ASSUME OneTurnOfRing
  PROVE  Spec => []ResendIsNewest
<1>1. Init => SendersOK
  <2> SUFFICES ASSUME Init PROVE SendersOK
    OBVIOUS
  <2>1. PICK o \in BOOLEAN : channel = [e \in Ends |-> create_channel(o)]
    BY DEF Init
  <2>2. \A e \in Ends : MaxSend[e] \in Nat
    BY ChannelSpecAssumption
  <2> QED
    BY <2>1, <2>2, StartBuffers DEF SendersOK
<1>2. SendersOK /\ [Next]_vars => SendersOK'
  BY SendersStep
<1>3. SendersOK => ResendIsNewest
  <2> SUFFICES ASSUME SendersOK, NEW e \in Ends, NEW s \in SeqNo
               PROVE  LET answer == resend(channel[e], s)
                          newest == Newest(channel[e].send_sequence, s)
                      IN  IF newest > 0
                          THEN /\ answer.type = RELIABLE
                               /\ answer.sequence = newest
                               /\ answer.body = newest
                          ELSE answer.type = NONE /\ answer.sequence = s
    BY DEF ResendIsNewest
  <2> DEFINE ch == channel[e]
             n  == ch.send_sequence
             b  == ch.buffers[SendSlot(s)]
             answer == resend(ch, s)
             newest == Newest(n, s)
  <2>1. BuffersOK(ch, MaxSend[e]) /\ MaxSend[e] \in Nat /\ s \in Nat
    BY ChannelSpecAssumption, SequenceAssumption DEF SendersOK, SeqNo
  <2>2. n \in Nat
    BY <2>1 DEF BuffersOK
  <2>3. /\ SendSlot(s) \in 0 .. SEND_BUFFER_SIZE - 1
        /\ Newest(n, SendSlot(s)) = newest
    BY <2>1, <2>2, NewestOfSlot
  <2>4. SlotHolds(b, n, SendSlot(s))
    BY <2>1, <2>3 DEF BuffersOK
  <2>5. answer = IF b = None THEN Packet(NONE, s, None, FALSE, {})
                 ELSE IF b.type = RELIABLE_WITH_NACK
                 THEN Packet(RELIABLE, b.sequence, b.body, TRUE, {})
                 ELSE b
    BY DEF resend
  <2> HIDE DEF b, n, answer, newest
  <2>6. CASE newest > 0
    <3>1. /\ b # None /\ b.type \in {RELIABLE, RELIABLE_WITH_NACK}
          /\ b.sequence = newest /\ b.body = newest
      BY <2>3, <2>4, <2>6 DEF SlotHolds
    <3>2. answer.type = RELIABLE /\ answer.sequence = newest /\ answer.body = newest
      BY <2>5, <3>1 DEF Packet
    <3> QED
      BY <2>6, <3>2 DEF answer, newest, n
  <2>7. CASE ~ (newest > 0)
    <3>1. b = None
      BY <2>3, <2>4, <2>7 DEF SlotHolds
    <3>2. answer.type = NONE /\ answer.sequence = s
      BY <2>5, <3>1 DEF Packet
    <3> QED
      BY <2>7, <3>2 DEF answer, newest, n
  <2> QED
    BY <2>6, <2>7
<1> QED
  BY <1>1, <1>2, <1>3, PTL DEF Spec
=============================================================================
