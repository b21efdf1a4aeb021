---------------------------- MODULE ChannelSpec -----------------------------
(***************************************************************************)
(* Two ends of one channel and the network between them.  Each end sends   *)
(* its messages 1, 2, ..., runs update once a frame and receives.  The     *)
(* network reorders freely, and loses and duplicates a bounded number of   *)
(* packets (tachyon_socket.rs and UDP are not modelled further).           *)
(***************************************************************************)
EXTENDS Channel

CONSTANTS
  A, B,           \* the two ends
  MaxSend,        \* bound: messages each end sends, a function of the end
  MaxLost,        \* bound: packets the network loses
  MaxDuplicated,  \* bound: packets the network delivers once more
  StaleNacks      \* what old bytes of a send buffer can decode to as a nack

VARIABLES
  channel,        \* channel[e]: the Channel at end e
  net,            \* packets in flight, as [to, packet]
  lost,           \* packets lost so far
  duplicated,     \* packets duplicated so far
  delivered       \* history: delivered[e], what the application at e was given

vars == <<channel, net, lost, duplicated, delivered>>

Ends == {A, B}

Peer(e) == IF e = A THEN B ELSE A

ASSUME ChannelSpecAssumption ==
  /\ A # B
  /\ MaxSend \in [Ends -> Nat]
  /\ MaxLost \in Nat /\ MaxDuplicated \in Nat
  /\ \A nacks \in StaleNacks : nacks \subseteq SeqNo

ToPeer(e, packets) == {[to |-> Peer(e), packet |-> p] : p \in packets}

Init ==
  /\ \E is_ordered \in BOOLEAN :    \* the same configuration at both ends
       channel = [e \in Ends |-> create_channel(is_ordered)]
  /\ net = {}
  /\ lost = 0
  /\ duplicated = 0
  /\ delivered = [e \in Ends |-> << >>]

\* The application at e sends its next message: Tachyon::send_reliable
Send(e) ==
  /\ channel[e].send_sequence < MaxSend[e]
  /\ \E stale \in StaleNacks :
       LET p == reliable_packet(channel[e], channel[e].send_sequence + 1, stale)
       IN  /\ channel' = [channel EXCEPT ![e] = send_reliable(@, p)]
           /\ net' = net \cup ToPeer(e, {p})
  /\ UNCHANGED <<lost, duplicated, delivered>>

\* Tachyon::update at e: nacks, resends and publish
Update(e) ==
  /\ channel' = [channel EXCEPT ![e] = update(@)]
  /\ net' = net \cup ToPeer(e, update_sends(channel[e]))
  /\ UNCHANGED <<lost, duplicated, delivered>>

\* What the application at e gets
Handle(e, result) ==
  /\ channel' = [channel EXCEPT ![e] = result.channel]
  /\ delivered' = [delivered EXCEPT ![e] = @ \o result.messages]

\* Tachyon::receive_loop takes packet m from the socket
Deliver(m) ==
  /\ m \in net
  /\ Handle(m.to, receive_from_socket(channel[m.to], m.packet))
  /\ net' = net \ {m}
  /\ UNCHANGED <<lost, duplicated>>

\* The same, for a packet that will arrive once more
DeliverCopy(m) ==
  /\ m \in net
  /\ duplicated < MaxDuplicated
  /\ Handle(m.to, receive_from_socket(channel[m.to], m.packet))
  /\ duplicated' = duplicated + 1
  /\ UNCHANGED <<net, lost>>

Lose(m) ==
  /\ m \in net
  /\ lost < MaxLost
  /\ net' = net \ {m}
  /\ lost' = lost + 1
  /\ UNCHANGED <<channel, duplicated, delivered>>

\* receive_loop on an empty socket: receive_published_all_channels
Take(e) ==
  /\ channel[e].receiver.published # << >>
  /\ Handle(e, receive_published(channel[e]))
  /\ UNCHANGED <<net, lost, duplicated>>

Next ==
  \/ \E e \in Ends : Send(e) \/ Update(e) \/ Take(e)
  \/ \E m \in net : Deliver(m) \/ DeliverCopy(m) \/ Lose(m)

(***************************************************************************)
(* Fairness.  The application calls update and receive once a frame, so    *)
(* both happen again and again.  A socket is a queue, so what the network  *)
(* does not lose is received: no sequence waits for ever behind others     *)
(* (0 is the sequence of every NACK).  Nothing makes an application send.  *)
(*                                                                         *)
(* These are WF_vars(Update(e)), WF_vars(Take(e)) and weak fairness of     *)
(* Deliver per receiver and sequence.  The conditions under which such a   *)
(* step is not enabled are written out, since TLC is slow at evaluating    *)
(* ENABLED of actions this deep.                                           *)
(***************************************************************************)
UpdateIdle(e) ==
  /\ update(channel[e]) = channel[e]
  /\ ToPeer(e, update_sends(channel[e])) \subseteq net

InFlight(e, s) == {m \in net : m.to = e /\ m.packet.sequence = s}

Fairness ==
  \A e \in Ends :
    /\ []<>UpdateIdle(e) \/ []<><<Update(e)>>_vars
    /\ []<>(channel[e].receiver.published = << >>) \/ []<><<Take(e)>>_vars
    /\ \A s \in 0 .. MaxSend[Peer(e)] :
         \/ []<>(InFlight(e, s) = {})
         \/ []<><<\E m \in InFlight(e, s) : Deliver(m)>>_vars

Spec == Init /\ [][Next]_vars /\ Fairness

-----------------------------------------------------------------------------
(***************************************************************************)
(* Properties.  MaxSend stays below U16_MAX, so message n has sequence n.  *)
(***************************************************************************)

\* Type correctness of the channels, the packets and what was delivered.
TypeOK ==
  /\ \A e \in Ends :
       /\ channel[e].send_sequence \in 0 .. MaxSend[e]
       /\ channel[e].receiver.current_sequence \in SeqNo
       /\ channel[e].receiver.received \subseteq Slots
       /\ channel[e].nacked \subseteq SeqNo
       /\ channel[e].buffers \in [0 .. SEND_BUFFER_SIZE - 1 -> ChannelPackets \cup {None}]
       /\ \A i \in DOMAIN delivered[e] : /\ delivered[e][i] \in ChannelPackets
                                         /\ delivered[e][i].body \in Nat
  /\ \A m \in net : m.to \in Ends /\ m.packet \in ChannelPackets
  /\ lost \in 0 .. MaxLost /\ duplicated \in 0 .. MaxDuplicated

\* Messages e has from its peer: delivered, published or buffered
Has(e, n) ==
  LET r == channel[e].receiver
  IN  n <= r.current_sequence \/ is_received(r, n)

(***************************************************************************)
(* Each application message arrives at most once, whatever is nacked, sent *)
(* again, duplicated or reordered; on an ordered channel messages arrive   *)
(* in the order of sending, and without a hole while nothing is skipped.   *)
(***************************************************************************)
DeliveredOnceInOrder ==
  \A e \in Ends :
    LET body(i) == delivered[e][i].body
        r       == channel[e].receiver
    IN  /\ \A i, j \in DOMAIN delivered[e] :
             i < j => IF r.is_ordered THEN body(i) < body(j)
                                      ELSE body(i) # body(j)
        /\ (r.is_ordered /\ r.skipped_sequences = 0) =>
             \A i \in DOMAIN delivered[e] : body(i) = i

(***************************************************************************)
(* What a nack is answered with, whichever sequence it asks for and        *)
(* however late it comes.  Sequences share slots and get_send_buffer does  *)
(* not compare, so the answer is not always what was asked for: it is the  *)
(* newest message of the slot.  That is message s itself exactly while     *)
(* fewer than SEND_BUFFER_SIZE messages were sent after it; later it is a  *)
(* newer one that shares its slot, never an older one.  A NONE, which lets *)
(* the receiver count s as received, is sent only for a slot never used.   *)
(***************************************************************************)
Newest(n, s) == n - ((n - s) % SEND_BUFFER_SIZE)

ResendIsNewest ==
  \A e \in Ends : \A s \in SeqNo :
    LET answer == resend(channel[e], s)
        newest == Newest(channel[e].send_sequence, s)
    IN  IF newest > 0
        THEN /\ answer.type = RELIABLE
             /\ answer.sequence = newest /\ answer.body = newest
        ELSE answer.type = NONE /\ answer.sequence = s

(***************************************************************************)
(* A receiver is never ahead of its sender: no sequence is received, not   *)
(* even as a NONE, before the peer sent a message with it.  A message sent *)
(* later under that sequence would be refused as a duplicate.              *)
(***************************************************************************)
ReceiverBehindSender ==
  \A e \in Ends :
    channel[e].receiver.last_sequence <= channel[Peer(e)].send_sequence

(***************************************************************************)
(* Losses are repaired: a message missing before last is received in the   *)
(* end, through nack and resend of which either may be lost too, unless so *)
(* many later messages arrive that create_nacks, which spends a pass on    *)
(* each, no longer gets as far.                                            *)
(***************************************************************************)
GapHeals ==
  \A e \in Ends : \A n \in 1 .. MaxSend[Peer(e)] :
    LET behind == channel[e].receiver.last_sequence - 1 - n
    IN  (behind >= 0 /\ behind < NackGroups)
          ~> (Has(e, n) \/ behind >= NackGroups)

(***************************************************************************)
(* What was received is delivered: once e has everything up to n, the      *)
(* application at e gets n.                                                *)
(***************************************************************************)
ReceivedIsDelivered ==
  \A e \in Ends : \A n \in 1 .. MaxSend[Peer(e)] :
    (\A m \in 1 .. n : Has(e, m))
      ~> (\E i \in DOMAIN delivered[e] : delivered[e][i].body = n)

(***************************************************************************)
(* What test_rewrite_nack_to_reliable of channel.rs says: a resent message *)
(* is shorter by the nack and otherwise what was sent, so the application  *)
(* gets the length that was sent.                                          *)
(***************************************************************************)
BodyIntact ==
  \A e \in Ends : \A i \in DOMAIN delivered[e] : ~ delivered[e][i].padded
=============================================================================
