---------------------------- MODULE FragmentSpec ----------------------------
(***************************************************************************)
(* One direction of a channel whose messages are sent whole or in          *)
(* fragments.  Nacks and resends are abstracted to a network that may      *)
(* deliver any packet sent, in any order, any number of times or never     *)
(* (ChannelSpec has them in detail).                                       *)
(***************************************************************************)
EXTENDS Fragmentation

CONSTANTS
  Sizes,          \* numbers of fragments a message may have; 0 is one sent whole
  MaxPackets,     \* bound: packets sent
  Ahead,          \* how far beyond current a packet can be
  Behind          \* how late a packet can be

ASSUME FragmentAssumption ==
  /\ Sizes \subseteq Nat
  /\ MaxPackets \in Nat /\ Ahead \in Nat /\ Behind \in Nat
  /\ Ahead + 2 <= RECEIVE_BUFFER_SIZE /\ Ahead + 2 <= HALF /\ Behind + 3 <= HALF

\* The packets there can be; what the receiver keeps of a fragment has no body
Packets ==
  [type     : {RELIABLE, FRAGMENT},
   sequence : SeqNo,
   body     : (Nat \X Nat) \cup Seq(Nat \X Nat) \cup {None},
   group    : Nat,
   start    : SeqNo,
   count    : Nat]

ASSUME PacketAssumption == None \notin Packets    \* an empty slot is no packet

VARIABLES
  next_group,     \* sender: Fragmentation::next_group
  sent,           \* sender: the packets, the n-th with sequence SequenceOf(n)
  messages,       \* history: the messages sent, as sequences of chunks
  rcv,            \* receiver: Receiver
  received,       \* receiver: Fragmentation::received
  head,           \* history: the packet current_sequence stands for
  taken,          \* history: packets taken from the published queue
  delivered       \* history: what the application was given

vars == <<next_group, sent, messages, rcv, received, head, taken, delivered>>

Init ==
  /\ next_group = 1
  /\ sent = << >>
  /\ messages = << >>
  /\ \E is_ordered \in BOOLEAN : rcv = create(is_ordered)
  /\ received = {}
  /\ head = 0
  /\ taken = {}
  /\ delivered = << >>

\* The chunks of the next message, if it has k
Chunks(k) == [i \in 1 .. k |-> <<Len(messages) + 1, i>>]

\* Tachyon::send_reliable of a message of FRAG_SIZE bytes or more
SendFragments(k) ==
  /\ k > 0 /\ Len(sent) + k <= MaxPackets
  /\ next_group' = get_next_group(next_group)
  /\ sent' = sent \o create_fragments(SequenceOf(Len(sent)), next_group', Chunks(k))
  /\ messages' = Append(messages, Chunks(k))
  /\ UNCHANGED <<rcv, received, head, taken, delivered>>

\* Tachyon::send_reliable of a shorter one
SendWhole ==
  /\ Len(sent) < MaxPackets
  /\ sent' = Append(sent, Packet(RELIABLE, next_sequence(SequenceOf(Len(sent))),
                                 Chunks(1), 0, 0, 0))
  /\ messages' = Append(messages, Chunks(1))
  /\ UNCHANGED <<next_group, rcv, received, head, taken, delivered>>

Follow == head' = head + Distance(rcv.current_sequence, rcv'.current_sequence)

(***************************************************************************)
(* receive_published on a receiver r and the fragments f it has.           *)
(***************************************************************************)
Hand(r, f) ==
  LET result == receive_published(r.published, f)
      gone   == Len(r.published) - Len(result.published)
  IN  /\ rcv' = [r EXCEPT !.published = result.published]
      /\ received' = result.received
      /\ delivered' = delivered \o result.messages
      /\ taken' = taken \cup {n \in 1 .. Len(sent) : \E i \in 1 .. gone :
                                r.published[i].sequence = sent[n].sequence}

\* A packet that is not too late or too early
CanArrive(n) == n <= head + Ahead /\ n >= head - Behind

\* receive_loop takes a fragment from the socket
ArriveFragment(n) ==
  /\ CanArrive(n) /\ sent[n].type = FRAGMENT
  /\ LET result == process_fragment_message(rcv, received, sent[n])
     IN  rcv' = result.receiver /\ received' = result.received
  /\ Follow
  /\ UNCHANGED <<next_group, sent, messages, taken, delivered>>

\* receive_loop takes a whole message, and hands one out if it is accepted
ArriveWhole(n) ==
  /\ CanArrive(n) /\ sent[n].type = RELIABLE
  /\ LET result == receive_packet(rcv, sent[n].sequence, sent[n])
     IN  \/ /\ ~ result.accepted
            /\ rcv' = result.receiver
            /\ UNCHANGED <<received, taken, delivered>>
         \/ /\ result.accepted
            /\ Hand(result.receiver, received)
  /\ Follow
  /\ UNCHANGED <<next_group, sent, messages>>

\* Channel::update once a frame
Publish ==
  /\ rcv' = publish(rcv)
  /\ Follow
  /\ UNCHANGED <<next_group, sent, messages, received, taken, delivered>>

\* receive_loop on an empty socket
Take ==
  /\ rcv.published # << >>
  /\ Hand(rcv, received)
  /\ UNCHANGED <<next_group, sent, messages, head>>

Next ==
  \/ \E k \in Sizes : SendFragments(k)
  \/ 0 \in Sizes /\ SendWhole
  \/ \E n \in DOMAIN sent : ArriveFragment(n) \/ ArriveWhole(n)
  \/ Publish
  \/ Take

Spec == Init /\ [][Next]_vars

-----------------------------------------------------------------------------
(***************************************************************************)
(* Properties.                                                             *)
(***************************************************************************)

\* Which message a delivered one is, by its first chunk
MessageOf(message) == message[1][1]

\* The numbers of the packets message m was sent in
PacketsOf(m) ==
  {n \in DOMAIN sent : IF sent[n].type = RELIABLE THEN sent[n].body[1][1] = m
                                                  ELSE sent[n].body[1] = m}

\* Type correctness of the group ids, the packets and what was taken.
TypeOK ==
  /\ next_group \in 1 .. U16_MAX - 2
  /\ \A n \in DOMAIN sent : sent[n] \in Packets
  /\ \A i \in DOMAIN rcv.published : rcv.published[i] \in Packets
  /\ received \subseteq {sent[n] : n \in DOMAIN sent}
  /\ rcv.current_sequence \in SeqNo /\ rcv.last_sequence \in SeqNo
  /\ taken \subseteq DOMAIN sent

(***************************************************************************)
(* What is delivered is what was sent: every chunk of one message, in its  *)
(* order, and nothing of another one, however the fragments of the         *)
(* messages arrived.                                                       *)
(***************************************************************************)
AssembledIntact ==
  \A i \in DOMAIN delivered : \E m \in DOMAIN messages : delivered[i] = messages[m]

(***************************************************************************)
(* On an ordered channel a message, whole or assembled, never comes after  *)
(* one that was sent later, although a group is assembled as soon as its   *)
(* last fragment is stored and not when the last is taken from the queue.  *)
(***************************************************************************)
NoneOvertakes ==
  rcv.is_ordered =>
    \A i, j \in DOMAIN delivered :
      i < j => MessageOf(delivered[i]) <= MessageOf(delivered[j])

(***************************************************************************)
(* No complete group is left behind: once all packets of a message went    *)
(* through the published queue, the message was delivered, also if late    *)
(* copies of its fragments and skipped sequences came in between.          *)
(***************************************************************************)
GroupsDelivered ==
  \A m \in DOMAIN messages :
    PacketsOf(m) \subseteq taken =>
      \E i \in DOMAIN delivered : delivered[i] = messages[m]

(***************************************************************************)
(* What the README says of ordered channels, "Ordered messages are only    *)
(* delivered in order": each message comes after all those before it, so   *)
(* none comes a second time.                                               *)
(***************************************************************************)
AssembledOnce ==
  rcv.is_ordered =>
    \A i, j \in DOMAIN delivered :
      i < j => MessageOf(delivered[i]) < MessageOf(delivered[j])
=============================================================================
