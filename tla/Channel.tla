------------------------------ MODULE Channel -------------------------------
(***************************************************************************)
(* One end of a reliable channel: src/tachyon/channel.rs with its          *)
(* SendBufferManager (send_buffer_manager.rs) and its Receiver.  Fragments *)
(* are left out here.                                                      *)
(*                                                                         *)
(* A packet is what is on the wire: its message type, its sequence, the    *)
(* body (which message it carries), whether the body arrives padded with   *)
(* bytes that were not sent, and the sequences its nack bytes decode to.   *)
(***************************************************************************)
EXTENDS Nacks

CONSTANTS
  SEND_BUFFER_SIZE,     \* slots of send_buffers, 1024 in the code
  nack_redundancy       \* ChannelConfig::nack_redundancy, 1 by default

ASSUME ChannelAssumption ==
  SEND_BUFFER_SIZE \in Nat \ {0} /\ nack_redundancy \in Nat

\* header.rs: the message types of a channel
RELIABLE           == "reliable"
RELIABLE_WITH_NACK == "reliable_with_nack"
NACK               == "nack"
NONE               == "none"

Packet(type, sequence, body, padded, nacks) ==
  [type |-> type, sequence |-> sequence, body |-> body, padded |-> padded,
   nacks |-> nacks]

\* The packets there can be
ChannelPackets ==
  [type     : {RELIABLE, RELIABLE_WITH_NACK, NACK, NONE},
   sequence : SeqNo,
   body     : Nat \cup {None},
   padded   : BOOLEAN,
   nacks    : SUBSET SeqNo]

ASSUME PacketAssumption == None \notin ChannelPackets    \* an empty slot is no packet

SendSlot(s) == sequence_to_index(s, SEND_BUFFER_SIZE)

(***************************************************************************)
(* Channel::create.  send_sequence and buffers are the SendBufferManager;  *)
(* a buffer is kept as the packet that was written to it.  nacked is the   *)
(* key set of nacked_sequence_map: both ends have one peer, so one address.*)
(***************************************************************************)
create_channel(is_ordered) ==
  [ receiver      |-> create(is_ordered),
    nack_queue    |-> << >>,
    send_sequence |-> 0,
    buffers       |-> [i \in 0 .. SEND_BUFFER_SIZE - 1 |-> None],
    nacked        |-> {} ]

\* send_reliable: the front of the nack queue is to be piggybacked
piggybacks(ch) ==
  /\ nack_redundancy > 0
  /\ ch.nack_queue # << >>
  /\ Head(ch.nack_queue).sent_count < nack_redundancy

\* send_reliable: the nack at the front goes to the back, counted if it is used
rotated_nacks(ch) ==
  IF nack_redundancy = 0 \/ ch.nack_queue = << >> THEN ch.nack_queue
  ELSE LET nack == Head(ch.nack_queue)
       IN  Append(Tail(ch.nack_queue),
                  [nack EXCEPT !.sent_count = IF piggybacks(ch) THEN @ + 1
                                                                ELSE @])

(***************************************************************************)
(* The packet send_reliable writes.  header.write writes the four bytes of *)
(* the plain header only, so the six bytes of the nack are whatever the    *)
(* buffer held: zero in a new one, which read_single ignores, and in a     *)
(* buffer used before (stale) bytes of an older message.                   *)
(***************************************************************************)
reliable_packet(ch, body, stale) ==
  LET sequence == next_sequence(ch.send_sequence)
      fresh    == ch.buffers[SendSlot(sequence)] = None
  IN  IF piggybacks(ch)
      THEN Packet(RELIABLE_WITH_NACK, sequence, body, FALSE,
                  IF fresh THEN {} ELSE stale)
      ELSE Packet(RELIABLE, sequence, body, FALSE, {})

\* Mutant: the sequence is stepped when the buffer is made, and once more.
send_reliable_steps_twice(ch, packet) ==
  [ch EXCEPT !.nack_queue    = rotated_nacks(ch),
             !.send_sequence = next_sequence(packet.sequence),
             !.buffers[SendSlot(packet.sequence)] = packet]

\* Mutant: the sequence is not stored.
send_reliable_keeps_sequence(ch, packet) ==
  [ch EXCEPT !.nack_queue = rotated_nacks(ch),
             !.buffers[SendSlot(packet.sequence)] = packet]

\* Mutant: a buffer that is in use is not replaced.
send_reliable_keeps_buffer(ch, packet) ==
  [ch EXCEPT !.nack_queue    = rotated_nacks(ch),
             !.send_sequence = packet.sequence,
             !.buffers[SendSlot(packet.sequence)] = IF @ = None THEN packet ELSE @]

\* send_reliable with create_send_buffer
send_reliable(ch, packet) ==
  [ch EXCEPT !.nack_queue    = rotated_nacks(ch),
             !.send_sequence = packet.sequence,
             !.buffers[SendSlot(packet.sequence)] = packet]

(***************************************************************************)
(* resend_nacked, for one sequence: whatever is in its slot, without a     *)
(* look at the sequence of the buffer, or a NONE if the slot is empty.     *)
(* rewrite_reliable_nack_to_reliable copies the whole pooled buffer, not   *)
(* the message's length of it, so the body grows.                          *)
(***************************************************************************)
resend(ch, s) ==
  LET packet == ch.buffers[SendSlot(s)]
  IN  IF packet = None THEN Packet(NONE, s, None, FALSE, {})
      ELSE IF packet.type = RELIABLE_WITH_NACK
      THEN Packet(RELIABLE, packet.sequence, packet.body, TRUE, {})
      ELSE packet

\* send_nacks: one packet with all the nacks, if there are any
nack_packets(nacks) ==
  IF nacks = << >> THEN {}
  ELSE {Packet(NACK, 0, None, FALSE, nacked_sequences(nacks))}

\* Mutant: nacks are sent and none is answered.
update_sends_no_resend(ch) == nack_packets(create_nacks(ch.receiver))

(***************************************************************************)
(* update: what it puts on the wire, and the channel it leaves.            *)
(***************************************************************************)
update_sends(ch) ==
  nack_packets(create_nacks(ch.receiver)) \cup {resend(ch, s) : s \in ch.nacked}

update(ch) ==
  LET nacks == create_nacks(ch.receiver)
  IN  [ch EXCEPT
         !.nack_queue = [i \in DOMAIN nacks |->
                           [start_sequence |-> nacks[i].start_sequence,
                            flags          |-> nacks[i].flags,
                            sent_count     |-> 0]],
         !.nacked     = {},
         !.receiver   = publish(@)]

(***************************************************************************)
(* receive_published, after Tachyon::receive_loop: the first message of    *)
(* the published queue that is not a NONE, and the queue after it.         *)
(***************************************************************************)
first_message(published) ==
  CHOOSE i \in 1 .. Len(published) + 1 :
    /\ \A j \in 1 .. i - 1 : published[j].type = NONE
    /\ i <= Len(published) => published[i].type # NONE

\* Mutant: the message is read and stays in the queue.
receive_published_peeks(ch) ==
  LET published == ch.receiver.published
      i         == first_message(published)
  IN  [messages |-> IF i > Len(published) THEN << >> ELSE << published[i] >>,
       channel  |-> ch]

receive_published(ch) ==
  LET published == ch.receiver.published
      i         == first_message(published)
  IN  [messages |-> IF i > Len(published) THEN << >> ELSE << published[i] >>,
       channel  |-> [ch EXCEPT !.receiver.published =
                       SubSeq(published, i + 1, Len(published))]]

(***************************************************************************)
(* The channel part of Tachyon::receive_from_socket and receive_loop.  An  *)
(* accepted reliable packet makes receive_loop return the next published   *)
(* message at once; every other packet only changes the channel.           *)
(***************************************************************************)
receive_from_socket(ch, packet) ==
  LET nacked == [ch EXCEPT !.nacked = @ \cup packet.nacks]
      result == receive_packet(ch.receiver, packet.sequence, packet)
      got    == [nacked EXCEPT !.receiver = result.receiver]
  IN  IF packet.type = NACK THEN [messages |-> << >>, channel |-> nacked]
      ELSE IF packet.type # NONE /\ result.accepted THEN receive_published(got)
      ELSE [messages |-> << >>, channel |-> got]
=============================================================================
