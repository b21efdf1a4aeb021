---------------------------- MODULE Fragmentation ---------------------------
(***************************************************************************)
(* Messages sent in fragments: src/tachyon/fragmentation.rs, and what      *)
(* channel.rs and tachyon.rs do with a fragment.                           *)
(*                                                                         *)
(* A fragment is a packet with a sequence of its own and a header that     *)
(* names its group, the first sequence of the group and how many there     *)
(* are.  The map of maps of the fragments received is the set of these     *)
(* packets: a group is in the map while the set has a packet of it.        *)
(***************************************************************************)
EXTENDS Receiver, FiniteSets

RELIABLE == "reliable"
FRAGMENT == "fragment"

\* group, start and count are the fragment part of the header
Packet(type, sequence, body, group, start, count) ==
  [type |-> type, sequence |-> sequence, body |-> body,
   group |-> group, start |-> start, count |-> count]

\* Mutant: the group id is not stepped.
get_next_group_same(next_group) == next_group

\* get_next_group: ids run from 1 to u16::MAX - 2
get_next_group(next_group) ==
  IF next_group + 1 >= U16_MAX - 1 THEN 1 ELSE next_group + 1

(***************************************************************************)
(* create_fragments: the packets of the chunks of one message, the last    *)
(* sequence used being sequence.                                           *)
(***************************************************************************)
create_fragments(sequence, group, chunks) ==
  [i \in 1 .. Len(chunks) |->
     Packet(FRAGMENT, ring_plus(sequence, i), chunks[i], group,
            ring_plus(sequence, 1), Len(chunks))]

\* Mutant: the fragment is stored without its body.
receive_fragment_header_only(received, packet) ==
  received \cup {[packet EXCEPT !.body = None]}

\* receive_fragment: a fragment whose sequence the group has is not replaced
receive_fragment(received, packet) ==
  IF \E f \in received : f.group = packet.group /\ f.sequence = packet.sequence
  THEN received
  ELSE received \cup {packet}

(***************************************************************************)
(* process_fragment_message: the fragment is stored first, and only its    *)
(* header goes to the receiver, which may refuse it.                       *)
(***************************************************************************)
process_fragment_message(r, received, packet) ==
  [received |-> receive_fragment(received, packet),
   receiver |-> receive_packet(r, packet.sequence,
                               [packet EXCEPT !.body = None]).receiver]

OfGroup(received, group) == {f \in received : f.group = group}

\* The sequences assemble looks up, in their order
group_sequences(packet) ==
  [i \in 1 .. packet.count |-> ring_plus(packet.start, i - 1)]

Bodies(map, sequences) ==
  [i \in DOMAIN sequences |->
     (CHOOSE f \in map : f.sequence = sequences[i]).body]

\* Mutant: the group is put together from its end.
assemble_backwards(received, packet) ==
  LET map  == OfGroup(received, packet.group)
      seqs == group_sequences(packet)
      back == [i \in DOMAIN seqs |-> seqs[packet.count + 1 - i]]
      all  == \A i \in DOMAIN seqs : \E f \in map : f.sequence = seqs[i]
  IN  IF Cardinality(map) # packet.count
      THEN [ok |-> FALSE, body |-> << >>, received |-> received]
      ELSE [ok       |-> all,
            body     |-> IF all THEN Bodies(map, back) ELSE << >>,
            received |-> received \ map]

(***************************************************************************)
(* assemble, for a fragment taken from the published queue.  It fails and  *)
(* changes nothing while the group has another number of fragments than    *)
(* the header says; with that number it takes the group away, also when    *)
(* one of the sequences is missing among them.                             *)
(***************************************************************************)
assemble(received, packet) ==
  LET map  == OfGroup(received, packet.group)
      seqs == group_sequences(packet)
      all  == \A i \in DOMAIN seqs : \E f \in map : f.sequence = seqs[i]
  IN  IF Cardinality(map) # packet.count
      THEN [ok |-> FALSE, body |-> << >>, received |-> received]
      ELSE [ok       |-> all,
            body     |-> IF all THEN Bodies(map, seqs) ELSE << >>,
            received |-> received \ map]

(***************************************************************************)
(* receive_published_internal, on the packet at the front of the queue;    *)
(* w.messages is << >> until a message came out of the queue.              *)
(***************************************************************************)
receive_published_internal(w) ==
  LET packet == Head(w.published)
      joined == assemble(w.received, packet)
  IN  IF packet.type = RELIABLE
      THEN [w EXCEPT !.published = Tail(@), !.messages = << packet.body >>]
      ELSE [published |-> Tail(w.published),
            received  |-> joined.received,
            messages  |-> IF joined.ok THEN << joined.body >> ELSE << >>]

\* receive_published: until there is a message or the queue is empty
receive_published(published, received) ==
  LET walk[i \in 0 .. Len(published)] ==
        IF i = 0
        THEN [published |-> published, received |-> received, messages |-> << >>]
        ELSE IF walk[i - 1].messages = << >>
        THEN receive_published_internal(walk[i - 1])
        ELSE walk[i - 1]
  IN  walk[Len(published)]
=============================================================================
