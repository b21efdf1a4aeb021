------------------------------ MODULE Receiver ------------------------------
(***************************************************************************)
(* The receiving half of a reliable channel: src/tachyon/receiver.rs.      *)
(*                                                                         *)
(* A Receiver is a record and its methods are operators from a record to   *)
(* the record they leave; ReceiverSpec and ChannelSpec give it steps.      *)
(* The bytes of a packet are an opaque value.  A SequenceBuffer<bool> only *)
(* ever holds Some(true), so received is the set of its filled slots;      *)
(* buffered maps each slot to its packet or to None.                       *)
(***************************************************************************)
EXTENDS SequenceNumbers, Sequences, AscendingOrder

CONSTANTS
  RECEIVE_BUFFER_SIZE,  \* slots of buffered and of received, 1024 in the code
  receive_window_size,  \* ChannelConfig::receive_window_size, 512 by default
  None                  \* an empty slot

(***************************************************************************)
(* The slots divide 2^16, and the window is smaller than the slots: with   *)
(* 1024 slots on a ring of 65535, a larger window would already alias.     *)
(***************************************************************************)
ASSUME ReceiverAssumption ==
  /\ RECEIVE_BUFFER_SIZE \in Nat /\ RECEIVE_BUFFER_SIZE >= 2
  /\ \E k \in 1 .. U16_MAX : U16_MAX + 1 = k * RECEIVE_BUFFER_SIZE
  /\ receive_window_size \in Nat
  /\ 1 <= receive_window_size /\ receive_window_size < RECEIVE_BUFFER_SIZE
  /\ None \notin Nat     \* an empty slot is not the number of a message

Slots == 0 .. RECEIVE_BUFFER_SIZE - 1

Slot(s) == sequence_to_index(s, RECEIVE_BUFFER_SIZE)

\* Receiver::create
create(is_ordered) ==
  [ is_ordered        |-> is_ordered,
    current_sequence  |-> 0,
    last_sequence     |-> 0,
    received          |-> {},
    buffered          |-> [i \in Slots |-> None],
    published         |-> << >>,
    skipped_sequences |-> 0 ]

is_received(r, s) == Slot(s) \in r.received

is_buffered(r, s) == r.buffered[Slot(s)] # None

\* Mutant: gives up one sequence early, when last is at the window's end.
should_increment_current_early(current, last) ==
  /\ current # last
  /\ is_greater_then(ring_minus(last, receive_window_size - 1), current)

(***************************************************************************)
(* should_increment_current: last has moved more than the window beyond    *)
(* current.  The subtraction is on i32 and wraps at 65535.                 *)
(***************************************************************************)
should_increment_current(current, last) ==
  /\ current # last
  /\ is_greater_then(ring_minus(last, receive_window_size), current)

\* Mutant: current moves on and its mark stays.
skip_current_keeps_mark(r) ==
  IF should_increment_current(r.current_sequence, r.last_sequence)
  THEN [r EXCEPT !.current_sequence  = next_sequence(@),
                 !.skipped_sequences = @ + 1]
  ELSE r

(***************************************************************************)
(* First statement of receive_packet: give up on the oldest missing        *)
(* sequence.  It runs for every packet, also for one refused afterwards.   *)
(***************************************************************************)
skip_current(r) ==
  IF should_increment_current(r.current_sequence, r.last_sequence)
  THEN [r EXCEPT !.received          = @ \ {Slot(r.current_sequence)},
                 !.current_sequence  = next_sequence(@),
                 !.skipped_sequences = @ + 1]
  ELSE r

(***************************************************************************)
(* Second part of receive_packet: raise last, and move current when the    *)
(* packet is the one after it, which forgets the mark of the old current.  *)
(***************************************************************************)
advance_to(r, s) ==
  LET last == IF is_greater_then(s, r.last_sequence) THEN s
                                                     ELSE r.last_sequence
  IN  IF s = next_sequence(r.current_sequence)
      THEN [r EXCEPT !.last_sequence    = last,
                     !.current_sequence = s,
                     !.received         = @ \ {Slot(r.current_sequence)}]
      ELSE [r EXCEPT !.last_sequence = last]

\* set_buffered and set_received
set_received(r, s, data) ==
  [r EXCEPT !.buffered[Slot(s)] = data, !.received = @ \cup {Slot(s)}]

\* Mutant: the walk ends before last instead of after it.
reach_excludes_last(r) ==
  LET span == Distance(r.current_sequence, r.last_sequence)
  IN  IF span < receive_window_size THEN span ELSE receive_window_size

(***************************************************************************)
(* publish walks from current to last, at most a window far.  The walk     *)
(* visits k steps beyond current for k in 0 .. reach(r) - 1; run(r) is how *)
(* many of the first of these are received, current itself included.       *)
(***************************************************************************)
reach(r) ==
  LET span == Distance(r.current_sequence, r.last_sequence) + 1
  IN  IF span < receive_window_size THEN span ELSE receive_window_size

WalkedTo(r, k) == ring_plus(r.current_sequence, k)

run(r) ==
  CHOOSE n \in 0 .. reach(r) :
    /\ \A k \in 0 .. n - 1 : is_received(r, WalkedTo(r, k))
    /\ n < reach(r) => ~ is_received(r, WalkedTo(r, n))

\* The steps k < far of the walk at which a packet is received and buffered
to_publish(r, far) ==
  {k \in 0 .. far - 1 : /\ is_received(r, WalkedTo(r, k))
                        /\ is_buffered(r, WalkedTo(r, k))}

(***************************************************************************)
(* The effect of a walk that handles the first far steps, of which the     *)
(* first n are received: the received run moves current with it and loses  *)
(* its marks, and what is received and still buffered on the way is moved  *)
(* to the published queue.                                                 *)
(***************************************************************************)
move_buffered(r, n, far) ==
  LET found   == to_publish(r, far)
      out     == Ascending(found)
      slot(k) == Slot(WalkedTo(r, k))
      cleared == {slot(k) : k \in 0 .. n - 1}
      taken   == {slot(k) : k \in found}
  IN  [r EXCEPT
         !.current_sequence = IF n = 0 THEN @ ELSE WalkedTo(r, n - 1),
         !.received  = @ \ cleared,
         !.buffered  = [i \in Slots |-> IF i \in taken THEN None ELSE @[i]],
         !.published = @ \o [i \in DOMAIN out |-> r.buffered[slot(out[i])]]]

\* Mutant: an ordered channel too goes on after a missing sequence.
publish_past_gap(r) == move_buffered(r, run(r), reach(r))

\* Mutant: an unordered channel too stops at a missing sequence.
publish_stops_at_gap(r) == move_buffered(r, run(r), run(r))

\* Mutant: the buffer is read and not taken.
publish_keeps_buffer(r) ==
  [move_buffered(r, run(r), IF r.is_ordered THEN run(r) ELSE reach(r))
     EXCEPT !.buffered = r.buffered]

(***************************************************************************)
(* publish.  An ordered channel stops after the received run; an unordered *)
(* one goes on to the end of the walk, leaving the marks.                  *)
(***************************************************************************)
publish(r) ==
  move_buffered(r, run(r), IF r.is_ordered THEN run(r) ELSE reach(r))

(***************************************************************************)
(* receive_packet: the value it returns and the receiver it leaves.  A     *)
(* refused packet may still have moved current and last.                   *)
(***************************************************************************)
receive_packet(r, s, data) ==
  LET skipped == skip_current(r)
      moved   == advance_to(skipped, s)
  IN  IF ~ is_greater_then(s, skipped.current_sequence)
      THEN [accepted |-> FALSE, receiver |-> skipped]
      ELSE IF is_received(moved, s)
      THEN [accepted |-> FALSE, receiver |-> moved]
      ELSE [accepted |-> TRUE,
            receiver |-> publish(set_received(moved, s, data))]

\* take_published
take_published(r) == [r EXCEPT !.published = Tail(@)]
=============================================================================
