------------------------------- MODULE Nacks --------------------------------
(***************************************************************************)
(* Negative acknowledgements: Receiver::create_nacks of receiver.rs and    *)
(* the Nack of src/tachyon/nack.rs.                                        *)
(*                                                                         *)
(* A Nack names a start sequence and, by NACK_BITS flag bits, which of the *)
(* NACK_BITS sequences before it are missing too.  The u32 of flags is the *)
(* set of its bits that are on.                                            *)
(***************************************************************************)
EXTENDS Receiver

CONSTANT NACK_BITS      \* 32 in the code

ASSUME NackAssumption == NACK_BITS \in Nat \ {0}

\* count of create_nacks: how many groups one call can make
NackGroups == receive_window_size \div NACK_BITS

\* get_nacked and get_flagged: the sequences a nack asks for
get_nacked(nack) ==
  {nack.start_sequence}
    \cup {ring_minus(nack.start_sequence, i + 1) : i \in nack.flags}

\* Mutant: the group may reach back to current itself.
nack_step_to_current(r, w) ==
  LET past(s) == is_greater_then(r.current_sequence, s)
      back(i) == ring_minus(w.seq, i + 1)
      inside  == {i \in 0 .. NACK_BITS - 1 : \A j \in 0 .. i : ~ past(back(j))}
      group   == [start_sequence |-> w.seq,
                  flags |-> {i \in inside : ~ is_received(r, back(i))}]
  IN  IF w.done \/ past(w.seq)
      THEN [w EXCEPT !.done = TRUE]
      ELSE IF is_received(r, w.seq)
      THEN [w EXCEPT !.seq = previous_sequence(@)]
      ELSE [seq   |-> back(NACK_BITS),
            nacks |-> Append(w.nacks, group),
            done  |-> inside # 0 .. NACK_BITS - 1]

\* Mutant: the walk stops at the first received sequence.
nack_step_stops(r, w) ==
  LET back(i) == ring_minus(w.seq, i + 1)
      past(s) == is_equal_to_or_less_than(s, r.current_sequence)
      inside  == {i \in 0 .. NACK_BITS - 1 : \A j \in 0 .. i : ~ past(back(j))}
  IN  IF w.done \/ past(w.seq) \/ is_received(r, w.seq)
      THEN [w EXCEPT !.done = TRUE]
      ELSE [seq   |-> back(NACK_BITS),
            nacks |-> Append(w.nacks,
                        [start_sequence |-> w.seq,
                         flags |-> {i \in inside : ~ is_received(r, back(i))}]),
            done  |-> inside # 0 .. NACK_BITS - 1]

(***************************************************************************)
(* One pass of the outer loop of create_nacks, at sequence w.seq.  A pass  *)
(* that finds its sequence received makes no group and still counts; a     *)
(* group ends the walk when its flags reach back to current.               *)
(***************************************************************************)
nack_step(r, w) ==
  LET past(s) == is_equal_to_or_less_than(s, r.current_sequence)
      back(i) == ring_minus(w.seq, i + 1)
      inside  == {i \in 0 .. NACK_BITS - 1 : \A j \in 0 .. i : ~ past(back(j))}
      group   == [start_sequence |-> w.seq,
                  flags |-> {i \in inside : ~ is_received(r, back(i))}]
  IN  IF w.done \/ past(w.seq)
      THEN [w EXCEPT !.done = TRUE]
      ELSE IF is_received(r, w.seq)
      THEN [w EXCEPT !.seq = previous_sequence(@)]
      ELSE [seq   |-> back(NACK_BITS),
            nacks |-> Append(w.nacks, group),
            done  |-> inside # 0 .. NACK_BITS - 1]

\* create_nacks: the list it builds, which is also the new nack_queue
create_nacks(r) ==
  LET walk[i \in 0 .. NackGroups] ==
        IF i = 0
        THEN [seq   |-> previous_sequence(r.last_sequence),
              nacks |-> << >>,
              done  |-> FALSE]
        ELSE nack_step(r, walk[i - 1])
  IN  walk[NackGroups].nacks

nacked_sequences(nacks) ==
  UNION {get_nacked(nacks[i]) : i \in DOMAIN nacks}
=============================================================================
