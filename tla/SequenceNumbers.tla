-------------------------- MODULE SequenceNumbers --------------------------
(***************************************************************************)
(* Serial-number arithmetic of src/tachyon/sequence.rs, and the slot map   *)
(* of src/tachyon/sequence_buffer.rs.                                      *)
(*                                                                         *)
(* A sequence is a u16, but the value u16::MAX is never used: the counter  *)
(* wraps from U16_MAX - 1 to 0, so the ring has U16_MAX = 65535 values, an *)
(* odd number, and the comparison splits it at HALF = 32768.  Both numbers *)
(* are parameters, tied together as they are in the code.                  *)
(***************************************************************************)
EXTENDS Integers

CONSTANTS
  U16_MAX,              \* std::u16::MAX, 65535 in the code
  HALF                  \* the split of is_greater_then, 32768 in the code

ASSUME SequenceAssumption ==
  /\ HALF \in Nat /\ HALF >= 3
  /\ U16_MAX = 2 * HALF - 1

SeqNo == 0 .. U16_MAX - 1

\* Mutant: a larger number is always greater, also from across the ring's end.
is_greater_then_unbounded(s1, s2) == s1 > s2 \/ (s1 < s2 /\ s2 - s1 > HALF)

\* Mutant: wraps one too late, and so uses the value u16::MAX.
next_sequence_off_by_one(s) == IF s >= U16_MAX THEN 0 ELSE s + 1

(***************************************************************************)
(* sequence.rs.                                                            *)
(***************************************************************************)
is_greater_then(s1, s2) ==
  \/ s1 > s2 /\ s1 - s2 <= HALF
  \/ s1 < s2 /\ s2 - s1 > HALF

is_equal_to_or_less_than(s1, s2) == s1 = s2 \/ is_greater_then(s2, s1)

next_sequence(s) == IF s >= U16_MAX - 1 THEN 0 ELSE s + 1

previous_sequence(s) == IF s = 0 THEN U16_MAX - 1 ELSE s - 1

(***************************************************************************)
(* k steps of next_sequence or of previous_sequence, for k < U16_MAX, and  *)
(* how many steps of next_sequence lead from s to t: the loops of the code *)
(* that step a sequence are written with these.                            *)
(***************************************************************************)
ring_plus(s, k) == IF s + k >= U16_MAX THEN s + k - U16_MAX ELSE s + k

ring_minus(s, k) == IF s < k THEN s - k + U16_MAX ELSE s - k

Distance(s, t) == IF t >= s THEN t - s ELSE t - s + U16_MAX

(***************************************************************************)
(* The sequence of the n-th message of a channel: senders step the counter *)
(* by next_sequence, from 0, before every message.                         *)
(***************************************************************************)
SequenceOf(n) == n % U16_MAX

(***************************************************************************)
(* sequence_buffer.rs: a SequenceBuffer has partition_by slots and a       *)
(* sequence owns the slot of its remainder.  Nothing in a slot tells which *)
(* sequence filled it.                                                     *)
(***************************************************************************)
sequence_to_index(s, partition_by) == s % partition_by
=============================================================================
