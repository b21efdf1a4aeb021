---------------------------- MODULE ReceiverSpec ----------------------------
(***************************************************************************)
(* One Receiver facing a network that loses, duplicates and reorders.      *)
(*                                                                         *)
(* The sender's n-th message has sequence SequenceOf(n), and its payload   *)
(* is modelled by n itself, so what comes out of the receiver can be held  *)
(* against what went in.  Any message from Behind before the receiver's    *)
(* position to Ahead beyond it can arrive, any number of times.            *)
(***************************************************************************)
EXTENDS Nacks, FiniteSets

CONSTANTS
  Start,          \* messages delivered in order before the behaviour begins
  MaxMessage,     \* bound: the last message the sender sends
  MaxPublished,   \* bound: undrained messages when a packet arrives
  Ahead,          \* how far beyond current a packet can be
  Behind          \* how late a packet can be

VARIABLES
  rcv,            \* the Receiver
  head,           \* history: the message current_sequence stands for
  top,            \* history: the message last_sequence stands for
  accepted,       \* history: messages for which receive_packet said true
  handed          \* history: messages ever put on the published queue

vars == <<rcv, head, top, accepted, handed>>

ASSUME SpecAssumption ==
  /\ Start \in Nat /\ MaxMessage \in Nat /\ MaxPublished \in Nat
  /\ Ahead \in Nat /\ Behind \in Nat

(***************************************************************************)
(* What the code needs of the network and does not enforce: no packet is   *)
(* so far ahead that its slot is one still in use (the ring crosses its    *)
(* end one slot early, hence - 2), or that the comparison turns around.    *)
(***************************************************************************)
BoundedReordering ==
  /\ Ahead + 2 <= RECEIVE_BUFFER_SIZE
  /\ Ahead + 2 <= HALF
  /\ Behind + 3 <= HALF

\* current = last = Start, as after Start messages received in order
Init ==
  \E is_ordered \in BOOLEAN :
    /\ rcv = [create(is_ordered) EXCEPT
                !.current_sequence = SequenceOf(Start),
                !.last_sequence    = SequenceOf(Start)]
    /\ head = Start
    /\ top = Start
    /\ accepted = 1 .. Start
    /\ handed = 1 .. Start

\* The messages a step appends to the published queue
Appended == SubSeq(rcv'.published, Len(rcv.published) + 1, Len(rcv'.published))

\* History variables follow what the step did to the receiver
Follow ==
  /\ head' = head + Distance(rcv.current_sequence, rcv'.current_sequence)
  /\ top'  = top + Distance(rcv.last_sequence, rcv'.last_sequence)
  /\ handed' = handed \cup {Appended[i] : i \in DOMAIN Appended}

\* receive_packet, on a message that is new, late or duplicated
Arrive(n) ==
  /\ n >= 1 /\ n <= MaxMessage
  /\ n <= head + Ahead
  /\ n >= head - Behind
  /\ Len(rcv.published) <= MaxPublished
  /\ LET result == receive_packet(rcv, SequenceOf(n), n)
     IN  /\ rcv' = result.receiver
         /\ accepted' = IF result.accepted THEN accepted \cup {n} ELSE accepted
  /\ Follow

\* Receiver::publish, as Channel::update calls it once a frame
Publish ==
  /\ Len(rcv.published) <= MaxPublished
  /\ rcv' = publish(rcv)
  /\ Follow
  /\ UNCHANGED accepted

\* The application drains one message
Take ==
  /\ rcv.published # << >>
  /\ rcv' = take_published(rcv)
  /\ UNCHANGED <<head, top, accepted, handed>>

Next ==
  \/ \E n \in 1 .. MaxMessage : Arrive(n)
  \/ Publish
  \/ Take

Spec == Init /\ [][Next]_vars

-----------------------------------------------------------------------------
(***************************************************************************)
(* Properties.                                                             *)
(***************************************************************************)

Receivers ==
  [ is_ordered        : BOOLEAN,
    current_sequence  : SeqNo,
    last_sequence     : SeqNo,
    received          : SUBSET Slots,
    buffered          : [Slots -> Nat \cup {None}],
    published         : Seq(Nat),
    skipped_sequences : Nat ]

\* Type correctness of the receiver and of the history variables.
TypeOK ==
  /\ rcv \in Receivers
  /\ head \in Nat /\ top \in Nat
  /\ accepted \subseteq Nat /\ handed \subseteq Nat

\* Message n is marked received
Marked(n) == is_received(rcv, SequenceOf(n))

(***************************************************************************)
(* The marks say exactly what was accepted: beyond current and up to last, *)
(* a message is marked if and only if it was accepted, and no slot is left *)
(* marked for a message outside current..last.  receive_packet's comment   *)
(* ("we use current sequence increments to mark previous as not received") *)
(* rests on this: a stale mark would make the receiver refuse, a ring      *)
(* later, a message it never had.                                          *)
(***************************************************************************)
MarksExact ==
  /\ \A n \in head + 1 .. top : Marked(n) <=> n \in accepted
  /\ \A i \in rcv.received : \E n \in head .. top : i = Slot(SequenceOf(n))

(***************************************************************************)
(* The rings are invisible.  Read by message number, the receiver is the   *)
(* UnboundedReceiver: 65535 sequences that come round again, and 1024      *)
(* slots that every message shares with the one a buffer later, make no    *)
(* difference to what is accepted, handed out, given up or refused.        *)
(***************************************************************************)
Unbounded == INSTANCE UnboundedReceiver WITH
  First   <- Start,
  Window  <- receive_window_size,
  ordered <- rcv.is_ordered,
  current <- head,
  last    <- top,
  marked  <- {n \in head .. top : Marked(n)},
  waiting <- {n \in head .. top :
                Marked(n) /\ rcv.buffered[Slot(SequenceOf(n))] = n},
  queue   <- rcv.published

ImplementsUnbounded == Unbounded!Spec

(***************************************************************************)
(* No message is accepted twice: whichever message already accepted the    *)
(* network delivers again now, receive_packet refuses it, although the     *)
(* slot, the mark and the sequence number of that message may all have     *)
(* been reused since.                                                      *)
(***************************************************************************)
RefusesDuplicates ==
  \A n \in accepted :
    n >= head - Behind => ~ receive_packet(rcv, SequenceOf(n), n).accepted

(***************************************************************************)
(* publish never hands a message out twice: the messages a step appends to *)
(* the queue are distinct, were accepted and were never handed out before. *)
(***************************************************************************)
AtMostOnce ==
  [][/\ \A i, j \in DOMAIN Appended : Appended[i] = Appended[j] => i = j
     /\ \A i \in DOMAIN Appended :
          Appended[i] \in accepted' /\ Appended[i] \notin handed]_vars

(***************************************************************************)
(* An ordered channel hands messages out in the order they were sent:      *)
(* those a step appends ascend, and all come after everything handed out   *)
(* before.                                                                 *)
(***************************************************************************)
InOrder ==
  [][rcv.is_ordered =>
       /\ \A i, j \in DOMAIN Appended : i < j => Appended[i] < Appended[j]
       /\ \A i \in DOMAIN Appended, m \in handed : m < Appended[i]]_vars

(***************************************************************************)
(* The channel is reliable until it gives up: while no sequence has been   *)
(* skipped, everything up to current was handed out, and on an unordered   *)
(* channel everything accepted within the window.                          *)
(***************************************************************************)
ReliableUntilSkip ==
  rcv.skipped_sequences = 0 =>
    /\ \A n \in 1 .. head : n \in handed
    /\ ~ rcv.is_ordered =>
         \A n \in accepted : n < head + receive_window_size => n \in handed

(***************************************************************************)
(* One frame brings the channel up to date: after publish, no message that *)
(* was marked within the window is still waiting on an unordered channel,  *)
(* and on an ordered one none of the unbroken run that begins at current.  *)
(***************************************************************************)
FrameDelivers ==
  [][Publish =>
       \A n \in head .. head + receive_window_size - 1 :
         ( /\ n \in accepted /\ Marked(n)
           /\ rcv.is_ordered => \A m \in head .. n : Marked(m) )
         => n \in handed']_vars

(***************************************************************************)
(* create_nacks asks only for messages that are missing: strictly between  *)
(* current and last, and not accepted.                                     *)
(***************************************************************************)
NackSound ==
  \A s \in nacked_sequences(create_nacks(rcv)) :
    \E n \in head + 1 .. top - 1 : s = SequenceOf(n) /\ n \notin accepted

(***************************************************************************)
(* create_nacks asks for the newest missing message as long as fewer       *)
(* messages than it has passes arrived after it.                           *)
(***************************************************************************)
NacksNewestGap ==
  \A n \in head + 1 .. top - 1 :
    ( /\ n \notin accepted
      /\ \A m \in n + 1 .. top : m \in accepted
      /\ top - 1 - n < NackGroups )
    => SequenceOf(n) \in nacked_sequences(create_nacks(rcv))

(***************************************************************************)
(* What the README says of both kinds of channel, "Both ordered and        *)
(* unordered are reliable": a message receive_packet accepted is handed    *)
(* out, or is marked and buffered at current or beyond, where publish will *)
(* find it.                                                                *)
(***************************************************************************)
AcceptedKept ==
  \A n \in accepted : n \in handed \/ (n >= head /\ Marked(n))
=============================================================================
