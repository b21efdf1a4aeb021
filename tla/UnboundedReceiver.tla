------------------------- MODULE UnboundedReceiver --------------------------
(***************************************************************************)
(* What a Receiver does for its channel, without rings and slots: messages *)
(* are numbered 1, 2, 3, ... for ever, and what is known of each is kept   *)
(* in sets.  There is nothing to wrap, to reuse or to confuse here;        *)
(* ReceiverSpec is shown to behave like this.                              *)
(***************************************************************************)
EXTENDS Naturals, Sequences, AscendingOrder

CONSTANTS
  MaxMessage,   \* bound: the newest message
  First,        \* messages received in order before the behaviour begins
  Window        \* how far publish walks, and how far last may get ahead

Messages == 1 .. MaxMessage

VARIABLES
  ordered,      \* whether the channel is ordered
  current,      \* the last message in an unbroken run, or given up
  last,         \* the newest message seen
  marked,       \* messages from current on that were accepted
  waiting,      \* those of marked that were not handed out
  queue         \* handed out and not yet taken by the application

vars == <<ordered, current, last, marked, waiting, queue>>

Init ==
  /\ ordered \in BOOLEAN
  /\ current = First /\ last = First
  /\ marked = {} /\ waiting = {} /\ queue = << >>

(***************************************************************************)
(* Hand out what can be: the unbroken run of marked messages that begins   *)
(* at c, and on an unordered channel whatever waits within the window.     *)
(* The run is done with; current is its last message.                      *)
(***************************************************************************)
HandOut(c, l, m, w) ==
  LET walked == {n \in c .. l : n < c + Window}
      run    == {n \in walked : \A k \in c .. n : k \in m}
      out    == w \cap (IF ordered THEN run ELSE walked)
  IN  /\ current' = IF run = {} THEN c
                    ELSE CHOOSE n \in run : \A k \in run : k <= n
      /\ last' = l
      /\ marked' = m \ run
      /\ waiting' = w \ out
      /\ queue' = queue \o Ascending(out)

\* Without handing anything out
Leave(c, l, m) ==
  /\ current' = c /\ last' = l /\ marked' = m
  /\ waiting' = waiting \cap m
  /\ UNCHANGED queue

(***************************************************************************)
(* Message n arrives.  If last is more than a window ahead, current and    *)
(* what is still expected there are given up.  A message up to current, or *)
(* marked, is a duplicate or too late.                                     *)
(***************************************************************************)
Arrive(n) ==
  LET giveup == last > current + Window
      c0     == IF giveup THEN current + 1 ELSE current
      m0     == IF giveup THEN marked \ {current} ELSE marked
      l      == IF n > last THEN n ELSE last
      c      == IF n = c0 + 1 THEN n ELSE c0
      m      == IF n = c0 + 1 THEN m0 \ {c0} ELSE m0
  IN  /\ UNCHANGED ordered
      /\ IF n <= c0 THEN Leave(c0, last, m0)
         ELSE IF n \in m THEN Leave(c, l, m)
         ELSE HandOut(c, l, m \cup {n}, (waiting \cap m) \cup {n})

\* Once a frame
Frame == HandOut(current, last, marked, waiting) /\ UNCHANGED ordered

\* The application takes a message
Take ==
  /\ queue # << >>
  /\ queue' = Tail(queue)
  /\ UNCHANGED <<ordered, current, last, marked, waiting>>

Next == (\E n \in Messages : Arrive(n)) \/ Frame \/ Take

Spec == Init /\ [][Next]_vars
=============================================================================
