\* A ring of 15 sequences and 8 slots, the proportions of 65535 and 1024.
\* Start and MaxMessage take the sequences across the end of the ring.
CONSTANTS
  U16_MAX = 15
  HALF = 8
  RECEIVE_BUFFER_SIZE = 8
  receive_window_size = 4
  NACK_BITS = 2
  None = None
  Start = 10
  MaxMessage = 21
  MaxPublished = 1
  Ahead = 6
  Behind = 3
SPECIFICATION Spec
INVARIANTS TypeOK MarksExact RefusesDuplicates ReliableUntilSkip NackSound NacksNewestGap
PROPERTIES AtMostOnce InOrder FrameDelivers ImplementsUnbounded
