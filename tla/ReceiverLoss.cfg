\* Accepted messages and the skip of receive_packet.
CONSTANTS
  U16_MAX = 15
  HALF = 8
  RECEIVE_BUFFER_SIZE = 8
  receive_window_size = 4
  NACK_BITS = 2
  None = None
  Start = 10
  MaxMessage = 21
  MaxPublished = 1
  Ahead = 6
  Behind = 3
SPECIFICATION Spec
INVARIANT AcceptedKept
