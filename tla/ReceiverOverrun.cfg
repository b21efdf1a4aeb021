\* No bound of one buffer on how far ahead a packet is: Ahead > RECEIVE_BUFFER_SIZE.
CONSTANTS
  U16_MAX = 31
  HALF = 16
  RECEIVE_BUFFER_SIZE = 8
  receive_window_size = 4
  NACK_BITS = 2
  None = None
  Start = 0
  MaxMessage = 16
  MaxPublished = 1
  Ahead = 10
  Behind = 3
SPECIFICATION Spec
PROPERTY InOrder
