\* Each end sends two messages, so a message sent with a nack can be lost and resent.
CONSTANTS
  U16_MAX = 15
  HALF = 8
  RECEIVE_BUFFER_SIZE = 8
  SEND_BUFFER_SIZE = 8
  receive_window_size = 4
  NACK_BITS = 2
  nack_redundancy = 1
  None = None
  A = A
  B = B
  SendA = 2
  SendB = 2
  MaxSend <- MCMaxSend
  StaleNacks <- MCStaleNacks
  MaxLost = 2
  MaxDuplicated = 0
SPECIFICATION Spec
INVARIANT BodyIntact
