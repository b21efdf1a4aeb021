\* Nothing is skipped: at most 3 messages in a window of 4.  One data packet and
\* one nack, or two of a kind, can be lost.
CONSTANTS
  U16_MAX = 15
  HALF = 8
  RECEIVE_BUFFER_SIZE = 8
  SEND_BUFFER_SIZE = 8
  receive_window_size = 4
  NACK_BITS = 2
  nack_redundancy = 1
  None = None
  A = A
  B = B
  SendA = 3
  SendB = 1
  MaxSend <- MCMaxSend
  StaleNacks <- MCStaleNacks
  MaxLost = 2
  MaxDuplicated = 0
SPECIFICATION Spec
PROPERTIES GapHeals ReceivedIsDelivered
