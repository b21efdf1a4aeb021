\* A window of 2 and 4 messages, so sequences are skipped as well as repaired, and
\* 2 send buffers, so each is used twice and a nack can come too late for its message.
CONSTANTS
  U16_MAX = 15
  HALF = 8
  RECEIVE_BUFFER_SIZE = 8
  SEND_BUFFER_SIZE = 2
  receive_window_size = 2
  NACK_BITS = 1
  nack_redundancy = 1
  None = None
  A = A
  B = B
  SendA = 4
  SendB = 1
  MaxSend <- MCMaxSend
  StaleNacks <- MCStaleNacks
  MaxLost = 1
  MaxDuplicated = 1
SPECIFICATION Spec
INVARIANTS TypeOK DeliveredOnceInOrder ResendIsNewest ReceiverBehindSender
