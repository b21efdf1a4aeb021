\* The client's application changes its identity.
CONSTANTS
  U16_MAX = 15
  HALF = 8
  RECEIVE_BUFFER_SIZE = 8
  SEND_BUFFER_SIZE = 8
  receive_window_size = 4
  NACK_BITS = 2
  nack_redundancy = 1
  None = None
  Clients = {c}
  Addresses = {a1, a2}
  Ids = {1, 2}
  Sessions = {1}
  NoAddress = NoAddress
  MaxChanges = 2
  MaxLost = 0
  MaxDuplicated = 0
  Ordered = TRUE
  MaxClientSend = 1
  MaxServerSend = 0
SPECIFICATION LinkedSpec
INVARIANT BlockedUntilLinked
CHECK_DEADLOCK FALSE
