\* A client that is linked, removed or unlinked, and linked again at its address.
CONSTANTS
  U16_MAX = 15
  HALF = 8
  RECEIVE_BUFFER_SIZE = 8
  SEND_BUFFER_SIZE = 8
  receive_window_size = 4
  NACK_BITS = 2
  nack_redundancy = 1
  None = None
  Clients = {c}
  Addresses = {a1}
  Ids = {1}
  Sessions = {1}
  NoAddress = NoAddress
  MaxChanges = 2
  MaxLost = 0
  MaxDuplicated = 0
  Ordered = TRUE
  MaxClientSend = 2
  MaxServerSend = 2
SPECIFICATION LinkedSpec
INVARIANTS LinkedTypeOK EachLinkFromTheFirst ClientGetsOnce SoundUntilRelink
CHECK_DEADLOCK FALSE
