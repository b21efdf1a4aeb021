\* Whole messages and groups of two and three fragments, with skipped sequences.
CONSTANTS
  U16_MAX = 15
  HALF = 8
  RECEIVE_BUFFER_SIZE = 8
  receive_window_size = 3
  None = None
  Sizes = {0, 2, 3}
  MaxPackets = 6
  Ahead = 6
  Behind = 5
SPECIFICATION Spec
INVARIANTS TypeOK AssembledIntact NoneOvertakes GroupsDelivered
