\* Two groups of two fragments that arrive again and again.
CONSTANTS
  U16_MAX = 15
  HALF = 8
  RECEIVE_BUFFER_SIZE = 8
  receive_window_size = 3
  None = None
  Sizes = {2}
  MaxPackets = 4
  Ahead = 6
  Behind = 5
SPECIFICATION Spec
INVARIANT AssembledOnce
