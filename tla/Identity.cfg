\* One client that changes its address and identity; its delayed requests from
\* before a change are what a second client's would be.
CONSTANTS
  Clients = {c1}
  Addresses = {a1, a2}
  Ids = {1, 2}
  Sessions = {1, 2}
  NoAddress = NoAddress
  MaxChanges = 3
  MaxLost = 1
  MaxDuplicated = 1
SPECIFICATION Spec
INVARIANTS TypeOK OneConnectionPerIdentity NoStaleSession ChannelsFollowConnections
PROPERTIES RequestsReachServer
CHECK_DEADLOCK FALSE
