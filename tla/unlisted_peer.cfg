SPECIFICATION Spec
CONSTANTS
  Peers = {p}
  NoPeer = NoPeer
  Zero = NoPeer
  MaxConnects = 1
  MaxQueued = 2
PROPERTIES
  StartsWithoutPeer
CHECK_DEADLOCK FALSE
