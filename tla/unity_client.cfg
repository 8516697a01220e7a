SPECIFICATION FairSpec
CONSTANTS
  Peers = {p}
  NoPeer = NoPeer
  Zero = p
  MaxConnects = 2
  MaxQueued = 2
INVARIANTS
  TypeOK
  SessionFits
  ClientListens
  ListShowsPeers
PROPERTIES
  LoopsEnd
CHECK_DEADLOCK FALSE
