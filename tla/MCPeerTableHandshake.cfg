SPECIFICATION Spec
CONSTANTS
  Peers = {1, 2, 3}
  Own = {3}
  ConfigPeers = {1}
  Gateway = TRUE
  MaxPeers = 2
  MaxFailures = 2
  Lists = {{}, {1, 2}, {2, 3}}
  Tips = {0, 1}
  MaxHeight = 1
  Watched = {2}
INVARIANTS
  MinesAfterHandshake
