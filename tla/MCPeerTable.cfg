SPECIFICATION LiveSpec
CONSTANTS
  Peers = {1, 2, 3, 4}
  Own = {3}
  ConfigPeers = {1}
  Gateway = TRUE
  MaxPeers = 2
  MaxFailures = 2
  Lists = {{}, {1, 2}, {2, 3, 4}}
  Tips = {1, 2}
  MaxHeight = 2
  Watched = {2}
INVARIANTS
  TypeOK
  TableBounded
  FileCurrent
  
  MinesUnshakenAlone
PROPERTIES
  DuePolled
