SPECIFICATION FairUplinkSpec
CONSTANTS
  None = None
  A = A
  B = B
  k1 = k1
  k2 = k2
  c1 = c1
  c2 = c2
  p1 = p1
  Conns = {k1}
  Nodes = {A, B}
  CmdIds = {c1, c2}
  Plans = {p1}
  Hellos <- QueueHellos
  Controls <- QueueControls
  Commands <- QueueCommands
  MaxUnannounced = 9
  CacheSize = 2
  Legacy = FALSE
  InflightHandover = FALSE
  AtomicProbe = TRUE
  MaxInbox = 2
PROPERTIES EveryCommandAnswered
