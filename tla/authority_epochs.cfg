SPECIFICATION Spec
CONSTANTS
  None = None
  A = A
  B = B
  k1 = k1
  k2 = k2
  c1 = c1
  c2 = c2
  c3 = c3
  p1 = p1
  Conns = {k1, k2}
  Nodes = {A, B}
  CmdIds = {c1, c2, c3}
  Plans = {p1}
  Hellos <- EpochHellos
  Controls <- EpochControls
  Commands <- EpochCommands
  MaxUnannounced = 9
  CacheSize = 1
  Legacy = TRUE
  InflightHandover = FALSE
  AtomicProbe = FALSE
SYMMETRY Symmetry
INVARIANTS TypeOK AuthorityIsLeader NothingOutlivesItsEpoch
PROPERTIES OneLeaderPerEpoch NoStolenAuthority LaunchesUnderAuthority
