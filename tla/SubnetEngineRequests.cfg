\* Two clients that share MACs and identifiers; two pools, of one and of two
\* addresses, and one address (0) outside them. The lifetime of leases changes.
CONSTANTS
  Mac = {m1, m2}
  ClientId = {c1, c2}
  NoMac = NoMac
  NoClient = NoClient
  NoLease = NoLease
  NoAddr = NoAddr
  Addr <- MCAddr
  InitPools <- MCSplitPools
  InitReserved <- MCNoPools
  InitHosts <- MCNoHosts
  InitTtl = 0
  PoolChoice = {}
  HostChoice = {}
  TtlChoice = {1}
  MaxTime = 1
  MaxPools = 2
  MaxReserved = 0
SYMMETRY Symmetry
SPECIFICATION Spec
INVARIANTS LeasesSound ExhaustionIsReal
PROPERTIES NoTakeover
CHECK_DEADLOCK FALSE
