\* Requests interleaved with commands that add and delete pools, reserved
\* pools and hosts. Leases run out after one tick.
CONSTANTS
  Mac = {m1, m2}
  ClientId = {c1}
  NoMac = NoMac
  NoClient = NoClient
  NoLease = NoLease
  NoAddr = NoAddr
  Addr <- MCSmallAddr
  InitPools <- MCPool1
  InitReserved <- MCNoPools
  InitHosts <- MCNoHosts
  InitTtl = 0
  PoolChoice <- MCPoolChoice
  HostChoice <- MCHostChoice
  TtlChoice = {}
  MaxTime = 1
  MaxPools = 1
  MaxReserved = 1
SYMMETRY Symmetry
SPECIFICATION Spec
INVARIANTS OffersSound ReservedPoolOnlyForHosts
CHECK_DEADLOCK FALSE
