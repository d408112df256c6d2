\* Two subnets on two connections; reloads that keep or drop the second subnet,
\* commands that delete it and add it again, and crashes.
CONSTANTS
  s1 = s1
  s2 = s2
  SubnetID = {s1, s2}
  Addr <- MCAddr
  Client = {c1}
  Declined = Declined
  NoLease = NoLease
  PoolOf <- MCPoolOf
  AddrOf <- MCAddrOf
  Configs <- MCConfigs
  dbCount = 2
  OptBufCount = 2
  MaxOps = 3
  MaxReloads = 1
  MaxCrashes = 1
SPECIFICATION Spec
INVARIANTS TableSound
PROPERTIES  EverythingSettles
CHECK_DEADLOCK FALSE
