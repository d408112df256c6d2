\* Up to four hosts in two subnets; the instances of the other parts are in MCPackets.
CONSTANTS
  SubnetID = {s1, s2}
  HWAddr = {h1, h2}
  DUID = {d1}
  Address = {a1, a2}
  None = None
  MaxHosts = 4
  vendor = vendor
  host = host
SPECIFICATION MCSpec
INVARIANTS OneReservation LookupsAgree OptionsSound 
CHECK_DEADLOCK FALSE
