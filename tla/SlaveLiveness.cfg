\* RPC engine: two contexts, two connections, a fault, and a queue that has room for
\* every context and empty record, as in the code (4096 elements). The other
\* instances are in MCSlaveLiveness.
CONSTANTS
  Ctx = {c1, c2}
  Conn = {k1, k2}
  MaxQueue = 4
  MaxFaults = 1
  c1 = c1
  c2 = c2
  k1 = k1
  k2 = k2
  s1 = s1
  None = None
  Unparsable = Unparsable
SPECIFICATION MCSpec
INVARIANTS AnswersSound
PROPERTIES ImplementsCall PingImplementsCall  StopsEnd
CHECK_DEADLOCK FALSE
