\* Control server: three commands of two sessions, reconfigurations that fail at
\* every part, three packets. The instance of the conflict check is in MCSlave.
CONSTANTS
  Session = {s1, s2}
  FirstConf <- A
  QueueSize = 2
  Conf <- Confs
  MaxPkts = 3
  MaxCmds = 3
  c1 = c1
  c2 = c2
  c3 = c3
  None = None
  Unparsable = Unparsable
SPECIFICATION MCSpec
SYMMETRY Symmetry
INVARIANTS StopSound   PingsSound
CHECK_DEADLOCK FALSE
