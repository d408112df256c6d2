\* Two slaves and three commands; three connections of the management.
CONSTANTS
  Conn = {c1, c2}
  MaxCmds = 3
  Client = {c1, c2, c3}
  None = None
SPECIFICATION MCSpec
INVARIANTS ServingSound ManagementSound
PROPERTIES CommandsEnd
CHECK_DEADLOCK FALSE
