\* Thread pool: four tasks, two threads that stay, one that cannot be created.
\* The instances of the other parts are in MCShared.
CONSTANTS
  Task = {t1, t2, t3, t4}
  MaxCached = 2
  MaxFailures = 1
  m1 = m1
  m2 = m2
  m3 = m3
  w1 = w1
  w2 = w2
  receiver = receiver
  both = both
SPECIFICATION MCSpec
INVARIANTS PoolSound  CountersSound HooksSound
PROPERTIES EverythingIsServed
CHECK_DEADLOCK FALSE
