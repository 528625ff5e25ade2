SPECIFICATION FairSpec
CONSTANTS
  Processes = {p1, p2, p3}
  TTL = 3
  Free = Free
  Orphan = Orphan
INVARIANTS
  TypeOK
  OneSchedulerUnlessLate
PROPERTIES
  LostLockStopsScheduler
  OrphanKeyExpires
