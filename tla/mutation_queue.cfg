SPECIFICATION FairSpec
CONSTANTS
  Mutations = {m1, m2}
  Callers = {c1, c2}
  MaxRetries = 2
  MaxFaults = 1
INVARIANTS
  TypeOK
  KeptUnlessOverlapped
  OnceUnlessBlind
PROPERTIES
  SentInOrder
  Drains
