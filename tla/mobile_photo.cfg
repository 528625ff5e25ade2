SPECIFICATION Spec
CONSTANTS
  Mutations = {m1}
  Uploads = {u1}
  Callers = {c1}
  MaxRetries = 2
  MaxFaults = 0
INVARIANT DroppedForGood
