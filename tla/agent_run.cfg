SPECIFICATION Spec
CONSTANTS
  Workers = {w1, w2}
  Sessions = {s1}
  NoWorker = NoWorker
  MaxRuns = 2
  MaxConcurrent = 2
  MaxCrashes = 1
SYMMETRY Symmetry
VIEW Seen
INVARIANTS
  TypeOK
PROPERTIES
  RunBelongsToOneWorker
  UnheldDeadRunIsFinal
