SPECIFICATION Spec
CONSTANTS
  Workers = {w1}
  Sessions = {s1, s2}
  NoWorker = NoWorker
  MaxRuns = 2
  MaxConcurrent = 2
  MaxCrashes = 0
SYMMETRY Symmetry
VIEW Seen
INVARIANTS
  OriginalMergedAfterGates
  PostMergeIsMerged
PROPERTIES
  ImplementsSlots
