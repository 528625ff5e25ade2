SPECIFICATION FairSpec
CONSTANTS
  Workers = {w1, w2}
  Sessions = {s1, s2}
  NoWorker = NoWorker
  MaxRuns = 1
  MaxConcurrent = 1
  MaxCrashes = 2
PROPERTIES
  ActiveRunEndsUnlessOff
