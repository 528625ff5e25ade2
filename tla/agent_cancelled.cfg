SPECIFICATION Spec
CONSTANTS
  Workers = {w1}
  Sessions = {s1}
  NoWorker = NoWorker
  MaxRuns = 1
  MaxConcurrent = 2
  MaxCrashes = 0
PROPERTIES
  CancelledIsTerminal
