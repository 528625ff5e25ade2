SPECIFICATION Spec
CONSTANTS
  Requests = {r1, r2, r3, r4}
  States = {"draft", "submitted", "approved", "legacy"}
  Initial = {"draft"}
  Edges <- MCEdges
  None = None
SYMMETRY Symmetry
CHECK_DEADLOCK FALSE
INVARIANTS
  TypeOK
  StateReachable
  VersionTellsLoss
PROPERTY
  ImplementsWorkflow
