SPECIFICATION Spec
CONSTANTS
  Mutations = {m1}
  Uploads = {u1, u2}
  Callers = {c1, c2}
  MaxRetries = 2
  MaxFaults = 1
SYMMETRY Symmetry
CONSTRAINT TwoCalls
INVARIANTS
  TypeOK
  PhotoKept
  NoOrphanFile
  AnsweredBeforeDrop
  OneDrain
  FoundFileIsPosted
