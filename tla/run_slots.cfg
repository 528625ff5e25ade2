SPECIFICATION Spec
CONSTANTS
  Workers = {w1, w2}
  Sessions = {s1, s2}
  Runs = {r1, r2, r3, r4, r5, r6}
  MaxConcurrent = 2
  NoRun = NoRun
SYMMETRY Symmetry
INVARIANTS
  TypeOK
  SlotsBounded
  ActiveWithinOvershoot
