SPECIFICATION FairSpec
CONSTANTS
  Sockets = {s1, s2, s3}
  NoSocket = NoSocket
INVARIANTS
  TypeOK
  OneSocketUnlessRaced
  ShownAsItIsUnlessRaced
PROPERTIES
  ComesBack
