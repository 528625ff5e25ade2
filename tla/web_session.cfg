SPECIFICATION FairSpec
CONSTANTS
  Tabs = {t1, t2}
  NoTab = NoTab
  Requests = {r1, r2}
  MaxTokens = 2
INVARIANTS
  TypeOK
  StoredTokenIsLive
  SignedOutUnlessCrossed
PROPERTIES
  PostedOnce
  Settles
