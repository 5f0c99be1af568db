SPECIFICATION FairSpec
CONSTANTS
  Clients = {c1, c2, c3}
  Senders = {s1, s2}
INVARIANTS
  TypeOK
  OpenIsListed
  AtMostOnce
  MissesAreBounded
PROPERTIES
  GoneIsForgotten
