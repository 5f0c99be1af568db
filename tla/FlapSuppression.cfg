SPECIFICATION FairSpec
CONSTANTS
  DownThreshold = 3
  FlapThreshold = 5
  Window = 6
INVARIANTS
  TypeOK
PROPERTIES
  OnlySwingsAreSuppressed
  KeepsRegister
  FlappingEnds
