SPECIFICATION FairSpec
CONSTANTS
  core = core
  switch = switch
  ap = ap
  NoDevice = NoDevice
  Devices = {core, switch, ap}
  Nodes <- AllNodes
  Links <- AllLinks
  Types = {"router", "access_point"}
  Criticals = {ap}
  Parents <- Hierarchies
INVARIANTS
  TypeOK
  AffectedIsDownstream
  RootOutranksCollateral
  RootCauseIsUpstream
PROPERTIES
  AnalysisEnds
CHECK_DEADLOCK FALSE
