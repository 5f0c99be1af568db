SPECIFICATION FairSpec
CONSTANTS
  core = core
  switch = switch
  ap = ap
  NoDevice = NoDevice
  Devices = {core, switch, ap}
  Parent <- ChainParent
  Links <- NoLinks
  Thresholded <- NoThresholds
  Rebootable = {}
  Resolvable = {}
  Flappers = {}
  Serviced = {}
  Patches = {}
  MaxWindows = 0
  DownThreshold = 2
  MaxOpen = 2
  MaxCrashes = 1
  MaxLostSends = 0
  MaxLostQueries = 0
INVARIANTS
  DownHasIncident
  OneIncidentPerOutage
  UpHasNoOutage
  CommittedCascadeIsClosed
PROPERTIES
  DownAfterThreshold
  KeepsRegister
  StatusConverges
  IncidentsConverge
