SPECIFICATION Spec
CONSTANTS
  core = core
  switch = switch
  ap = ap
  NoDevice = NoDevice
  Devices = {core, switch}
  Parent <- PairParent
  Links <- PairLinks
  Thresholded <- SwitchThresholds
  Rebootable = {switch}
  Resolvable = {}
  Flappers = {}
  Serviced = {switch}
  Patches <- SwitchToUp
  MaxWindows = 2
  DownThreshold = 1
  MaxOpen = 2
  MaxCrashes = 0
  MaxLostSends = 1
  MaxLostQueries = 0
INVARIANTS
  TypeOK
  CascadeIsClosed
PROPERTIES
  MaintenanceIsSilent
