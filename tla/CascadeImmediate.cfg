SPECIFICATION Spec
CONSTANTS
  core = core
  switch = switch
  ap = ap
  NoDevice = NoDevice
  Devices = {core, switch}
  Parent <- PairParent
  Links <- PairLinks
  Thresholded <- SwitchThresholds
  Rebootable = {}
  Resolvable = {}
  Flappers = {}
  Serviced = {}
  Patches = {}
  MaxWindows = 0
  DownThreshold = 2
  MaxOpen = 2
  MaxCrashes = 0
  MaxLostSends = 0
  MaxLostQueries = 0
PROPERTIES
  CascadeIsImmediate
