SPECIFICATION FairSpec
CONSTANTS
  core = core
  switch = switch
  ap = ap
  NoDevice = NoDevice
  Devices = {core, switch}
  Parent <- PairParent
  Links <- PairLinks
  Thresholded <- NoThresholds
  Rebootable = {}
  Resolvable = {}
  Flappers = {}
  Serviced = {switch}
  Patches = {}
  MaxWindows = 1
  DownThreshold = 2
  MaxOpen = 2
  MaxCrashes = 0
  MaxLostSends = 0
  MaxLostQueries = 0
PROPERTIES
  RecoveryIsDetected
