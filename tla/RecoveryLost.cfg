SPECIFICATION Spec
CONSTANTS
  core = core
  switch = switch
  ap = ap
  NoDevice = NoDevice
  Devices = {core, switch}
  Parent <- PairParent
  Links <- NoLinks
  Thresholded <- SwitchThresholds
  Rebootable = {}
  Resolvable = {}
  Flappers = {}
  Serviced = {}
  Patches = {}
  MaxWindows = 0
  DownThreshold = 1
  MaxOpen = 2
  MaxCrashes = 0
  MaxLostSends = 1
  MaxLostQueries = 1
INVARIANTS
  UpHasNoOutage
