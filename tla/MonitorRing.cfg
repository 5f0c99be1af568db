SPECIFICATION FairSpec
CONSTANTS
  core = core
  switch = switch
  ap = ap
  NoDevice = NoDevice
  Devices = {core, switch}
  Parent <- RingParent
  Links <- PairLinks
  Thresholded <- NoThresholds
  Rebootable = {}
  Resolvable = {switch}
  Flappers = {switch}
  Serviced = {}
  Patches <- CoreInAndOut
  MaxWindows = 0
  DownThreshold = 1
  MaxOpen = 2
  MaxCrashes = 0
  MaxLostSends = 0
  MaxLostQueries = 1
PROPERTIES
  CycleEnds
  LinksConverge
