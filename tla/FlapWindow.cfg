SPECIFICATION Spec
CONSTANTS
  DownThreshold = 3
  FlapThreshold = 5
  Window = 6
PROPERTIES
  FlapsWithinWindow
