SPECIFICATION QuietSpec
CONSTANTS
  Commands = {"play", "seek"}
  Faults = {"audio"}
  Occs = {1, 2}
  MaxRows = 2
  MaxRev = 1
  Duration = 1
  BackThreshold = 0
  Seekable = TRUE
  Prompt = TRUE
PROPERTIES NoPhantom
CHECK_DEADLOCK FALSE
