SPECIFICATION OutputsSpec
CONSTANTS
  Commands = {"play", "pause", "seek", "back"}
  Faults = {"audio"}
  Occs = {1, 2}
  MaxRows = 2
  MaxRev = 1
  Duration = 1
  BackThreshold = 0
  Seekable = TRUE
  Prompt = TRUE
INVARIANTS BackIsRecorded OutputSafe
PROPERTIES PendingSeekHolds QuietSettles
CHECK_DEADLOCK FALSE
