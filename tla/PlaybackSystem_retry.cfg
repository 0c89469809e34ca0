SPECIFICATION Spec
CONSTANTS
  Commands = {"play", "resume", "seek"}
  Faults = {}
  Occs = {1}
  MaxRows = 1
  MaxRev = 1
  Duration = 1
  BackThreshold = 0
  Seekable = TRUE
  Prompt = TRUE
INVARIANTS RetryCommits
