SPECIFICATION Spec
CONSTANTS
  Commands = {"play", "append", "remove", "move", "clear", "select", "next", "retry", "restore"}
  Faults = {"disk", "crash", "quit"}
  Occs = {1, 2, 3}
  MaxRows = 3
  MaxRev = 2
  Duration = 1
  BackThreshold = 0
  Seekable = FALSE
  Prompt = TRUE
INVARIANTS RetryCommits DiskIsTruth ShutdownSaves
