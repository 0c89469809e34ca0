SPECIFICATION Spec
CONSTANTS
  Commands = {"play", "pause", "resume", "next", "retry", "stop"}
  Faults = {"disk", "audio", "crash"}
  Occs = {1, 2}
  MaxRows = 2
  MaxRev = 1
  Duration = 1
  BackThreshold = 0
  Seekable = FALSE
  Prompt = TRUE
INVARIANTS GateTruth Listening
PROPERTIES PlanBarrier DepartureClosed
