SPECIFICATION Spec
CONSTANTS
  Commands = {"play", "append", "stop", "back", "return", "preview"}
  Faults = {"disk", "audio", "crash"}
  Occs = {1}
  MaxRows = 1
  MaxRev = 1
  Duration = 1
  BackThreshold = 0
  Seekable = FALSE
  Prompt = TRUE
INVARIANTS PreviewStored
PROPERTIES QueueUntouched
