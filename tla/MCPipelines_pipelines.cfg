CONSTANTS
  NoToken = NoToken
  MaxEdits = 1
  MaxControls = 2
SPECIFICATION PipeSpec
CHECK_DEADLOCK FALSE
INVARIANTS HeardIsQueued EditExcludesBoundary OnePreparation PartsSafe
PROPERTIES KeepsGaplessPromise NothingHangs
