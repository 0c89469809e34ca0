SPECIFICATION WantedSpec
CONSTANTS
  s1 = s1
  s2 = s2
  Songs = {s1, s2}
  Matched = {s1, s2}
  MaxVersion = 2
  Profiles = {"none", "mp3"}
  Home = "none"
  Paths <- MCSharedPaths
  PathOf <- MCSharedPathOf
  Threshold = 1
  MaxQuality = 2
  Edits = {"basket", "reid", "quality", "profile", "force", "repair"}
  MaxEdits = 2
  MaxFaults = 2
SYMMETRY MCSymmetry
INVARIANTS InterruptedIsDirty Trust DeltaReaches DesiredSafe
PROPERTIES CompleteIsGoal WantedIsKept
CHECK_DEADLOCK FALSE
