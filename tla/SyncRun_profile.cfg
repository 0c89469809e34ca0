SPECIFICATION Spec
CONSTANTS
  s1 = s1
  Songs = {s1}
  Matched = {s1}
  MaxVersion = 1
  Profiles = {"none", "mp3"}
  Home = "none"
  Paths <- MCPaths
  PathOf <- MCPathOf
  Threshold = 1
  MaxQuality = 1
  Edits = {"profile"}
  MaxEdits = 3
  MaxFaults = 0
INVARIANT ProfileKept
CHECK_DEADLOCK FALSE
