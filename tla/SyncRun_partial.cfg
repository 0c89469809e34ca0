SPECIFICATION Spec
CONSTANTS
  s1 = s1
  s2 = s2
  Songs = {s1, s2}
  Matched = {s1, s2}
  MaxVersion = 1
  Profiles = {"none"}
  Home = "none"
  Paths <- MCPaths
  PathOf <- MCPathOf
  Threshold = 1
  MaxQuality = 1
  Edits = {"basket", "partial"}
  MaxEdits = 0
  MaxFaults = 0
PROPERTY BasketIsKept
CHECK_DEADLOCK FALSE
