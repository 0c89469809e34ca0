CHECK_DEADLOCK FALSE
CONSTANTS
  p1 = p1
  p2 = p2
  m1 = m1
  o1 = o1
  d1 = d1
  Pipelines = {p1, p2}
  AutoSyncs = {p2}
  Mutators = {m1}
  Ops = {o1}
  Devices = {d1}
  NoOp = NoOp
  Core = Core
  Nobody = Nobody
SPECIFICATION FairSpec
INVARIANTS DrainIsFinal CancelReaches OneSync RemovedNotRunning FenceHolds
PROPERTIES OutcomesFinal QuitSettles
