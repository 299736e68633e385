CONSTANTS
  a = a
  p = p
  checkpoint = checkpoint
  Steps <- MCSteps
  NeedLists <- MCNeedLists
  Artifacts = {a}
  Paths = {p, checkpoint}
  Reserved = {checkpoint}
  NoStep = NoStep
SPECIFICATION SSpec
CHECK_DEADLOCK FALSE
INVARIANTS
  RunnerMayAssume
  LeastOrder
