SPECIFICATION FairSpec
CONSTANTS
  MAXJOBS = 2
  Pids = {p1, p2}
  NoPid = NoPid
  JidBound = 2
  EventBound = 1
PROPERTIES
  ZombiesReaped
  PromptReturns
  ImplementsJobControl
