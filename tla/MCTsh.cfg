SPECIFICATION Spec
CONSTANTS
  MAXJOBS = 2
  Pids = {p1, p2, p3}
  NoPid = NoPid
  JidBound = 2
  EventBound = 1
SYMMETRY PidSymmetry
INVARIANTS
  IInv
  
  OneForeground
  PromptIsFree
PROPERTIES
  WaitfgWaits
  BackgroundSafe
  
