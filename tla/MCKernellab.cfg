SPECIFICATION Spec
CONSTANTS
  Callers = {1, 2}
  Pids = {1, 2, 3}
  Asked = {2, 3}
  Structs = {1, 2, 3}
INVARIANTS
  MemoryAccounted
  AnswersAreRight
