SPECIFICATION Spec
CONSTANTS
  p = p
  q = q
  shut = shut
  off = off
  unknown = unknown
  fast = fast
  Calls = {thread, task}
  Interruptible = {}
  Cancellable = {task}
  Config <- MCConfig
  Requests <- MCRequests
  Exceptions <- FewExceptions
  Asked = {"order"}
  Budget = 1
  Addrs = {a1, a2, a3}
  NoObj = NoObj
  NoBudget = NoBudget
SYMMETRY Symmetry
CHECK_DEADLOCK FALSE
INVARIANTS
  ErrorsCarryAttempts
