SPECIFICATION Spec
CONSTANTS
  p = p
  q = q
  shut = shut
  off = off
  unknown = unknown
  fast = fast
  Calls = {main}
  Interruptible = {}
  Cancellable = {}
  Config <- MCConfig
  Requests <- MCRequests
  Exceptions <- FewExceptions
  Asked = {"tiered"}
  Budget = NoBudget
  Addrs = {a1, a2, a3}
  NoObj = NoObj
  NoBudget = NoBudget
SYMMETRY Symmetry
CHECK_DEADLOCK FALSE
INVARIANTS
  RejectedTextRaises
