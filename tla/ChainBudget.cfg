SPECIFICATION FairSpec
CONSTANTS
  p = p
  q = q
  shut = shut
  off = off
  unknown = unknown
  fast = fast
  Calls = {thread, task}
  Interruptible = {}
  Cancellable = {task}
  Config <- MCConfig
  Requests <- MCRequests
  Exceptions <- TwoExceptions
  Asked = {"order", "tiered"}
  Budget = 1
  Addrs = {a1, a2}
  NoObj = NoObj
  NoBudget = NoBudget
CHECK_DEADLOCK FALSE
PROPERTIES
  CallsEnd
  SlotsComeBack
