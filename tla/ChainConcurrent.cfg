SPECIFICATION ConcurrentSpec
CONSTANTS
  p = p
  q = q
  shut = shut
  off = off
  unknown = unknown
  fast = fast
  Calls = {main, task}
  Interruptible = {main}
  Cancellable = {task}
  Config <- MCConfig
  Requests <- MCRequests
  Exceptions <- MCExceptions
  Asked = {"order", "tiered", "again", "shut", "fresh", "invalid", "unknown", "none"}
  Budget = 2
  Addrs = {a1, a2}
  NoObj = NoObj
  NoBudget = NoBudget
SYMMETRY Symmetry
CHECK_DEADLOCK FALSE
INVARIANTS
  TypeOK
  SlotsMatchCalls
  OnlyInterruptsLeak
  HooksRunUnreserved
  OneOutcomeTold
  CapacityKept
  OutcomeFitsAttempts
PROPERTIES
  CoolsBeforeMovingOn
  FailsOver
