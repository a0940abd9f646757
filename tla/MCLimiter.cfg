SPECIFICATION Spec
CONSTANTS
  unlisted = unlisted
  wide = wide
  closed = closed
  Providers <- MCProviders
  PerProvider <- MCPerProvider
  Addrs = {a1, a2, a3, a4}
  NoObj = NoObj
  NoBudget = NoBudget
  GlobalBudget = 3
SYMMETRY Symmetry
CHECK_DEADLOCK FALSE
INVARIANTS
  TypeOK
  Accounting
  WithinLimits
PROPERTY
  ImplementsSlotPool
