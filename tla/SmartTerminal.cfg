SPECIFICATION Spec
CONSTANTS
  gemini = gemini
  groq = groq
  flash = flash
  small = small
  standard = standard
  Asked = {"json"}
  Catalog <- TwoTargets
  Enabled <- MCEnabled
  Lexical <- MCLexical
  Scale = 60
  MinQuota = 3
  Calls = {main, worker}
  Repeated = {}
  Interruptible = {}
  Requests <- MCRequests
  Window = 0
  Latencies = {0}
  Exceptions <- FewExceptions
  PerProvider <- Limits
  GlobalBudget = NoBudget
  Addrs = {a1, a2}
  NoObj = NoObj
  NoBudget = NoBudget
SYMMETRY Symmetry
CHECK_DEADLOCK FALSE
INVARIANTS
  TerminalStays
