SPECIFICATION FairSpec
CONSTANTS
  gemini = gemini
  groq = groq
  flash = flash
  small = small
  standard = standard
  Asked = {"plain", "json", "even", "none", "invalid"}
  Catalog <- TwoTargets
  Enabled <- MCEnabled
  Lexical <- MCLexical
  Scale = 60
  MinQuota = 3
  Calls = {main}
  Repeated = {main}
  Interruptible = {main}
  Requests <- MCRequests
  Window = 1
  Latencies = {0}
  Exceptions <- AllExceptions
  PerProvider <- Limits
  GlobalBudget = 1
  Addrs = {a1, a2}
  NoObj = NoObj
  NoBudget = NoBudget
CHECK_DEADLOCK FALSE
INVARIANTS
  OutcomeFitsAttempts
PROPERTIES
  FailsOver
  CallsEnd
