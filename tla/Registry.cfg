SPECIFICATION FairSpec
CONSTANTS
  t1 = t1
  t2 = t2
  client = client
  mine = mine
  other = other
  fast = fast
  OpenaiKey = OpenaiKey
  Threads = {t1, t2}
  Clients = {client}
  ClientOf <- MCClientOf
  Documents <- MCDocuments
  Requests <- MCRequests
  Customs = {"ollama", "groq"}
  Registrations <- MCRegistrations
  Keys = {OpenaiKey}
  NoKey = NoKey
  None = None
  NoBudget = NoBudget
INVARIANTS
  TypeOK
  UnknownMeansAbsent
  RefusalsHaveRival
  AdaptersFit
  RoutesLoseNothing
PROPERTIES
  SettledStays
  AskersGetIt
CHECK_DEADLOCK FALSE
