SPECIFICATION Spec
CONSTANTS
  gemini = gemini
  groq = groq
  flash = flash
  small = small
  standard = standard
  high = high
  Catalog <- MCCatalog
  Enabled <- MCEnabled
  Lexical <- MCOrder
  Scale = 60
  One = 60
  MinQuota = 3
  Window = 1
  Latencies = {0, 9000}
  Cooldowns <- MCCooldowns
  Requests <- MCRequests
INVARIANTS
  TypeOK
  RanksTheEligible
  PromotesOnlyWithinBand
  DroppingKeepsOrder
