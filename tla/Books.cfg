\* Four saves, any write failing, a crash between any two steps, from an empty
\* directory or a state file older than anchors. Two cards, one sold by the platform
\* and handled by operators before it has any entry. Three attempts at two
\* invocations, on a new installation or after a release that had answered one.
CONSTANTS
  MaxSaves = 4
  LegacySequence = 2
  c1 = c1
  c2 = c2
  t1 = t1
  o1 = o1
  r1 = r1
  r2 = r2
  k1 = k1
  k2 = k2
  CardIds = {c1, c2}
  PlatformCards = {c2}
  OperatedCards = {c2}
  Orders = {o1}
  TopupCodes = {t1}
  Worth <- MCWorth
  Days <- MCDays
  Durations = {1}
  IssuedCredits = 3
  RenewalDays = 1
  CardRequests = {r1, r2}
  RequestCharges = {2}
  Asks <- MCAsks
  Keys = {k1, k2}
  Upgrades <- MCUpgrades
  MaxOperated = 0
  MaxDay = 1
  MaxUntil = 2
  MaxEntries = 3
  i1 = i1
  i2 = i2
  a1 = a1
  a2 = a2
  a3 = a3
  Attempts = {a1, a2, a3}
  Invocation <- MCInvocation
  OldInvocations = {i1}
  OldPrice = 1
  Prices = {1, 2}
  ModelPrice = 1
  Deposit = 4
  MaxConcurrency = 1
  MaxReceipts = 1
  MaxRevision = 2
  MaxRestarts = 1

SPECIFICATION BooksSpec

INVARIANTS
  SoldOnce
  CompensatedOnce
  TemplatesArePaidOnce

PROPERTIES
  ImplementsRegister

\* Nothing is left to happen once the bounds are used up.
CHECK_DEADLOCK FALSE
