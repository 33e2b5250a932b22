\* Two attempts of two requests of one card: every interleaving of the guard, the
\* hold and the stream with failed writes, recovery, the janitor, stops and crashes;
\* and, apart from them, every stream of three tool calls in four dialects.
SPECIFICATION ServingSpec
CONSTANTS
  c1 = c1
  i1 = i1
  i2 = i2
  a1 = a1
  a2 = a2
  Cards <- OneCard
  CardOf <- OneCardOf
  Invocations = {i1, i2}
  Attempts = {a1, a2}
  MaxInflight = 2
  AdjustKeys = {}
  HoldAmounts = {1}
  Charges = {1}
  MaxSettlement = 9
  Deltas = {}
  OperatedCards = {}
  ArchiveCutoffs = {}
  Balance <- Top2
  MaxConcurrency <- Top2
  DailyLimit <- Top9
  MonthlyLimit <- Top9
  ValidUntil <- Top9
  DayLength = 9
  MonthLength = 9
  Ttl = 1
  Retention = 1
  MaxTime = 2
  MaxLeases = 2
  ClientsReuseIds = FALSE
  ToolUses = {1, 2, 3}
  PiecesOf <- MCPieces
  Dialects = {"anthropic", "indexed", "named", "plain"}
  Counts <- MCCounts
  StopReasons = {"plain", "limit"}
  EstimatedInput = 2
  MaxToolCalls = 3
  MaxToolPieces = 4
  Tolerated = 1
  MaxSaid = 2
  MaxReports = 2
  MaxNoise = 2
SYMMETRY Alike
INVARIANTS
  EverythingOwned
  CallsReachKiroWhole
  BillFollowsUpstream
  VerdictsAgree
PROPERTIES
  DeliveredIsBilled
  ImplementsServedOnce
