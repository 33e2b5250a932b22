\* Two requests of one card: every interleaving of holds, settlements, refunds,
\* recovery, the janitor, failed writes and crashes; and two that are refused,
\* routed, left, charged and traced, across a minute and a restart.
SPECIFICATION RequestsSpec
CONSTANTS
  alice = alice
  bob = bob
  i1 = i1
  i2 = i2
  i3 = i3
  k1 = k1
  Cards <- OneCard
  CardOf <- OneCardOf
  Invocations = {i1, i2}
  AdjustKeys = {}
  HoldAmounts = {1, 2}
  Charges = {0, 3}
  MaxSettlement = 9
  Deltas = {}
  OperatedCards = {}
  ArchiveCutoffs = {}
  Balance <- Top3
  MaxConcurrency <- Top2
  DailyLimit <- Top2
  MonthlyLimit <- Top3
  ValidUntil <- Top9
  DayLength = 1
  MonthLength = 2
  Ttl = 1
  Retention = 1
  MaxTime = 3
  MaxLeases = 1
  ClientsReuseIds = FALSE
  m1 = m1
  u1 = u1
  u2 = u2
  Calls = {i1, i2}
  CardOfCall <- MCCardOfCall
  ModelOf <- MCModel
  Chains <- MCChains
  Refusals <- OneRefusal
  CardRefusals = {"usage_limit", "input_too_long"}
  Prices = {1}
  AttemptBudget = 2
  RepeatWindow = 1
  Day = 1
  Week = 2
  MaxRetained = 2
  FirstSecond = 3
  LastSecond = 4
  MaxAsked = 3
  MaxTraceRestarts = 1
INVARIANTS
  HoldsAccounted
  DiskLoadable
  MoneyIsDurable
  ChargedOnce
  FairUseRespected
  AttemptsWithinBudget
  ChargesAreTraced
PROPERTIES
  ConsumedNeverRefunded
SYMMETRY Interchangeable
