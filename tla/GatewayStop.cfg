\* A stream whose client leaves while the gateway stops.
SPECIFICATION GatewaySpec
CONSTANTS
  c1 = c1
  i1 = i1
  i2 = i2
  a1 = a1
  a2 = a2
  Cards <- OneCard
  CardOf <- OneCardOf
  Invocations = {i1}
  Attempts = {a1, a2}
  MaxInflight = 2
  AdjustKeys = {}
  HoldAmounts = {1}
  Charges = {1}
  MaxSettlement = 9
  Deltas = {}
  OperatedCards = {}
  ArchiveCutoffs = {}
  Balance <- Top2
  MaxConcurrency <- Top1
  DailyLimit <- Top9
  MonthlyLimit <- Top9
  ValidUntil <- Top9
  DayLength = 9
  MonthLength = 9
  Ttl = 1
  Retention = 1
  MaxTime = 3
  MaxLeases = 2
  ClientsReuseIds = FALSE
PROPERTIES
  StopBillsStreams
