\* Clients that reuse an id once its record is forgotten.
SPECIFICATION Spec
CONSTANTS
  alice = alice
  bob = bob
  i1 = i1
  i2 = i2
  i3 = i3
  k1 = k1
  Cards <- OneCard
  CardOf <- OneCardOf
  Invocations = {i1, i2}
  AdjustKeys = {}
  HoldAmounts = {1}
  Charges = {1}
  MaxSettlement = 9
  Deltas = {}
  OperatedCards = {}
  ArchiveCutoffs = {}
  Balance <- Top3
  MaxConcurrency <- Top2
  DailyLimit <- Top9
  MonthlyLimit <- Top9
  ValidUntil <- Top9
  DayLength = 9
  MonthLength = 9
  Ttl = 1
  Retention = 1
  MaxTime = 4
  MaxLeases = 1
  ClientsReuseIds = TRUE
INVARIANTS
  DiskLoadable
