\* Two requests of a card whose operator adjusts, freezes, bans and voids it
\* and archives the ledger; two cards' sales, changes and charges, as reported;
\* and two requests of different refusals and ends, as the panels count them.
SPECIFICATION LedgerSpec
CONSTANTS
  alice = alice
  bob = bob
  i1 = i1
  i2 = i2
  i3 = i3
  k1 = k1
  Cards <- TwoCards
  CardOf <- OneCardOf
  Invocations = {i1, i2}
  AdjustKeys = {k1}
  HoldAmounts = {1}
  Charges = {3}
  MaxSettlement = 2
  Deltas <- UpAndDown
  OperatedCards <- OneCard
  ArchiveCutoffs = {1}
  Balance <- Top1
  MaxConcurrency <- Top2
  DailyLimit <- Top9
  MonthlyLimit <- Top9
  ValidUntil <- Top9
  DayLength = 9
  MonthLength = 9
  Ttl = 1
  Retention = 1
  MaxTime = 2
  MaxLeases = 1
  ClientsReuseIds = FALSE
  c1 = c1
  c2 = c2
  small = small
  large = large
  SoldCards = {c1, c2}
  Plans = {small, large}
  PlanPrices <- MCOffers
  Kinds <- MCKinds
  FaceValues = {1, 2}
  Payments = {2}
  LegacyUse = {0, 1}
  LastDay = 3
  MaxEntries = 3
  MaxActs = 5
  m1 = m1
  u1 = u1
  u2 = u2
  Calls = {i1, i2}
  CardOfCall <- MCCardOfCall
  ModelOf <- MCModel
  Chains <- MCChains
  Refusals <- MCRefusals
  CardRefusals = {"usage_limit", "input_too_long"}
  Prices = {1}
  AttemptBudget = 2
  RepeatWindow = 1
  Day = 1
  Week = 2
  MaxRetained = 2
  FirstSecond = 3
  LastSecond = 4
  MaxAsked = 2
  MaxTraceRestarts = 1
SYMMETRY Interchangeable
INVARIANTS
  ExposureCovered
  ReportsStand
  PanelsAgree

\* Nothing is left to happen once the bounds are used up.
CHECK_DEADLOCK FALSE
