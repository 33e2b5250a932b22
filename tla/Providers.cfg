\* A request over one provider and one over a chain of two, while keys fail and
\* recover and the operator edits one once, which may leave the heavier one as
\* light as the other, with what it has gained or owes by the weight it had.
SPECIFICATION Spec
CONSTANTS
  k1 = k1
  k2 = k2
  p1 = p1
  Keys = {k1, k2}
  Providers = {p1}
  PoolOf <- OneProvider
  Weights <- Triple
  Routes <- AloneAndChain
  MaxAttempts = 2
  FreeFailures = 0
  Cooldown = 1
  MaxBackoff = 1
  MaxDoublings = 0
  Answers = {"ok", "empty", "rejected", "down", "refusal"}
  EditedKeys = {k1}
  Saves <- OffOrLighter
  MaxEdits = 1
  MaxOthers = 1
INVARIANTS
  SharesStayBounded
  EmptyBilledOnlyIfAllEmpty
PROPERTY RequestsEnd
