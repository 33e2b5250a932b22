\* A rejected key, other requests in flight and a sync of the pools.
SPECIFICATION Spec
CONSTANTS
  k1 = k1
  k2 = k2
  p1 = p1
  Keys = {k1, k2}
  Providers = {p1}
  PoolOf <- OneProvider
  Weights <- Triple
  Routes <- AloneAndChain
  MaxAttempts = 2
  FreeFailures = 0
  Cooldown = 1
  MaxBackoff = 1
  MaxDoublings = 0
  Answers = {"ok", "empty", "rejected", "down", "refusal"}
  EditedKeys = {k1}
  Saves <- Off
  MaxEdits = 1
  MaxOthers = 1
INVARIANT RejectedStaysOut
