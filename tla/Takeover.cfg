\* Takeover, restore and recovery of one installation with two profiles.
CONSTANTS
  Default = Default
  Profiles = {Work}
  MaxVersion = 2
  MaxRules = 2
  MaxEvents = 3
  Losable <- MCLosable
  SeesUpdates = FALSE

SPECIFICATION FairSpec

INVARIANTS
  SignInKept
  PatchIsUndoable

PROPERTIES
  OwnTokenStaysHome
  RecoveryCompletes

\* An idle client with nothing left to disturb it may stop.
CHECK_DEADLOCK FALSE
