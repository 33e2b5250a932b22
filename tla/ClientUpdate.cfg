\* An installer, its trial and a second start of the client; two trials.
CONSTANTS
  MaxProcs = 3
  MaxVersion = 3
  MaxTrials = 2
  MaxKills = 2

SPECIFICATION FairSpec

INVARIANTS
  JudgedOnce

\* A trial killed between its two renames leaves nothing to start.
CHECK_DEADLOCK FALSE
PROPERTIES
  TrialsEnd
