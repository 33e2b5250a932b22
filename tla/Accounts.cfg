\* One card and two devices, two windows on one of them; two browsers, two endings;
\* three requests over two days, one retry, one publication; a conversation of four
\* messages in three steps.
CONSTANTS
  Home = Home
  Other = Other
  Kiro = Kiro
  Client = Client
  b1 = b1
  b2 = b2
  task = task
  trial = trial
  sequel = sequel
  frugal = frugal
  dear = dear
  Devices = {Home, Other}
  NoDevice = NoDevice
  Windows = {Kiro, Client}
  Device <- MCDevice
  Desktop = {Client}
  CopiedTo = {Home, Other}
  MaxSignIns = 2
  MaxRevocations = 1
  MaxRotations = 2
  Browsers = {b1, b2}
  MaxStep = 3
  MaxSessions = 2
  MaxIssued = 3
  MaxEndings = 2
  Requests = {task, trial, sequel}
  Kind <- MCKind
  Previews = {trial}
  Candidates = {{frugal, dear}}
  Policies <- MCPolicies
  Reserve = 2
  Costs = {0, 2}
  DailyCalls = 2
  DailyBudget = 3
  MaxDecisions = 2
  Retention = 1
  MaxPublications = 1
  LastDay = 2
  MaxRetries = 1
  p1 = p1
  p2 = p2
  p3 = p3
  f1 = f1
  f2 = f2
  ca = ca
  cb = cb
  Images = {p1, p2, p3}
  Large = {p1}
  Unreadable = {p2}
  Files = {f1, f2}
  Encrypted = {}
  Rejected = {f1}
  UserMessages <- MCMessages
  Replies <- MCReplies
  MaxImages = 4
  KeptFor = 2
  RefusalMemory = 9
  LastMinute = 2
  MaxMessages = 4
  MaxSteps = 3

SPECIFICATION Spec

INVARIANTS
  OneSignInServed
  RefreshesKeepSession
  CodeOpensOnce
  ClassifierWithinBudget
  CheapOnlyIfSimple
  TurnsPairUp
  RefusalsEnd

PROPERTIES
  EndedSessionsStayOut
  StepsAgree

\* Nothing is left to happen once the bounds are used up.
CHECK_DEADLOCK FALSE
