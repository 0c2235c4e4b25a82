SPECIFICATION ClientSpec
CONSTANTS
  Threads = {t1, t2}
  Secrets = {s1, s2}
  Existing = {s1}
  MaxWrites = 2
  NoVault = NoVault
  NoSecret = NoSecret
  Messages = {m1}
  MaxCalls = 2
  Clients = {c1, c2}
  Passwords = {"p", "q"}
  Codes = {"r"}
  MaxDraws = 6
  MaxEntries = 5
  MaxChanges = 2
  PageSize = 2
  MaxPages = 3
  MaxEdits = 5
  ListLimit = 2
  MaxMail = 4
  PollInterval = 2
  ClientTimeout = 3
  MaxTime = 5
  Callers = {u1, u2}
  Paths <- MCPaths
  PathAttrs <- MCPathAttrs
  Ages = {0, 1}
  Dates = {1}
  MaxAnswers = 3
  MaxSecs = 1
  FirstYear <- MCFirstYear
  LastYear = 2020
  Base = 8
  ByteXor <- MCXor
  Opcodes = {2}
  Lengths = {0, 1, 2, 3, 63, 64}
  MaskKeys <- MCMaskKeys
  MaxFrames = 2
  Chunks = {1, 3, 70}
INVARIANTS
  ClientTypeOK
  OwnWritesVisible
  SentExactly
  EveryKeyOpens
  UnwrapsUnlessDisturbed
  LoadedWhole
  GuardsKnowOwnChanges
  ListedWhole
  WaitBounded
  CarriesLastSet
  DatesHold
  DecodesWhatArrived
PROPERTIES
  TotpKeepsLogin
  SnapshotIsRecent
CHECK_DEADLOCK FALSE
