CONSTANTS
  Tasks = {t1, t2}
  Cancellers = {k1}
  Wakers = {w1, w2}
  Installer = Installer
  None = None
  Exchanges = {"r1", "r2"}
  Ids = {"i1", "i2"}
  Subjects = {"anna"}
  Anonymous = "anonymous"
  NoId = "no id"
  NoRecord = None
  Ttl = 1
  Leeway = 1
  Horizon = 3
  MaxEdits = 2
  Applications <- MCApplications
  Presented <- MCPresented
  Template <- MCTemplate
  Now = 5
  Skew = 1
  Unset = None
  NoValue = None
  Tools <- MCTools
  Resources = {"r"}
  Prompts = {"p"}
  JsonNull = "null"
  Sids = {"s1", "s2"}
  Messages <- MCMessages
  LogCapacity = 2
  MaxRequests = 4
  FrameLists <- MCFrameLists
  MaxMessageBytes = 4
  MaxMessages = None
  MaxRejected = 2
  Recorders = {g1, g2, g3}
  MetricCalls <- MCCalls
  Reserved = {"reserved"}
  Cap = 1
  Bounds <- MCBounds
  Detailed = TRUE
  NoLabels = None
  Chains <- MCChains
  Heads <- MCHeads
  Width = 3
  NotGiven = None
  Verbs = {"GET", "HEAD"}
  Acceptances <- MCAcceptances
  Originals <- MCOriginals
  Chunks <- MCChunks
  Sources <- MCSources
  MaxPasses = 2
  MinimumSize = 2
  Unstated = None
  Tree <- MCTree
  Root <- MCRoot
  Prefix <- MCPrefix
  Index = "i"
  SpaFallback = TRUE
  PercentDecoded <- MCDecoded
  Hostile = {"a:b"}
  Asks <- MCAsks
  Initial <- MCInitial
  Lengths = {1, 3}
  PerSecond = 2
  MaxChanges = 2
  MaxTime = 2
  MaxFetches = 3
  NotThere = None
SPECIFICATION MCSpec
SYMMETRY Interchangeable
INVARIANTS AwaitIsSound AccessIsEarned McpIsOrderly NothingIsMiscounted
  FilesAreWhole HeadsDecide BodiesAreFaithful DocumentIsHonest TransportsAgree FramesAreAnswered
PROPERTY SessionsAreSound
CHECK_DEADLOCK FALSE
