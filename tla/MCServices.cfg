SPECIFICATION SumSpec
CONSTANTS
  Torn = torn
  MaxRecords = 2
  MaxCrashes = 2
  MaxFailures = 1
  MaxRepairs = 1
  MaxMishaps = 2
  Work <- MCWork
  Parallel = {"team"}
  MaxAgents = 2
  MaxIds = 3
  Users = {"a", "b"}
  Free = "free"
  MaxPages = 2
  MaxSessions = 3
  EventTypes <- MCEventTypes
  MaxSubscriptions = 2
  Literals = {"f", "g"}
  Priorities = {1, 2}
  Triggers = {"t"}
  MaxHookFailures = 1
  MaxRegistrations = 3
  Policies <- MCPolicies
  MaxPolicies = 2
  ToolCalls <- MCToolCalls
  MaxEvaluations = 2
  Askers = {"a", "b"}
  Nil = none
  MayCrash = TRUE
  MaxRestarts = 1
  MaxLaunches = 2
  DocUsers = {"a", "b"}
  Docs = {"d"}
  MaxOpens = 3
  MaxServers = 2
  Talkers = {"t"}
  MaxCalls = 2
  MaxRetries = 1
  ChunkBuffer = 1
  ApiFormats = {"responses", "completions", "messages"}
  TextFormats = {"responses"}
  MaxReports = 2
  Budget = 4
  KeepRecentTurns = 1
  Sizes = {1, 3}
  MaxMessages = 4
  Builders = {"a", "b"}
  Signatures = {1, 2}
  MaxCount = 2
  MaxChanges = 2
  Observers = {"o", "p"}
  Window = 2
  MaxObserved = 6
  Loggers = {"a", "b"}
  BufferSize = 1
  MaxLogged = 2
  Days = 2
  Articles = {1, 2}
  MaxVersions = 2
  MaxWikiMishaps = 1
  Names = {1, 2}
  Refreshers = {"p"}
  MaxEdits = 2
INVARIANT
  ServicesTypeOK
  FlushedSurvives CrashIsSeen FragmentsAreCut RecoveryCompletes
  ServersAnswerWhatWasAsked RecordsAreTrue  ToolsOfTheSession PrefixIsKept
  TextsAreWhole EveryoneIsHeard WrittenOnceWhereItBelongs
PROPERTY HistoryIsKept
CHECK_DEADLOCK FALSE
