\* Automatic grace under bounded_grace, over two episodes of one attempt.
SPECIFICATION FairSpec
CONSTANTS
  None = None
  Tabs = {tab1}
  Graders = {}
  OpenAt = 0
  CloseAt = 4
  Duration = 2
  LatestStartOffset = None
  MinSubmitAfterStart = None
  RetakePolicy = "unlimited"
  MaxAttempts = 2
  ScoreStrategy = "highest"
  ResultPublicationMode = "immediate"
  InterruptionPolicy = "bounded_grace"
  PerIncidentCap = 2
  PerAttemptCap = 2
  PassingScore = 2
  ManualQuestions = 0
  HeartbeatTimeout = 1
  Scores = {1}
  GrantSizes = {1}
  ExtendSizes = {1}
  StaffCommands = {"extend"}
  MaxTime = 5
  MaxDelay = 1
  MaxCloseAt = 5
  AttemptBound = 1
  SaveBound = 0
  EpisodeBound = 2
  MaxCrashes = 1
INVARIANTS
  InterruptionEpisodes
  DeadlineAccounting
PROPERTIES
  NeverAutoSubmittedEarly
  AttemptsEnd
