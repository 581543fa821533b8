\* Three manually graded attempts under pass_then_stop, keeping the highest score.
SPECIFICATION Spec
CONSTANTS
  None = None
  Tabs = {tab1, tab2}
  Graders = {g1, g2}
  OpenAt = 0
  CloseAt = None
  Duration = None
  LatestStartOffset = None
  MinSubmitAfterStart = None
  RetakePolicy = "pass_then_stop"
  MaxAttempts = 2
  ScoreStrategy = "highest"
  ResultPublicationMode = "manual"
  InterruptionPolicy = "strict"
  PerIncidentCap = 1
  PerAttemptCap = 2
  PassingScore = 2
  ManualQuestions = 2
  HeartbeatTimeout = 1
  Scores = {1, 2, 3}
  GrantSizes = {1}
  ExtendSizes = {1}
  StaffCommands = {"publish_results", "close", "archive"}
  MaxTime = 0
  MaxDelay = 0
  MaxCloseAt = 0
  AttemptBound = 3
  SaveBound = 1
  EpisodeBound = 0
  MaxCrashes = 0
SYMMETRY Symmetry
INVARIANTS
  OneActiveAttempt
  SubmittedAwaitsManual
  FinalResultIsGraded
  HighestIsMax
  GradingNeverBlocked
PROPERTIES
  PassStopsRetakes
  ImplementsAttemptContract
