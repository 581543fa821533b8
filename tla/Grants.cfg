\* Grants, saves, force-submits, an extension and a cancel at the edges of the window.
SPECIFICATION Spec
CONSTANTS
  None = None
  Tabs = {tab1, tab2}
  Graders = {}
  OpenAt = 1
  CloseAt = 4
  Duration = 2
  LatestStartOffset = 2
  MinSubmitAfterStart = 1
  RetakePolicy = "max_attempts"
  MaxAttempts = 1
  ScoreStrategy = "highest"
  ResultPublicationMode = "immediate"
  InterruptionPolicy = "operator_incident"
  PerIncidentCap = 1
  PerAttemptCap = 2
  PassingScore = 2
  ManualQuestions = 0
  HeartbeatTimeout = 1
  Scores = {1}
  GrantSizes = {1}
  ExtendSizes = {1}
  StaffCommands = {"extend","grant","force_submit","cancel"}
  MaxTime = 5
  MaxDelay = 1
  MaxCloseAt = 5
  AttemptBound = 2
  SaveBound = 1
  EpisodeBound = 1
  MaxCrashes = 0
SYMMETRY Symmetry
INVARIANTS
  SubmissionPossible
  TypeOK
PROPERTIES
  TerminalIsFinal
