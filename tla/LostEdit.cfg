\* The capabilities document says a failed save is retried while the page is alive.
SPECIFICATION FairSpec
CONSTANTS
  None = None
  Tabs = {tab1}
  Answers = {a1, a2}
  MaxEdits = 1
  MaxRetries = 4
  MaxErrors = 0
  MaxReloads = 0
  MaxDisruptions = 1
PROPERTIES
  FailedSaveRetried
CHECK_DEADLOCK FALSE
