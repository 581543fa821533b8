\* One tab edits, loses a request, is reloaded, disrupted and restored.
SPECIFICATION FairSpec
CONSTANTS
  None = None
  Tabs = {tab1}
  Answers = {a1, a2}
  MaxEdits = 2
  MaxRetries = 4
  MaxErrors = 1
  MaxReloads = 1
  MaxDisruptions = 1
INVARIANTS
  QueueKeepsUp
PROPERTIES
  EditsSettle
CHECK_DEADLOCK FALSE
