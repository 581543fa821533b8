\* Two tabs save over a network that loses, delays and repeats requests.
SPECIFICATION Spec
CONSTANTS
  None = None
  Tabs = {tab1, tab2}
  Answers = {a1, a2}
  MaxEdits = 2
  MaxRetries = 0
  MaxErrors = 1
  MaxReloads = 0
  MaxDisruptions = 0
SYMMETRY Symmetry
INVARIANTS
  ReceiptLedger
  AcksAreTrue
  ClientNotAhead
  SnapshotSeqCoversAnswers
PROPERTIES
  ImplementsAnswerContract
CHECK_DEADLOCK FALSE
