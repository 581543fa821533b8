CONSTANTS
  None = None
  Workers = {w1, w2}
  Emails = {1, 2}
  BatchSize = 2
  MaxAttempts = 2
  MaxFaults = 2
SPECIFICATION FairSpec
INVARIANTS
  RetriesAsConfigured
  DeliveredAtLeastOnce
PROPERTIES
  OutcomeIsFinal
  EmailsSettle
