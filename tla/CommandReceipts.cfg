\* Two deliveries at a time, of commands that share operation ids and attempts.
SPECIFICATION FairSpec
CONSTANTS
  None = None
  a1 = a1
  a2 = a2
  o1 = o1
  o2 = o2
  Slots = {s1, s2}
  Ops = {o1, o2}
  Attempts = {a1, a2}
  Manual = {a2}
  Payloads = {1, 2}
  Times = {1, 2}
  MaxExtension = 2
  Commands <- RacingCommands
  MaxRetries = 1
INVARIANTS
  ReceiptsTellTheTruth
  SecondsAccounted
PROPERTIES
  ImplementsContract
  EveryDeliveryAnswered
