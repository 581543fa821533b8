\* A candidate who keeps polling is let in, although others retake the exam.
SPECIFICATION FairSpec
CONSTANTS
  None = None
  c1 = c1
  c2 = c2
  t1 = t1
  t2 = t2
  t3 = t3
  Candidates = {c1, c2}
  Tabs = {t1, t3}
  Owner <- OneTabEach
  Ids = {1, 2, 3}
  BatchSize = 1
  BatchInterval = 1
  MaxTime = 1
  MaxDelay = 1
  AttemptBound = 2
  MaxFailures = 0
PROPERTIES
  WaitingIsServed
