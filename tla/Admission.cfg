\* Two candidates, one with two tabs; a call is cut off half way.
SPECIFICATION Spec
CONSTANTS
  None = None
  c1 = c1
  c2 = c2
  t1 = t1
  t2 = t2
  t3 = t3
  Candidates = {c1, c2}
  Tabs = {t1, t2, t3}
  Owner <- TwoTabsAndOne
  Ids = {1, 2, 3}
  BatchSize = 1
  BatchInterval = 1
  MaxTime = 1
  MaxDelay = 1
  AttemptBound = 1
  MaxFailures = 1
SYMMETRY TabSymmetry
INVARIANTS
  AttemptsAdmitted
  AdmittedOnSchedule
  BatchCapHeld
