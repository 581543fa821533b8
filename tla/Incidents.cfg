\* Two handlers: racing staff commands, and the heartbeat cycle that reports.
SPECIFICATION FairSpec
CONSTANTS
  None = None
  a1 = a1
  a2 = a2
  a3 = a3
  k1 = k1
  k2 = k2
  e1 = e1
  g1 = g1
  g2 = g2
  o1 = o1
  o2 = o2
  o3 = o3
  low = low
  high = high
  Slots = {s1, s2}
  Incidents = {1, 2}
  Ops = {o1, o2, o3}
  Episodes = {e1}
  Attempts = {a1, a2, a3}
  AttemptOf <- MCAttemptOf
  Candidates = {k1, k2}
  CandidateOf <- MCCandidateOf
  Actions = {g1, g2}
  Severities = {low, high}
  Commands <- RacingCommands
  MaxRetries = 1
  MaxFaults = 1
INVARIANTS
  HistoryTellsState
  LinksHaveEvents
  RepliesAreTrue
PROPERTIES
  EpisodesReported
