SPECIFICATION Spec
CHECK_DEADLOCK FALSE
CONSTANTS
  p1 = p1
  a = a
  b = b
  a1 = a1
  a2 = a2
  b1 = b1
  team = team
  other = other
  None = None
  Corrupt = Corrupt
  Proc = {p1}
  Snapshot = {a, b}
  Content = {a1, a2, b1}
  SnapOf <- MCSnapOf
  Corpus = {team, other}
  JobsOf <- OneWriter
  MaxJobs = 3
  MaxCalls = 2
  MaxDamage = 1
  Faulty = TRUE
INVARIANTS
  CurrentLoadable
  OutcomeTrue
  ServedWasCurrent
PROPERTIES
  CorpusStays
