SPECIFICATION Spec
CHECK_DEADLOCK FALSE
CONSTANTS
  p1 = p1
  p2 = p2
  s1 = s1
  s2 = s2
  safe = safe
  unsafe = unsafe
  None = None
  Corrupt = Corrupt
  Latest = Latest
  Proc = {p1, p2}
  Sha <- MCSha
  LocalBuild <- MCLocalBuild
  Protected <- MCProtected
  JobsOf <- PullerAndIndexer
  MaxJobs = 3
  MaxPublish = 1
  MaxDamage = 1
  Faulty = TRUE
INVARIANTS
  VerifyTruthful
PROPERTIES
  PinnedStays
