SPECIFICATION Spec
CHECK_DEADLOCK FALSE
CONSTANTS
  p1 = p1
  p2 = p2
  s1 = s1
  s2 = s2
  safe = safe
  unsafe = unsafe
  None = None
  Corrupt = Corrupt
  Latest = Latest
  Proc = {p1}
  Sha <- MCSha
  LocalBuild <- MCLocalBuild
  Protected <- MCProtected
  JobsOf <- OnlyPullAll
  MaxJobs = 3
  MaxPublish = 1
  MaxDamage = 0
  Faulty = TRUE
INVARIANT PullHeals
