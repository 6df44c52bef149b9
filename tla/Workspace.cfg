SPECIFICATION Spec
CHECK_DEADLOCK FALSE
CONSTANTS
  None = None
  ax = ax
  bx = bx
  by = by
  x = x
  y = y
  RepoOrder <- MCOrder
  Short <- MCShort
  BaseMembers = {bx, by}
  BaseEdges <- MCEdges
  Ref = {main, dev}
  Main = main
  Sha = {1, 2}
  Commits <- MCCommits
  Corpus = {k}
  Snap = {1}
  MaxPush = 2
  MaxRun = 2
  MaxFault = 1
  MaxSuffix = 4
INVARIANTS
  MembersSound
PROPERTIES
  MembersStay
  EveryPullEnds
