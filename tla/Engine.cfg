SPECIFICATION Spec
CHECK_DEADLOCK FALSE
SYMMETRY Symmetric
CONSTANTS
  Server = {s, t}
  Decision = {d, e}
  Level = {terse}
  SummaryMaxItems = 1
  DefaultSource = "both"
  MaxMsg = 3
  MaxTear = 2
  Nil = Nil
  Writer = {w1, w2}
  Version = {v1, v2}
  MaxWrites = 4
  Absent = Absent
  Updater = {1, 2}
  Release = {1, 2, 3}
  NoAsset = {3}
  MaxDeltaSections = 2
  MaxChunksPerFile = 1
  CandidateMultiplier = 2
  GraphMaxBonusFiles = 1
  GraphMaxBonusMembers = 1
  GraphBonusMemberChunks = 1
  MaxSectionTokens = 3
  EmbedBatchSize = 2
  MaxU64 = 3
  MaxI64 = 100000000
  RecentSearchesLimit = 2
  UsageRecentHumanLimit = 1
  Thread = {1, 2}
  Proc = {p1}
  ProcOf <- OneProcess
  Fleet <- TwoMembers
  Content = {c1, c2}
  NoContent = NoContent
  MaxSeq = 2
INVARIANTS
  AnswersHonest
  AppendsSurvive
  HarmBounded
  UpdateSafe
  RankingSound
  FederationSound
  AnswersFaithful
  ArtifactsFaithful
  KnowledgeFaithful
  IndexSound
  LedgerExact
  ReportsAgree
  WorkspaceSound
  SettingsKept
  HealthTold
  
PROPERTIES
  WritesAtomically
