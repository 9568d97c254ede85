CONSTANTS
  None = None
  Weights <- MCWeights
  Bands <- MCBands
  Ladder <- MCLadder
  TrustedProxies <- MCTrustedProxies
  Reputation <- MCReputation
  BadFingerprints <- MCBadFingerprints
  RequireBehavior = TRUE
  DuplicateMin = 2
  Sites = {1}
  Requests <- MCRequests
  Submissions <- MCSubmissions
  Policies <- MCPolicies
  Configs <- MCConfigs
  Handlers = {h1, h2}
  Window <- MCWindow
  Limit <- MCLimit
  HardLimit = 2
  MaxActive = 5
  MaxCount = 3
SPECIFICATION Spec
CONSTRAINT Apart
VIEW Shape
INVARIANTS FixedWindowBurst ReservedHeadroom NoFreeChallenge
