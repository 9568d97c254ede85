CONSTANTS
  SiteKeys = {a}
  Secrets = {s1, s2}
  Ids = {c1}
  Verifiers = {v1, v2}
  Issuers = {p1}
  None = None
  Algorithm = "argon2id"
  TTL = 1
  MaxAttempts = 1
  MaxActive = 1
  Permits = 1
  MaxTime = 2
SPECIFICATION ClientLiveSpec
INVARIANTS AcceptedOnce NoFalseReplay SingleUse HashMemoryBounded AnswersBounded
PROPERTIES ImplementsOneTime SubmissionsAnswered PermitsRecover ExpiredSwept
