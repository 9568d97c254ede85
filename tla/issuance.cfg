CONSTANTS
  SiteKeys = {a, b}
  Secrets = {s1, s2, s3}
  Ids = {c1, c2, c3}
  Verifiers = {v1}
  Issuers = {p1, p2}
  None = None
  Algorithm = "argon2id"
  TTL = 1
  MaxAttempts = 0
  MaxActive = 1
  Permits = 1
  MaxTime = 1
SPECIFICATION Spec
SYMMETRY Symmetry
INVARIANTS TypeOK TenantIsolation DwellIsArrival OvershootBounded
PROPERTIES NoPrematureLoss RotationTakesHold
