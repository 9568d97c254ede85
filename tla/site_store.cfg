CONSTANTS
  SiteKeys = {a, b}
  Secrets = {s1, s2, s3}
  Values = {v0, v1}
  Default = v0
  Admins = {x, y}
  None = None
SPECIFICATION LiveSpec
INVARIANTS TypeOK IndexIsInverse MemoryMatchesDisk AnsweredIsDurable
PROPERTIES HoldersFinish
