CONSTANTS
  Challenges = {c1}
  Sites = {a, b}
  Owner = a
  SiteOf <- AllOwners
  Verdicts = {spam, legit}
  Operators = {o1}
  Sweeper = Sweeper
  None = None
  Capacity = 2
  MaxBatch = 2
  Retention = 1
  TrainingChoices = {0}
  Hour = 2
  MaxTime = 3
  MaxVerifies = 1
  MaxFailures = 0
SPECIFICATION Spec
PROPERTIES EraseIsComplete
