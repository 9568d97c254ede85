CONSTANTS
  Challenges = {c1, c2}
  Sites = {a}
  Owner = a
  SiteOf <- AllOwners
  Verdicts = {spam}
  Operators = {o1}
  Sweeper = Sweeper
  None = None
  Capacity = 1
  MaxBatch = 2
  Retention = 1
  TrainingChoices = {0, 3}
  Hour = 1
  MaxTime = 3
  MaxVerifies = 0
  MaxFailures = 1
  Limit = 1
SPECIFICATION ExportSpec
SYMMETRY Symmetry
INVARIANTS IdsAreForGood
PROPERTIES PullIsComplete
