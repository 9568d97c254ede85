CONSTANTS
  Challenges = {c1}
  Sites = {a, b}
  Owner = a
  SiteOf <- AllOwners
  Verdicts = {spam, legit}
  Operators = {o1}
  Sweeper = Sweeper
  None = None
  Capacity = 2
  MaxBatch = 2
  Retention = 1
  TrainingChoices = {0, 3}
  Hour = 2
  MaxTime = 3
  MaxVerifies = 1
  MaxFailures = 1
SPECIFICATION LiveSpec
INVARIANTS LabelsFollowDecisions ErasedStaysErased GracefulStopWritesAll RowOrSample
PROPERTIES SessionsKept CallsAnswered OldRowsPruned
