CONSTANTS
  None = None
  Puzzles = {1, 2, 3, 4, 5, 6, 7}
  Retries = 2
  FlowIds = {1, 2, 3}
  TimerIds = {1, 2, 3}
SPECIFICATION LiveSpec
INVARIANTS OneRefreshLoop
PROPERTIES ClaimOnlyWhenExpired SolvingSettles FailoverEnds
VIEW Shape
