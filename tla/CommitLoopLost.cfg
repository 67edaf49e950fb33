\* A change announced during the walk.
SPECIFICATION FairSpec
CONSTANTS
  Repos = {r1, r2}
  Remotes = {r1}
  MaxWrites = 2
  MaxFailures = 0
PROPERTY EveryChangeIsCommitted
CHECK_DEADLOCK FALSE
