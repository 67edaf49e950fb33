\* Two repositories, one with a remote; two failures.
SPECIFICATION FairSpec
CONSTANTS
  Repos = {r1, r2}
  Remotes = {r1}
  MaxWrites = 2
  MaxFailures = 2
INVARIANT TypeOK
PROPERTIES ClearedMeansCommitted AnnouncedIsCommitted
CHECK_DEADLOCK FALSE
