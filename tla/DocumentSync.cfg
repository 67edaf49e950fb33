CONSTANTS
  Docs = {d1}
  MaxVersion = 3
  Wording <- Undone
  MaxFailures = 1
  MaxDrops = 2
  MaxCrashes = 1
SPECIFICATION FairSpec
INVARIANTS TypeOK HeadsHonest QuietMirror
PROPERTY ReconnectCatchesUp
CHECK_DEADLOCK FALSE
