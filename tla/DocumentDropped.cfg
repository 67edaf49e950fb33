CONSTANTS
  Docs = {d1}
  MaxVersion = 2
  Wording <- Distinct
  MaxFailures = 0
  MaxDrops = 0
  MaxCrashes = 0
SPECIFICATION Spec
PROPERTY EventsAreFetched
CHECK_DEADLOCK FALSE
