\* A folder of three documents, asked for two at a time, and an empty folder.
SPECIFICATION FairSpec
CONSTANTS
  c1 = c1
  c2 = c2
  Group = 4
  MaxGroups = 3
  MaxQuery = 2
  Text <- SomeText
  Connectors = {c1, c2}
  Guids <- SomeGuids
  EventTypes <- OneType
  MaxName = 4
  MaxEdits = 1
  MaxFaults = 1
INVARIANTS TypeOK NobodyListens EverythingAsked FramesStandAlone
PROPERTIES AllTold ThreadsEnd
CHECK_DEADLOCK FALSE
