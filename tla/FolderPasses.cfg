\* Everything, undo, two attachments, failing fetches and a crash: what each pass does.
SPECIFICATION Spec
CONSTANTS
  Paths = {a, b, c}
  Docs = {d1, d2, d3}
  Attachments = {d2, d3}
  None = None
  MassFloor = 1
  AllowMassDelete = FALSE
  RemoteOps <- EverythingAndUndo
  QuietStart = FALSE
  FetchMayFail = TRUE
  Cloned = FALSE
  MaxVersion = 2
  MaxEdits = 5
  MaxCrashes = 1
SYMMETRY Symmetry
INVARIANTS TypeOK NoStrangers BoundedLoss PassComplete SettledMirror
CHECK_DEADLOCK FALSE
