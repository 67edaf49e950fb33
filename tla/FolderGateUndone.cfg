\* What a gated pass moved is not moved back.
SPECIFICATION Spec
CONSTANTS
  Paths = {a, b, c}
  Docs = {d1, d2}
  Attachments = {d1, d2}
  None = None
  MassFloor = 0
  AllowMassDelete = FALSE
  RemoteOps <- MoveAndRemove
  QuietStart = TRUE
  FetchMayFail = FALSE
  Cloned = FALSE
  MaxVersion = 1
  MaxEdits = 6
  MaxCrashes = 0
SYMMETRY Symmetry
INVARIANT PassAlwaysComplete
CHECK_DEADLOCK FALSE
