\* One file of the mirror, one push of somebody else.
SPECIFICATION Spec
CONSTANTS
  Own = {o1}
  Outside = {x}
  Texts = {m1}
  OtherTexts = {t}
  None = None
  Markers = Markers
  Editors <- WithAndWithoutEditor
  MaxWrites = 2
  MaxPushes = 1
  MaxPasses = 1
  MaxFaults = 0
INVARIANT HistoriesRecoverable
CHECK_DEADLOCK FALSE
