\* Two files of the mirror and one outside its prefix, one push of somebody
\* else, one crash or outage.
SPECIFICATION FairSpec
CONSTANTS
  Own = {o1, o2}
  Outside = {x}
  Texts = {m1}
  OtherTexts = {t}
  None = None
  Markers = Markers
  Editors <- WithAndWithoutEditor
  MaxWrites = 2
  MaxPushes = 1
  MaxPasses = 1
  MaxFaults = 1
INVARIANTS TypeOK OutsideKept CommitsRecoverable MarkersNeedAnAccident
PROPERTIES RemoteOnlyGrows EventuallyPushed
\* Writes, pushes and faults are bounded.
CHECK_DEADLOCK FALSE
