\* Two documents and a canvas; one file may be emptied at a time.
SPECIFICATION FairSpec
CONSTANTS
  Documents = {d1, d2}
  Canvases = {c}
  Fraction = 10
  Floor = 1
  Window = 1
  MaxEdits = 3
  MaxPasses = 1
INVARIANTS TypeOK BurstBounded HeldBackIsAsked
 
\* Edits and passes are bounded.
CHECK_DEADLOCK FALSE
