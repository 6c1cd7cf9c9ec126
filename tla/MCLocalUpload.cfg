SPECIFICATION Spec
CONSTANTS
  None = None
  Keys = {k1}
  Uploads = {v1}
  Parts = {1, 2}
  Requests = {r1, r2}
  MaxRecorded = 2
SYMMETRY MCSymmetry
INVARIANTS TypeOK CompletedIsWhole
PROPERTIES ClosedForGood
CHECK_DEADLOCK FALSE
