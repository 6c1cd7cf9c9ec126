SPECIFICATION Spec
CONSTANTS
  None = None
  OpenIds = {o1, o2, o3}
  Requests = {r1, r2}
  Limit = 2
SYMMETRY MCSymmetry
INVARIANTS ListWithinLimit QuotaHolds
