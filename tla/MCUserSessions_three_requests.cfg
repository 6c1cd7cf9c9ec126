SPECIFICATION Spec
CONSTANTS
  None = None
  Requests = {r1, r2, r3}
  OpenIds = {o1}
  Tokens = {t1, t2, t3}
  ObjectIds = {x1, x2}
  Nicknames = {n1}
SYMMETRY MCSymmetry
PROPERTIES RevokedForGood LockoutIsPermanent
