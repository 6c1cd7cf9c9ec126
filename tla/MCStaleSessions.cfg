SPECIFICATION StaleSpec
CONSTANTS
  None = None
  Requests = {r1, r2}
  OpenIds = {o1, o2}
  Tokens = {t1, t2, t3}
  ObjectIds = {x1, x2}
  Nicknames = {n1}
SYMMETRY MCSymmetry
INVARIANTS TypeOK RowsMatchTheirToken IndexesMatchTheirKey ObjectsHaveOneOwner HandlersMatchTheirUser
PROPERTIES RevivedByRenamesOnly
