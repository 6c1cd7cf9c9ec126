SPECIFICATION Spec
CONSTANTS
  None = None
  Requests = {r1, r2}
  Users = {u1, u2}
  Files = {f1, f2, f3}
  SaveIds = {s1, s2}
  DeleteNeedsObject = TRUE
SYMMETRY MCSymmetry
INVARIANTS TypeOK ListsAreApart
PROPERTIES DeletedForGood LeaksStay StrandedUntilRepointed
