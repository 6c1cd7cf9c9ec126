SPECIFICATION SSpec
CONSTANTS
  None = None
  Requests = {r1, r2, r3}
  Users = {u1}
  Files = {f1, f2, f3}
  SaveIds = {s1, s2}
  DeleteNeedsObject = TRUE
SYMMETRY MCSymmetry
INVARIANTS SavesStayLoadable ReadsFailOnlyOvertaken DeletedWithoutTrace
PROPERTIES ImplementsVersions QuietDeleteSucceeds
