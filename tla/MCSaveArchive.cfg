SPECIFICATION Spec
CONSTANTS
  None = None
  Fields <- MCFields
  Others = {"extra"}
  Values = {v1, v2}
  Broken = {broken}
INVARIANTS NamesAreUnique
PROPERTIES PutReadsBack PutKeepsTheRest PutKeepsShowing
