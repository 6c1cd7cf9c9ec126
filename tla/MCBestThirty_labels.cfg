SPECIFICATION Spec
CONSTANTS
  None = None
  Songs <- MCSongs
  Kinds <- MCKinds
  Charts <- MCCharts
  Accuracies = {0, 99}
  ApCount = 2
  BestCount = 2
  Total = 4
INVARIANTS LabelledApsAreAps
CHECK_DEADLOCK FALSE
