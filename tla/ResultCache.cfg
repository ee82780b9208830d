SPECIFICATION Spec
CONSTANTS
  Runs = {r1, r2}
  MaxWrites = 2
  MaxRuns = 3
INVARIANTS
  CheckSound
  FormatSound
  ReportOfThisRun
CHECK_DEADLOCK FALSE
