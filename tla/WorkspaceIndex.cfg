SPECIFICATION FairSpec
CONSTANTS
  Calls = {c1, c2}
  Contents = {0, 1}
  Nobody = Nobody
  MaxEpoch = 1
  MaxWrites = 1
  MaxCalls = 3
INVARIANTS
  TypeOK
  
  FreshSeesDisk
  NoRepeatedBuild
PROPERTIES
  BuiltNeverFalls
  EveryCallReturns
CHECK_DEADLOCK FALSE
