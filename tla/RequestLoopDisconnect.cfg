SPECIFICATION Spec
CONSTANTS
  Ids = {r1}
  Workers = {w1}
  Formatters = {f1}
  Producers = {}
  Capacity = 2
  MaxPosts = 0
INVARIANTS
  CleanDisconnect
CHECK_DEADLOCK FALSE
