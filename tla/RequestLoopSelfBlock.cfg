SPECIFICATION FairSpec
CONSTANTS
  Ids = {r1}
  Workers = {w1}
  Formatters = {f1}
  Producers = {p1, p2}
  Capacity = 2
  MaxPosts = 2
PROPERTIES
  MainLoopResponsive
CHECK_DEADLOCK FALSE
