SPECIFICATION FairSpec
CONSTANTS
  Ids = {r1, r2}
  Workers = {w1, w2}
  Formatters = {f1}
  Producers = {p1}
  Capacity = 1
  MaxPosts = 1
INVARIANTS
  TypeOK
  AtMostOneReply
  RefusedExactlyWhenLate
  NoLostRequest
PROPERTIES
  SelfBlockIsForever
  EveryRequestAnswered
  ClosesDown
CHECK_DEADLOCK FALSE
