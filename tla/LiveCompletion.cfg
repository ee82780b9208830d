SPECIFICATION FairSpec
CONSTANTS
  Callers = {c1, c2}
  Capacity = 2
  MaxMoves = 1
INVARIANTS
  OneReply
  NoHandlerLeak
PROPERTIES
  OnlyCurrentAccepted
  OnlyOpenWithdrawn
  EveryCallReturns
  EveryQuestionSettled
CHECK_DEADLOCK FALSE
