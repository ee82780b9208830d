SPECIFICATION Spec
CONSTANTS
  Requests = {q1, q2}
  Texts = {a, plain}
  Scripts = {a}
  TokenTypes = {"comment", "command", "missing", "unknown"}
  TokensOf <- ReadTokens
  NoRequest = NoRequest
  MaxChanges = 2
  MaxRequests = 3
SYMMETRY Symmetry
INVARIANTS
  TypeOK
  DeltaRebuilds
  OneResultPerId
  OwnState
  SharedAnalysisComplete
CHECK_DEADLOCK FALSE
