SPECIFICATION Spec
CONSTANTS
  Requests = {q1, q2}
  Texts = {a, plain}
  Scripts = {a}
  TokenTypes = {"comment", "command", "missing", "unknown"}
  TokensOf <- ReadTokens
  NoRequest = NoRequest
  MaxChanges = 1
  MaxRequests = 2
INVARIANTS
  CompleteTokens
CHECK_DEADLOCK FALSE
