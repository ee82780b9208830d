SPECIFICATION Spec
CONSTANTS
  Uris = {a}
  Capacity = 1
  MayPanic = FALSE
  Texts = {t1}
  MaxEvents = 2
INVARIANTS
  ClosedShowsNothing
CHECK_DEADLOCK FALSE
