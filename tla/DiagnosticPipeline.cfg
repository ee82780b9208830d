SPECIFICATION FairSpec
CONSTANTS
  Uris = {a}
  Capacity = 1
  MayPanic = TRUE
  Texts = {t1}
  MaxEvents = 2
PROPERTIES
  NothingStalePublished
  NoDowngrade
  NoLateResurrection
  EventuallyCurrent
CHECK_DEADLOCK FALSE
