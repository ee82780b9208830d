SPECIFICATION FairSpec
CONSTANTS
  None = None
  Channel = 1
  MaxIncidents = 2
INVARIANTS
  TypeOK
  CaptureIsCurrent
PROPERTIES
  EventuallyCurrent
  Settles
CHECK_DEADLOCK FALSE
