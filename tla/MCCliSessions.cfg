SPECIFICATION MCCliSpec
CONSTANTS
  Requests = {1, 2, 3}
  NoRequest = 0
INVARIANTS
  OneLiveSession
  BusyIsRunning
  ReferencesCounted
CHECK_DEADLOCK FALSE
PROPERTIES
  StreamPassesOn
  WaitersEnter
  RequestsReturn
  
