\* Two requests of one conversation: they supersede each other, fall back to
\* HTTP and close each other's connection.  The system may stop: requests are
\* finite.
SPECIFICATION ChatSpec
CONSTANTS
  Requests = {r1, r2}
  Retrying = {r1, r2}
  Connections = {c1, c2}
  MaxFallbacks = 1
  NoRequest = NoRequest
  NoConnection = NoConnection
INVARIANTS
  AwaitedIsActive
  ActiveIsAwaited
  OpenIsFound
  HttpSendsAll
PROPERTIES
  CancelledEnd
CHECK_DEADLOCK FALSE
