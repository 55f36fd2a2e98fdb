\* A request is given up and another sent on the same connection.  The property
\* says what the interface says of a handle's done promise; the code does not
\* keep it.
SPECIFICATION ChatSpec
CONSTANTS
  Requests = {r1, r2}
  Retrying = {r1, r2}
  Connections = {c1, c2}
  MaxFallbacks = 1
  NoRequest = NoRequest
  NoConnection = NoConnection
INVARIANTS
  DoneIsOwn
CHECK_DEADLOCK FALSE
