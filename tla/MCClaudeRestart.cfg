\* A second message while the session for the first one starts; settings files
\* exist and do not change.
SPECIFICATION Spec
CONSTANTS
  Requests = {r1, r2}
  Queries = {q1, q2, q3, q4}
  Modes <- FilesOnly
  NoRequest = NoRequest
  NoQuery = NoQuery
PROPERTIES
  CallsSettle
CHECK_DEADLOCK FALSE
