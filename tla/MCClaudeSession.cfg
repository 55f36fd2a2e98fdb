\* Three messages, undisturbed or with one kind of interruption.  The system may
\* stop: calls are finite.
SPECIFICATION Spec
CONSTANTS
  Requests = {r1, r2, r3}
  Queries = {q1, q2, q3, q4, q5, q6}
  Modes <- Combinations
  NoRequest = NoRequest
  NoQuery = NoQuery
INVARIANTS
  OneStart
  RunningAbortable
PROPERTIES
  SettledInTurn
  UninterruptedOwnTurns
  UndisturbedCallsSettle
CHECK_DEADLOCK FALSE
