\* With eager backup requests: every call returns.
SPECIFICATION MCSpec
ACTION_CONSTRAINT InOrder
CONSTANTS
  Calls = {1, 2}
  Specs = {3}
  Docs = {a, b}
  Async = {TRUE}
  Eager = {TRUE}
  CheckWindow = FALSE
  NoId = NoId
  NoDoc = NoDoc
  NoEdit = NoEdit
  Mixed = Mixed
INVARIANTS
  AnswerFitsDocument
PROPERTIES
  CallsReturn
CHECK_DEADLOCK FALSE
