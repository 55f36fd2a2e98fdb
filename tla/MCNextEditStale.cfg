\* Three calls and a document that is edited back; nothing is shown.
SPECIFICATION Spec
CONSTANTS
  Calls = {c1, c2, c3}
  Specs = {}
  Docs = {a, b}
  Async = {TRUE}
  Eager = {FALSE}
  CheckWindow = FALSE
  NoId = NoId
  NoDoc = NoDoc
  NoEdit = NoEdit
  Mixed = Mixed
SYMMETRY Symmetry
INVARIANTS
  AnswerFitsDocument
CHECK_DEADLOCK FALSE
