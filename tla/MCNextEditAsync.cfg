\* Backup requests are not made eagerly; edit windows are checked.
SPECIFICATION Spec
CONSTANTS
  Calls = {c1, c2}
  Specs = {s1}
  Docs = {a, b}
  Async = {TRUE, FALSE}
  Eager = {FALSE}
  CheckWindow = TRUE
  NoId = NoId
  NoDoc = NoDoc
  NoEdit = NoEdit
  Mixed = Mixed
SYMMETRY Symmetry
INVARIANTS
  LiveDependants
  ScheduledBelongsToPending
  ScheduledNotDeclined
  OneRegularRequest
  SpeculativeAccounted
PROPERTIES
  WaitersSpared
CHECK_DEADLOCK FALSE
