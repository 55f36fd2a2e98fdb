\* A limit of one: two requests, three in autopilot.
SPECIFICATION TLSpec
ACTION_CONSTRAINT SignalsWhereRead
CONSTANTS
  Limits = {1}
  Cap = 2
  MaxRetries = 1
  MaxNudges = 1
INVARIANTS
  NothingForgotten
  ToolsRunOnce
  ResultsBeforeRequest
  RequestsBounded
PROPERTIES
  LoopEnds
CHECK_DEADLOCK FALSE
