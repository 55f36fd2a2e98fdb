\* Two user requests and a speculative one over a table that holds two requests:
\* evictions, calls that wait for several requests, and every interleaving of
\* calls, streams, results, timeouts and cancellations.  The system may stop: ids
\* are finite.
SPECIFICATION MCSpec
CONSTANTS
  Ids = {i1, i2, s3}
  Speculative = {s3}
  Typist = i1
  Streamer = i2
  Texts <- MCTexts
  Typed <- MCTyped
  Ext <- MCExt
  Capacity = 2
  NoText = NoText
  NoId = NoId
INVARIANTS
  NoLostWaiter
  CancelledNotOffered
  OutcomeContinues
  TableSound
PROPERTIES
  CancelOnlyMismatch
  PromiseKept
CHECK_DEADLOCK FALSE
