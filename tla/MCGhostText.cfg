\* Two calls of a typing user, or one of the user and the speculative one its
\* completion triggers.
SPECIFICATION GhostSpec
ACTION_CONSTRAINT TwoCalls
CONSTANTS
  Ids = {1, 2, 3}
  Speculative = {3}
  Texts <- MCTexts
  Typed <- MCTyped
  Ext <- MCExt
  PostProcessing <- MCPostProcessing
  Capacity = 2
  NoText = NoText
  NoId = NoId
INVARIANTS
  AnswersContinue
PROPERTIES
  GhostInOrder
  TypingAlongIsStable
  CallsReturn
CHECK_DEADLOCK FALSE
