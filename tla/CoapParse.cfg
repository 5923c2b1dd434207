CONSTANTS
  MaxBody = 3
  Messages <- MCMessages
  Token <- MCToken
  LastMessageId = 7
CHECK_DEADLOCK FALSE
SPECIFICATION Spec
INVARIANT TypeOK
INVARIANT NoOverread
INVARIANT DeliversPayload
PROPERTY Terminates
PROPERTY Progress
