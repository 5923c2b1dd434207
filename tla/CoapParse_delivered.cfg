CONSTANTS
  MaxBody = 2
  Messages <- MCMessages
  Token <- MCToken
  LastMessageId = 7
CHECK_DEADLOCK FALSE
SPECIFICATION Spec
INVARIANT DeliveredInside
