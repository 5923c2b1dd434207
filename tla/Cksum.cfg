CONSTANTS
  Base = 4
  Addresses <- MCAddresses
  NextHeader = 1
  Heads <- MCHeads
  Payloads <- MCPayloads
SPECIFICATION Spec
INVARIANT TypeOK
INVARIANT SumRight
PROPERTY ReceiverAccepts
PROPERTY Completed
