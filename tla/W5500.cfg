CONSTANTS
  Base = 4
  RingSize = 8
  RxFrames <- MCRxFrames
  TxFrames <- MCTxFrames
  BufLen = 4
  MaxFrames = 4
  Macs = {"own"}
  Timeout = 2
  MaxLost = 1
SPECIFICATION FairSpec
INVARIANT TypeOK
INVARIANT FramePresent
INVARIANT RoomThere
INVARIANT BusReleased
INVARIANT AddressKept
PROPERTY InOrder
PROPERTY SentInOrder
PROPERTY StuckBehindTooLong
PROPERTY RefusedRightly
PROPERTY SpeedReported
PROPERTY EachTaken
PROPERTY RefusedFinitely
PROPERTY CallReturns
