CONSTANTS
  Datas <- MCDatas
  Signals <- MCSignals
  BufLen = 2
  Timeout = 2
  MaxLines = 3
SPECIFICATION Spec
INVARIANT TypeOK
PROPERTY FrameRight
PROPERTY SignalRight
PROPERTY CallReturns
