CONSTANTS
  Locals = {"own", "own2"}
  Peers = {"peer"}
  Low <- MCLow
  Ports = {0, 1}
  NextHeaders = {17, 253}
  Uses = {{"mac"}, {"ip6", "udp"}}
  Frames <- MCFrames
  Later <- MCLater
  BufLens = {82}
  MaxFrames = 1
  MaxCalls = 0
  MaxEvents = 1
SPECIFICATION Spec
INVARIANT BufferRespected
