CONSTANTS
  Locals = {"own", "own2"}
  Peers = {"peer"}
  Low <- MCLow
  Ports = {0, 1}
  NextHeaders = {17, 253}
  Uses = {{"mac"}, {"ip6", "udp"}}
  Frames <- MCLater
  Later <- MCLater
  BufLens = {1514}
  MaxFrames = 1
  MaxCalls = 2
  MaxEvents = 3
SPECIFICATION Spec
PROPERTY CoapChecksumRight
