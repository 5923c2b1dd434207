CONSTANTS
  Locals = {"own", "own2"}
  Peers = {"peer"}
  Low <- MCLow
  Ports = {0, 1}
  NextHeaders = {17, 253}
  Uses = {{"mac"}, {"ip6", "udp"}}
  Frames <- MCFrames
  Later <- MCLater
  BufLens = {81, 1514}
  MaxFrames = 2
  MaxCalls = 2
  MaxEvents = 3
SPECIFICATION FairSpec
INVARIANT TypeOK
INVARIANT BufferRespected
PROPERTY AdvertisementRight
PROPERTY ChecksumRight
PROPERTY Delivered
PROPERTY SolicitationAnswered
