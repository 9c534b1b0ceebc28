SPECIFICATION PortFairSpec
CONSTANTS
  Requests <- MCRequests
  TxSize = 512
  MaxFragment = 64
  MaxCuts = 2
  Filters <- MCFilters
  Names <- MCNames
INVARIANTS
  PortTypeOK
  NothingLeaks
  NoGapInPacket
  LengthsAnnounced
  PublishRoundTrip
  ConnectReadsBack
  TopicMatchMeans
PROPERTIES
  WriteEnds
