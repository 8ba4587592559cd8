CONSTANTS
  Block = 2
  AddrSpace = 6
  CtrSpace = 6
  Latency = 3
  TimeEnough = 2
  TimeMax = 3
  AckGap = 1
  Keys = {0, 1}
  HostKeys = {1}
  HostAddrs = {5}
  HostLens = {3, 5}
  HostCtrs = {4}
  HostStarts = {0, 1, 3}
  MaxStarts = 2
SPECIFICATION FairSpec
INVARIANTS
  TypeOK
  CounterMode
  BlockCipher
  CountersAgree
PROPERTIES
  JobEnds
  RefinesIla
