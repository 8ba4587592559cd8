CONSTANTS
  Block = 2
  AddrSpace = 6
  CtrSpace = 6
  Latency = 3
  TimeEnough = 2
  TimeMax = 3
  AckGap = 0
  Keys = {0, 1}
  HostKeys = {1}
  HostAddrs = {5}
  HostLens = {3}
  HostCtrs = {4}
  HostStarts = {1}
  MaxStarts = 1
SPECIFICATION Spec
INVARIANT BlockCipher
