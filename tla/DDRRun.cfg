SPECIFICATION FairSpec
CONSTANTS
  c1 = c1  c2 = c2  i1 = i1  i2 = i2  x1 = x1  x2 = x2  x3 = x3
  Cores = {c1, c2}
  Tids <- MCTids
  DdrNum = 2
  Bandwidth = 1
  PacketBytes = 2
  DramIn <- MCDramIn
  DramOut <- MCDramOut
  Routers = {1, 2}
  Streams <- MCStreams
  Overtaking = FALSE
  NoPacket = NoPacket
  DRAM = DRAM
INVARIANTS QueueSafe ServedExactly
PROPERTY Delivers
CHECK_DEADLOCK TRUE
