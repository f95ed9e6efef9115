SPECIFICATION Spec
CONSTANTS
  c0 = c0  c1 = c1  c2 = c2  A = A  B = B
  t1 = t1  t2 = t2  t3 = t3  t4 = t4  t5 = t5  t6 = t6
  DRAM = DRAM  NoPacket = NoPacket
  Cores <- MCCores
  Tids <- MCTids
  Layers = {A, B}
  DdrNum = 2
  NumObuf = 2
  PacketBytes = 2
  Gran0 = 3
  GranLB = 2
  Workloads <- ShortTile
  Self = c0
INVARIANT TileWillEnd
CHECK_DEADLOCK FALSE
