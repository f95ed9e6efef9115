SPECIFICATION FairSpec
CONSTANTS
  c1 = c1  c2 = c2  A = A  B = B
  t1 = t1  t2 = t2  t3 = t3  t4 = t4  t5 = t5  t6 = t6  t7 = t7
  DRAM = DRAM  NoPacket = NoPacket
  Cores <- MCCores
  Tids <- MCTids
  Layers = {A, B}
  DdrNum = 2
  NumObuf = 2
  PacketBytes = 2
  Gran0 = 2
  GranLB = 2
  Workloads <- EvenJobs
  Bandwidth = 2
  DramIn <- MCDramIn
  DramOut <- EvenOut
INVARIANT TransfersMatch
PROPERTIES Implements AllEnd
CHECK_DEADLOCK FALSE
