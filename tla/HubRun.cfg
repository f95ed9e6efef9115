SPECIFICATION FairSpec
CONSTANTS
  Hubs = 3
  Packets = {"all", "some", "short", "more"}
  Multi = {"all", "short"}
  From <- MCFrom
  VcsOf <- MCVcsOf
  To <- MCTo
  Size <- MCSize
  PacketSize = 2
  RecSize = 3
  BusyWhenFull = FALSE
  Vcs = {0, 1}
  Groups = {"g"}
  GroupOf <- MCGroupOf
  GroupSize <- MCGroupSize
  ConfBufSize = 4
  ConfVcBufSize = 2
  MaxHeld = 1
  Policy = "private"
  WaitForTail = TRUE
INVARIANTS PromisesKept TalkInTurn HeardWhole NeverAsleep
PROPERTY Delivered
