SPECIFICATION FairSpec
CONSTANTS
  p1 = p1  p2 = p2  p3 = p3  p4 = p4  v1 = v1  v2 = v2  v3 = v3  g1 = g1
  Vcs = {v1, v2}
  Packets = {p1, p2, p3, p4}
  Size <- MCSize
  Multi <- MCMulti
  Groups = {g1}
  GroupOf <- OneGroup
  GroupSize <- One
  ConfBufSize <- NotGiven
  ConfVcBufSize = 2
  MaxHeld = 1
  Policy = "private"
  WaitForTail = TRUE
INVARIANTS CreditsSafe NoMixing
PROPERTIES Implements AllArrive
CHECK_DEADLOCK FALSE
