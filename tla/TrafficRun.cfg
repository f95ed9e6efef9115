SPECIFICATION FairSpec
CONSTANTS
  N = 4
  NumClasses = 2
  MaxFlits = 3
  Period = 2
  Packets = {"ask", "more", "data", "answer"}
  Radio = {"answer"}
  Cores = {1, 2}
  Outputs = 2
  Size <- MCSize
  To <- MCTo
  Makes <- MCMakes
  Needs <- MCNeeds
  Expects <- MCExpects
  FirstOut <- MCFirstOut
  Options <- MCOptions
  Vcs = {0, 1}
  Groups = {"g"}
  GroupOf <- MCGroupOf
  GroupSize <- MCGroupSize
  ConfBufSize = 4
  ConfVcBufSize = 1
  MaxHeld = 1
  Policy = "private"
  WaitForTail = FALSE
INVARIANTS FlightsCounted WholeOnOneVc BuiltToFit
PROPERTY RunEnds
CHECK_DEADLOCK FALSE
