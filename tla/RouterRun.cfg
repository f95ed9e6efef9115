SPECIFICATION FairSpec
CONSTANTS
  Ins = 2
  Outs = 2
  Packets = {"both", "either", "next", "long", "cross", "aside", "here", "home", "back", "away"}
  Multi = {"both"}
  InOf <- MCInOf
  VcsOf <- MCVcsOf
  Size <- MCSize
  RouteOf <- MCRouteOf
  Options <- MCOptions
  Vcs = {0, 1}
  Groups = {"g"}
  GroupOf <- MCGroupOf
  GroupSize <- MCGroupSize
  ConfBufSize = 4
  ConfVcBufSize = 2
  MaxHeld = 1
  Policy = "private"
  WaitForTail = FALSE
INVARIANTS PipelineSound PacketsApart EveryCopyOnce PlacesKept NeverAsleep
PROPERTY Delivered
