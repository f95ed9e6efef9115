SPECIFICATION FairSpec
CONSTANT Networks <- MCNetworks
INVARIANTS AlwaysARoute Ascends AirAgrees PatternsSpread
PROPERTY Delivered
CHECK_DEADLOCK FALSE
