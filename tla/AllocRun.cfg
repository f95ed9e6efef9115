SPECIFICATION FairSpec
CONSTANTS
  Kinds = {"islip", "select", "pim", "loa", "wavefront", "rr_wavefront", "max_size",
           "in_rr", "in_matrix", "out_rr", "out_matrix", "tree_rr", "tree_matrix", "tables"}
  Vcs = 3
  InputsOf <- MCInputsOf
  OutputsOf <- MCOutputsOf
  TypeOf <- MCTypeOf
  ArbType <- MCArbType
  Iters <- MCIters
  RequestsOf <- MCRequestsOf
  PrisOf <- MCPrisOf
INVARIANTS GrantsSound NothingLeft
PROPERTY NoStarvation
