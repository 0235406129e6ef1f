SPECIFICATION Spec
CONSTANTS
  MaxFills = 3
  BuilderFills <- MCBuilderFills
  MaxProvisions = 0
  MaxPosts = 4
  FillPermits = 1
  BatchLimit = 2
  MaxTimeouts = 0
  MaxErrors = 0
  MaxRestarts = 2
CHECK_DEADLOCK FALSE
PROPERTY ImplementsChain
