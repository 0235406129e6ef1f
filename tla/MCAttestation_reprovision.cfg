SPECIFICATION Spec
CONSTANTS
  MaxFills = 2
  BuilderFills <- MCBuilderFills
  MaxProvisions = 2
  MaxPosts = 2
  FillPermits = 1
  BatchLimit = 2
  MaxTimeouts = 0
  MaxErrors = 0
  MaxRestarts = 0
CHECK_DEADLOCK FALSE
PROPERTY AccruedIsCumulative
