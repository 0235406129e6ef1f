SPECIFICATION FairSpec
CONSTANTS
  MaxFills = 3
  BuilderFills <- MCBuilderFills
  MaxProvisions = 1
  MaxPosts = 5
  FillPermits = 1
  BatchLimit = 2
  MaxTimeouts = 2
  MaxErrors = 1
  MaxRestarts = 1
INVARIANTS
  TypeOK
  LinksResolve
  SeenIsPersisted
  WatermarkSkipsNothing
  AccruedOncePerFill
  ForkNeedsLostRequest
PROPERTY EventuallyDecided
CHECK_DEADLOCK FALSE
