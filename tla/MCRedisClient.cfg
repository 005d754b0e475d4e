SPECIFICATION FairSpec
CONSTANTS
  open = open
  locked = locked
  c1 = c1
  c2 = c2
  secret = secret
  wrong = wrong
  NoEndpoint = NoEndpoint
  NULL = NULL
  NoPassword = NoPassword
  Endpoint <- MCEndpoint
  Context <- MCContext
  Password <- MCPassword
  RequirePass <- MCRequirePass
  FreeNullCrashes = TRUE
INVARIANTS
  TypeOK
  ConnectedIffContext
  ContextOwnership
  VerdictMatchesError
  SuccessIsGenuine
PROPERTIES
  BrokenStaysBroken
  CallReturns
