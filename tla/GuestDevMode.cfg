\* A proof made in dev mode, verified in either environment.
SPECIFICATION Spec
CONSTANTS
  SessionLists <- MCSessionLists
  RegistryLists <- MCRegistryLists
  Requests <- MCRequests
  Prefix <- MCPrefix
  Extract <- MCExtract
  Holds <- MCHolds
  RootPaths = {"/", ""}
  RootUri = RootUri
  NoPath = NoPath
  NoUri = NoUri
  NoUrl = NoUrl
  NoTime = NoTime
  NoHint = NoHint
  NoValue = NoValue
  GuestId <- TheGuestId
  Another <- AnotherId
  Damages = {"none"}
INVARIANT DevModeRejected
