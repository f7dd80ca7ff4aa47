\* Two origins that share a signing key; nothing is damaged.
SPECIFICATION Spec
CONSTANTS
  SessionLists <- MCSessionLists
  RegistryLists <- MCRegistryLists
  Requests <- MCRequests
  Prefix <- MCPrefix
  Extract <- MCExtract
  Holds <- MCHolds
  RootPaths = {"/", ""}
  RootUri = RootUri
  NoPath = NoPath
  NoUri = NoUri
  NoUrl = NoUrl
  NoTime = NoTime
  NoHint = NoHint
  NoValue = NoValue
  GuestId <- TheGuestId
  Another <- AnotherId
  Damages = {"none"}
INVARIANT EveryUseCovered
