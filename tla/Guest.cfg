\* Every genuine page, damaged in one way at a time.
SPECIFICATION Spec
CONSTANTS
  SessionLists <- MCSessionLists
  RegistryLists <- MCRegistryLists
  Requests <- MCRequests
  Prefix <- MCPrefix
  Extract <- MCExtract
  Holds <- MCHolds
  RootPaths = {"/", ""}
  RootUri = RootUri
  NoPath = NoPath
  NoUri = NoUri
  NoUrl = NoUrl
  NoTime = NoTime
  NoHint = NoHint
  NoValue = NoValue
  GuestId <- TheGuestId
  Another <- AnotherId
  Damages = {"none", "body", "no uri", "resealed", "wrong key", "short base", "undated", "late"}
INVARIANTS TypeOK JournalSound AllOrNothing FirstUseCovered ProvenanceSigned
  HonestNotRejected VerifiersAgree
