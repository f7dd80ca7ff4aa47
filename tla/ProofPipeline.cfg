\* Two saves of two files, two proofs and a fault.
SPECIFICATION Spec
CONSTANTS
  Paths = {"p", "q"}
  Sizes <- SomeSizes
  Malformed = Malformed
  Requests <- SomeRequests
  Commands <- SomeCommands
  MaxSaves = 2
  MaxProofs = 2
  MaxFaults = 1
INVARIANTS TypeOK QuietFileWhole RegressNeedsReplay BindsUnlessSaved DevModeAsAsked SaltBesideProof
CHECK_DEADLOCK FALSE
