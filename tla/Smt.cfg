SPECIFICATION Spec
CONSTANTS
  Serials <- PathSerials
  Queries <- KeptSerials
  Depth = 4
  MaxBatch = 2
INVARIANTS
  TypeOK
  CanonicalRoot
  StoreExact
  ProofsVerify
  StaleProofSound
PROPERTY
  ImplementsSet
VIEW WithoutCall
