SPECIFICATION Spec
CONSTANTS
  Depth = 2
  Published <- BeforeAndAfter
  Queries <- AllAndWide
  ChunkSize = 2
  nil = nil
INVARIANTS
  TypeOK
  ProofSound
  ImportExact
  PageLoads
PROPERTY
  CompleteProves
