SPECIFICATION Spec
CONSTANTS
  Loader = {a, b}
  OutDir = {a, b}
  OutDirOf <- MCOutDirOf
  Namespace = {n1}
  Source <- MCSource
  Stream <- MCStream
  Doc <- MCDoc
  Trees <- AnyTree
  Project <- MCProject
  Options <- MostOptions
  Size <- MCSize
  MaxActions = 2
  MaxBytes = 2
  BatchSize = 2
  MaxFaults = 1
  MaxRebuilds = 0
SYMMETRY Symmetry
INVARIANTS
  TypeOK
  VerifiedMeansPresent
  PushOkMeansPresent
  MissingIsCounted
  EachDocumentTalliedOnce
  CreatedIsVerified
  OkMeansPresent
  RunLeavesItsBundles
PROPERTIES
  ImplementsEvidenceStore
