SPECIFICATION Spec
CONSTANTS
  Loader = {a}
  OutDir = {a}
  OutDirOf <- MCOutDirOf
  Namespace = {n1, n2}
  Source <- MCSource
  Stream <- MCStream
  Doc <- MCDoc
  Trees <- DistinctIds
  Project <- MCProject
  Options <- PushOnly
  Size <- MCSize
  MaxActions = 2
  MaxBytes = 2
  BatchSize = 1
  MaxFaults = 0
  MaxRebuilds = 0
INVARIANT
  OkMeansPresent
