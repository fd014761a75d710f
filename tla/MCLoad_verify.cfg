SPECIFICATION Spec
CONSTANTS
  Loader = {a}
  OutDir = {a}
  OutDirOf <- MCOutDirOf
  Namespace = {n1}
  Source <- MCSource
  Stream <- MCStream
  Doc <- MCDoc
  Trees <- DistinctIds
  Project <- MCProject
  Options <- PushOnly
  Size <- MCSize
  MaxActions = 2
  MaxBytes = 2
  BatchSize = 1
  MaxFaults = 2
  MaxRebuilds = 0
INVARIANT
  OkMeansVerified
