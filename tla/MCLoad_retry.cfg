SPECIFICATION RetrySpec
CONSTANTS
  Loader = {a}
  OutDir = {a}
  OutDirOf <- MCOutDirOf
  Namespace = {n1}
  Source <- MCSource
  Stream <- MCStream
  Doc <- MCDoc
  Trees <- DistinctIds
  Project <- MCProject
  Options <- PushOnly
  Size <- MCSize
  MaxActions = 2
  MaxBytes = 2
  BatchSize = 2
  MaxFaults = 2
  MaxRebuilds = 1
PROPERTIES
  RunEnds
  ReloadConverges
