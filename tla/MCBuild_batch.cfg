SPECIFICATION FairSpec
CONSTANTS
  Path = {"evtx", "plaso"}
  Source = {"evtx", "plaso"}
  Walked <- MCWalked
  ObjectOrder <- MCObjectOrder
  Evidence <- MCEvidence
  Options <- MCOptions
  MaxFaults = 1
  MaxCrashes = 1
  MaxChanges = 1
INVARIANTS
  TypeOK
  BuiltIsComplete
  EachSourceInItsTurn
  OneNameOneSource
  ScratchOnlyFromCrashes
PROPERTIES
  MarkerComesLast
  MarkedObjectsKept
  BatchEnds
  EverySourceGetsMarked
