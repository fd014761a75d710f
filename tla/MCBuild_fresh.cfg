SPECIFICATION Spec
CONSTANTS
  Path = {"evtx", "plaso"}
  Source = {"evtx", "plaso"}
  Walked <- OneWalked
  ObjectOrder <- MCObjectOrder
  Evidence <- MCEvidence
  Options <- Forcing
  MaxFaults = 0
  MaxCrashes = 0
  MaxChanges = 1
INVARIANT
  BuiltTreeIsFresh
