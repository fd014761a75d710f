SPECIFICATION Spec
CONSTANTS
  Path = {"evtx", "plaso"}
  Source = {"evtx", "plaso"}
  Walked <- OneWalked
  ObjectOrder <- MCObjectOrder
  Evidence <- MCEvidence
  Options <- Deriving
  MaxFaults = 1
  MaxCrashes = 0
  MaxChanges = 0
INVARIANT
  OkMeansUpToDate
