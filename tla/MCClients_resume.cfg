SPECIFICATION Spec
CHECK_DEADLOCK FALSE
CONSTANTS
  PidOf <- MCPidOf
  CaseOf <- MCCaseOf
  Basename <- MCBasename
  Native <- MCNative
  Contract <- MCContract
  Edges <- MCEdges
  HeaderPath <- MCHeaderPath
  Confidence <- MCConfidence
  Coerced <- MCCoerced
  Transformed <- MCTransformed
  Instant <- MCInstant
  Loads <- MCLoads
  Requests <- MCRequests
  PageSize = 2
  Loaders = {l1, l2}
  Templates <- MCTemplates
  Composes <- MCComposes
  Spaces <- MCSpaces
  SavedObjects <- MCSavedObjects
  MaxEdits = 1
  Indicators = {1, 2, 3}
  FirstNodes <- MCFirstNodes
  Nodes <- MCNodes
  EcsOf <- MCEcsOf
  Unindexable = {}
  MaxModified = 3
  MaxChanges = 0
  MaxPulls = 2
  PullPageSize = 1
  MaxPages = 1
  Techniques <- MCTechniques
  IsAddress <- MCIsAddress
  IsDomain <- MCIsDomain
  Rules <- MCRules
  NoIndicator <- MCNoIndicator
  Bookkeeping <- MCBookkeeping
  Arrow <- MCArrow
  Technique <- MCTechnique
  IntOf <- MCIntOf
  IndicatorIds <- MCIndicatorIds
  FieldKind <- MCFieldKind
  Exports <- MCExports
  AlertLists <- MCAlertLists
  Firings <- MCFirings
  MaxAttempts = 2
INVARIANTS
  PullResumes
