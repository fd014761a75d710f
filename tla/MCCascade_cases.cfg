SPECIFICATION Spec
CONSTANTS
  PidOf <- MCPidOf
  CaseOf <- MCCaseOf
  Header <- MCHeader
  ObjFields <- MCObjFields
  Native <- MCNative
  DedupeKey <- MCDedupeKey
  OwnerFields <- MCOwnerFields
  ParentFields <- MCParentFields
  FlowFields <- MCFlowFields
  CanonicalUser <- MCCanonicalUser
  UserCanon <- MCUserCanon
  Aliases <- MCAliases
  WellKnownLuids <- MCWellKnownLuids
  NullLuids <- MCNullLuids
  ContributorsCap <- MCContributorsCap
  CanonicalId <- MCCanonicalId
  SpokeVerb <- MCSpokeVerb
  EdgeVerb <- MCEdgeVerb
  AssociationProps <- MCAssociationProps
  Accepted <- MCAccepted
  Normalized <- MCNormalized
  GuidForm <- MCGuidForm
  Prefix <- MCPrefix
  Content <- MCContent
  Links <- MCLinks
  Actors <- MCActors
  Reconstructs <- MCReconstructs
  ListFields <- MCListFields
  PropCap <- MCPropCap
  RecordKeys <- MCRecordKeys
  Hashed <- MCHashed
  Imaged <- MCImaged
  ContentBucket <- MCContentBucket
  Basename <- MCBasename
  Meta <- MCMeta
  Verbs <- MCVerbs
  PropertyNames <- MCPropertyNames
  Actions <- MCActions
  SidForms <- MCSidForms
  IpForms <- MCIpForms
  PidForms <- MCPidForms
  PortForms <- MCPortForms
  StoredColumns <- MCStoredColumns
  StixHeader <- MCStixHeader
  DirName <- MCDirName
  AddressOf <- MCAddressOf
  Formed <- MCFormed
  AttackIndex <- MCAttackIndex
  Retired <- MCRetired
  Analytics <- MCAnalytics
  SearchOf <- MCSearchOf
  Globs <- MCGlobs
  TextMatches <- MCTextMatches
  SigmaRules <- MCSigmaRules
  LogSource <- MCLogSource
  SigmaColumns <- MCSigmaColumns
  SkippedRules <- MCSkippedRules
  Cases <- MCCases
  DefaultSpokeVerb = "accessed"
INVARIANTS
  TypeOK
  OwnerHeldThePid
  AncestryHasNoCycle
  LinksIgnoreOrder
  EvidenceStays
  RecordsStillCount
  SessionsAgree
  DerivedEndsExist
  GateAccepts
  BundleIsClosed
  NothingHomeless
  EdgesReachTheBundle
PROPERTIES
  DeclaredSurviveRederive
  ConvergeIsComplete
