SPECIFICATION AnySpec
CONSTANTS
  p1 = p1
  p2 = p2
  n1 = n1
  n2 = n2
  old = old
  NoUser = NoUser
  NoCol = NoCol
  NoTab = NoTab
  Gone = Gone
  Nobody = Nobody
  Procs <- Two
  Requests <- CaseCollectionsAsks
  Starts <- CaseCollectionsStarts
  Users = {"u", "v", "r"}
  Admins = {"r"}
  Alerts = {"a"}
  SignInAsks <- CaseSignInAsks
  SignInStarts <- CaseSignInStarts
  Members = {"u", "v"}
  Providers = {"g", "w"}
  GroupsAsks <- CaseGroupsAsks
  GroupsStarts <- CaseGroupsStarts
  GroupMembers = {"u", "v"}
  ManualGroups = {"m", "n"}
  Departments = {"d"}
  PublishingAsks <- CasePublishingAsks
  PublishingStarts <- CasePublishingStarts
  Boards = {"d", "c", "e", "f"}
  Tabs = {"a", "b"}
  CatalogAsks <- CaseCatalogAsks
  CatalogStarts <- CaseCatalogStarts
  Sources = {"x"}
  Nodes <- CaseNodes
  Serving <- CaseServing
  Legacy <- CaseLegacy
  TransferAsks <- CaseTransferAsks
  Tables = {"a", "b", "sessions"}
  Targets = {"k", "l"}
  Skipped = {"sessions"}
  MaxWrites = 2
  AccountAsks <- CaseAccountAsks
  AccountStarts <- CaseAccountStarts
  AccountOwners <- CaseAccountOwners
  MaxTime = 2
  Emails <- Two
  EmailOf <- CaseEmailOf
  NoSite = NoSite
  QueryAsks <- CaseQueryAsks
  QueryTables <- CaseQueryTables
  Models <- CaseModels
  Metrics <- CaseMetrics
  Questions <- CaseQuestions
  Joined <- CaseJoined
  ForeignKeys = {"city"}
  DefaultLimit = 3
  MaxLimit = 4
  DrillLimit = 4
  ScanRows = 3
  ResultBytes = 4
  CellBytes = 2
  KeyRows = 2
  Today = 2
  MaxSaves = 1
  WithoutSegments <- CaseReplaced
  Validated <- CaseValid
  StatementOf <- CaseCompiledAll
  PassesTests <- CasePassesAll
  ColumnsOf <- CaseColumns
  MaxFaults = 2
SYMMETRY AnyOrder
CHECK_DEADLOCK FALSE
INVARIANTS CutIsMarked
