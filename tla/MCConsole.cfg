\* Each panel with two or three of what it shows and enough requests for two to overlap.
CONSTANTS
  MaxAlerts = 8
  MaxResults = 3
  Sizes = {1, 3}
  MaxFetches = 2
  WindowTexts <- CTexts
  DefaultWindow = 10
  MaxTimeLimit = 300000
  FetchSizes = {9, 10, 5000, 5001}
  Typed <- CTyped
  NaN <- CNaN
  DefaultInterval = 500
  Drafts = {draft1}
  MaxRules = 2
  MaxLists = 2
  Clips = {clip1, clip2}
  ClipSources = {clip1}
  MaxAsks = 3
  Rows = {row1, row2}
  Sensors = {sensor1, sensor2}
  MaxRequests = 2
  Results = {result1, result2}
  Times = {1, 2}
  Objects = {object1, object2}
  MaxFrames = 2
  FileNames = {file1}
  RtspNames = {camera1}
  MaxSearches = 2
  MaxTurns = 2
  AllTabs <- CTabs
  Enabled = {"chat", "search", "alerts"}
  WithControls = {"chat", "search", "alerts"}
  Once = {"search"}
  SidebarEnabled = TRUE
  BrowserTabs = {tab1, tab2}
  Untagged = Untagged
  MaxPages = 2
  MaxLines = 3
  StepIds = {"s1", "s2", "s3"}
  StepNames = {"n1", "n2"}
  NoStep = ""
  ParentId <- CParent
  MaxMessages = 4
  JsonFiles = {json1, json2}
  ValidJson = {json1}
  NoJson = NoJson
  MaxRows = 2
SPECIFICATION Spec
INVARIANTS
  ConsoleTypeOK
  
  
  OneRulePerDraft
  PanelsAreCurrent
  SearchIsCancellable
  SweepSparesLiveTabs
  
  PiecesFindTheirPlace
PROPERTIES
  
  LastChoiceWins
CHECK_DEADLOCK FALSE
