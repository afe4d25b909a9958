\* The bounds of the parts that are proved about; those of the others are in MCPdf.
SPECIFICATION Spec
CONSTANTS
  Off = Off
  item1 = item1
  item2 = item2
  Empty = Empty
  LayerDraws = 3
  ThumbPages = 3
  ThumbViews <- OneOrTwo
  BrokenThumbs = {2}
  Rotations = 1
  ThumbEvents = 4
  HistoryPages = 2
  LongPages = {1}
  CachedPages = {1}
  HashPages = {1}
  Threshold = 1
  MaxUid = 2
  Switches = 4
  ToolDocs = 2
  VisiblePages = {1, 2}
  EditablePages = {1, 3}
  SlidePages = 3
  ImageIds = {1, 2}
  TextDocs = 2
  DialogMargin = 1
  DialogSize <- TwoByTwo
  WindowSizes <- OneWindow
  ImageRects <- Rectangles
  PrintPages = 2
  PrintJobs = 2
  Requests = 2
  OpenDialogs = 1
  OpenedDocs = 3
  DocPages = 3
  ScriptDocs = 2
  ScriptPages = 2
  FileIds = {item1, item2}
  EarlierFile = item2
  FileOpens = 2
  HistorySize = 2
  SidebarPages = 2
  DestPages = {2}
  TreeOpens = 2
  AttachedNames = {1, 2}
  LayerGroups = {1, 2}
  RadioGroups = {1, 2}
  MaxConfigs = 3
INVARIANTS
  TypeOK
  PagesAreDrawn
  SearchShowsMatches
  HistoryLeadsBack
  ModesComeBack
  CancelledWorkIsHarmless
  DocumentIsItsOwn
  EditedPagesAgree
  SidebarOfDocument
PROPERTIES
  EventsInOrder
  VisibleGetsDrawn
  WorkEnds
CHECK_DEADLOCK FALSE
