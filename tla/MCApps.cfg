CONSTANTS
  Names <- MCNames
  CharsOf <- MCCharsOf
  Joined <- MCJoined
  Paths <- MCPaths
  Starts <- MCStarts
  Data = {"text"}
  LongName = "LONG"
  CutName = "LON"
  MaxNodes = 8
  MaxPath = 9
  ReadNodes = 7
  Images <- MCImages
  UsualImage <- MCUsual
  Viewed <- MCViewed
  Read <- MCRead
  BlockBytes = 2
  Direct = 2
  BlockSpace = 32
  BytesOf <- MCBytesOf
  Parts = {"files", "read", "volume", "screen", "console", "text", "keys"}
  Rows = 2
  Cols = 2
  EscapeRoom = 3
  Drawn = {"x", "m", "[", "3"}
  Colours <- MCColours
  Letters = {"x", "m"}
  MaxPrinted = 6
  VgaRows = 2
  VgaCols = 2
  VesaRows = 2
  VesaCols = 2
  TtyCols = 6
  RingSize = 3
  LineRoom = 3
  Digits = {0, 7}
  Width = 4
  Word = 262144
  MaxKeys = 8
SPECIFICATION AppsSpec
INVARIANTS
  TreeStaysSound
  PathsRight
  WalkRight
  BrowserFits
  ReadsVolume
  ViewerOwn
  ConsoleUnlessRaced
  ScreenIsTail
  TextModeWorks
  CalculatorRight
PROPERTIES
  ClickGoesThere
CHECK_DEADLOCK FALSE
