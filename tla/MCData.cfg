CONSTANTS
  TextChars = {"a", "A", ",", ";"}
  UpperCase <- LowerOf
  Delimiters <- CommaOrSemicolon
  MaxText = 4
  MapKeys = {"k", "n"}
  Sections = {"k", "n"}
  Scalars <- TwoScalars
  MaxObjects = 2
  MaxLines = 4
  Pieces <- PatternPieces
  MaxPieces = 3
  NameChars = {"a", "b", "."}
  Code <- PatternCode
  DomNames = {"r", "a"}
  DomTexts = {"x", "<"}
  AttrMaps <- Attributes
  MaxDomNodes = 5
  UrlHosts <- SomeHosts
  UrlPaths <- SomePaths
  UrlPorts <- SomePorts
  FormTexts <- Forms
  ByteOf <- Bytes
  PathWords = {"/p", "b", "b/c"}
  BehindSlash <- Slashes
  HttpCodes = {"200", "404", "600"}
  MaxSets = 5
  LogKinds = {"err", "own"}
  FileCounts = {0, 1, 2, 3}
  FileLimit = 2
  EntrySizes = {1, 3}
  MaxEntries = 4
  MaxClock = 2
  FormatPieces <- FieldPieces
  MaxFormat = 4
  FormatParams <- FieldParams
  Names = {"a", "b", "c"}
  Chunks = {"x", "y"}
  Trees <- FileTrees
  Sealed <- SealedDirs
  Years <- SomeYears
  AddedDays <- SomeAmounts
  Delays = {200, 1000, 1700}
  MaxDelays = 4
  Zone = 7200000
  MaxInstant = 2000
  Letters = {1}
  Versions = {1, 2}
  MaxLength = 1
  MaxElements = 2
  MaxChanges = 2
  StreamKeys = {"k"}
  ComponentNames <- SixNames
  InitTakes <- InitPeers
  PostInitTakes <- PostInitPeers
  MaxInstructions = 3
  PathTags = {"$t"}
  PathDirs = {"d"}
  MaxPathEntries = 2
  CounterNames <- SomeCounters
  MaxCounters = 2
  MaxCount = 2
  Sharers = {u1, u2}
  MaxAssigns = 4
  Listeners = {"k", "l", "m"}
  MaxNotifies = 4
  Loaders = {"k", "l", "m"}
  Processes = {"k", "l"}
  MaxMade = 3
  MicrosNow <- Micros
  MillisAsked <- Millis
SPECIFICATION Spec
CHECK_DEADLOCK FALSE
INVARIANTS
  TextExact
  DocumentExact
  MessageExact
  LogsExact
  DatesExact
  StoredExact
  ObjectsExact
PROPERTIES
  LoopsAdvance
