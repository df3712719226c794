SPECIFICATION ServicesSpec
CONSTANTS
  GopUMax = 63
  Modes <- MCModes
  MaxMode = 3
  Coords = {0, 1, 63}
  Strides = {0, 2, 16, 63}
  PixelLens = {3, 6}
  AnyIds = {1, 2}
  TimerUnits = {0, 1}
  NUM_CPUS = 3
  Durations = {0, 1, 2, 5, 20}
  MpUMax = 8
  MaxNics = 2
  MaxForeign = 1
  PathNodes = {"hw", "file"}
  MaxNodes = 2
  BUF_SIZE = 3
  MaxText = 4
  MaxTextMode = 3
  Nic = nic
  Children = {c1, c2}
  Pairs <- HttpPairs
  HttpBinding = "HttpBinding"
  Http = "Http"
  Ifaces = {"binding", "http"}
  Controllers = {"None"}
  MaxFrames = 2
  BufferUnits = 2
  MaxBody = 3
  Seconds = 2
  MaxAssignments = 1
INVARIANTS GraphicsExact LifetimesExact ProgramsExact WriteExact ResponseIntact NothingLeftBehind
PROPERTIES EventsExact ServicesEnd IfupOutcome
CHECK_DEADLOCK FALSE
