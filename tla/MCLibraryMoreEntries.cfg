SPECIFICATION LibrarySpec
CONSTANTS
    Letters = {"a", "b"}
    MaxArg = 3
    MaxPath = 6
    MaxUnits = 3
    MaxString = 4
    DigestSize <- MCDigestSize
    Unlisted = "x"
    DataLens = {0, 3}
    LogHeaders <- MCLogHeaders
    MaxEvents = 2
    UMax = 40
    Sizes = {0, 3, 14, 17, 18, 21, 31, 32, 35, 40, 41, 50, 60}
    Ids = {1, 2}
    Pmps = {1, 2}
    MaxPlugs = 1
    IoAligns = {0, 1, 2, 3, 4}
    RequestLens = {0, 3, 5}
    CdbMax = 4
    MaxBuilds = 2
    MaxPieces = 4
    MaxItems = 3
    MaxServers = 2
    ServerMax = 1
    PxeLens = {0, 2}
    MaxLanguages = 5
    ByteBase = 2
    Lengths = {0, 1, 3, 9}
    U16_SIZE = 8
    Blocks = {1}
    Names = {"a", "b", "c"}
    NameLen <- MCNameLen
    Invalid = {"b"}
    Values <- MCValues
    NameBuffer = 1
    MaxChanges = 1
    NameLens = {1, 3, 5}
    MaxEntries = 2
    MaxFile = 5
    ChunkSize = 2
    BufferLens = {0, 3, 4, 7}
    Addresses = {0, 3, 8}
    StorageLens = {0, 2, 5, 40, 48, 83, 88, 91}
    MaxDirChanges = 2
    Pairs <- MCPairs
    Ifaces = {i1, i2}
    Changing <- MCChanging
    Controllers = {"None", "c"}
    Slots = {s1, s2}
    MaxGuards = 2
    MaxDriverSteps = 1
    ImageHandle = "image"
    LoadedImage = "LoadedImage"
    DevicePath = "DevicePath"
    SimpleFileSystem = "SimpleFileSystem"
INVARIANT MoreEntriesSafe
CHECK_DEADLOCK FALSE
