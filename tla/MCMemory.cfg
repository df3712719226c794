\* The memory map has up to three descriptors, one more than a buffer for a map
\* of one holds.  Maps that are sorted have up to four entries over three
\* addresses: every pattern of equal, ordered and inverted entries, both scans
\* wrapping below index 0.
SPECIFICATION MemorySpec
CONSTANTS
    Bufs = {b1, b2}
    EXTRA_ENTRIES = 1
    AllocGrowth = 1
    MaxLen = 3
    MaxKey = 3
    MaxMapLen = 4
    Addrs = {0, 1, 2}
    USIZE_MAX = 15
    MemUnits = 10
    PAGE_SIZE = 4
    Layouts <- MCLayouts
    MaxLive = 3
    LOADER_DATA = LOADER_DATA
    DATA_TYPE = DATA_TYPE
INVARIANTS BackingMemoryExact FinalMapExact NoLeak FallbackDoesNotStick
PROPERTIES
    OnlyAllowedCalls OneRetryTolerated ExitTerminates
    SortsByExchanges SortTerminates
    StoresBlocks
\* The machine is off, or a panic has ended the program.
CHECK_DEADLOCK FALSE
