SPECIFICATION Spec
CONSTANTS
    Locs <- MCLocs
    Contents <- MCContents
    ArgPaths <- MCArgPaths
    Ops = {"rename"}
    CHUNK = 2
    MaxCalls = 1
CHECK_DEADLOCK FALSE
INVARIANTS RenameKeepsData
