SPECIFICATION Spec
CONSTANTS
    Locs <- MCLocs
    Contents <- MCContents
    ArgPaths <- MCTopLevel
    Ops = {"create_dir_all"}
    CHUNK = 2
    MaxCalls = 1
CHECK_DEADLOCK FALSE
INVARIANTS CreateDirAllCreates
