SPECIFICATION FairSpec
CONSTANTS
    Locs <- MCLocs
    Contents <- MCContents
    ArgPaths <- MCArgPaths
    Ops = {"write", "copy", "rename", "create_dir", "create_dir_all", "remove_file", "remove_dir", "remove_dir_all", "try_exists"}
    CHUNK = 2
    MaxCalls = 1
CHECK_DEADLOCK FALSE
INVARIANTS TouchesOnlyItsPaths DataSurvives 
PROPERTIES CallsReturn
