SPECIFICATION Spec
CONSTANTS
    Archs = {"x86_64", "ia32", "aarch64"}
    Systems = {"linux", "macos", "windows"}
    Attempts = 2
    MaxFaults = 2
    RustFiles <- MCRustFiles
    Excluded = {"snippet"}
    U16_MAX = 63
    Capacities = {32}
    MaxNodes = 2
    Values <- MCValues
    Fillers <- MCFillers
INVARIANTS HarnessExact TasksExact PathsReadBack LayoutsAgree
PROPERTY HarnessEnds
CHECK_DEADLOCK FALSE
