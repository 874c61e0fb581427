SPECIFICATION Spec
CONSTANTS
    Procs = {p1, p2}
    Harts = {h1, h2}
    Frames <- MCFrames
    FilePages = {1}
    PAGE_SIZE = 64
    PTR_SIZE = 2
    MMAP_START = 4
    LOW_ADDRESS_END = 9
    STACK_PAGES = 2
    Elfs <- MCElfs
    Strings <- MCStrings
    Brks <- MCBrks
    Maps <- MCMaps
    Unmaps <- MCUnmaps
    Touches <- MCTouches
    Buffers <- MCBuffers
    MaxCalls = 3
INVARIANTS PageTableMatches NoStaleTlb
PROPERTIES AreasStayDisjoint
CHECK_DEADLOCK FALSE
SYMMETRY Perms
