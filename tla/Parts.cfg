SPECIFICATION PartsSpec
CONSTANTS
    Threads = {t1, t2, t3, t4}
    M = 4
    N = 3
    MaxKeys = 9
    MaxReads = 12
    MaxAvail = 5
    Phys = 6
    stack_max_top = 7
    Virt = 28
    KPages = 5
    Stale = 7
    Bits = 4
    TABLE_SIZE = 4
    PAGE_SIZE = 4
    Header = 1
    Sizes = {1, 9}
    BUFF_QUEUE_SIZE = 3
    Sectors <- MCSectors
    BufSuper <- MCSuper
    BufMaxHeld = 2
    VFS_MAX_OPEN_FILES = 5
    INODE_HASH_TABLE_SIZE = 6
    Tree <- MCTree
    DirBlocks = 2
    Paths <- MCPaths
    FsTypes <- MCFsTypes
    IrqLines = {0, 14, 15}
    IrqMaxHandlers = 2
    IrqMaxDepth = 3
    ListNodes = {1, 2, 3}
    Elems = {1, 2}
    MAX_NUM_PROCESS = 2
    PidW = 8
    ProcBlocks = {1, 2, 3, 4, 5}
    ProcPageSize = 4
    ProcTableSize = 2
    ProcHeader = 1
    ProcFirst = {0, 1}
    ProcSizes = {4, 5, 9}
    Disks <- MCDisks
    Geometries <- MCGeometries
    Ext2W = 1048576
    FileBlocks = {0, 3, 12, 13, 15}
    TextCases <- MCTextCases
    CMDLINE_MAX_ARGS = 4
    VIDEO_COLS = 2
    VIDEO_ROWS = 2
    Glyphs = {"a", "b"}
    ConMaxText = 7
    Half = 4
    Boards <- MCBoards
    Loaders <- MCLoaders
    BootPage = 4
    BootKernel = 32
    BootKernelLen = 8
    MBOOT_MMAP_MAXREG = 5
    BootCalibration = 2
    BootTimeout = 1
INVARIANTS
    Conserved
    Accounted NoOverflow KeysSound
    RegionsSound
    BufRightBlock BufListsSound
    VfsRight
    IrqExclusive IrqInService
    ListsAreSequences
    ProcsSound ExecMapsImage
    
    Ext2Right
    TextRight
    ConsoleShows
    ProbeSound
    BootSound
PROPERTIES RegionStable SomeoneEnters KeysDelivered BootCompletes
CHECK_DEADLOCK FALSE
