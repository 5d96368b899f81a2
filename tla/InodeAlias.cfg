SPECIFICATION VfsSpec
CONSTANTS
    VFS_MAX_OPEN_FILES = 5
    INODE_HASH_TABLE_SIZE = 3
    Tree <- MCTree
    DirBlocks = 2
    Paths <- MCPaths
    FsTypes <- MCFsTypes
INVARIANTS VfsFoundIsNamed
CHECK_DEADLOCK FALSE
