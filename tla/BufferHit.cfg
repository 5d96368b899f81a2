SPECIFICATION BufSpec
CONSTANTS
    BUFF_QUEUE_SIZE = 3
    Sectors <- MCSectors
    BufSuper <- MCSuper
    BufMaxHeld = 2
INVARIANTS BufHeldNotFree
CHECK_DEADLOCK FALSE
