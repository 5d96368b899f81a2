SPECIFICATION FairSpec
CONSTANTS
    Main = Main
    Idle = Idle
    t1 = t1
    t2 = t2
    Tasks = {Main, Idle}
    Events = {ide_pri, ide_sec, this_buffer, any_buffer, inode, key}
    WAIT_KERNEL_THREAD = WAIT_KERNEL_THREAD
    None = None
    AllocOutcomes = {TRUE}
    OpenWindow = {"unlink"}
INVARIANTS StoppedIsQueued
PROPERTIES WakeupDelivered
