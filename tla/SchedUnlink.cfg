SPECIFICATION Spec
CONSTANTS
    Main = Main
    Idle = Idle
    t1 = t1
    t2 = t2
    Tasks = {Main, Idle, t1}
    Events = {disk, key}
    WAIT_KERNEL_THREAD = WAIT_KERNEL_THREAD
    None = None
    AllocOutcomes = {TRUE}
    OpenWindow = {"unlink"}
INVARIANTS WaitersQueued
