SPECIFICATION Spec
CONSTANTS
    Main = Main
    Idle = Idle
    t1 = t1
    t2 = t2
    Tasks = {Main, Idle, t1, t2}
    Events = {disk}
    WAIT_KERNEL_THREAD = WAIT_KERNEL_THREAD
    None = None
    AllocOutcomes = {TRUE, FALSE}
    OpenWindow = {}
SYMMETRY Symmetry
INVARIANTS Consistent ContextIntegrity OneRunning SleepersQueued NoDangling
PROPERTIES ImplementsKThreads ZombieFinal ReapIsSafe
