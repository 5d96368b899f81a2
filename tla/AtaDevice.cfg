SPECIFICATION Spec
CONSTANTS
    Procs = {p1, p2}
    Bufs = {b1, b2}
    SlaveBufs = {}
    BadBufs = {}
    Ops = {"write"}
    AllocOutcomes = {TRUE}
    Answers = {"separate"}
    None = None
INVARIANTS WriteIsDone
CHECK_DEADLOCK FALSE
