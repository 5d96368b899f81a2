SPECIFICATION LiveSpec
CONSTANTS
    Procs = {p1, p2}
    Bufs = {b1, b2, b3}
    SlaveBufs = {}
    BadBufs = {b3}
    Ops = {"read", "write"}
    AllocOutcomes = {TRUE, FALSE}
    Answers = {"separate", "merged", "failed"}
    None = None
INVARIANTS ValidIsServed DiscardsFlushes NoFault QueueSound
PROPERTIES RequestsServed
CHECK_DEADLOCK FALSE
