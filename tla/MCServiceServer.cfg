\* the server is called by any thread, cancel() also while it is idle
SPECIFICATION ServerSpec
CONSTANTS
    Op = {o1, o2, o3}
    Replacer = TRUE
    Client = {c1, c2}
INVARIANTS
    AcceptHasOneUser
PROPERTIES
    CanceledServesNoMore
    DroppedOnlyIfStopped
    StoppedEnds
