\* one worker, a port that may be taken, a decoder that accepts an empty buffer,
\* and cancel() whether a receive runs or not
SPECIFICATION ReceiverSpec
CONSTANTS
    Op = {o1, o2, o3}
    Replacer = TRUE
    Workers = 1
    BindMayFail = TRUE
    StrictDecoder = FALSE
INVARIANTS
    ReplacedNotOutstanding
    InterruptedOnlyIfStopped
    StoppedIsNoSuccess
PROPERTIES
    CanceledIsSilent
    SilentOnlyIfCanceled
    EveryOperationEnds
    ReplacementStarts
