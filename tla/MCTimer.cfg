\* two periodic timeouts and two one-shot ones; cancel() also while none runs
SPECIFICATION TimerSpec
CONSTANTS
    Op = {o1, o2, p1, p2}
    Replacer = TRUE
    Periodic = {p1, p2}
INVARIANTS
    OneWaitAtATime
    ReplacedDoesNotWait
PROPERTIES
    CanceledIsSilent
    CanceledEnds
    LostOnlyIfAsked
    ReplacementStarts
