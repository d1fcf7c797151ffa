\* one worker whose handlers wait, two threads outside that wait and set
\* (a stopped context runs nothing any more)
CHECK_DEADLOCK FALSE
SPECIFICATION WaiterSpec
CONSTANTS
    a = a
    b = b
    v = v
    w = w
    s = s
    e1 = e1
    e2 = e2
    Worker = {t1}
    External = {e1, e2}
    Waitable <- MCWaitable
    Needs <- MCNeeds
    Settable = {s}
INVARIANTS
    NoLostWakeup
PROPERTIES
    AwaitReturns
    StopUnwinds
    SleeperReturns
