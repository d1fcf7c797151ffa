\* two workers, one of them in a handler that waits
\* (a stopped context runs nothing any more)
CHECK_DEADLOCK FALSE
SPECIFICATION WaiterSpec
CONSTANTS
    a = a
    b = b
    v = v
    w = w
    s = s
    e1 = e1
    e2 = e2
    Worker = {t1, t2}
    External = {}
    Waitable <- InsideWaitable
    Needs <- InsideNeeds
    Settable = {}
PROPERTIES
    AwaitReturns
