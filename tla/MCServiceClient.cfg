\* two calls to a host name and one to an endpoint, from any thread
SPECIFICATION ClientSpec
CONSTANTS
    Op = {h1, h2, e1}
    Replacer = FALSE
    ByName = {h1, h2}
    CallTimeout = 1
    MaxAge = 2
    StrictDecoder = FALSE
INVARIANTS
    SocketHasOneUser
    TimeoutKept
    AbortedOnlyIfInterrupted
PROPERTIES
    InterruptedCallFails
    EveryCallEnds
