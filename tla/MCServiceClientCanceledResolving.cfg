\* one call to a host name, canceled at any time
SPECIFICATION ClientSpec
CONSTANTS
    Op = {h1}
    Replacer = FALSE
    ByName = {h1}
    CallTimeout = 1
    MaxAge = 2
    StrictDecoder = FALSE
CHECK_DEADLOCK FALSE
PROPERTIES
    CanceledCallFails
