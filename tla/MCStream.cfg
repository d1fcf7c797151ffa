\* one worker; the next read is begun in the handler of the last, or later
\* (both ends may be closed, and then nothing happens any more)
CHECK_DEADLOCK FALSE
SPECIFICATION StreamSpec
CONSTANTS
    ByteRange = 2
    Messages <- MCMessages
    MaxSent = 3
    MaxMessageSize = 2
    Nested = FALSE
INVARIANTS
    StreamTypeOK
    Aligned
    InvalidOnlyIfTooLarge
PROPERTIES
    InOrder
    MessagesArrive
