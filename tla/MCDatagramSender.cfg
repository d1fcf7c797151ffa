\* two workers, any number of threads that send and cancel, and a system that
\* may never complete a send
SPECIFICATION SenderSpec
CONSTANTS
    Op = {o1, o2, o3}
    Replacer = FALSE
    Workers = 2
INVARIANTS
    SocketHasOneUser
    CanceledNotOutstanding
    StoppedIsNoSuccess
PROPERTIES
    StoredOperationLeaves
