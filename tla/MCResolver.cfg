\* PendingOperationQueue, as Resolver uses it: two workers, any number of threads
SPECIFICATION ResolverSpec
CONSTANTS
    Op = {o1, o2, o3}
    Replacer = FALSE
    Workers = 2
INVARIANTS
    OneAtATime
    CancelSticks
PROPERTIES
    Sequential
    StoredOperationLeaves
    StoppedIsReported
