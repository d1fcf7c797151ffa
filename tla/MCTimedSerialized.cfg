\* two worker threads: are the wrapped handlers executed in sequence?
SPECIFICATION TimedSpec
CONSTANTS
    Op = {o1}
    Workers = 2
PROPERTIES
    HandlersInSequence
