\* a periodic timeout is replaced by another timeout
SPECIFICATION TimerSpec
CONSTANTS
    Op = {o1, p1}
    Replacer = TRUE
    Periodic = {p1}
PROPERTIES
    StoredOperationLeaves
