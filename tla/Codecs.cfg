SPECIFICATION MCSpec
CONSTANTS
    Versions = {1, 3, 4, 5, 6, 132, 3784, 34825}
    Depth = 3
    HelloVersions = {1, 2, 3, 4, 5, 6, 7}
INVARIANTS
    MessageSent
    MessageRead
    
CHECK_DEADLOCK FALSE
