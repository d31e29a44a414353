CONSTANTS
    Clients = {"c1", "c2", "c3"}
    Wanted <- Same
    Wrap = 4
    MaxPosts = 2
    NoOne = NoOne
SPECIFICATION Spec
INVARIANTS IInv OwnRunner
CHECK_DEADLOCK FALSE
