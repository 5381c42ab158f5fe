CONSTANTS
    Dirs = {d1, d2, d3}
    Files = {f1}
    Root = root
    NameOf <- Names
    Clients = {c1, c2}
SYMMETRY Symmetry
SPECIFICATION Spec
INVARIANTS TypeOK ClosureIsTree TrashIsWhole OnlyStraysLost
CHECK_DEADLOCK FALSE
