\* Connected components of every shape; any flag and params on each call.
CONSTANTS
    b1 = b1
    b2 = b2
    b3 = b3
    Bufs <- MC_Bufs
    Vals = {0, 1}
    Layouts <- MC_Layouts
    Args <- MC_Args
    NULL = NULL
SPECIFICATION Spec
INVARIANTS
    MatchesReference
