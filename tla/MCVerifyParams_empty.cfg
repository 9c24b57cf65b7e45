\* A component with neither source nor sink buffers is also called.
CONSTANTS
    b1 = b1
    b2 = b2
    b3 = b3
    Bufs <- MC_Bufs
    Vals = {0, 1}
    Layouts <- MC_LayoutsUnconnected
    Args <- MC_Args
    NULL = NULL
SPECIFICATION Spec
INVARIANTS
    NoEmptyListRead
