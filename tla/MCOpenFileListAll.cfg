SPECIFICATION Spec
CONSTANTS
    Names = {a, b}
    Files = {f1, f2}
    NoFile = NoFile
    MaxHandle = 5
    Commands = {"MFOPEN", "MFPUT", "MFCLOSE", "MFCLOSE_fail", "MFDELETE", "MFMOVE", "use"}
INVARIANTS
    TypeOK
    HandlesAscend
    NumCountsNodes
PROPERTIES
    ImplementsFileTable
    OpenedAsRemovedIsClosed
SYMMETRY Symmetry
CHECK_DEADLOCK FALSE
