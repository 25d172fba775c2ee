SPECIFICATION Spec
CONSTANTS
    Names = {a, b}
    Files = {f1, f2}
    NoFile = NoFile
    MaxHandle = 3
    Commands = {"MFOPEN", "MFDELETE", "MFMOVE"}
PROPERTY DeletedFileIsClosed
SYMMETRY Symmetry
CHECK_DEADLOCK FALSE
