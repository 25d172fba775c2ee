--------------------------- MODULE MCOpenFileList ---------------------------
(***************************************************************************)
(* OpenFileList with its names and its files interchangeable: no action    *)
(* and no property tells one from another.                                 *)
(***************************************************************************)
EXTENDS OpenFileList, TLC

Symmetry == Permutations(Names) \cup Permutations(Files)
=============================================================================
