----------------------------- MODULE FileTable -----------------------------
(***************************************************************************)
(* What the list of open files promises the file commands: a table of open *)
(* files, each under a handle of its own.  OpenFileList implements it with *)
(* the linked list of cm_file_util.c.                                      *)
(***************************************************************************)
EXTENDS Naturals

CONSTANTS Names, Handles

VARIABLE table      \* pairs of a handle and the name it was opened with

Init == table = {}

\* Any handle that is not in use may be given out.
Open(h, n) ==
    /\ \A e \in table : e[1] # h
    /\ table' = table \cup {<<h, n>>}

Close(h) == table' = {e \in table : e[1] # h}

CloseName(n) == table' = {e \in table : e[2] # n}

Next ==
    \/ \E h \in Handles, n \in Names : Open(h, n)
    \/ \E h \in Handles : Close(h)
    \/ \E n \in Names : CloseName(n)

Spec == Init /\ [][Next]_table
=============================================================================
