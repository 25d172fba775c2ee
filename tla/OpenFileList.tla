---------------------------- MODULE OpenFileList ----------------------------
(***************************************************************************)
(* The list of open files (cm_file_util.c) and the file commands that      *)
(* change it (cm_file_at_cmd.c): MFOPEN, MFCLOSE, MFDELETE, MFMOVE, and    *)
(* the commands that look a handle up and use its stream.                  *)
(*                                                                         *)
(* The singly linked list is the sequence of the nodes that can be reached *)
(* from list->node.  close_openflist_byFname frees nodes without always    *)
(* relinking their predecessor: dangling says that the pointer after the   *)
(* last reachable node (list->node itself when there is none) points to    *)
(* freed memory, and lost holds the live nodes behind it.  The commands    *)
(* run one at a time; the model stops where one would use freed memory or  *)
(* a closed stream.                                                        *)
(***************************************************************************)
EXTENDS Naturals, Sequences, FiniteSets

CONSTANTS
    Names,      \* paths of files
    MaxHandle,  \* bound on the handles given out
    Files,      \* files that may exist; one that is gone may be reused
    NoFile,
    Commands    \* the commands of this instance

AllCommands == {"MFOPEN", "MFPUT", "MFCLOSE", "MFCLOSE_fail", "MFDELETE",
                "MFMOVE", "use"}

ASSUME HandleAssumption   == MaxHandle \in Nat \ {0}
ASSUME FilesAssumption    == NoFile \notin Files
ASSUME CommandsAssumption == Commands \subseteq AllCommands

Handles == 1..MaxHandle

FS_OPENFILE_HANDLE_START == 1

VARIABLES
    nodes, dangling, lost,
    num,        \* list->num
    fs,         \* the file each name refers to
    walk,       \* names nftw has still to visit
    fault       \* "none", or the undefined behaviour met

vars == <<nodes, dangling, lost, num, fs, walk, fault>>

listVars == <<nodes, dangling, lost, num>>

Node == [fHandle : Handles, fname : Names, file : Files,
         fp : {"open", "closed"}]

TypeOK ==
    /\ nodes \in Seq(Node)
    /\ dangling \in BOOLEAN
    /\ lost \in SUBSET Node
    /\ num \in Nat
    /\ fs \in [Names -> Files \cup {NoFile}]
    /\ walk \in SUBSET Names
    /\ fault \in {"none", "freed_node", "closed_stream"}

Live == {nodes[i] : i \in 1..Len(nodes)} \cup lost

Init ==
    /\ nodes = <<>> /\ dangling = FALSE /\ lost = {}
    /\ num = 0
    /\ fs = [n \in Names |-> NoFile]
    /\ walk = {}
    /\ fault = "none"

Ready(c) == c \in Commands /\ fault = "none" /\ walk = {}

Fault(kind) ==
    /\ fault' = kind
    /\ walk' = {}
    /\ UNCHANGED <<listVars, fs>>

(***************************************************************************)
(* The list.                                                               *)
(***************************************************************************)

\* s with e inserted behind position p, and s without position p.
InsertAfter(s, p, e) ==
    [i \in 1..Len(s) + 1 |->
        IF i <= p THEN s[i] ELSE IF i = p + 1 THEN e ELSE s[i - 1]]

Without(s, p) == [i \in 1..Len(s) - 1 |-> IF i < p THEN s[i] ELSE s[i + 1]]

\* The node insert_openflist stops at: the last one before a gap in the
\* handles.
StopsAt(p) ==
    /\ \A i \in 1..p - 1 : nodes[i + 1].fHandle = nodes[i].fHandle + 1
    /\ p < Len(nodes) => nodes[p + 1].fHandle # nodes[p].fHandle + 1

\* Mutant of insert_openflist: the handle is the number of open files.
insert_openflist_counts(name, file) ==
    /\ nodes' = Append(nodes, [fHandle |-> num + 1, fname |-> name,
                               file |-> file, fp |-> "open"])
    /\ num' = num + 1
    /\ UNCHANGED <<dangling, lost>>

\* Mutant of insert_openflist: an empty list starts at handle 0.
insert_openflist_from_zero(name, file) ==
    /\ nodes' = Append(nodes, [fHandle |-> Len(nodes), fname |-> name,
                               file |-> file, fp |-> "open"])
    /\ num' = num + 1
    /\ UNCHANGED <<dangling, lost>>

\* A list that is not scanned to its end does not notice a dangling tail.
insert_openflist(name, file) ==
    LET node(h) == [fHandle |-> h, fname |-> name, file |-> file,
                    fp |-> "open"] IN
    /\ \/ /\ nodes = <<>>
          /\ nodes' = <<node(FS_OPENFILE_HANDLE_START)>>
       \/ \E p \in 1..Len(nodes) :
              /\ StopsAt(p)
              /\ nodes' = InsertAfter(nodes, p, node(nodes[p].fHandle + 1))
    /\ num' = num + 1
    /\ UNCHANGED <<dangling, lost>>

\* The scan of insert_openflist runs into the freed node.
InsertReadsFreed ==
    /\ dangling
    /\ nodes = <<>> \/ StopsAt(Len(nodes))

\* The position at which find_openflist_byHandle stops.
find_openflist_byHandle(h) ==
    {p \in 1..Len(nodes) :
        /\ nodes[p].fHandle = h
        /\ \A i \in 1..p - 1 : nodes[i].fHandle # h}

\* Mutant of remove_openflist: the count is not decremented.
remove_openflist_keeps_num(p) ==
    /\ nodes' = Without(nodes, p)
    /\ UNCHANGED <<dangling, lost, num>>

remove_openflist(p) ==
    /\ nodes' = Without(nodes, p)
    /\ num' = num - 1
    /\ UNCHANGED <<dangling, lost>>

Named(n) == {i \in 1..Len(nodes) : nodes[i].fname = n}

\* Mutant of close_openflist_byFname: the names are not compared.
close_openflist_byFname_all(n) ==
    /\ nodes' = <<>> /\ num' = 0
    /\ UNCHANGED <<dangling, lost>>

\* Every node opened as n is closed and freed.  list->node moves past the
\* ones at the head (before position a); the first of the others (position
\* b) stays linked, and the nodes behind it are lost.
close_openflist_byFname(n) ==
    \E a \in 1..Len(nodes) + 1, b \in 1..Len(nodes) + 1 :
        /\ 1..a - 1 \subseteq Named(n) /\ a \notin Named(n)
        /\ a <= b /\ (a..b - 1) \cap Named(n) = {}
        /\ b <= Len(nodes) => b \in Named(n)
        /\ nodes' = SubSeq(nodes, a, b - 1)
        /\ dangling' = (b <= Len(nodes))
        /\ lost' = lost \cup {nodes[i] : i \in (b..Len(nodes)) \ Named(n)}
        /\ num' = num - Cardinality(Named(n))

(***************************************************************************)
(* The commands.                                                           *)
(***************************************************************************)

\* The files that no name and no stream refers to.
Unused == {f \in Files : /\ \A n \in Names : fs[n] # f
                         /\ \A x \in Live : x.file # f}

\* fopen fails, or opens the file the name refers to, or creates one.
MFOPEN(n) ==
    /\ Ready("MFOPEN")
    /\ \A x \in Live : x.fHandle < MaxHandle
    /\ \/ /\ fs[n] # NoFile
          /\ UNCHANGED fs
       \/ /\ fs[n] = NoFile
          /\ \E f \in Unused : fs' = [fs EXCEPT ![n] = f]
    /\ IF InsertReadsFreed
       THEN /\ fault' = "freed_node"
            /\ UNCHANGED listVars
       ELSE /\ insert_openflist(n, fs'[n])
            /\ UNCHANGED fault
    /\ UNCHANGED walk

\* MFPUT opens and closes a stream of its own, which the list never sees.
MFPUT(n) ==
    /\ Ready("MFPUT")
    /\ fs[n] = NoFile
    /\ \E f \in Unused : fs' = [fs EXCEPT ![n] = f]
    /\ UNCHANGED <<listVars, walk, fault>>

\* A handle that is not found is refused, after the whole list was read.
Missing(h) == find_openflist_byHandle(h) = {} /\ dangling

\* A failed fclose returns early: the stream is gone, the node stays.
MFCLOSE(h) ==
    \/ /\ Ready("MFCLOSE") /\ Missing(h)
       /\ Fault("freed_node")
    \/ \E p \in find_openflist_byHandle(h) :
          /\ Ready("MFCLOSE")
          /\ \/ /\ nodes[p].fp = "closed"
                /\ Fault("closed_stream")
             \/ /\ nodes[p].fp = "open"
                /\ remove_openflist(p)
                /\ UNCHANGED <<fs, walk, fault>>
             \/ /\ nodes[p].fp = "open" /\ "MFCLOSE_fail" \in Commands
                /\ nodes' = [nodes EXCEPT ![p].fp = "closed"]
                /\ UNCHANGED <<dangling, lost, num, fs, walk, fault>>

\* MFREAD, MFWRITE, MFSEEK, MFTRUNC and MFSYNC look the handle up and use
\* its stream; what they do to the file is not modelled here.
UseHandle(h) ==
    /\ Ready("use")
    /\ \/ Missing(h) /\ Fault("freed_node")
       \/ \E p \in find_openflist_byHandle(h) :
             nodes[p].fp = "closed" /\ Fault("closed_stream")

\* Mutant of DeleteFile: the file is not closed first.
DeleteFile_open(n, rest) ==
    /\ fs' = [fs EXCEPT ![n] = NoFile]
    /\ walk' = rest
    /\ UNCHANGED <<listVars, fault>>

\* Close the file if it is open and remove it.  remove may fail, which ends
\* a walk; rest is what the walk has left.
DeleteFile(n, rest) ==
    \/ /\ dangling
       /\ Fault("freed_node")
    \/ /\ ~dangling /\ \E i \in Named(n) : nodes[i].fp = "closed"
       /\ Fault("closed_stream")
    \/ /\ ~dangling /\ \A i \in Named(n) : nodes[i].fp = "open"
       /\ close_openflist_byFname(n)
       /\ \/ /\ fs[n] # NoFile
             /\ fs' = [fs EXCEPT ![n] = NoFile]
             /\ walk' = rest
          \/ /\ walk' = {}
             /\ UNCHANGED fs
       /\ UNCHANGED fault

MFDELETE(n) ==
    /\ Ready("MFDELETE")
    /\ DeleteFile(n, {})

\* The name of a directory, or no name at all: nftw visits its files.
MFDELETE_dir ==
    /\ Ready("MFDELETE")
    /\ walk' = {n \in Names : fs[n] # NoFile}
    /\ UNCHANGED <<listVars, fs, fault>>

cm_remove_directory(n) ==
    /\ fault = "none" /\ n \in walk
    /\ DeleteFile(n, walk \ {n})

\* rename: the nodes keep the old name.
MFMOVE(old, new) ==
    /\ Ready("MFMOVE")
    /\ fs[old] # NoFile /\ old # new
    /\ fs' = [fs EXCEPT ![old] = NoFile, ![new] = fs[old]]
    /\ UNCHANGED <<listVars, walk, fault>>

Next ==
    \/ \E n \in Names : MFOPEN(n) \/ MFPUT(n)
    \/ \E h \in Handles : MFCLOSE(h) \/ UseHandle(h)
    \/ \E n \in Names : MFDELETE(n) \/ cm_remove_directory(n)
    \/ MFDELETE_dir
    \/ \E old, new \in Names : MFMOVE(old, new)

Spec == Init /\ [][Next]_vars

(***************************************************************************)
(* Properties.                                                             *)
(***************************************************************************)

\* The handles of the list ascend strictly, whatever was closed and opened
\* before, and the nodes a deletion cut off have higher ones: no two files
\* that are open at the same time have the same handle.
HandlesAscend ==
    /\ \A i, j \in 1..Len(nodes) :
          i < j => nodes[i].fHandle < nodes[j].fHandle
    /\ \A x \in lost : dangling /\
          \A i \in 1..Len(nodes) : nodes[i].fHandle < x.fHandle
    /\ \A x, y \in lost : x.fHandle = y.fHandle => x = y

\* list->num is the number of nodes that exist ("现有节点个数").
NumCountsNodes == num = Cardinality(Live)

\* The list implements the table of open files.
Table == INSTANCE FileTable WITH
            table <- {<<x.fHandle, x.fname>> : x \in Live}

ImplementsFileTable == Table!Spec

\* The step removes the file called n.
Removes(n) == fs[n] # NoFile /\ fs' = [fs EXCEPT ![n] = NoFile]

\* When a deletion removes a file, whether it names the file or walks a
\* directory, close_openflist_byFname has closed every stream that was opened
\* under its name, wherever in the list.
OpenedAsRemovedIsClosed ==
    [][\A n \in Names : Removes(n) => \A x \in Live' : x.fname # n]_vars

\* A file that a deletion removes is not left open, under whatever name it
\* was opened ("未关闭时先关闭").
DeletedFileIsClosed ==
    [][\A n \in Names : Removes(n) => \A x \in Live' : x.file # fs[n]]_vars

\* Every open file can be reached under its handle: no command leaves a
\* freed node in the list.
NoFreedNodeLinked == ~dangling
=============================================================================
