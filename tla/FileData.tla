------------------------------ MODULE FileData ------------------------------
(***************************************************************************)
(* Sizes of files and positions of streams under the file commands of      *)
(* cm_file_at_cmd.c, and the data mode in which AT+MFPUT and AT+MFWRITE    *)
(* receive their bytes.  A command is one step; in the data mode every     *)
(* call of the registered callback is one step, and the channel executes   *)
(* no command meanwhile.                                                   *)
(*                                                                         *)
(* The streams are those of stdio: fwrite may leave bytes in the buffer,   *)
(* and a write(2) that fails later, in fseek or fclose, drops them.  Which *)
(* numbers the handles get, and deletion and renaming, are OpenFileList's. *)
(***************************************************************************)
EXTENDS Integers

CONSTANTS
    Names,      \* files, all of which exist
    Handles,    \* identities of the nodes of the list of open files
    Put,        \* the stream that a transfer of AT+MFPUT opens for itself
    NULL,
    Closed,     \* a node whose stream a failed fclose has closed
    Modes,      \* modes of AT+MFOPEN
    MaxSize,    \* largest file the file system holds
    BufSize,    \* capacity of a stream's buffer
    FragSize,   \* FS_DEFAULT_FRAG_SIZE
    Word,       \* one more than the largest uint32_t
    Lengths,    \* lengths a command may announce
    MaxBlock,   \* bound on the bytes of one command or one callback
    Failures    \* "disk": a write(2) may fail; "datamode": it may be refused;
                \* "malloc": there may be no memory

AllModes == {"r", "w", "a", "w+", "a+"}
Streams  == Handles \cup {Put}

\* Bound on positions: nothing is written further behind the largest file.
MaxTell == MaxSize + BufSize

\* A FILE: pos is the position in the file, pend counts the bytes in the
\* buffer.
Append(x) == x.mode \in {"a", "a+"}
Stream ==
    {x \in [name : Names, mode : AllModes, pos : 0..MaxTell, pend : 0..BufSize] :
        Append(x) \/ x.pos + x.pend <= MaxTell}

ASSUME HandlesAssumption == Put \notin Handles /\ NULL \notin Streams
ASSUME NullAssumption    == NULL \notin Nat /\ {NULL, Closed} \cap Stream = {}
ASSUME ModesAssumption   == Modes \subseteq AllModes
ASSUME BoundsAssumption  == MaxSize \in Nat /\ BufSize \in Nat /\ MaxBlock \in Nat
ASSUME FragAssumption    == FragSize \in Nat \ {0, 1}
ASSUME WordAssumption    == Word \in Nat /\ 2 * MaxTell + MaxBlock + 1 < Word
ASSUME LengthsAssumption == Lengths \subseteq 0..(Word - 1)

Formats == {"ASC", "HEX", "none"}

\* Arithmetic of uint32_t.
Plus(a, b)  == IF a + b < Word THEN a + b ELSE a + b - Word

\* Mutant of Minus: the difference is signed.
MinusSigned(a, b) == a - b

Minus(a, b) == IF a >= b THEN a - b ELSE a - b + Word

VARIABLES
    size,           \* of each file
    stream,         \* FILE of each node and of Put, NULL or Closed
    inputfmt,       \* g_cmcc_cfg.inputfmt
    datamode,       \* the stream the data mode writes to; NULL in AT mode
    data_length,    \* s_file_datamode_data_length
    recv_length,    \* s_file_datamode_recv_length
    crashed,
    (* what an observer sees *)
    reply,          \* length in the last reply, or NULL; whether the command
                    \* dropped bytes without an error
    from,           \* where the first byte of the transfer belongs
    stale           \* a failed write left recv_length behind

transferVars == <<datamode, data_length, recv_length, from, stale>>
vars == <<size, stream, inputfmt, transferVars, crashed, reply>>

(***************************************************************************)
(* stdio.  An operation on stream x of a file of size sz yields a set of   *)
(* possible results: stream, size and the bytes that went out.             *)
(***************************************************************************)
Open(s) == stream[s] \notin {NULL, Closed}

\* Where the next byte out of the buffer goes, and what ftell returns.
WriteAt(x, sz) == IF Append(x) THEN sz ELSE x.pos
ftell(x, sz)   == IF x.pend = 0 THEN x.pos ELSE WriteAt(x, sz) + x.pend

\* n bytes leave the buffer, k stay in it.
Written(x, sz, n, k) ==
    LET end == WriteAt(x, sz) + n IN
    [x   |-> [x EXCEPT !.pos = IF n = 0 THEN @ ELSE end, !.pend = k],
     sz  |-> IF n = 0 \/ end < sz THEN sz ELSE end,
     out |-> n]

Fits(x, sz, n) == n = 0 \/ WriteAt(x, sz) + n <= MaxSize

\* What a write(2) of t bytes may achieve.
Achieved(x, sz, t) ==
    {n \in 0..t : /\ Fits(x, sz, n)
                  /\ n = t \/ "disk" \in Failures \/ ~Fits(x, sz, t)}

\* The bytes in the buffer are written; those that cannot be are dropped.
fflush(x, sz) == {Written(x, sz, n, 0) : n \in Achieved(x, sz, x.pend)}

\* fwrite of w bytes that succeeds: the buffer keeps what it has room for.
fwrite(x, sz, w) ==
    {Written(x, sz, x.pend + w - k, k) :
        k \in {j \in 0..BufSize : /\ j <= x.pend + w
                                  /\ WriteAt(x, sz) + x.pend + w <= MaxTell
                                  /\ Fits(x, sz, x.pend + w - j)}}

\* fwrite that fails: it had to write, and could not write all.
fwrite_fails(x, sz, w) ==
    {Written(x, sz, n, 0) :
        n \in Achieved(x, sz, x.pend + w) \ {x.pend + w}}

SeekTo(r, pos) == [r EXCEPT !.x.pos = pos]

(***************************************************************************)
(* States.                                                                 *)
(***************************************************************************)
\* No file is larger than the file system allows and no position or counter
\* leaves the range of its C type, though every length is unsigned.
TypeOK ==
    /\ size \in [Names -> 0..MaxSize]
    /\ stream \in [Streams -> Stream \cup {NULL, Closed}]
    /\ inputfmt \in Formats
    /\ datamode \in Streams \cup {NULL}
    /\ data_length \in 0..(Word - 1)
    /\ recv_length \in 0..(Word - 1)
    /\ crashed \in BOOLEAN
    /\ reply \in [len : 0..(Word - 1) \cup {NULL}, lost : BOOLEAN]
    /\ from \in Nat
    /\ stale \in BOOLEAN

NoReply == [len |-> NULL, lost |-> FALSE]

Init ==
    /\ size \in [Names -> 0..MaxSize]
    /\ stream = [s \in Streams |-> NULL]
    /\ inputfmt = "ASC"
    /\ datamode = NULL /\ data_length = 0 /\ recv_length = 0
    /\ from = 0 /\ stale = FALSE
    /\ crashed = FALSE
    /\ reply = NoReply

(***************************************************************************)
(* AT commands.                                                            *)
(***************************************************************************)
AtMode == ~crashed /\ datamode = NULL

\* Stream s and its file become those of the result r.
Becomes(s, r) ==
    /\ stream' = [stream EXCEPT ![s] = r.x]
    /\ size' = [size EXCEPT ![r.x.name] = r.sz]

Reply(length, lost) == reply' = [len |-> length, lost |-> lost]

\* A command that is refused, and one that only reads.
Refuse ==
    /\ AtMode
    /\ reply' = NoReply
    /\ UNCHANGED <<size, stream, inputfmt, transferVars, crashed>>

\* AT+MFCFG="encoding": without its first value it stores -1.
MFCFG(fmt) ==
    /\ AtMode
    /\ inputfmt' = fmt
    /\ reply' = NoReply
    /\ UNCHANGED <<size, stream, transferVars, crashed>>

\* fopen: mode w empties the file; append mode starts at either end.
MFOPEN(h, n, m) ==
    LET sz == IF m \in {"w", "w+"} THEN 0 ELSE size[n] IN
    /\ AtMode /\ stream[h] = NULL
    /\ \E pos \in {0} \cup IF m \in {"a", "a+"} THEN {sz} ELSE {} :
          Becomes(h, [x  |-> [name |-> n, mode |-> m, pos |-> pos, pend |-> 0],
                      sz |-> sz])
    /\ reply' = NoReply
    /\ UNCHANGED <<inputfmt, transferVars, crashed>>

MFCLOSE(h) ==
    LET x == stream[h]  sz == size[x.name] IN
    /\ AtMode /\ Open(h)
    /\ \E r \in fflush(x, sz) :
          /\ size' = [size EXCEPT ![x.name] = r.sz]
          /\ stream' = [stream EXCEPT ![h] =
                           IF r.out = x.pend THEN NULL ELSE Closed]
    /\ reply' = NoReply
    /\ UNCHANGED <<inputfmt, transferVars, crashed>>

\* cm_file_get_size_by_file_point after which the position is pos again.  A
\* failed flush makes the first fseek fail: the position is then the size.
cm_file_get_size_by_file_point(r, x, sz) ==
    IF r.out = x.pend THEN r.sz ELSE r.x.pos

\* Bytes that stream x can deliver from pos on.  Behind an end that another
\* stream has moved they are bytes read ahead before, of which a stream that
\* had bytes to write has none.
Readable(x, pos, sz) ==
    IF pos <= sz THEN {sz - pos}
    ELSE {n \in 0..MaxSize : n = 0 \/ (x.pend = 0 /\ pos + n <= MaxSize)}

Least(a, b) == IF a > b THEN b ELSE a

\* Mutant of ReadLen: the length asked for is not limited.
ReadLenUnlimited(want, left) == IF want = NULL THEN left ELSE want

\* want is the second parameter of AT+MFREAD, or NULL without it.
ReadLen(want, left) == IF want = NULL THEN left ELSE Least(want, left)

\* Bytes read and answered at a time; half as many with HEX output, a setting
\* that is left open.
Fragments == {FragSize, FragSize \div 2}

\* The second parameter is parsed only after the size was taken, and the
\* buffer for a fragment may not be had.  Every fragment that was read is
\* answered at once, with the length of the whole; a later one that cannot be
\* read ends the command with an error, at the end of the file.
MFREAD(h, want) ==
    LET x == stream[h]  sz == size[x.name]  curPos == ftell(x, sz) IN
    /\ AtMode /\ Open(h) /\ x.mode \notin {"w", "a"}
    /\ \E r \in fflush(x, sz) :
          LET fsize   == cm_file_get_size_by_file_point(r, x, sz)
              readLen == ReadLen(want, Minus(fsize, curPos))
              lost    == r.out < x.pend
          IN  \/ /\ readLen = 0 \/ want # NULL \/ "malloc" \in Failures
                 /\ Becomes(h, SeekTo(r, curPos))
                 /\ Reply(NULL, lost)
              \/ /\ readLen > 0
                 /\ \E n \in Readable(x, curPos, r.sz), frag \in Fragments :
                       /\ Becomes(h, SeekTo(r, curPos + Least(readLen, n)))
                       /\ Reply(IF Least(readLen, frag) <= n THEN readLen
                                ELSE NULL, lost)
    /\ UNCHANGED <<inputfmt, transferVars, crashed>>

\* Mutant of is_fs_OverFlow: offsets from the current position are accepted.
is_fs_OverFlow_ignores_cur(fsize, curPos, offset, dir) ==
    CASE dir = 0 -> offset < 0 \/ offset > fsize
      [] dir = 1 -> FALSE
      [] dir = 2 -> offset > 0

\* The sum is unsigned; fsize + offset < 0 is therefore never true.
is_fs_OverFlow(fsize, curPos, offset, dir) ==
    CASE dir = 0 -> offset < 0 \/ offset > fsize
      [] dir = 1 -> fsize < IF offset < 0 THEN Minus(curPos, -offset)
                            ELSE Plus(curPos, offset)
      [] dir = 2 -> offset > 0

\* fseek itself refuses a position before the beginning.
MFSEEK(h, offset, dir) ==
    LET x == stream[h]  sz == size[x.name]  curPos == ftell(x, sz) IN
    /\ AtMode /\ Open(h)
    /\ \E r \in fflush(x, sz) :
          LET fsize  == cm_file_get_size_by_file_point(r, x, sz)
              target == offset + (CASE dir = 0 -> 0
                                    [] dir = 1 -> curPos
                                    [] dir = 2 -> r.sz)
              moves  == ~is_fs_OverFlow(fsize, curPos, offset, dir) /\ target >= 0
          IN  /\ Becomes(h, SeekTo(r, IF moves THEN target ELSE curPos))
              /\ Reply(NULL, r.out < x.pend)
    /\ UNCHANGED <<inputfmt, transferVars, crashed>>

\* fseek(fp, 0, 0), which a failed flush makes fail, and ftruncate, which
\* needs a stream open for writing.
Truncate(h, length) ==
    LET x == stream[h]  sz == size[x.name] IN
    \E r \in fflush(x, sz) :
        /\ Becomes(h, [x  |-> IF r.out = x.pend THEN [r.x EXCEPT !.pos = 0]
                              ELSE r.x,
                       sz |-> IF x.mode = "r" \/ length > MaxSize THEN r.sz
                              ELSE length])
        /\ Reply(NULL, r.out < x.pend)

MFTRUNC(h, length) ==
    /\ AtMode /\ Open(h)
    /\ Truncate(h, length)
    /\ UNCHANGED <<inputfmt, transferVars, crashed>>

\* Bytes that AT+MFPUT with d characters of data, announced as a bytes,
\* writes; NULL when the lengths do not agree.
WriteSize(a, d) ==
    CASE inputfmt = "none"                                      -> 0
      [] inputfmt = "ASC" /\ a \in {0, d}                       -> d
      [] inputfmt = "HEX" /\ d % 2 = 0 /\ a \in {0, d \div 2}   -> d \div 2
      [] OTHER                                                  -> NULL

\* The same for AT+MFWRITE, which doubles the announced length instead: the
\* product may wrap around.
MfwriteSize(a, d) ==
    IF inputfmt = "HEX" /\ d % 2 = 0 /\ a # 0 /\ Plus(a, a) = d THEN a
    ELSE WriteSize(a, d)

NewPut(n) == [name |-> n, mode |-> "w+", pos |-> 0, pend |-> 0]

\* AT+MFPUT with its data.  The file is emptied before the data is looked
\* at, and the result of fclose is ignored.
MFPUT(n, a, d) ==
    LET w == WriteSize(a, d) IN
    /\ AtMode
    /\ \/ /\ size' = [size EXCEPT ![n] = 0]
          /\ reply' = NoReply
       \/ /\ w # NULL /\ w # 0
          /\ \E o \in fwrite(NewPut(n), 0, w) : \E r \in fflush(o.x, o.sz) :
                /\ size' = [size EXCEPT ![n] = r.sz]
                /\ Reply(w, r.out < o.x.pend)
       \/ /\ w # NULL /\ w # 0
          /\ \E r \in fwrite_fails(NewPut(n), 0, w) :
                size' = [size EXCEPT ![n] = r.sz]
          /\ reply' = NoReply
    /\ UNCHANGED <<stream, inputfmt, transferVars, crashed>>

\* A size that is more than the data has makes fwrite read behind it: that
\* may end the process.
MFWRITE(h, a, d) ==
    LET x == stream[h]  sz == size[x.name]  w == MfwriteSize(a, d) IN
    /\ AtMode /\ Open(h) /\ x.mode # "r"
    /\ w # NULL /\ w # 0
    /\ \/ /\ \E r \in fwrite(x, sz, w) : Becomes(h, r)
          /\ Reply(w, FALSE)
          /\ UNCHANGED crashed
       \/ /\ \E r \in fwrite_fails(x, sz, w) : Becomes(h, r)
          /\ reply' = NoReply
          /\ UNCHANGED crashed
       \/ /\ w > d
          /\ crashed' = TRUE
          /\ UNCHANGED <<size, stream, reply>>
    /\ UNCHANGED <<inputfmt, transferVars>>

(***************************************************************************)
(* The data mode.                                                          *)
(***************************************************************************)

\* The announced length is stored before the data mode is entered, which the
\* AT framework may refuse; recv_length is left as it is.
Begin(s, x, sz, length) ==
    /\ data_length' = length
    /\ \/ datamode' = s /\ from' = WriteAt(x, sz) + x.pend
       \/ "datamode" \in Failures /\ UNCHANGED <<datamode, from>>
    /\ reply' = NoReply
    /\ UNCHANGED <<inputfmt, recv_length, stale, crashed>>

BeginMFPUT(n, length) ==
    /\ AtMode
    /\ size' = [size EXCEPT ![n] = 0]
    /\ Begin(Put, NewPut(n), 0, length)
    /\ stream' = [stream EXCEPT ![Put] = IF datamode' = Put THEN NewPut(n)
                                         ELSE NULL]

BeginMFWRITE(h, length) ==
    /\ AtMode /\ Open(h) /\ stream[h].mode # "r"
    /\ Begin(h, stream[h], size[stream[h].name], length)
    /\ UNCHANGED <<size, stream>>

\* The transfer to stream s ends after the result r: MFPUT closes its stream,
\* and ignores whether fclose succeeds.
Leave(s, r, length) ==
    /\ datamode' = NULL
    /\ \/ /\ s # Put
          /\ Becomes(s, r)
          /\ Reply(length, FALSE)
       \/ /\ s = Put
          /\ stream' = [stream EXCEPT ![Put] = NULL]
          /\ \E c \in fflush(r.x, r.sz) :
                /\ size' = [size EXCEPT ![r.x.name] = c.sz]
                /\ Reply(length, c.out < r.x.pend)
    /\ from' = 0
    /\ UNCHANGED data_length

\* Mutant of Report: the counter is not reset.
ReportKeepsCount(s, r, received) ==
    /\ Leave(s, r, received)
    /\ recv_length' = received /\ stale' = FALSE

Report(s, r, received) ==
    /\ Leave(s, r, received)
    /\ recv_length' = 0 /\ stale' = FALSE

Current(s) == [x |-> stream[s], sz |-> size[stream[s].name]]

\* msg_len = 0.
Timeout(s) ==
    /\ ~crashed /\ datamode = s
    /\ Report(s, Current(s), recv_length)
    /\ UNCHANGED <<inputfmt, crashed>>

\* Mutant of Part: the whole block is written.
PartWhole(m) == {[len |-> m, quit |-> FALSE]}

\* The part of a block of m bytes that belongs to the transfer: with an
\* announced length the rest of it, else what precedes the quit symbol.
Part(m) ==
    IF data_length > 0
    THEN {[len  |-> IF Plus(recv_length, m) > data_length
                    THEN Minus(data_length, recv_length) ELSE m,
           quit |-> FALSE]}
    ELSE {[len |-> m, quit |-> FALSE]} \cup
         {[len |-> l, quit |-> TRUE] : l \in 0..(m - 1)}

\* Mutant of Received: all bytes of the block are counted.
ReceivedCountsBlock(s, r, p, m) ==
    LET received == Plus(recv_length, m) IN
    IF received = data_length \/ p.quit
    THEN Report(s, r, received)
    ELSE /\ Becomes(s, r)
         /\ recv_length' = received
         /\ reply' = NoReply
         /\ UNCHANGED <<datamode, data_length, from, stale>>

\* The bytes were accepted; the transfer may be complete.
Received(s, r, p, m) ==
    LET received == Plus(recv_length, p.len) IN
    IF received = data_length \/ p.quit
    THEN Report(s, r, received)
    ELSE /\ Becomes(s, r)
         /\ recv_length' = received
         /\ reply' = NoReply
         /\ UNCHANGED <<datamode, data_length, from, stale>>

\* Mutant of WriteFails: the error is reported, the data mode kept.
WriteFailsStays(s, r) ==
    /\ Becomes(s, r)
    /\ reply' = NoReply
    /\ UNCHANGED transferVars

\* A failed fwrite ends the transfer and leaves recv_length.
WriteFails(s, r) ==
    /\ Leave(s, r, NULL)
    /\ recv_length' = recv_length /\ stale' = (recv_length # 0)

\* A length that wrapped around reads behind the block.
Block(s, m) ==
    LET c == Current(s) IN
    /\ ~crashed /\ datamode = s
    /\ \E p \in Part(m) :
          \/ /\ p.len > m
             /\ crashed' = TRUE
             /\ UNCHANGED <<size, stream, transferVars, reply>>
          \/ /\ p.len = 0
             /\ Received(s, c, p, m)
             /\ UNCHANGED crashed
          \/ /\ p.len # 0
             /\ \E r \in fwrite(c.x, c.sz, p.len) : Received(s, r, p, m)
             /\ UNCHANGED crashed
          \/ /\ p.len # 0
             /\ \E r \in fwrite_fails(c.x, c.sz, p.len) : WriteFails(s, r)
             /\ UNCHANGED crashed
    /\ UNCHANGED inputfmt

\* Mutant of Cancel: the bytes received are not subtracted.
CancelKeepsReceived(s) ==
    LET x == stream[s]  sz == size[x.name] IN
    /\ ~crashed /\ datamode = s /\ data_length = 0 /\ s # Put
    /\ datamode' = NULL /\ recv_length' = 0
    /\ from' = 0 /\ stale' = FALSE
    /\ Truncate(s, ftell(x, sz))
    /\ UNCHANGED <<inputfmt, data_length, crashed>>

\* ESC: MFPUT empties its file; MFWRITE truncates the file to where the
\* position was when the transfer began, and goes to the beginning.
Cancel(s) ==
    LET x == stream[s]  sz == size[x.name] IN
    /\ ~crashed /\ datamode = s /\ data_length = 0
    /\ datamode' = NULL /\ recv_length' = 0
    /\ from' = 0 /\ stale' = FALSE
    /\ \/ /\ s = Put
          /\ stream' = [stream EXCEPT ![Put] = NULL]
          /\ size' = [size EXCEPT ![x.name] = 0]
          /\ reply' = NoReply
       \/ /\ s # Put
          /\ Truncate(s, Minus(ftell(x, sz), recv_length))
    /\ UNCHANGED <<inputfmt, data_length, crashed>>

(***************************************************************************)
(* Specification.                                                          *)
(***************************************************************************)
Offsets == -(MaxSize + 1)..(MaxSize + 1)

Command ==
    \/ Refuse
    \/ \E fmt \in Formats : MFCFG(fmt)
    \/ \E h \in Handles, n \in Names, m \in Modes : MFOPEN(h, n, m)
    \/ \E h \in Handles : MFCLOSE(h)
    \/ \E h \in Handles, want \in Lengths \cup {NULL} : MFREAD(h, want)
    \/ \E h \in Handles, o \in Offsets, dir \in 0..2 : MFSEEK(h, o, dir)
    \/ \E h \in Handles, l \in Lengths : MFTRUNC(h, l)
    \/ \E n \in Names, a \in Lengths, d \in 0..MaxBlock : MFPUT(n, a, d)
    \/ \E h \in Handles, a \in Lengths, d \in 0..MaxBlock : MFWRITE(h, a, d)
    \/ \E n \in Names, l \in Lengths : BeginMFPUT(n, l)
    \/ \E h \in Handles, l \in Lengths : BeginMFWRITE(h, l)

Data  == \E s \in Streams, m \in 1..MaxBlock : Block(s, m)
Quiet == \E s \in Streams : Timeout(s)

Next == Command \/ Data \/ Quiet \/ \E s \in Streams : Cancel(s)

Spec == Init /\ [][Next]_vars

\* In the data mode the host goes on sending or, when it does not, the AT
\* framework's timer expires.  Nobody is obliged to send a command or ESC.
FairSpec == Spec /\ (WF_vars(Data) \/ WF_vars(Quiet))

(***************************************************************************)
(* Properties.                                                             *)
(***************************************************************************)

\* Position behind the last byte that fwrite accepted.
EndOfWritten(s) == WriteAt(stream[s], size[stream[s].name]) + stream[s].pend

\* The length that ends a transfer (+MFPUT, +MFWRITE) is the number of bytes
\* stored since it began: in the file for MFPUT, in the stream for MFWRITE,
\* whose buffer is flushed later.  The exceptions are a counter left behind
\* by an earlier failed write and an fclose that dropped bytes unnoticed.
ReportedIsStored ==
    [][datamode # NULL /\ datamode' = NULL /\ ~stale /\ reply'.len # NULL =>
          /\ datamode = Put /\ ~reply'.lost =>
                size'[stream[Put].name] = reply'.len
          /\ \A h \in Handles : datamode = h =>
                EndOfWritten(h)' = from + reply'.len]_vars

\* A transfer with an announced length stores no byte beyond it, however the
\* bytes are cut into blocks.
WithinAnnounced ==
    datamode # NULL /\ data_length > 0 /\ ~stale =>
        EndOfWritten(datamode) - from <= data_length

\* A block after which the transfer goes on was stored completely and in its
\* place: no byte is skipped or kept back between two callbacks, and only the
\* last block of a transfer may be cut.
WholeBlockStored ==
    [][\A s \in Streams, m \in 1..MaxBlock :
          Block(s, m) /\ datamode' = s /\ ~crashed' =>
              EndOfWritten(s)' = EndOfWritten(s) + m]_vars

\* Bytes are read behind the data received for two reasons only: in the data
\* mode because data_length - recv_length wrapped around after an earlier
\* failed write had left the counter behind, and in AT mode because fsize * 2
\* wrapped around in MFWRITE with the HEX format.
OverreadHasCause ==
    crashed => IF datamode # NULL THEN stale ELSE inputfmt = "HEX"

Inside(s) == Open(s) /\ stream[s].pos <= size[stream[s].name]

\* A position passes the end of its file only because the file was cut, or
\* because buffered bytes were dropped: no seek, read or write does it.
PositionsStayInside ==
    [][\A s \in Streams :
          Inside(s) /\ Open(s)' /\ ~reply'.lost
          /\ size'[stream[s].name] >= size[stream[s].name] => Inside(s)']_vars

\* The length in the lines of MFREAD is what the command goes on to read, in
\* however many fragments: a fragment is never answered as part of a whole
\* that the file does not have.  It may be, with a length that wrapped around
\* or was not limited, from a position behind the end and after a flush that
\* dropped bytes: fsize - curPos is then not what is left of the file.
AnsweredIsRead ==
    [][\A h \in Handles, want \in Lengths \cup {NULL} :
          reply'.len # NULL /\ ~reply'.lost /\ Inside(h) /\ MFREAD(h, want) =>
              stream'[h].pos = ftell(stream[h], size[stream[h].name]) + reply'.len]_vars

\* Every data mode ends: with a report, an error or an escape.
TransferEnds == (datamode # NULL) ~> (datamode = NULL \/ crashed)

\* A cancelled MFWRITE cuts the file where the transfer began, wherever
\* earlier commands had put the position, however much of the data is still
\* in the buffer and whether or not the flush fails.  The exceptions are a
\* counter left behind by a failed write and an append stream that received
\* nothing: its position need not be where it appends.
CancelCutsAtStart ==
    [][\A h \in Handles :
          /\ Cancel(h) /\ ~stale /\ from <= MaxSize
          /\ Append(stream[h]) => recv_length > 0
          => size'[stream[h].name] = from]_vars

\* A cancelled MFWRITE clears what it wrote and no more: the file does not
\* get shorter by more bytes than the transfer received.
CancelClearsReceived ==
    [][\A h \in Handles :
          Cancel(h) => size'[stream[h].name] + recv_length >=
                       size[stream[h].name]]_vars
=============================================================================
