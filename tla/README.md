# Verification of the location service and of the file commands

TLA+ models of the two parts of this repository that are its own code: the location service
`src/cm_lbs` (AT commands that ask a location platform where the modem is) and the file library
`src/libfs` (AT commands on files). TLC checks them on small instances, TLAPS proves the most
important properties for all values of the constants. Everything else under `src/` is third-party
code (libcurl, libuv, lwIP, Mbed TLS, cJSON), a demonstration program and the build.

## 1. Inventory

### 1.1 Location service

**Core: task, queue and request** (`cm_lbs.c`, handlers in `cm_lbs_api.c`). State: `s_platform`,
`cm_lbs_task`, `cm_lbs_queun`, the attributes `s_amap_attr` and `s_oneospos_attr_t`, the callback
records `lbs_callback_msg`; all global, without a lock. Operations: `cm_lbs_init`,
`cm_lbs_location`, `cm_lbs_deinit`, the task's main loop, and the callbacks. Two threads: the
thread that executes AT commands, and the LBS task it starts. They communicate through a System V
queue and through the globals; an attribute that is not NULL means *busy*.
Hard: every interleaving of the two threads; the callback frees what the other thread may be
filling; one platform's callback frees the other platform's attribute; error paths that must free.
Correct when: a request that is accepted is answered once, a refused one never; the busy state
ends; nobody uses an attribute that was freed.

**AMap and OneOS-POS platforms** (`cm_lbs_amap.c`, `cm_lbs_oneospos.c`). State: the client or the
busy state, the curl handle, the cached location with its time, the last parameters, a static
`callback_state`. Operation: `cm_amap_location` / `cm_oneospos_location`, called by the LBS task
only. Hard: statics that survive a request and influence the next, allocation failures in the
middle. Correct when a call that returns OK called the callback exactly once, a call that returns
an error never did, and a location is that of the parameters asked for.

**Configuration** (`cm_lbs_api.c`, `cm_lbs_at.c`). State: four files, read again at every use.
Operations: `AT+MLBSCFG` set and get; reads by `AT+MLBSLOC`, `AT+MLBS` and the URC (the
unsolicited result line printed by the LBS task). Hard: truncate-then-write, a crash in between,
reads by the other thread, read-modify-write of a whole file. Correct when an acknowledged value is
stored and no other option changes.

**Adaptation layer** (`cm_lbs_platform`): modem queries, URC output, MD5. **coordinate.c**: WGS84 to
GCJ02 in floating point.

### 1.2 File library

**List of open files** (`cm_file_util.c`). State: `g_cmcc_openfile_list`, a singly linked list of
handle, name, mode and stream, with its length. Operations: `insert_openflist`,
`find_openflist_byHandle`, `remove_openflist`, `close_openflist_byFname`. Hard: handles are reused
by gap search; deletion by name changes the list in the middle.
Correct when handles are unique, the length is right, and every open file can be reached.

**File commands** (`cm_file_at_cmd.c`). State: the list, `g_cmcc_cfg`, the data-mode counters
`s_file_datamode_data_length` and `s_file_datamode_recv_length`, and in the C library the position
and the buffer of every stream. Operations: `AT+MFCFG ... MFCHECK`, one at a time; MFPUT and MFWRITE
may enter a data mode whose callback receives blocks, an escape, or a timeout. Hard: lengths are
32 bits wide and unsigned; a write that fails does so in `fwrite`, or later, when the buffer is
flushed by `fseek` or `fclose`; two statics survive a transfer. Correct when a transfer stores what
it announced and reports what it stored, positions stay inside the file, and the data mode ends. The file is wrapped in `#if 0` in this repository (`cm_file_at_cmd.c:56`); it is the
only caller of the list and is modelled as it is written.

`PROJECT.json` lists every component and, under `hazards`, each place of the code that a test would
hardly reach.

## 2. Modules

| module | models | composed with |
|---|---|---|
| `LocationService` | abstract: what a user of the commands sees, one request at a time | |
| `LbsCore` | both threads of the core | `tout` is a platform's answer, see `LbsPlatform`; with AMap implements `LocationService` |
| `LbsPlatform` | abstract: what the core expects of a platform call | |
| `LbsRequest` | parameters and cache entries of both platforms | |
| `LbsAmap`, `LbsOneospos` | the two platforms | each implements `LbsPlatform` |
| `MCLbsPlatforms` | both platforms in one run | |
| `LbsSystem` | the whole service: both threads calling the real platforms | `LbsCore`, `LbsAmap` and `LbsOneospos`; implements `LbsCore` |
| `MCLbsSystem` | symmetry set for TLC | |
| `ConfigStore` | abstract: what a set command may change | |
| `LbsConfig` | configuration files, their writer and readers | implements `ConfigStore` |
| `FileTable` | abstract: table of open files | |
| `OpenFileList` | the linked list and the commands on it | implements `FileTable` |
| `MCOpenFileList` | symmetry sets for TLC | |
| `FileData` | file sizes, stdio streams, the commands that read and write, the data mode | |
| `LbsCoreProofs`, `LbsAmapProofs`, `LbsOneosposProofs`, `LbsSystemProofs`, `LbsConfigProofs`, `OpenFileListProofs`, `FileDataProofs` | theorems | |

Definitions named like `InitAttrIgnoresBusy`, introduced by a comment "Mutant of ...", are wrong
versions of the definition they follow. No specification uses them; `PROJECT.json` pairs each
property with one that breaks it.

### 2.1 LbsCore

An action is a piece of one thread's code between two accesses to what the other may change. The AT
thread: `Locate` (the handler up to the first statement of `cm_lbs_init`), `CreateTask`,
`CreateQuen`, `InitAttr`, `CheckLocation`, `ArmAttr`, `SendLocation`, `ReplySuccess`. The LBS task:
`QueueRev`, `AsynFirst` and `AsynSecond` (the two tests of `s_platform`), `AsynAmap`,
`AsynOneospos`, `Urc`, `DeinitAmap`, `DeinitOneospos`, `OneosposTail`, `FreeUeinfo`.
`Failures` are the calls of the environment that may fail, `Outcomes` what a platform does:

| outcome | code path |
|---|---|
| `ok` / `err` | the platform returns OK and called the callback with a location / an error event |
| `ok_nomem` | as `ok`, but the callback's allocation of the result fails |
| `fail` | the platform returns an error; the caller calls the callback |
| `ueinfo` | the UE information cannot be obtained |
| `forbidden` | the key filter refuses the AMap key |

A NULL dereference ends the process (`crashed`). After a double free it ends or goes on, whichever
the allocator does. A request is the number of the AT command that made it.

Three places are coarser than the code. `AsynLocation` is one step, though
`cm_lbs_asyn_location_amap` and `cm_lbs_asyn_location_oneospos` read the attribute several times
around the platform call (`cm_lbs.c:884-906`, `1125-1139`). With AMap alone nothing is hidden by
this: by `LockInv` the attribute belongs to the task for all of that time. On a mix of platforms a
command that fails may free an attribute the task is using; the model has that free before or after
the step and not between two of its reads. `InitAttr` is one step, though OneOS-POS publishes
its attribute (`cm_lbs.c:1064`) before it sets the callback (`1074`); a task that finds it in between
is not different from one that finds it set and not armed, which the model has (`null_cb`). `Urc`
stands for both callbacks; only that of `AT+MLBSLOC` allocates the buffer of its line, so the model
also lets `AT+MLBS` end in that failure (`null_urcbuf`).

### 2.2 LbsAmap, LbsOneospos

One call is one step: only the LBS task calls a platform, the HTTP exchange is synchronous
(`curl_multi_perform` once, then the callback for the content), and no other event is ever raised.
The URL is written through an uninitialised pointer (AMap) or behind a string literal (OneOS-POS),
and the parser is given a response nobody filled. That is undefined behaviour, so a request that
reaches it may crash, fail or yield any parse result. Not modelled: failed allocations inside the
copy of the parameters, and the text of URL and response. The error `REPEERR` is unreachable: it
tests an unsigned length for -1.

### 2.3 LbsConfig

A set command is two steps: `MLBSCFG_set` (checks, read, `fopen("wb+")`, which truncates) and
`cm_nv_write` (`fwrite` and `fclose`). Between them the LBS task may read the file and the process
may crash. The data leaves the stdio buffer with `fclose` in one `write(2)` below a page, so a file
has all of it or none. A missing and a truncated file both read as the defaults, so `files` holds
what a read yields. Reads, allocations, `fopen`, `fwrite` and `fclose` may all fail. For the
refinement the job under way remembers whether one of its reads failed (`misread`): only then does
`ConfigStore` let the other options of the file become defaults. The NV storage of `AT+MLBSFACTORY` is compiled out. The URC prints the location
with the number of decimals that `cm_lbs_atcmd_string_assign_decimal` leaves, which is not always
the configured one.

### 2.4 OpenFileList

The list is the sequence of reachable nodes. `dangling` says that the pointer after the last
reachable node points to freed memory, `lost` holds the live nodes behind it. The model stops
(`fault`) where a command would use freed memory or a closed stream. Directories are flat; the
contents of files are not modelled. Every file has an identity apart from its name, so that a
renamed file can be recognised.

### 2.5 LbsSystem

`LbsCore` chooses the outcome of a platform call freely; here the LBS task calls
`cm_amap_location` or `cm_oneospos_location`, and the caller does what the code does with the
return value and with the calls of the callback, whatever they are: nothing in `Returned` assumes
that a platform keeps its contract. The statics of both platforms, the clock and the key of each
request are therefore part of the state. A key is chosen with the command and copied into the
attribute by `SystemInitAttr`; the UE information is collected by the LBS task for each call. `got`
is the location the URC of a request showed. `dead` is a process that ended inside a platform. The
clock changes only before a platform call, the only place that reads it.

### 2.6 FileData

One file command is one step, and in the data mode one call of the registered callback is one step
(`Block`, `Timeout`, `Cancel` for ESC); the channel executes no command meanwhile. Contents are
abstracted to sizes: a file is its length, a stream its mode, its position and the number of bytes
in its stdio buffer. `fwrite` may keep any number of bytes that the buffer has room for, and a
`write(2)` may achieve any part of its bytes when the disk is full or failing; the rest is dropped
by the flush that fails, as stdio does. MFREAD answers every fragment it has read with the length of
the whole before it reads the next; `FragSize` is the size of a fragment, halved for HEX output. Of a
position behind the end of the file, `Readable` lets stdio deliver any number of bytes that it may
have read ahead before the file was cut. `MfwriteSize` doubles the announced length in HEX, as
MFWRITE does and MFPUT does not; when the product wraps, `fwrite` reads behind the data, which ends
the process or fails on a file system of less than 2^31 bytes (`WordAssumption`). `Word` is 2^32 scaled down: `Plus` and `Minus` wrap there.
`Handles` are identities of list nodes; which numbers they get, and deletion and renaming, are the
subject of `OpenFileList`. A read of more than the block received (a wrapped length) is undefined
behaviour and ends the model (`crashed`). `stale` says that a failed write has left
`s_file_datamode_recv_length` behind.

## 3. Runs

Passing runs:

| run | distinct states | shows |
|---|---|---|
| `core_amap` | 377 751 | AMap only, four requests, everything may fail: the attribute serialises the requests and is neither missing nor freed early; the LBS task meets a missing queue only before a request was accepted; users see `LocationService`; an unanswered request is queued or being handled, the busy state has an owner, and the task comes back to its queue; every accepted request is answered unless the process ends, and the busy state ends |
| `system` | 5 103 957 | the core with the real platforms, both families in one session, three requests: it does nothing `LbsCore` does not allow, and a URC shows the location of its own request |
| `platforms` | 40 704 | both platforms keep the contract; what an answered request leaves behind is met only while busy |
| `files_all` | 189 706 | unique handles, right count, refinement of the table, deletion closes what was opened under the name |
| `transfer` | 198 032 | one file written through a node and through MFPUT, full disk, failed flushes, wrapped lengths: a report is true, nothing is stored beyond the announced length, a block is stored whole or ends the transfer, bytes behind the data are read only after a count was left behind or where MFWRITE doubles a length, MFREAD reads what it answers, ESC cuts where the transfer began, positions stay inside, every transfer ends |
| `config` | 179 136 | every failure and crashes: stored values are valid, an acknowledged command stored its value or lost its file and never kept the old value, refinement of the store |

Runs that show a disagreement between the code and what it or its comments say (quoted under
`findings`):

| run | shows |
|---|---|
| `core_oneospos` | a OneOS-POS request accepted while the previous callback ends is never answered |
| `core_switch` | the callback of one platform frees a request queued for the other |
| `system_ueinfo` | without any failure of the environment the second AMap request of a session is refused as busy and its UE information is freed twice |
| `files_move` | MFDELETE removes a renamed file that is still open |
| `files_freed` | deletion by name leaves a freed node in the list |
| `transfer_cancel` | ESC cuts the file at the position where MFWRITE began and loses what was behind it |

### Bounds, and why they are enough

- `MaxRequests`: a request interferes with the one before and the one after; three, or four, let a
  request start in every state its predecessors leave, the other platform's included.
- `Ues`, `Keys` of two: same and different parameters. `MaxTime` 2 with `ValidTime` 1: fresh,
  expired and set back.
- `system`: three requests on two platforms of different families, so that one meets what a request
  of its own and one of the other family left; two keys, interchangeable in every action and
  property, so that symmetry is sound; one UE information and `MaxTime` 1, since the `platforms` run
  varies these. An instance with two requests, all three platforms and every failure (3 906 020
  states) was checked once as well; the theorems cover all instances.
- `transfer`: files of up to three bytes, a buffer of one, blocks of up to two: a transfer takes
  several blocks, a block is cut by the announced length, by the full disk and by the buffer. One
  node and `Put` on one file let one stream truncate the file under the other. `Word` 12 is just
  large enough (`WordAssumption`) that a wrapped length differs from every real one. A `FragSize` of
  two, or one with HEX output, makes MFREAD answer a file of three bytes in several fragments, and the
  length 7 is `Word / 2 + 1`, whose double wraps to two.
- `Names`, `Files` of two and `MaxHandle` 5: five nodes on two names, with gaps at the head, in the
  middle and at the end. The bound is a guard of `MFOPEN`; the code has none. Names and files are
  interchangeable in every action and property, so symmetry is sound.
- `Options` in `config`: the method, an option of AMap only and one of both families. The other
  options are handled by the same code as these; the theorems cover all of them.

No run checks deadlock: no user is obliged to send a command, a process that crashed stays
so, the bounds end every behaviour, and `OpenFileList` stops at undefined behaviour.

In `system`, `msgsnd` does not fail. With that failure and a change of the platform, a message left
for the other platform can trigger the callback of a request whose own send then fails, and a
refused request is answered; the theorems on a mix of platforms have the same assumption. The
liveness of `core_amap` says "unless the process ends": the failures "queue" and "malloc" and the
outcomes "fail" and "ok_nomem" may end it.

### Fairness

`FairSpec` has weak fairness of `AtTask` and of `LbsTask`: both are threads that the scheduler
runs, and none of their steps waits for anything but a message. `Locate` has no fairness: a user
need not send a command. `FileData` has weak fairness of `Data` or of `Quiet`: in the data mode the
host goes on sending or, when it does not, the AT framework's timer expires. Neither a command nor
ESC is fair.

## 4. Proofs

- **Core.** `TypeCorrect`: `TypeOK` with the fact that a command in progress has a request
  number. `AnswersCorrect` (assumes `"send" \notin Failures`): the inductive invariant is
  `CommandInv` (what is known of the command in progress), `QueueInv` (without a queue nothing is
  handled) and `OnceInv`, whose main part, `CallbackInv`, says that an armed attribute holds the
  callback of one request that is not answered yet, or that is being released. `AmapSerialised`
  and `AmapFreedAfterAnswer` (assume that only AMap platforms are configured, nothing about
  failures): `LockInv` says that `s_amap_attr` is a lock and which thread holds it, `TurnInv`
  which request is to be answered next. Neither follows without the other: a released lock is only
  safe because the request has been answered, which is only known through the lock.
  `AmapAttrPresent` is a consequence. `QueueRace` holds on every mix of platforms: without a queue
  nothing has been accepted (`StartInv`).
- **Core, whatever fails.** `AtMostOnce` needs no assumption: on every mix of platforms, a failed
  `msgsnd` included, no callback is called twice for a request. `HolderInv` says that the
  callback records of the two families never hold the same request, `UncalledInv` that a callback
  that may still be called has not been called before. The other half of `AnswersMatchRequests` keeps its assumption because
  it is false without it (section 3).
- **Core, the safety half of liveness.** With AMap alone, `AmapNothingLost` and `AmapBusyOwned`: an
  accepted request without an answer is in an armed attribute, with its message in the queue of a
  running task or in that task's hands, and an attribute that is set always has somebody who will
  free it (`NoRequestLost`, `BusyHasOwner`; the inductive `ServedInv` joins the lock of
  `AmapSerialised` with `ThreadInv`, that a task once created does not end).
  `TaskAdvances`: on every mix of platforms each step of the LBS task lowers `15 * msgs +
  StepsLeft`. What is missing to `AnsweredUnlessCrashed` and `BusyEnds` is only that a fair thread
  takes its enabled steps, which TLC checks.
- **Core, as its users see it.** `AmapService`: with AMap alone the core implements
  `LocationService`: one request at a time, accepted ones answered once and before the next, refused
  ones never. The mapping forgets threads, attributes, queue and platforms; the lemma `Refusing`
  carries the case that a command is refused while another request is under way.
- **Platforms.** `AmapBusy` and `OneosposBusy` prove `AnsweredMeansBusy`, and `AmapContract` and
  `OneosposContract` use it to show the refinement of `LbsPlatform`. The static `callback_state`,
  which would swallow a second answer, and the cache, which may hold the location of other
  parameters, would break the contract; they do not, only because nothing ever ends the busy state
  of an answered request. A repair of that defect has to repair these as well.
- **System.** `SystemImplementsCore`: with `BusyInv` (`AnsweredMeansBusy` of both platforms) every
  call keeps the contract (`LbsPlatform`), and a call that keeps it is a step of `LbsCore`'s
  `AsynLocation` or a stutter. The theorems of the core then hold of the service:
  `SystemAnswersCorrect`. `SystemAnswersOwn` needs `OwnInv`: the key in an attribute is that of the
  request whose callback the attribute holds, and the location on its way to the callback is that
  of the attribute's parameters. `SystemTyped` needs `KeyInv`: an attribute that is set holds a
  key. `SystemAtMostOnce`, `SystemNothingLost` and `SystemService` follow from the theorems of the
  core, so that the chain `LbsSystem` => `LbsCore` => `LocationService` is proved from the statics of
  the platforms to what a user sees. Assumptions: `AllowedOutcomes` (the `Outcomes` given to
  `LbsCore` include what a platform may always do: "ok", "err", "fail"); for `SystemAnswersCorrect`
  and `SystemAnswersOwn` also that `msgsnd` does not fail or that the platforms are those of AMap;
  for `SystemNothingLost` and `SystemService` that they are. On a mix of platforms with a failing
  `msgsnd` both are false: the task, working on a message left for the other platform, uses the
  attribute of a request whose own send fails and that the command then frees; the next command
  fills it anew, and the location computed for one is shown to another.
- **List.** `ListInv` (types and ascending handles) is inductive. `StepKinds` shows that every step
  keeps it and does one of five things to the live nodes; the refinement (`ListImplementsTable`)
  and the count (`NumCorrect`) follow from that lemma. `ListTypeCorrect` needs the count: `num`
  is unsigned. `DeletionCloses` needs `NamesDistinct`, that no two names refer to one file, and
  the lemma `RemovalCloses`, that a file is removed only after the streams opened under its name
  are closed.
- **File data.** `TypeOK /\ TransferInv` is inductive; one pass over the actions (`NextStep`) proves
  it together with the three action properties. `TransferInv` relates the static
  `recv_length` to the stream: unless a failed write left it behind, it is exactly how far the
  accepted bytes, the buffered ones included, reach behind the place where the transfer began, it
  is 0 in AT mode, and it never exceeds an announced length. From it follow `FileDataTyped`,
  `NeverBeyondAnnounced`, `ReportIsTrue`, `PositionsAreKept` and `AnswerIsTrue`, for any number
  of files and nodes and any sizes and fragments; the only assumption on the width is that `2^32` is larger than
  twice the largest file plus a block (`WordAssumption`). `BlocksAreWhole` is what bounds a transfer
  (each block after which it goes on moves the end by its length), `OverreadIsExplained` that nothing
  but a failed write before makes the length of a block wrap, and nothing but the doubling in MFWRITE
  the length of a command. `AnswerIsTrue` is about reads that begin inside the file and whose flush
  drops nothing: in the other cases the code does answer wrapped lengths (section 5). `CancelRestoresStart` needs a further
  invariant, `CancelInv`: ESC asks `ftell`, which for an append stream with an empty buffer is the
  position and not where it appends; the two agree once the transfer has received a byte.
- **Configuration.** `ConfigType` is inductive. `AcknowledgedIsStored` (assumes that `fclose` does
  not fail) needs `WriteAcks`: the buffer holds the value. `AcknowledgedOrLost` has no assumption:
  even with failing `fclose` and reads an acknowledged set command left the new value or an empty
  file, and never the old value. `ConfigImplementsStore` has none either; it needs `WriteInv`: between
  `fopen` and the end of the write the file is that of the method or of the platform read, it reads as
  the defaults, and the buffer differs in one option from the old content or, after a failed read,
  from the defaults.

The theorems hold for every value of the constants that satisfies the named `ASSUME`s.

Only model-checked: liveness (`AnsweredUnlessCrashed`, `BusyEnds`, `TransferEnds`), which this prover
does not reach, and the six disagreements, which are counterexamples. Every invariant,
every action property and every refinement of a passing run is also the statement of a theorem.

## 5. Defects met while modelling that have no run

They follow from one line each, or depend on undefined behaviour or on code outside the repository.

Core
- The LBS thread is started before its queue exists and dereferences NULL if it runs first
  (`CreateTask`, then `QueueRev`: fault `null_queue`).
- A failed queue creation leaves `cm_lbs_task` set, so every later request fails.
- When the callback cannot allocate the result it reports success with a NULL location, which the
  AT callback dereferences (`ok_nomem`).
- `cm_lbs_atcmd_location_urc_rsp` clears the buffer of its line before it heeds that the allocation
  failed (`null_urcbuf`).
- `AT+MLBS` compares the result of `cm_lbs_location` with codes of another enumeration: a failed
  send (-3) is answered as a parameter error.

Platforms
- When OneOS-POS gets only one of its two curl handles, it keeps that one and fails; every later
  request finds one handle set and one missing and fails as well.
- A repeated request within two hours is refused as busy, though a comment says that the last
  location is returned: the client of an answered request is never deleted (`AnsweredMeansBusy`).
- The curl handle is released through a copy of the pointer and used again.
- OneOS-POS frees its content twice after a failed post, tests an unsigned length for -1, and sends
  the content only on an event that is never raised.

Configuration
- `cm_nv_write` ignores the result of `fclose`, where the data is written: a full disk empties the
  file and the command is answered OK.
- A crash between truncation and write loses all options of the platform.
- `cm_nv_read` does not close the file on a short read, and a failed read looks like a missing file,
  so that the next set writes the defaults over all other options.
- The URC reads method and options when it is printed: it may use the other platform's format, or
  the defaults while a set command is writing.
- The number of decimals is not always the configured one, though the comment of
  `cm_lbs_atcmd_string_assign_decimal` says that it is: a location with eight decimals is printed
  with eight, and zeros are appended to a number without a point, which changes its value.
- A key that fills its field is stored without a terminator.
- OneOS-POS shows the built-in pid while no file exists, and an empty one once any other option has
  been set.

Files
- A failed `fclose` in MFCLOSE leaves a node with a closed stream (fault `closed_stream`).
- The number of open files is not limited, though there is an error code for it; handles below the
  head of the list are not reused, so they can grow beyond what a command can name. The comment
  says that handles start at 2, the constant is 1.
- A failed `fwrite` in the data mode does not reset the received length, so that the next transfer
  starts with it: its report is too large, it ends early, and once the old count exceeds the new
  length the difference wraps and more is read than was received.
- The announced length is stored before the data mode is entered; when that is refused it stays.
- MFPUT empties the file before it looks at its data, so that a refused MFPUT has still emptied it,
  and it ignores the result of `fclose`, which is where a full disk shows (`reply.lost`).
- `cm_file_get_size_by_file_point` ignores a failed `fseek`: after a failed flush the position is
  taken for the size, and it stays behind the end of the file.
- MFREAD from a position behind the end of the file, or after a flush that failed, computes
  `fsize - curPos` below zero: every fragment that stdio delivers is answered with a length of nearly
  2^32, though the comment at `cm_file_at_cmd.c:999` says that it is what can be read up to the end.
- MFWRITE with the HEX format compares the data with `fsize * 2` in 32 bits: an announced length of
  2^31 plus the real one passes, and `fwrite` is given that many bytes of a short buffer. On a file
  system that could hold them the command would also answer that length.
- `is_fs_OverFlow` adds a signed offset to an unsigned position; the test for a negative sum is
  never true, and the sum wraps for files of more than 2 GB.
- `AT+MFCFG="encoding"` without its first value stores 65535 as the input format; MFWRITE then writes
  nothing and answers with an error.
- MFSYNC calls `fsync` without `fflush`, and MFGET and MFSIZE open the file anew: bytes that an
  acknowledged MFWRITE left in the buffer are neither synchronised nor seen.
- MFREAD does not free its buffer on success; MFOPEN uses an allocation it does not check; MFSIZE
  answers an empty file with an error; MFLIST does not close its directory on an error.
- `fs_md5` of MFCHECK hashes one byte of every eight.

## 6. Not modelled

- `coordinate.c`: stateless floating-point trigonometry.
- The layout of URCs and URLs, JSON, MD5: no property here depends on the text.
- The modem queries and the AT framework: external, and not in the repository.
- `main.c`, the build and the third-party libraries.
- Of libfs: MFLIST, MFSIZE, MFSINFO, MFGET and MFCHECK, which change neither a file nor the list;
  the options of MFCFG that only lay out replies; contents of files beyond their length. MFSYNC
  changes nothing the model keeps: it writes no byte out of a stdio buffer.
- Interleaving of two AT channels during a data mode: whether there are two is decided by the AT
  framework.

## 7. Plan

Done, in this order: `LbsCore` with its proofs, `OpenFileList`, the platforms, `LbsConfig`,
`LbsSystem` with the refinement of `LbsCore`, `FileData` with the data mode, the proofs of every
safety property that a run checks, and `LocationService` with its refinement.

What could follow: `__cm_lbs_data_to_hex` and the list of neighbour cells with its length limit, as
functions checked against a reference definition. The other parts of the repository are listed in
section 6 with the reason why they are left out.
