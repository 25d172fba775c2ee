----------------------------- MODULE LbsConfig ------------------------------
(***************************************************************************)
(* The configuration of the LBS service, cm_lbs_api.c: AT+MLBSCFG writes   *)
(* it, AT+MLBSLOC and the URC of the LBS task read it.  The method is one  *)
(* file, the options of each platform are another.  A set command reads    *)
(* the whole file, changes one option and writes the whole file back;      *)
(* cm_nv_write first truncates it, and the data reaches it with fclose.    *)
(*                                                                         *)
(* Two tasks interleave, and the process may crash between any two steps.  *)
(***************************************************************************)
EXTENDS Integers

CONSTANTS
    Options,                \* the options considered
    Keys, NoKey,            \* values of apikey, signkey, pid; the empty one
    LongKey,                \* a key that does not fit its field
    CM_LBS_PRECISION_MIN, CM_LBS_PRECISION_MAX,
    NULL,
    Failures                \* the calls that may fail, see AllFailures

AllOptions  == {"method", "apikey", "signkey", "pid", "signen", "precision",
                "format", "nearbtsen", "oneoscoordinate"}
AllFailures == {"malloc", "read", "open", "write", "close"}

ASSUME OptionsAssumption   == Options \subseteq AllOptions /\ "method" \in Options
ASSUME KeysAssumption      == NoKey \notin Keys /\ LongKey \notin Keys \cup {NoKey}
ASSUME PrecisionAssumption ==
    /\ CM_LBS_PRECISION_MIN \in Nat /\ CM_LBS_PRECISION_MAX \in Nat
    /\ CM_LBS_PRECISION_MIN <= CM_LBS_PRECISION_MAX
ASSUME NullAssumption      == NULL \notin {"AMAP10", "AMAP20", "ONEOSPOS"}
ASSUME FailuresAssumption  == Failures \subseteq AllFailures

Platforms  == {"AMAP10", "AMAP20", "ONEOSPOS"}
Files      == {"atcmd"} \cup Platforms
KeyOptions == {"apikey", "signkey", "pid"}

\* The options a file holds.
OptionsOf(f) ==
    Options \cap
    CASE f = "atcmd"    -> {"method"}
      [] f = "ONEOSPOS" -> {"pid", "precision", "nearbtsen", "oneoscoordinate"}
      [] OTHER          -> {"apikey", "signkey", "signen", "precision",
                            "format", "nearbtsen"}

Values(o) ==
    CASE o = "method"     -> Platforms
      [] o = "precision"  -> CM_LBS_PRECISION_MIN..CM_LBS_PRECISION_MAX
      [] o \in KeyOptions -> Keys \cup {NoKey}
      [] OTHER            -> {0, 1}

\* What a command may ask for: -1 and 2 stand for a number out of range and
\* for text that is no number.
Inputs(o) ==
    CASE o = "method"     -> Platforms \cup {NULL}
      [] o = "precision"  -> (CM_LBS_PRECISION_MIN - 1)..(CM_LBS_PRECISION_MAX + 1)
      [] o \in KeyOptions -> Keys \cup {NoKey, LongKey}
      [] OTHER            -> -1..2

\* What a read that fails leaves in its place.
Default(f) ==
    [o \in OptionsOf(f) |->
        CASE o = "method"          -> "ONEOSPOS"
          [] o = "precision"       -> CM_LBS_PRECISION_MAX
          [] o = "oneoscoordinate" -> 1
          [] o \in KeyOptions      -> NoKey
          [] OTHER                 -> 0]

VARIABLES
    files,      \* file |-> what a read yields: an absent or truncated file
                \* yields the defaults
    pc,         \* AT task: "idle", or "write" between fopen and fclose
    job,        \* the set command it executes or executed last
    reply,      \* its answer: "none", "OK" or "ERR"
    located,    \* platform of the request the LBS task works on, or NULL
    urc,        \* platform whose format its URC uses, or NULL
    shown       \* decimals in the last URC

vars == <<files, pc, job, reply, located, urc, shown>>

Config(f, c) == /\ c = [o \in OptionsOf(f) |-> c[o]]
                /\ \A o \in OptionsOf(f) : c[o] \in Values(o)

\* The types: a stored option is always one of the values it may have, and
\* the number of decimals in a URC is one of them too, or 0.
TypeOK ==
    /\ files = [f \in Files |-> files[f]]
    /\ \A f \in Files : Config(f, files[f])
    /\ pc \in {"idle", "write"}
    /\ job.file \in Files
    /\ job.option \in OptionsOf(job.file)
    /\ job.value \in Values(job.option)
    /\ Config(job.file, job.data) /\ Config(job.file, job.old)
    /\ job.misread \in BOOLEAN
    /\ reply \in {"none", "OK", "ERR"}
    /\ located \in Platforms \cup {NULL}
    /\ urc \in Platforms \cup {NULL}
    /\ "precision" \in Options => shown \in Values("precision") \cup {0}

Init ==
    /\ files = [f \in Files |-> Default(f)]
    /\ pc = "idle"
    /\ job = [file |-> "atcmd", option |-> "method", value |-> "ONEOSPOS",
              data |-> Default("atcmd"), old |-> Default("atcmd"),
              misread |-> FALSE]
    /\ reply = "none"
    /\ located = NULL /\ urc = NULL
    /\ shown = CM_LBS_PRECISION_MAX

\* The configurations a read of file f may yield.
__cm_lbs_FileRead(f) ==
    {files[f]} \cup IF "read" \in Failures THEN {Default(f)} ELSE {}

\* The platforms the method file may select.
cm_lbs_atcmd_getplatform == {c["method"] : c \in __cm_lbs_FileRead("atcmd")}

(***************************************************************************)
(* The AT task: AT+MLBSCFG="option","value".                               *)
(***************************************************************************)

\* Mutant of Accepted: the upper bound of the numbers is off by one.
AcceptedOffByOne(o, v) ==
    CASE o = "precision" -> v \in CM_LBS_PRECISION_MIN..(CM_LBS_PRECISION_MAX + 1)
      [] OTHER           -> v \in Values(o)

Accepted(o, v) ==
    CASE o = "method"     -> v # NULL
      [] o = "precision"  -> v >= CM_LBS_PRECISION_MIN /\ v <= CM_LBS_PRECISION_MAX
      [] o \in KeyOptions -> v # LongKey
      [] OTHER            -> v >= 0 /\ v <= 1

Refuse ==
    /\ reply' = "ERR"
    /\ UNCHANGED <<files, pc, job>>

\* Mutant of ChangeOption: the other options start from the defaults.
ChangeOptionOfDefaults(p, o, v) ==
    IF o \in OptionsOf(p)
    THEN {[file |-> p, option |-> o, value |-> v,
           data |-> [Default(p) EXCEPT ![o] = v], old |-> files[p],
           misread |-> FALSE]}
    ELSE {}

\* The file is read, one option changed and the whole written back.  For the
\* observer the job keeps what the file held and whether a read failed.
ChangeOption(p, o, v) ==
    IF o \in OptionsOf(p)
    THEN {[file |-> p, option |-> o, value |-> v,
           data |-> [c EXCEPT ![o] = v], old |-> files[p],
           misread |-> c # files[p] \/ p # files["atcmd"]["method"]] :
             c \in __cm_lbs_FileRead(p)}
    ELSE {}

__oneospos_cm_lbs_atcmd_setoption(o, v) == ChangeOption("ONEOSPOS", o, v)

\* The method is written without being read first.
__amap_cm_lbs_atcmd_setoption(p, o, v) ==
    IF o = "method"
    THEN {[file |-> "atcmd", option |-> o, value |-> v,
           data |-> [x \in {"method"} |-> v], old |-> files["atcmd"],
           misread |-> FALSE]}
    ELSE ChangeOption(p, o, v)

\* The file to write and its new content; none if the platform lacks the
\* option.
cm_lbs_atcmd_setoption(p, o, v) ==
    IF o # "method" /\ p = "ONEOSPOS"
    THEN __oneospos_cm_lbs_atcmd_setoption(o, v)
    ELSE __amap_cm_lbs_atcmd_setoption(p, o, v)

\* Mutant of fopen_wb: the file is opened for update.
fopen_rb(f) == files[f]

\* fopen with "wb+" truncates the file.
fopen_wb(f) == Default(f)

\* The option is refused, or the file opened for writing.
MLBSCFG_set(o, v) ==
    /\ pc = "idle"
    /\ \E p \in cm_lbs_atcmd_getplatform :
          \/ /\ \/ ~Accepted(o, v)
                \/ cm_lbs_atcmd_setoption(p, o, v) = {}
                \/ Failures \cap {"malloc", "open"} # {}
             /\ Refuse
          \/ /\ Accepted(o, v)
             /\ \E j \in cm_lbs_atcmd_setoption(p, o, v) :
                   /\ job' = j
                   /\ files' = [files EXCEPT ![j.file] = fopen_wb(j.file)]
             /\ pc' = "write"
             /\ reply' = "none"
    /\ UNCHANGED <<located, urc, shown>>

\* fwrite and fclose: the data is written, or fwrite fails, or fclose does
\* and nobody looks.
cm_nv_write ==
    /\ pc = "write"
    /\ pc' = "idle"
    /\ \/ /\ files' = [files EXCEPT ![job.file] = job.data]
          /\ reply' = "OK"
       \/ /\ "write" \in Failures
          /\ reply' = "ERR"
          /\ UNCHANGED files
       \/ /\ "close" \in Failures
          /\ reply' = "OK"
          /\ UNCHANGED files
    /\ UNCHANGED <<job, located, urc, shown>>

(***************************************************************************)
(* AT+MLBSLOC, and the URC of the LBS task.                                *)
(***************************************************************************)

\* AMap needs a key; OneOS-POS falls back to the built-in pid.
MLBSLOC ==
    /\ pc = "idle"
    /\ located = NULL
    /\ \E p \in cm_lbs_atcmd_getplatform : \E c \in __cm_lbs_FileRead(p) :
          /\ "apikey" \in OptionsOf(p) => c["apikey"] # NoKey
          /\ located' = p
    /\ reply' = "none"
    /\ UNCHANGED <<files, pc, job, urc, shown>>

\* The format is that of the method at the time of the URC.
UrcPlatform ==
    /\ located # NULL /\ urc = NULL
    /\ urc' \in cm_lbs_atcmd_getplatform
    /\ UNCHANGED <<files, pc, job, reply, located, shown>>

\* The decimals left of a number with n, -1 for a number without a point:
\* the zeros are then appended to the integer.
cm_lbs_atcmd_string_assign_decimal(n, count) ==
    CASE n = CM_LBS_PRECISION_MAX -> n
      [] n = -1                   -> 0
      [] OTHER                    -> count

\* The URC is formatted with the number of decimals configured now.
UrcDecimals ==
    /\ \E c \in __cm_lbs_FileRead(urc), n \in -1..(CM_LBS_PRECISION_MAX + 1) :
          shown' = IF "precision" \in Options
                   THEN cm_lbs_atcmd_string_assign_decimal(n, c["precision"])
                   ELSE shown
    /\ located' = NULL /\ urc' = NULL
    /\ UNCHANGED <<files, pc, job, reply>>

__cm_lbs_atcmd_amap_location_urc_rsp ==
    urc \in {"AMAP10", "AMAP20"} /\ UrcDecimals

__cm_lbs_atcmd_oneospos_location_urc_rsp ==
    urc = "ONEOSPOS" /\ UrcDecimals

\* The location failed, or the URC ran out of memory.
UrcError ==
    /\ located # NULL
    /\ located' = NULL /\ urc' = NULL
    /\ UNCHANGED <<files, pc, job, reply, shown>>

\* The process ends and is started again: only the files remain.
Crash ==
    /\ pc' = "idle"
    /\ reply' = "none"
    /\ located' = NULL /\ urc' = NULL
    /\ UNCHANGED <<files, job, shown>>

SetCommand == \E o \in Options : \E v \in Inputs(o) : MLBSCFG_set(o, v)

Urc == \/ UrcPlatform \/ UrcError
       \/ __cm_lbs_atcmd_amap_location_urc_rsp
       \/ __cm_lbs_atcmd_oneospos_location_urc_rsp

Next == SetCommand \/ cm_nv_write \/ MLBSLOC \/ Urc \/ Crash

Spec == Init /\ [][Next]_vars

(***************************************************************************)
(* Properties.                                                             *)
(***************************************************************************)

\* A command that AT+MLBSCFG acknowledged left its file with the value asked
\* for or, when fclose failed, which nobody looks at, with nothing at all:
\* never with the old value or with something else.
AckedOrLost ==
    pc = "idle" /\ reply = "OK" =>
        \/ files[job.file] = job.data /\ job.data[job.option] = job.value
        \/ files[job.file] = Default(job.file)

\* While a file is being written the store still holds what was there.
conf == [f \in Files |-> IF pc = "write" /\ job.file = f THEN job.old
                                                         ELSE files[f]]

misread == job.misread

Store == INSTANCE ConfigStore

\* The files implement the store: over any interleaving of commands, URCs,
\* failed reads and writes and crashes, a command changes one option of the
\* selected platform, or loses the one file it was writing.  A failed read
\* costs the other options of that file and no more.
ImplementsConfigStore == Store!Spec
=============================================================================
