-------------------------- MODULE LbsConfigProofs ---------------------------
(***************************************************************************)
(* The configuration files keep their types, hold what was acknowledged or *)
(* nothing, and implement ConfigStore, whatever calls fail.  The last two  *)
(* need WriteAcks and WriteInv: what is known of the command between fopen *)
(* and fclose.                                                             *)
(***************************************************************************)
EXTENDS LbsConfig, TLAPS

\* Between fopen and fclose: the buffer holds the value asked for, the file
\* written is the method or the selected platform's, and the buffer differs
\* from what the file held in that option only; after a failed read, from the
\* defaults.
WriteAcks == pc = "write" => job.data[job.option] = job.value

JobInv(j) ==
    /\ \/ j.file = "atcmd"
       \/ j.file = files["atcmd"]["method"]
       \/ j.misread /\ j.file = Default("atcmd")["method"]
    /\ \/ j.data = [j.old EXCEPT ![j.option] = j.value]
       \/ j.misread /\ j.data = [Default(j.file) EXCEPT ![j.option] = j.value]

WriteInv == pc = "write" => JobInv(job) /\ files[job.file] = Default(job.file)

\* AckedStored holds while fclose does not fail.
AckedStored ==
    pc = "idle" /\ reply = "OK" => files[job.file][job.option] = job.value

\* The defaults are a configuration of every file.
LEMMA DefaultConfig == \A f \in Files : Config(f, Default(f))
<1> SUFFICES ASSUME NEW f \in Files PROVE Config(f, Default(f))
  OBVIOUS
<1>1. Default(f) = [o \in OptionsOf(f) |-> Default(f)[o]]
  BY DEF Default
<1>2. ASSUME NEW o \in OptionsOf(f) PROVE Default(f)[o] \in Values(o)
  BY PrecisionAssumption DEF Default, Values, Platforms, KeyOptions
<1> QED
  BY <1>1, <1>2 DEF Config

\* The method file holds the method, which is a platform.
LEMMA MethodType ==
    ASSUME NEW c, Config("atcmd", c)
    PROVE  c = [x \in {"method"} |-> c["method"]] /\ c["method"] \in Platforms
<1>1. OptionsOf("atcmd") = {"method"}
  BY OptionsAssumption DEF OptionsOf
<1>2. c = [o \in {"method"} |-> c[o]] /\ c["method"] \in Values("method")
  BY <1>1 DEF Config
<1>3. c["method"] \in Platforms
  <2>1. Values("method") = Platforms
    BY DEF Values, KeyOptions
  <2> QED
    BY <1>2, <2>1
<1>4. [o \in {"method"} |-> c[o]] = [x \in {"method"} |-> c["method"]]
  OBVIOUS
<1> QED
  BY <1>2, <1>3, <1>4

\* A value a command accepts is one of the option's.
LEMMA AcceptedValue ==
    ASSUME NEW o \in Options, NEW v \in Inputs(o), Accepted(o, v)
    PROVE  v \in Values(o)
<1>1. CASE o = "method"
  BY <1>1 DEF Inputs, Accepted, Values, Platforms
<1>2. CASE o = "precision"
  BY <1>2, PrecisionAssumption DEF Inputs, Accepted, Values
<1>3. CASE o \in KeyOptions
  BY <1>3 DEF Inputs, Accepted, Values, KeyOptions
<1>4. CASE o \notin KeyOptions \cup {"method", "precision"}
  <2>1. v \in -1..2 /\ v >= 0 /\ v <= 1
    BY <1>4 DEF Inputs, Accepted, KeyOptions
  <2>2. v \in {0, 1}
    BY <2>1
  <2> QED
    BY <1>4, <2>2 DEF Values, KeyOptions
<1> QED
  BY <1>1, <1>2, <1>3, <1>4

\* A read yields a configuration of the file.
LEMMA ReadConfig ==
    ASSUME TypeOK, NEW f \in Files, NEW c \in __cm_lbs_FileRead(f)
    PROVE  Config(f, c)
BY DefaultConfig DEF TypeOK, __cm_lbs_FileRead

\* The platform read is a platform.
LEMMA PlatformType ==
    ASSUME TypeOK, NEW p \in cm_lbs_atcmd_getplatform
    PROVE  p \in Platforms
<1>1. PICK c \in __cm_lbs_FileRead("atcmd") : p = c["method"]
  BY DEF cm_lbs_atcmd_getplatform
<1> QED
  BY <1>1, ReadConfig, MethodType DEF Files

\* What cm_lbs_atcmd_setoption hands to the write: a well-typed job for the method or a
\* selected platform that carries the value.
LEMMA JobType ==
    ASSUME TypeOK, NEW p \in cm_lbs_atcmd_getplatform,
           NEW o \in Options, NEW v \in Values(o),
           NEW j \in cm_lbs_atcmd_setoption(p, o, v)
    PROVE  /\ j.file \in Files
           /\ j.option \in OptionsOf(j.file)
           /\ j.value \in Values(j.option)
           /\ Config(j.file, j.data)
           /\ Config(j.file, j.old)
           /\ j.data[j.option] = j.value
           /\ j.old = files[j.file]
           /\ j.misread \in BOOLEAN
<1>1. CASE o = "method"
  <2>1. j = [file |-> "atcmd", option |-> o, value |-> v,
             data |-> [x \in {"method"} |-> v], old |-> files["atcmd"],
             misread |-> FALSE]
    BY <1>1 DEF cm_lbs_atcmd_setoption, __amap_cm_lbs_atcmd_setoption
  <2>2. OptionsOf("atcmd") = {"method"} /\ "atcmd" \in Files
    BY OptionsAssumption DEF OptionsOf, Files
  <2>3. Config("atcmd", [x \in {"method"} |-> v])
    BY <1>1, <2>2 DEF Config
  <2>4. Config("atcmd", files["atcmd"])
    BY <2>2 DEF TypeOK
  <2> QED
    BY <1>1, <2>1, <2>2, <2>3, <2>4
<1>2. CASE o # "method"
  <2>1. PICK c \in __cm_lbs_FileRead(p) :
             /\ o \in OptionsOf(p)
             /\ j = [file |-> p, option |-> o, value |-> v,
                     data |-> [c EXCEPT ![o] = v], old |-> files[p],
                     misread |-> c # files[p] \/ p # files["atcmd"]["method"]]
    BY <1>2 DEF cm_lbs_atcmd_setoption, __amap_cm_lbs_atcmd_setoption,
                __oneospos_cm_lbs_atcmd_setoption, ChangeOption
  <2>2. p \in Files
    BY PlatformType DEF Files
  <2>3. Config(p, c) /\ Config(p, files[p])
    BY <2>2, ReadConfig DEF TypeOK
  <2>4. Config(p, [c EXCEPT ![o] = v]) /\ [c EXCEPT ![o] = v][o] = v
    <3> DEFINE d == [c EXCEPT ![o] = v]
    <3>1. o \in OptionsOf(p) /\ d = [c EXCEPT ![o] = v]
      BY <2>1
    <3> HIDE DEF d
    <3>2. c = [x \in OptionsOf(p) |-> c[x]] /\ \A x \in OptionsOf(p) : c[x] \in Values(x)
      BY <2>3 DEF Config
    <3>3. d = [x \in OptionsOf(p) |-> IF x = o THEN v ELSE c[x]]
      BY <3>1, <3>2
    <3>4. d = [x \in OptionsOf(p) |-> d[x]] /\ d[o] = v
      BY <3>1, <3>3
    <3>5. \A x \in OptionsOf(p) : d[x] \in Values(x)
      BY <3>2, <3>3
    <3> QED
      BY <3>4, <3>5 DEF d, Config
  <2> QED
    BY <2>1, <2>2, <2>3, <2>4
<1> QED
  BY <1>1, <1>2
\* Every step keeps the types.
LEMMA TypeNext == TypeOK /\ [Next]_vars => TypeOK'
<1> SUFFICES ASSUME TypeOK, [Next]_vars PROVE TypeOK'
  OBVIOUS
<1>1. CASE UNCHANGED vars
  BY <1>1 DEF vars, TypeOK, Config
<1>2. ASSUME NEW o \in Options, NEW v \in Inputs(o), MLBSCFG_set(o, v)
      PROVE  TypeOK'
  <2>1. CASE Refuse
    BY <1>2, <2>1 DEF MLBSCFG_set, Refuse, TypeOK, Config
  <2>2. CASE ~Refuse
    <3>1. v \in Values(o)
      BY <1>2, <2>2, AcceptedValue DEF MLBSCFG_set
    <3>p. PICK p \in cm_lbs_atcmd_getplatform :
              \E j \in cm_lbs_atcmd_setoption(p, o, v) :
               job' = j /\ files' = [files EXCEPT ![j.file] = Default(j.file)]
      BY <1>2, <2>2 DEF MLBSCFG_set, fopen_wb
    <3>2. PICK j \in cm_lbs_atcmd_setoption(p, o, v) :
               job' = j /\ files' = [files EXCEPT ![j.file] = Default(j.file)]
      BY <3>p
    <3>3. /\ j.file \in Files /\ j.option \in OptionsOf(j.file)
          /\ j.value \in Values(j.option)
          /\ Config(j.file, j.data) /\ Config(j.file, j.old)
          /\ j.misread \in BOOLEAN
      BY <3>1, JobType
    <3>4. files' = [f \in Files |-> files'[f]]
      BY <3>2, <3>3 DEF TypeOK
    <3>5. \A f \in Files : Config(f, files'[f])
      <4> TAKE f \in Files
      <4>1. files'[f] = IF f = j.file THEN Default(j.file) ELSE files[f]
        BY <3>2 DEF TypeOK
      <4>2. Config(f, files[f]) /\ Config(f, Default(f))
        BY DefaultConfig DEF TypeOK
      <4> QED
        BY <4>1, <4>2
    <3>6. /\ pc' = "write" /\ reply' = "none"
          /\ UNCHANGED <<located, urc, shown>>
      BY <1>2, <2>2 DEF MLBSCFG_set, fopen_wb
    <3> QED
      BY <3>2, <3>3, <3>4, <3>5, <3>6 DEF TypeOK, Config
  <2> QED
    BY <2>1, <2>2
<1>3. CASE cm_nv_write
  <2>1. job.file \in Files /\ Config(job.file, job.data)
    BY DEF TypeOK
  <2>2. \/ files' = files
        \/ files' = [files EXCEPT ![job.file] = job.data]
    BY <1>3 DEF cm_nv_write
  <2>3. files' = [f \in Files |-> files'[f]]
    BY <2>1, <2>2 DEF TypeOK
  <2>4. \A f \in Files : Config(f, files'[f])
    <3> TAKE f \in Files
    <3>1. \/ files'[f] = files[f]
          \/ f = job.file /\ files'[f] = job.data
      BY <2>1, <2>2 DEF TypeOK
    <3>2. Config(f, files[f])
      BY DEF TypeOK
    <3> QED
      BY <2>1, <3>1, <3>2
  <2>5. /\ pc' = "idle" /\ reply' \in {"OK", "ERR"}
        /\ UNCHANGED <<job, located, urc, shown>>
    BY <1>3 DEF cm_nv_write
  <2> QED
    BY <2>3, <2>4, <2>5 DEF TypeOK, Config
<1>4. CASE MLBSLOC
  <2>1. located' \in Platforms
    BY <1>4, PlatformType DEF MLBSLOC
  <2> QED
    BY <1>4, <2>1 DEF MLBSLOC, TypeOK, Config
<1>5. CASE UrcPlatform
  <2>1. urc' \in Platforms
    BY <1>5, PlatformType DEF UrcPlatform
  <2> QED
    BY <1>5, <2>1 DEF UrcPlatform, TypeOK, Config
<1>6. CASE urc \in Platforms /\ UrcDecimals
  <2>1. PICK c \in __cm_lbs_FileRead(urc), n \in -1..(CM_LBS_PRECISION_MAX + 1) :
             shown' = IF "precision" \in Options
                      THEN cm_lbs_atcmd_string_assign_decimal(n, c["precision"])
                      ELSE shown
    BY <1>6 DEF UrcDecimals
  <2>2. urc \in Platforms
    BY <1>6 DEF UrcDecimals, TypeOK
  <2>3. Config(urc, c)
    BY <2>2, ReadConfig DEF Files
  <2>4. "precision" \in Options => "precision" \in OptionsOf(urc)
    BY <2>2 DEF OptionsOf, Platforms
  <2>5. "precision" \in Options => shown' \in Values("precision") \cup {0}
    <3>1. CM_LBS_PRECISION_MAX \in Values("precision")
      BY PrecisionAssumption DEF Values, KeyOptions
    <3>2. "precision" \in Options => c["precision"] \in Values("precision")
      BY <2>3, <2>4 DEF Config
    <3> QED
      BY <2>1, <3>1, <3>2 DEF cm_lbs_atcmd_string_assign_decimal
  <2>6. located' = NULL /\ urc' = NULL /\ UNCHANGED <<files, pc, job, reply>>
    BY <1>6 DEF UrcDecimals
  <2> QED
    BY <2>5, <2>6 DEF TypeOK, Config
<1>7. CASE UrcError
  BY <1>7 DEF UrcError, TypeOK, Config
<1>8. CASE Crash
  BY <1>8 DEF Crash, TypeOK, Config
<1> QED
  BY <1>1, <1>2, <1>3, <1>4, <1>5, <1>6, <1>7, <1>8 DEF Next, SetCommand, Platforms,
          Urc, __cm_lbs_atcmd_amap_location_urc_rsp,
          __cm_lbs_atcmd_oneospos_location_urc_rsp

\* The types hold initially.
LEMMA TypeInit == Init => TypeOK
<1> SUFFICES ASSUME Init PROVE TypeOK
  OBVIOUS
<1>1. \A f \in Files : Config(f, files[f])
  BY DefaultConfig DEF Init
<1>2. Config("atcmd", Default("atcmd"))
  BY DefaultConfig DEF Files
<1>3. "method" \in OptionsOf("atcmd") /\ "ONEOSPOS" \in Values("method")
  BY OptionsAssumption DEF OptionsOf, Values, Platforms, KeyOptions
<1>4. CM_LBS_PRECISION_MAX \in Values("precision")
  <2>1. Values("precision") = CM_LBS_PRECISION_MIN..CM_LBS_PRECISION_MAX
    BY DEF Values, KeyOptions
  <2> QED
    BY <2>1, PrecisionAssumption
<1> QED
  BY <1>1, <1>2, <1>3, <1>4 DEF Init, TypeOK, Files

\* The configuration files and the two tasks keep their types: no command,
\* failure or crash stores a value that AT+MLBSCFG would refuse, or makes a
\* URC use one.
THEOREM ConfigType == Spec => []TypeOK
<1> QED
  BY TypeInit, TypeNext, PTL DEF Spec

(***************************************************************************)
(* An acknowledged command is in the file.                                 *)
(***************************************************************************)

\* A step keeps AckedStored and WriteAcks if fclose does not fail: only
\* cm_nv_write answers OK, after it has put the buffer into the file.
LEMMA AckNext ==
    ASSUME "close" \notin Failures, TypeOK, AckedStored, WriteAcks, [Next]_vars
    PROVE  AckedStored' /\ WriteAcks'
<1>1. CASE UNCHANGED vars
  BY <1>1 DEF vars, AckedStored, WriteAcks
<1>2. ASSUME NEW o \in Options, NEW v \in Inputs(o), MLBSCFG_set(o, v)
      PROVE  AckedStored' /\ WriteAcks'
  <2>1. CASE Refuse
    BY <1>2, <2>1 DEF MLBSCFG_set, Refuse, AckedStored, WriteAcks
  <2>2. CASE ~Refuse
    <3>1. v \in Values(o) /\ pc' = "write"
      BY <1>2, <2>2, AcceptedValue DEF MLBSCFG_set
    <3>p. PICK p \in cm_lbs_atcmd_getplatform :
              \E j \in cm_lbs_atcmd_setoption(p, o, v) : job' = j
      BY <1>2, <2>2 DEF MLBSCFG_set, fopen_wb
    <3>2. PICK j \in cm_lbs_atcmd_setoption(p, o, v) : job' = j
      BY <3>p
    <3> QED
      BY <3>1, <3>2, JobType DEF AckedStored, WriteAcks
  <2> QED
    BY <2>1, <2>2
<1>3. CASE cm_nv_write
  <2>1. pc = "write" /\ pc' = "idle" /\ job' = job
    BY <1>3 DEF cm_nv_write
  <2>2. CASE reply' = "OK"
    <3>1. files' = [files EXCEPT ![job.file] = job.data]
      BY <1>3, <2>2 DEF cm_nv_write
    <3>2. files'[job.file] = job.data
      BY <3>1 DEF TypeOK
    <3> QED
      BY <2>1, <3>2 DEF AckedStored, WriteAcks
  <2> QED
    BY <2>1, <2>2 DEF AckedStored, WriteAcks
<1>4. CASE MLBSLOC \/ UrcPlatform \/ UrcDecimals \/ UrcError \/ Crash
  BY <1>4 DEF MLBSLOC, UrcPlatform, UrcDecimals, UrcError, Crash, AckedStored, WriteAcks
<1> QED
  BY <1>1, <1>2, <1>3, <1>4 DEF Next, SetCommand,
          Urc, __cm_lbs_atcmd_amap_location_urc_rsp,
          __cm_lbs_atcmd_oneospos_location_urc_rsp

\* A setting that AT+MLBSCFG acknowledged is stored, whatever else fails or
\* is interleaved, as long as fclose, whose result cm_nv_write ignores,
\* succeeds.
THEOREM AcknowledgedIsStored ==
    ASSUME "close" \notin Failures
    PROVE  Spec => []AckedStored
<1>1. Init => AckedStored /\ WriteAcks
  BY DEF Init, AckedStored, WriteAcks
<1>2. TypeOK /\ AckedStored /\ WriteAcks /\ [Next]_vars => AckedStored' /\ WriteAcks'
  BY AckNext
<1> QED
  BY <1>1, <1>2, ConfigType, PTL DEF Spec

(***************************************************************************)
(* The files implement the store.                                          *)
(***************************************************************************)

\* What cm_lbs_atcmd_setoption hands to the write.
LEMMA JobData ==
    ASSUME TypeOK, NEW p \in cm_lbs_atcmd_getplatform,
           NEW o \in Options, NEW v \in Values(o),
           NEW j \in cm_lbs_atcmd_setoption(p, o, v)
    PROVE  JobInv(j)
<1>1. CASE o = "method"
  <2>1. j = [file |-> "atcmd", option |-> o, value |-> v,
             data |-> [x \in {"method"} |-> v], old |-> files["atcmd"],
             misread |-> FALSE]
    BY <1>1 DEF cm_lbs_atcmd_setoption, __amap_cm_lbs_atcmd_setoption
  <2>2. files["atcmd"] = [x \in {"method"} |-> files["atcmd"]["method"]]
    BY MethodType DEF TypeOK, Files
  <2>3. [files["atcmd"] EXCEPT !["method"] = v] = [x \in {"method"} |-> v]
    BY <2>2
  <2> QED
    BY <1>1, <2>1, <2>3 DEF JobInv
<1>2. CASE o # "method"
  <2>1. PICK c \in __cm_lbs_FileRead(p) :
             j = [file |-> p, option |-> o, value |-> v,
                  data |-> [c EXCEPT ![o] = v], old |-> files[p],
                  misread |-> c # files[p] \/ p # files["atcmd"]["method"]]
    BY <1>2 DEF cm_lbs_atcmd_setoption, __amap_cm_lbs_atcmd_setoption,
                __oneospos_cm_lbs_atcmd_setoption, ChangeOption
  <2>2. c \in {files[p], Default(p)}
    BY DEF __cm_lbs_FileRead
  <2>3. p \in {files["atcmd"]["method"], Default("atcmd")["method"]}
    BY DEF cm_lbs_atcmd_getplatform, __cm_lbs_FileRead
  <2>4. /\ j.file = p /\ j.option = o /\ j.value = v
        /\ j.data = [c EXCEPT ![o] = v] /\ j.old = files[p]
        /\ c # files[p] \/ p # files["atcmd"]["method"] => j.misread
    BY <2>1
  <2>5. \/ j.file = files["atcmd"]["method"]
        \/ j.misread /\ j.file = Default("atcmd")["method"]
    BY <2>3, <2>4
  <2>6. \/ j.data = [j.old EXCEPT ![j.option] = j.value]
        \/ j.misread /\ j.data = [Default(j.file) EXCEPT ![j.option] = j.value]
    BY <2>2, <2>4
  <2> QED
    BY <2>5, <2>6 DEF JobInv
<1> QED
  BY <1>1, <1>2

\* A step keeps WriteInv: only the AT task writes, so nothing changes the
\* file or the method under it.
LEMMA WriteNext ==
    ASSUME TypeOK, WriteInv, [Next]_vars
    PROVE  WriteInv'
<1>1. CASE UNCHANGED vars
  BY <1>1 DEF vars, WriteInv, JobInv
<1>2. ASSUME NEW o \in Options, NEW v \in Inputs(o), MLBSCFG_set(o, v)
      PROVE  WriteInv'
  <2>1. CASE Refuse
    BY <1>2, <2>1 DEF MLBSCFG_set, Refuse, WriteInv, JobInv
  <2>2. CASE ~Refuse
    <3>1. v \in Values(o)
      BY <1>2, <2>2, AcceptedValue DEF MLBSCFG_set
    <3>p. PICK p \in cm_lbs_atcmd_getplatform :
              \E j \in cm_lbs_atcmd_setoption(p, o, v) :
               job' = j /\ files' = [files EXCEPT ![j.file] = Default(j.file)]
      BY <1>2, <2>2 DEF MLBSCFG_set, fopen_wb
    <3>2. PICK j \in cm_lbs_atcmd_setoption(p, o, v) :
               job' = j /\ files' = [files EXCEPT ![j.file] = Default(j.file)]
      BY <3>p
    <3>3. j.file \in Files /\ JobInv(j)
      BY <3>1, JobType, JobData
    <3>4. /\ files'[j.file] = Default(j.file)
          /\ j.file # "atcmd" => files'["atcmd"] = files["atcmd"]
      BY <3>2, <3>3 DEF TypeOK, Files
    <3> QED
      BY <3>2, <3>3, <3>4 DEF WriteInv, JobInv
  <2> QED
    BY <2>1, <2>2
<1>3. CASE cm_nv_write
  BY <1>3 DEF cm_nv_write, WriteInv
<1>4. CASE MLBSLOC \/ UrcPlatform \/ UrcDecimals \/ UrcError \/ Crash
  BY <1>4 DEF MLBSLOC, UrcPlatform, UrcDecimals, UrcError, Crash, WriteInv, JobInv
<1> QED
  BY <1>1, <1>2, <1>3, <1>4 DEF Next, SetCommand,
          Urc, __cm_lbs_atcmd_amap_location_urc_rsp,
          __cm_lbs_atcmd_oneospos_location_urc_rsp

\* The end of a write, by fclose or by a crash, is a step of the store on
\* the file that was written.
LEMMA StoreStep ==
    ASSUME TypeOK, WriteInv, [Next]_vars
    PROVE  [Store!Next]_conf
<1>1. CASE UNCHANGED <<files, pc, job>>
  BY <1>1 DEF conf
<1>2. ASSUME NEW o \in Options, NEW v \in Inputs(o), MLBSCFG_set(o, v), ~Refuse
      PROVE  conf' = conf
  <2>1. v \in Values(o) /\ pc = "idle" /\ pc' = "write"
    BY <1>2, AcceptedValue DEF MLBSCFG_set
  <2>p. PICK p \in cm_lbs_atcmd_getplatform :
            \E j \in cm_lbs_atcmd_setoption(p, o, v) :
             job' = j /\ files' = [files EXCEPT ![j.file] = Default(j.file)]
    BY <1>2 DEF MLBSCFG_set, fopen_wb
  <2>2. PICK j \in cm_lbs_atcmd_setoption(p, o, v) :
             job' = j /\ files' = [files EXCEPT ![j.file] = Default(j.file)]
    BY <2>p
  <2>3. j.old = files[j.file]
    BY <2>1, JobType
  <2>4. ASSUME NEW f \in Files
        PROVE  (IF pc' = "write" /\ job'.file = f THEN job'.old ELSE files'[f])
               = (IF pc = "write" /\ job.file = f THEN job.old ELSE files[f])
    BY <2>1, <2>2, <2>3 DEF TypeOK
  <2> QED
    BY <2>4 DEF conf
<1>3. ASSUME pc = "write", pc' = "idle", job' = job,
             files' = files \/ files' = [files EXCEPT ![job.file] = job.data]
      PROVE  Store!Next
  <2>1. /\ job.file \in Files
        /\ job.option \in OptionsOf(job.file) /\ job.value \in Values(job.option)
        /\ job.old = [x \in OptionsOf(job.file) |-> job.old[x]]
        /\ files = [f \in Files |-> files[f]]
    BY DEF TypeOK, Config
  <2>2. JobInv(job) /\ files[job.file] = Default(job.file)
    BY <1>3 DEF WriteInv
  <2>3. conf[job.file] = job.old /\ conf = [f \in Files |-> conf[f]]
    BY <1>3, <2>1 DEF conf
  <2>4. job.file \in Store!Writable
    <3>1. job.file # "atcmd" => conf["atcmd"] = files["atcmd"]
      BY DEF conf, Files
    <3>2. /\ conf["atcmd"] \in Store!View("atcmd")
          /\ job.misread => Default("atcmd") \in Store!View("atcmd")
      BY DEF Store!View, misread
    <3> QED
      BY <2>2, <3>1, <3>2 DEF Store!Writable, JobInv
  <2>5. conf' = [f \in Files |-> files'[f]]
    BY <1>3 DEF conf
  <2>6. \A f \in Files : f # job.file => files'[f] = conf[f]
    BY <1>3, <2>1 DEF conf
  <2>7. CASE files' = files
    <3>1. conf' = [conf EXCEPT ![job.file] = Default(job.file)]
      BY <2>1, <2>2, <2>3, <2>5, <2>6, <2>7
    <3> QED
      BY <2>4, <3>1 DEF Store!Next, Store!Lose
  <2>8. CASE files' = [files EXCEPT ![job.file] = job.data]
    <3>1. PICK c \in Store!View(job.file) :
               files'[job.file] = [c EXCEPT ![job.option] = job.value]
      BY <2>1, <2>2, <2>3, <2>8 DEF JobInv, Store!View, misread
    <3>2. conf' = [conf EXCEPT ![job.file] = [c EXCEPT ![job.option] = job.value]]
      BY <2>1, <2>3, <2>5, <2>6, <3>1
    <3>3. job.option \in DOMAIN conf[job.file]
      BY <2>1, <2>3
    <3> QED
      BY <2>1, <2>4, <3>1, <3>2, <3>3 DEF Store!Next, Store!Set
  <2> QED
    BY <1>3, <2>7, <2>8
<1>4. CASE SetCommand
  <2>1. PICK o \in Options : \E v \in Inputs(o) : MLBSCFG_set(o, v)
    BY <1>4 DEF SetCommand
  <2>2. PICK v \in Inputs(o) : MLBSCFG_set(o, v)
    BY <2>1
  <2>3. CASE Refuse
    BY <1>1, <2>3 DEF Refuse
  <2> QED
    BY <1>2, <2>2, <2>3
<1>5. CASE cm_nv_write
  BY <1>3, <1>5 DEF cm_nv_write
<1>6. CASE Crash
  <2>1. CASE pc = "write"
    BY <1>3, <1>6, <2>1 DEF Crash
  <2>2. CASE pc = "idle"
    BY <1>1, <1>6, <2>2 DEF Crash
  <2> QED
    BY <2>1, <2>2 DEF TypeOK
<1>7. CASE MLBSLOC \/ UrcPlatform \/ UrcDecimals \/ UrcError
  BY <1>1, <1>7 DEF MLBSLOC, UrcPlatform, UrcDecimals, UrcError
<1>8. CASE UNCHANGED vars
  BY <1>1, <1>8 DEF vars
<1> QED
  BY <1>4, <1>5, <1>6, <1>7, <1>8 DEF Next,
          Urc, __cm_lbs_atcmd_amap_location_urc_rsp,
          __cm_lbs_atcmd_oneospos_location_urc_rsp

\* The configuration files implement the store, for every set of options and
\* keys, whatever reads and writes fail and wherever the process crashes: no
\* command touches an option it does not name unless a read has failed, a
\* crash costs at most the one file being written, and a failed read the
\* other options of one file.
THEOREM ConfigImplementsStore == Spec => ImplementsConfigStore
<1>1. Init => Store!Init /\ WriteInv
  BY DEF Init, Store!Init, WriteInv, conf
<1>2. TypeOK /\ WriteInv /\ [Next]_vars => WriteInv' /\ [Store!Next]_conf
  BY WriteNext, StoreStep
<1> QED
  BY <1>1, <1>2, ConfigType, PTL DEF Spec, ImplementsConfigStore, Store!Spec

(***************************************************************************)
(* What an acknowledgement is worth when fclose may fail as well.          *)
(***************************************************************************)

WriteEmpty ==
    pc = "write" => files[job.file] = Default(job.file)

\* A step keeps AckedOrLost, whatever fails: between fopen and fclose the
\* file is empty, and fclose fills it or leaves it so.
LEMMA AckOrLostNext ==
    ASSUME TypeOK, AckedOrLost, WriteAcks, WriteEmpty, [Next]_vars
    PROVE  AckedOrLost' /\ WriteAcks' /\ WriteEmpty'
<1> USE DEF AckedOrLost, WriteAcks, WriteEmpty
<1>1. CASE UNCHANGED vars
  BY <1>1 DEF vars
<1>2. ASSUME NEW o \in Options, NEW v \in Inputs(o), MLBSCFG_set(o, v)
      PROVE  AckedOrLost' /\ WriteAcks' /\ WriteEmpty'
  <2>1. CASE Refuse
    BY <1>2, <2>1 DEF MLBSCFG_set, Refuse
  <2>2. CASE ~Refuse
    <3>1. v \in Values(o) /\ pc' = "write"
      BY <1>2, <2>2, AcceptedValue DEF MLBSCFG_set
    <3>2. PICK p \in cm_lbs_atcmd_getplatform :
              \E j \in cm_lbs_atcmd_setoption(p, o, v) :
               job' = j /\ files' = [files EXCEPT ![j.file] = Default(j.file)]
      BY <1>2, <2>2 DEF MLBSCFG_set, fopen_wb
    <3>3. PICK j \in cm_lbs_atcmd_setoption(p, o, v) :
               job' = j /\ files' = [files EXCEPT ![j.file] = Default(j.file)]
      BY <3>2
    <3>4. j.file \in Files /\ j.data[j.option] = j.value
      BY <3>1, JobType
    <3>5. files'[j.file] = Default(j.file)
      BY <3>3, <3>4 DEF TypeOK
    <3> QED
      BY <3>1, <3>3, <3>4, <3>5
  <2> QED
    BY <2>1, <2>2
<1>3. CASE cm_nv_write
  <2>1. /\ pc = "write" /\ pc' = "idle" /\ job' = job
        /\ files' = files \/ files' = [files EXCEPT ![job.file] = job.data]
    BY <1>3 DEF cm_nv_write
  <2>2. files'[job.file] \in {files[job.file], job.data}
    BY <2>1 DEF TypeOK
  <2> QED
    BY <2>1, <2>2
<1>4. CASE MLBSLOC \/ UrcPlatform \/ UrcDecimals \/ UrcError \/ Crash
  BY <1>4 DEF MLBSLOC, UrcPlatform, UrcDecimals, UrcError, Crash
<1> QED
  BY <1>1, <1>2, <1>3, <1>4 DEF Next, SetCommand,
          Urc, __cm_lbs_atcmd_amap_location_urc_rsp,
          __cm_lbs_atcmd_oneospos_location_urc_rsp

\* Whatever fails, fclose and the reads included, an acknowledged command left
\* its file with the value or lost the whole file: it never keeps the old
\* value or a mixture.
THEOREM AcknowledgedOrLost == Spec => []AckedOrLost
<1>1. Init => AckedOrLost /\ WriteAcks /\ WriteEmpty
  BY DEF Init, AckedOrLost, WriteAcks, WriteEmpty
<1>2. TypeOK /\ AckedOrLost /\ WriteAcks /\ WriteEmpty /\ [Next]_vars =>
        AckedOrLost' /\ WriteAcks' /\ WriteEmpty'
  BY AckOrLostNext
<1> QED
  BY <1>1, <1>2, ConfigType, PTL DEF Spec
=============================================================================
