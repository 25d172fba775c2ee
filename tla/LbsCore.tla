------------------------------ MODULE LbsCore ------------------------------
(***************************************************************************)
(* The life of a location request in cm_lbs.c and the AT handlers that     *)
(* start one (cm_lbs_api.c).  Two threads share the globals of cm_lbs.c    *)
(* without a lock: the AT task, which runs AT+MLBSLOC or AT+MLBS and calls *)
(* cm_lbs_init and cm_lbs_location, and the LBS task (cm_lbs_main_task),   *)
(* which receives the queued message, calls the location platform and runs *)
(* the callbacks.  Each action is a piece of one thread's code between two *)
(* accesses to what the other thread may change.                           *)
(*                                                                         *)
(* What a platform answers is a choice from Outcomes (the platforms have   *)
(* modules of their own).  A NULL dereference ends the process; after a    *)
(* double free the process ends or goes on, as the allocator decides.      *)
(***************************************************************************)
EXTENDS Naturals

CONSTANTS
    Platforms,      \* the values AT+MLBSCFG="method" may select
    MaxRequests,    \* bound on the AT location commands of a behaviour
    Failures,       \* the calls of the environment that may fail
    Outcomes        \* how a location platform may treat a request

Amap        == {"AMAP10", "AMAP20"}
AllPlatforms == Amap \cup {"ONEOSPOS"}
AllFailures == {"net", "apikey", "malloc", "task", "queue", "send"}
AllOutcomes == {"ok", "ok_nomem", "err", "fail", "ueinfo", "forbidden"}

ASSUME PlatformsAssumption == Platforms \subseteq AllPlatforms
ASSUME RequestsAssumption  == MaxRequests \in Nat
ASSUME FailuresAssumption  == Failures \subseteq AllFailures
ASSUME OutcomesAssumption  == Outcomes \subseteq AllOutcomes

Requests == 1..MaxRequests
Families == {"amap", "oneospos"}
Commands == {"MLBSLOC", "MLBS"}

\* AMAP10 and AMAP20 share s_amap_attr.
Family(p) == IF p \in Amap THEN "amap" ELSE "oneospos"

VARIABLES
    (* globals of cm_lbs.c *)
    s_platform,     \* platform of the last cm_lbs_init; "START" before it
    task,           \* cm_lbs_task # NULL
    queun,          \* cm_lbs_queun # NULL
    msgs,           \* messages in the queue (all are CM_LBS_LOCATION)
    attr,           \* s_amap_attr, s_oneospos_attr_t: "null", "set" by the
                    \* initialisation, "armed" once its cb_arg is set
    cbmsg,          \* lbs_callback_msg: the request whose callback it holds
    (* the AT task *)
    cpc, cplat, cmd,
    nreq,           \* AT location commands so far; the last is in progress
    (* the LBS task *)
    tpc,
    tfam,           \* the family whose request is being handled
    tout,           \* what became of it
    (* what an observer sees *)
    reply,          \* the AT command's own result
    accepted,       \* requests for which cm_lbs_location returned 0
    answers,        \* URCs delivered for each request
    faults,         \* undefined behaviour met
    crashed

lbsVars  == <<s_platform, task, queun, msgs, attr, cbmsg>>
atVars   == <<cpc, cplat, cmd, nreq>>
taskVars == <<tpc, tfam, tout>>
seenVars == <<reply, accepted, answers, faults, crashed>>
vars     == <<lbsVars, atVars, taskVars, seenVars>>

AtCodes    == {"none", "SUCCESS", "NETERR", "APIKEYNULL", "UNKNOWERR",
               "PARAERR", "BUSY", "MEMROYERR"}
FaultKinds == {"null_queue", "null_attr", "null_cb", "null_location",
               "null_urcbuf", "double_free"}
ClientPcs  == {"idle", "create", "queue", "init", "check", "arm", "send",
               "reply"}
TaskPcs    == {"none", "wait", "first", "amap", "second", "oneospos", "urc",
               "free_amap", "free_oneospos", "tail", "free_ue"}

\* Every variable keeps its C type: the queue length never goes below zero,
\* one attribute per platform family, one reply code per command.
TypeOK ==
    /\ s_platform \in Platforms \cup {"START"}
    /\ task \in BOOLEAN /\ queun \in BOOLEAN /\ crashed \in BOOLEAN
    /\ msgs \in Nat
    /\ attr \in [Families -> {"null", "set", "armed"}]
    /\ cbmsg \in [Families -> Nat]
    /\ cpc \in ClientPcs
    /\ cplat \in Platforms \cup {"START"}
    /\ cmd \in Commands
    /\ nreq \in 0..MaxRequests
    /\ tpc \in TaskPcs
    /\ tfam \in Families
    /\ tout \in AllOutcomes
    /\ reply \in [Requests -> AtCodes]
    /\ accepted \in SUBSET Requests
    /\ answers \in [Requests -> Nat]
    /\ faults \in SUBSET FaultKinds

Init ==
    /\ s_platform = "START"
    /\ task = FALSE /\ queun = FALSE
    /\ msgs = 0
    /\ attr = [f \in Families |-> "null"]
    /\ cbmsg = [f \in Families |-> 0]
    /\ cpc = "idle" /\ cplat = "START" /\ cmd = "MLBSLOC"
    /\ nreq = 0
    /\ tpc = "none" /\ tfam = "amap" /\ tout = "ok"
    /\ reply = [r \in Requests |-> "none"]
    /\ accepted = {}
    /\ answers = [r \in Requests |-> 0]
    /\ faults = {}
    /\ crashed = FALSE

Crash(kind) ==
    /\ faults' = faults \cup {kind}
    /\ crashed' = TRUE

Healthy == UNCHANGED <<faults, crashed>>

(***************************************************************************)
(* The AT task.                                                            *)
(***************************************************************************)

\* What the handlers make of cm_lbs_init's and cm_lbs_location's results.
\* AT+MLBS compares the latter with cm_lbs_state_e (BUSY is -2, PARAMERR is
\* -3) and with CM_LBS_NET_ERR, which is -1.
InitReply(c, ret) ==
    IF c = "MLBSLOC" /\ ret = 2 THEN "BUSY" ELSE "UNKNOWERR"

LocationReply(c, ret) ==
    IF c = "MLBSLOC"
    THEN IF ret = 3 THEN "BUSY" ELSE "UNKNOWERR"
    ELSE [n \in 1..3 |-> CASE n = 1 -> "NETERR"
                           [] n = 2 -> "BUSY"
                           [] n = 3 -> "PARAERR"][ret]

Return(code) ==
    /\ reply' = [reply EXCEPT ![nreq] = code]
    /\ cpc' = "idle"

\* The code each handler answers when one of its calls fails before
\* cm_lbs_init: AT+MLBSLOC on an AMap platform and on OneOS-POS, AT+MLBS.
AmapMlbslocRefusals ==
    [malloc |-> "UNKNOWERR", net |-> "NETERR", apikey |-> "APIKEYNULL"]
OneosposMlbslocRefusals == [malloc |-> "MEMROYERR", net |-> "NETERR"]
MlbsRefusals == [malloc |-> "UNKNOWERR", apikey |-> "APIKEYNULL"]

Refusals(c, p) ==
    CASE c = "MLBS"                   -> MlbsRefusals
      [] c = "MLBSLOC" /\ p \in Amap  -> AmapMlbslocRefusals
      [] OTHER                        -> OneosposMlbslocRefusals

\* The command c with platform p configured, up to the call of cm_lbs_init,
\* whose first statement sets s_platform.
Locate(c, p) ==
    /\ ~crashed /\ cpc = "idle" /\ nreq < MaxRequests
    /\ nreq' = nreq + 1
    /\ cmd' = c /\ cplat' = p
    /\ \/ /\ \E call \in Failures \cap DOMAIN Refusals(c, p) :
              reply' = [reply EXCEPT ![nreq + 1] = Refusals(c, p)[call]]
          /\ UNCHANGED <<cpc, s_platform>>
       \/ /\ s_platform' = p
          /\ cpc' = "create"
          /\ UNCHANGED reply
    /\ UNCHANGED <<task, queun, msgs, attr, cbmsg, taskVars, accepted, answers>>
    /\ Healthy

\* Mutant of CreateTask: the queue is created again for every request.
CreateTaskNewQueue ==
    /\ ~crashed /\ cpc = "create"
    /\ task' = TRUE /\ cpc' = "queue"
    /\ tpc' = IF task THEN tpc ELSE "wait"
    /\ UNCHANGED <<s_platform, queun, msgs, attr, cbmsg, cplat, cmd, nreq,
                   tfam, tout, seenVars>>

\* The first half of cm_lbs_task_create: the thread exists, and may run,
\* before the queue it reads from.
CreateTask ==
    /\ ~crashed /\ cpc = "create"
    /\ \/ task /\ cpc' = "init" /\ UNCHANGED <<task, tpc, reply>>
       \/ /\ ~task
          /\ task' = TRUE /\ tpc' = "wait" /\ cpc' = "queue"
          /\ UNCHANGED reply
       \/ /\ ~task /\ "task" \in Failures
          /\ Return(InitReply(cmd, 2))
          /\ UNCHANGED <<task, tpc>>
    /\ UNCHANGED <<s_platform, queun, msgs, attr, cbmsg, cplat, cmd, nreq,
                   tfam, tout, accepted, answers>>
    /\ Healthy

\* The second half.  A failure leaves cm_lbs_task set and the queue NULL.
CreateQuen ==
    /\ ~crashed /\ cpc = "queue"
    /\ \/ /\ queun' = TRUE
          /\ cpc' = "init"
          /\ UNCHANGED reply
       \/ /\ "queue" \in Failures
          /\ queun' = FALSE
          /\ Return(InitReply(cmd, 2))
    /\ UNCHANGED <<s_platform, task, msgs, attr, cbmsg, cplat, cmd, nreq,
                   taskVars, accepted, answers>>
    /\ Healthy

\* Mutant of InitAttr: the busy test is dropped and a live attribute reused.
InitAttrIgnoresBusy ==
    /\ ~crashed /\ cpc = "init"
    /\ attr' = [attr EXCEPT ![Family(cplat)] = IF @ = "null" THEN "set" ELSE @]
    /\ cpc' = "check"
    /\ UNCHANGED <<s_platform, task, queun, msgs, cbmsg, cplat, cmd, nreq,
                   taskVars, seenVars>>

\* cm_lbs_init_amap, cm_lbs_init_oneospos: an attribute that is still set
\* means busy.
InitAttr ==
    LET f == Family(cplat) IN
    /\ ~crashed /\ cpc = "init"
    /\ \/ /\ attr[f] # "null" \/ "malloc" \in Failures
          /\ Return(InitReply(cmd, 2))
          /\ UNCHANGED attr
       \/ /\ attr[f] = "null"
          /\ attr' = [attr EXCEPT ![f] = "set"]
          /\ cpc' = "check"
          /\ UNCHANGED reply
    /\ UNCHANGED <<s_platform, task, queun, msgs, cbmsg, cplat, cmd, nreq,
                   taskVars, accepted, answers>>
    /\ Healthy

\* cm_lbs_location up to the network check.
CheckLocation ==
    LET f == Family(s_platform) IN
    /\ ~crashed /\ cpc = "check"
    /\ \/ /\ attr[f] = "null"
          /\ Return(LocationReply(cmd, 1))
          /\ UNCHANGED attr
       \/ /\ attr[f] # "null" /\ "net" \in Failures
          /\ attr' = [attr EXCEPT ![f] = "null"]
          /\ Return(LocationReply(cmd, 2))
       \/ /\ attr[f] # "null"
          /\ cpc' = "arm"
          /\ UNCHANGED <<attr, reply>>
    /\ UNCHANGED <<s_platform, task, queun, msgs, cbmsg, cplat, cmd, nreq,
                   taskVars, accepted, answers>>
    /\ Healthy

\* It registers the callback and points the attribute at it.
ArmAttr ==
    LET f == Family(s_platform) IN
    /\ ~crashed /\ cpc = "arm"
    /\ cbmsg' = [cbmsg EXCEPT ![f] = nreq]
    /\ \/ /\ attr[f] = "null"
          /\ Crash("null_attr")
          /\ UNCHANGED <<attr, cpc>>
       \/ /\ attr[f] # "null"
          /\ attr' = [attr EXCEPT ![f] = "armed"]
          /\ cpc' = "send"
          /\ Healthy
    /\ UNCHANGED <<s_platform, task, queun, msgs, cplat, cmd, nreq, taskVars,
                   reply, accepted, answers>>

\* Mutant of SendLocation: the attribute survives a failed send.
SendLocationKeepsAttr ==
    /\ ~crashed /\ cpc = "send"
    /\ \/ /\ ~queun \/ "send" \in Failures
          /\ Return(LocationReply(cmd, 3))
          /\ UNCHANGED <<msgs, accepted>>
       \/ /\ queun
          /\ msgs' = msgs + 1
          /\ accepted' = accepted \cup {nreq}
          /\ cpc' = "reply"
          /\ UNCHANGED reply
    /\ UNCHANGED <<s_platform, task, queun, attr, cbmsg, cplat, cmd, nreq,
                   taskVars, answers>>
    /\ Healthy

\* The rest of cm_lbs_location: msgsnd does not wait, and a send that fails
\* frees the attribute.
SendLocation ==
    LET f == Family(s_platform) IN
    /\ ~crashed /\ cpc = "send"
    /\ \/ /\ ~queun \/ "send" \in Failures
          /\ attr' = [attr EXCEPT ![f] = "null"]
          /\ Return(LocationReply(cmd, 3))
          /\ UNCHANGED <<msgs, accepted>>
       \/ /\ queun
          /\ msgs' = msgs + 1
          /\ accepted' = accepted \cup {nreq}
          /\ cpc' = "reply"
          /\ UNCHANGED <<attr, reply>>
    /\ UNCHANGED <<s_platform, task, queun, cbmsg, cplat, cmd, nreq, taskVars,
                   answers>>
    /\ Healthy

\* The handler returns; the URC may already have been delivered.
ReplySuccess ==
    /\ ~crashed /\ cpc = "reply"
    /\ Return("SUCCESS")
    /\ UNCHANGED <<lbsVars, cplat, cmd, nreq, taskVars, accepted, answers>>
    /\ Healthy

(***************************************************************************)
(* The LBS task.                                                           *)
(***************************************************************************)

TaskGoto(pc) ==
    /\ tpc' = pc
    /\ UNCHANGED <<tfam, tout>>

\* Mutant of QueueRev: a receive that does not wait for a message.
QueueRevNoWait ==
    /\ ~crashed /\ tpc = "wait"
    /\ msgs' = msgs - 1
    /\ TaskGoto("first")
    /\ UNCHANGED <<s_platform, task, queun, attr, cbmsg, atVars, seenVars>>

\* Mutant of QueueRev: the message is read and stays in the queue.
QueueRevPeeks ==
    /\ ~crashed /\ tpc = "wait" /\ queun /\ msgs > 0
    /\ TaskGoto("first")
    /\ UNCHANGED <<lbsVars, atVars, seenVars>>

\* __cm_lbs_QueueRev dereferences the queue handle even when it is NULL.
QueueRev ==
    /\ ~crashed /\ tpc = "wait"
    /\ IF queun
       THEN /\ msgs > 0
            /\ msgs' = msgs - 1
            /\ TaskGoto("first")
            /\ Healthy
       ELSE Crash("null_queue") /\ UNCHANGED <<msgs, taskVars>>
    /\ UNCHANGED <<s_platform, task, queun, attr, cbmsg, atVars, reply,
                   accepted, answers>>

\* Mutant of AsynFirst: CM_LBS_PLAT_AMAP20 is missing from the test.
AsynFirstAmap10Only ==
    /\ ~crashed /\ tpc = "first"
    /\ TaskGoto(IF s_platform = "AMAP10" THEN "amap" ELSE "second")
    /\ UNCHANGED <<lbsVars, atVars, seenVars>>

\* __cm_lbs_asyn_location tests s_platform twice; the second test comes
\* after the whole of the first branch.
AsynFirst ==
    /\ ~crashed /\ tpc = "first"
    /\ TaskGoto(IF s_platform \in Amap THEN "amap" ELSE "second")
    /\ UNCHANGED <<lbsVars, atVars, seenVars>>

AsynSecond ==
    /\ ~crashed /\ tpc = "second"
    /\ TaskGoto(IF s_platform = "ONEOSPOS" THEN "oneospos" ELSE "wait")
    /\ UNCHANGED <<lbsVars, atVars, seenVars>>

\* cm_lbs_asyn_location_amap and cm_lbs_asyn_location_oneospos up to the
\* call of the registered callback.
AsynLocation(f, outcomes) ==
    /\ ~crashed /\ tpc = f
    /\ CASE attr[f] = "null"  -> Crash("null_attr") /\ UNCHANGED taskVars
         [] attr[f] = "set"   -> Crash("null_cb") /\ UNCHANGED taskVars
         [] attr[f] = "armed" -> /\ \E out \in outcomes : tout' = out
                                 /\ tfam' = f /\ tpc' = "urc"
                                 /\ Healthy
    /\ UNCHANGED <<lbsVars, atVars, reply, accepted, answers>>

\* Mutant of AsynAmap: the attribute is released before the callback runs.
AsynAmapReleasesEarly ==
    /\ ~crashed /\ tpc = "amap"
    /\ attr' = [attr EXCEPT !["amap"] = "null"]
    /\ tfam' = "amap" /\ tpc' = "urc" /\ tout' \in Outcomes
    /\ UNCHANGED <<s_platform, task, queun, msgs, cbmsg, atVars, seenVars>>

AsynAmap == AsynLocation("amap", Outcomes)

\* No key filter here, and a failed allocation of the result is an error.
AsynOneospos == AsynLocation("oneospos", Outcomes \ {"forbidden", "ok_nomem"})

\* Mutant of Urc: a platform that reported its error through the callback
\* also returns it, and the caller calls the callback again.
UrcReportsErrorTwice ==
    /\ ~crashed /\ tpc = "urc"
    /\ answers' = [answers EXCEPT ![cbmsg[tfam]] =
                      @ + IF tout = "err" THEN 2 ELSE 1]
    /\ TaskGoto("free_amap")
    /\ UNCHANGED <<lbsVars, atVars, reply, accepted, faults, crashed>>

\* The callback the request registered: cm_lbs_atcmd_callback or
\* cm_lbs_atcmd_at_mlbs_callback.  __cm_lbs_amap_callback reports
\* CM_LBS_LOCATION_OK with a NULL result when its allocation fails, and
\* cm_lbs_atcmd_location_urc_rsp clears the buffer of its line although it
\* could not allocate it.
Urc ==
    /\ ~crashed /\ tpc = "urc"
    /\ \/ /\ tout = "ok_nomem"
          /\ Crash("null_location")
          /\ UNCHANGED <<answers, taskVars>>
       \/ /\ "malloc" \in Failures
          /\ Crash("null_urcbuf")
          /\ UNCHANGED <<answers, taskVars>>
       \/ /\ tout # "ok_nomem"
          /\ answers' = [answers EXCEPT ![cbmsg[tfam]] = @ + 1]
          /\ TaskGoto("free_amap")
          /\ Healthy
    /\ UNCHANGED <<lbsVars, atVars, reply, accepted>>

\* cm_lbs_deinit, called by both callbacks, frees both attributes.
FreeAttr(f, pc, next) ==
    /\ ~crashed /\ tpc = pc
    /\ attr' = [attr EXCEPT ![f] = "null"]
    /\ TaskGoto(next)
    /\ UNCHANGED <<s_platform, task, queun, msgs, cbmsg, atVars, seenVars>>

DeinitAmap == FreeAttr("amap", "free_amap", "free_oneospos")

DeinitOneospos ==
    FreeAttr("oneospos", "free_oneospos",
             IF tfam = "oneospos" THEN "tail" ELSE "free_ue")

\* cm_lbs_oneospos_callback frees the attribute again after the callback.
OneosposTail == FreeAttr("oneospos", "tail", "free_ue")

\* The caller of the callback frees ue_info.  After a failed platform call
\* it was freed with the attribute it had been stored in.
FreeUeinfo ==
    /\ ~crashed /\ tpc = "free_ue"
    /\ IF tout = "fail"
       THEN faults' = faults \cup {"double_free"} /\ crashed' \in BOOLEAN
       ELSE Healthy
    /\ TaskGoto(IF tfam = "amap" THEN "second" ELSE "wait")
    /\ UNCHANGED <<lbsVars, atVars, reply, accepted, answers>>

(***************************************************************************)
(* Specification.                                                          *)
(***************************************************************************)
\* One command's code, once begun, runs to its end.
AtTask ==
    \/ CreateTask \/ CreateQuen \/ InitAttr \/ CheckLocation \/ ArmAttr
    \/ SendLocation \/ ReplySuccess

LbsTask ==
    \/ QueueRev \/ AsynFirst \/ AsynSecond \/ AsynAmap \/ AsynOneospos \/ Urc
    \/ DeinitAmap \/ DeinitOneospos \/ OneosposTail \/ FreeUeinfo

Next ==
    \/ \E c \in Commands, p \in Platforms : Locate(c, p)
    \/ AtTask
    \/ LbsTask

Spec == Init /\ [][Next]_vars

\* Both threads are scheduled; no user is obliged to send a command.
FairSpec == Spec /\ WF_vars(AtTask) /\ WF_vars(LbsTask)

(***************************************************************************)
(* Properties.                                                             *)
(***************************************************************************)

\* Accepted and not yet answered.
Outstanding == {r \in accepted : answers[r] = 0}

\* The callback passed to cm_lbs_location is called at most once for a
\* request, and only for one that cm_lbs_location accepted or is about to
\* (a stale message of the other platform may trigger it just before the
\* send); a command the AT handler refused never produces a URC, however
\* the two threads interleave.
AnswersMatchRequests ==
    \A r \in Requests :
        /\ answers[r] <= 1
        /\ answers[r] = 1 => r \in accepted \/ (r = nreq /\ cpc = "send")
        /\ reply[r] \notin {"none", "SUCCESS"} => answers[r] = 0

\* s_amap_attr works as a lock held from cm_lbs_init_amap to the callback's
\* cm_lbs_deinit: at most one message is queued (the queue is created for
\* one) and at most one accepted request is unanswered.
OneRequestInFlight ==
    /\ msgs <= 1
    /\ \A r, s \in Outstanding : r = s

\* The LBS task never finds the attribute of the message it received
\* missing, or without its callback, and cm_lbs_location never finds it
\* freed between the test and the use.
AttrPresentWhenUsed == faults \cap {"null_attr", "null_cb"} = {}

\* An attribute armed for an accepted request is freed only after the
\* request has been answered.
RequestFreedOnlyAfterAnswer ==
    [][\A f \in Families :
          attr[f] = "armed" /\ cbmsg[f] \in accepted /\ attr'[f] # "armed" =>
              answers[cbmsg[f]] = 1]_vars

\* An accepted request that is not answered yet has its callback in an armed
\* attribute, and a message that is in a queue somebody reads or in the hands
\* of the LBS task: no interleaving and no failure loses it.
NoRequestLost ==
    \A r \in Outstanding :
        /\ \E f \in Families : attr[f] = "armed" /\ cbmsg[f] = r
        /\ \/ msgs > 0 /\ queun /\ tpc # "none"
           \/ tpc \in {"first", "amap", "urc"}

\* The busy state has an owner that will end it: the command that is still
\* setting the attribute up, or the LBS task, which has its message or will
\* receive it.  An attribute nobody works on would refuse every later request.
BusyHasOwner ==
    attr["amap"] # "null" =>
        \/ cpc \in {"check", "arm", "send"}
        \/ msgs > 0 /\ queun /\ tpc # "none"
        \/ tpc \in {"first", "amap", "urc", "free_amap"}

\* Steps the LBS task may still take for the message it handles.  Between the
\* two tests of s_platform a request of AMap precedes one of OneOS-POS.
StepsLeft ==
    CASE tpc \in {"none", "wait"} -> 0
      [] tpc = "first"            -> 14
      [] tpc = "amap"             -> 13
      [] tpc = "second"           -> 7
      [] tpc = "oneospos"         -> 6
      [] OTHER -> (IF tfam = "amap" THEN 7 ELSE 0) +
                  (CASE tpc = "urc"           -> 5
                     [] tpc = "free_amap"     -> 4
                     [] tpc = "free_oneospos" -> 3
                     [] tpc = "tail"          -> 2
                     [] tpc = "free_ue"       -> 1)

\* The LBS task comes back to its queue: however s_platform changes between
\* its two tests, every step takes it closer to the end of a message, and a
\* message is received once.
LbsTaskAdvances ==
    [][LbsTask => \/ crashed'
                  \/ 15 * msgs' + StepsLeft' < 15 * msgs + StepsLeft]_vars

\* The service in the large: see LocationService.
Service == INSTANCE LocationService WITH
    refused <- {r \in Requests : reply[r] \notin {"none", "SUCCESS"}}

ImplementsService == Service!Spec

\* A request that cm_lbs_location accepted (it returned 0) gets its callback.
EveryRequestAnswered ==
    \A r \in Requests : (r \in accepted) ~> (answers[r] = 1)

\* The same, where the process may end: an accepted request is answered, or
\* undefined behaviour of the code has ended the process.
AnsweredUnlessCrashed ==
    \A r \in Requests : (r \in accepted) ~> (answers[r] = 1 \/ crashed)

\* The thread that reads a queue not created yet is a danger to the first
\* request only: once one has been accepted the queue stays.
QueueRaceOnlyAtStart == "null_queue" \in faults => accepted = {}

\* The busy state ends: s_amap_attr, once set, is freed again, whichever
\* call of the request's path fails.
BusyEnds == (attr["amap"] # "null") ~> (attr["amap"] = "null" \/ crashed)

\* ue_info belongs to the attribute it is stored in and is freed with it.
UeinfoFreedOnce == "double_free" \notin faults
=============================================================================
