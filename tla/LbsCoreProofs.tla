--------------------------- MODULE LbsCoreProofs ---------------------------
(***************************************************************************)
(* Proofs about LbsCore for every set of platforms, every number of        *)
(* requests, and every set of failures and outcomes.                       *)
(***************************************************************************)
EXTENDS LbsCore, TLAPS

\* TypeOK is not inductive: a step of a command stores under nreq, which
\* must then be a request.
TypeInv == TypeOK /\ (cpc # "idle" => nreq \in Requests)

\* The request r has been accepted or its message is being sent.
Valid(r) == r \in accepted \/ (r = nreq /\ cpc = "send")

\* The request of family f has been answered and its attribute is about to
\* be freed.
Answered(f) ==
    /\ tfam = f
    /\ tpc = "free_amap" \/ (tpc = "free_oneospos" /\ f = "oneospos")

\* What is known of the command in progress.
CommandInv ==
    /\ cpc # "idle" => cplat \in Platforms /\ s_platform = cplat
    /\ cpc \notin {"idle", "reply"} =>
          nreq \notin accepted /\ reply[nreq] = "none"
    /\ cpc = "reply" => nreq \in accepted /\ reply[nreq] = "none"
    /\ \A r \in Requests :
          /\ r > nreq => r \notin accepted /\ reply[r] = "none"
          /\ reply[r] \notin {"none", "SUCCESS"} => r \notin accepted

\* Without a queue the LBS task handles nothing.
QueueInv ==
    /\ ~task => ~queun
    /\ cpc = "queue" => task /\ ~queun
    /\ ~queun => tpc \in {"none", "wait"} /\ \A r \in Requests : answers[r] = 0

\* An armed attribute holds the callback of one unanswered request.
CallbackInv ==
    /\ \A f \in Families : attr[f] = "armed" =>
          /\ Valid(cbmsg[f])
          /\ answers[cbmsg[f]] = 0 \/ Answered(f)
    /\ attr["amap"] = "armed" /\ attr["oneospos"] = "armed" =>
          cbmsg["amap"] # cbmsg["oneospos"]
    /\ tpc = "urc" => attr[tfam] = "armed"
    /\ cpc \in {"check", "arm"} => attr[Family(cplat)] # "armed"
    /\ cpc = "send" => \A f \in Families :
          attr[f] = "armed" /\ cbmsg[f] = nreq => f = Family(cplat)

\* The LBS task is between the receipt of a message and its release.
Handling == tpc \in {"first", "amap", "urc", "free_amap"}

\* With AMap platforms only, the OneOS-POS half of the code is idle.
AmapOnly ==
    /\ tpc \notin {"oneospos", "tail"}
    /\ tfam = "amap"
    /\ attr["oneospos"] = "null"
    /\ tpc # "none" \/ cpc # "idle" => s_platform \in Amap
    /\ cpc # "idle" => cplat \in Amap
    /\ ~task => tpc = "none"

\* s_amap_attr is the lock: it tells who may use it.
LockInv ==
    /\ AmapOnly
    /\ attr["amap"] = "armed" <=> (msgs = 1 \/ Handling \/ cpc = "send")
    /\ attr["amap"] = "set" <=> cpc \in {"check", "arm"}
    /\ msgs <= 1
    /\ msgs = 1 => ~Handling
    /\ cpc = "send" => msgs = 0 /\ ~Handling
    /\ AttrPresentWhenUsed

\* Whose turn it is to answer.
TurnInv ==
    /\ \A r \in Requests :
          answers[r] <= 1 /\ (answers[r] # 0 => r \in accepted)
    /\ cpc = "send" => cbmsg["amap"] = nreq
    /\ msgs = 1 \/ tpc \in {"first", "amap", "urc"} =>
          cbmsg["amap"] \in accepted /\ answers[cbmsg["amap"]] = 0
    /\ \A r \in Outstanding :
          r = cbmsg["amap"] /\ (msgs = 1 \/ tpc \in {"first", "amap", "urc"})
    /\ tpc = "free_amap" =>
          cbmsg["amap"] \in accepted /\ answers[cbmsg["amap"]] = 1

(***************************************************************************)
(* Type correctness, one step per action.                                  *)
(***************************************************************************)

\* The initial state of both threads is well typed.
LEMMA TypeInit == Init => TypeInv
<1> SUFFICES ASSUME Init PROVE TypeInv
  OBVIOUS
<1> USE DEF Init
<1>1. task \in BOOLEAN /\ queun \in BOOLEAN /\ crashed \in BOOLEAN
  OBVIOUS
<1>2. /\ attr \in [Families -> {"null", "set", "armed"}]
      /\ cbmsg \in [Families -> Nat]
      /\ reply \in [Requests -> AtCodes]
      /\ answers \in [Requests -> Nat]
  BY DEF AtCodes
<1>3. /\ cpc \in ClientPcs /\ cmd \in Commands /\ tpc \in TaskPcs
      /\ tfam \in Families /\ tout \in AllOutcomes
      /\ nreq \in 0..MaxRequests /\ cpc = "idle"
  BY RequestsAssumption
     DEF ClientPcs, Commands, TaskPcs, Families, AllOutcomes
<1>4. /\ s_platform \in Platforms \cup {"START"}
      /\ cplat \in Platforms \cup {"START"}
      /\ msgs \in Nat /\ accepted \in SUBSET Requests
      /\ faults \in SUBSET FaultKinds
  OBVIOUS
<1> QED BY <1>1, <1>2, <1>3, <1>4 DEF TypeInv, TypeOK

\* The codes a command refused before cm_lbs_init is given.
LEMMA RefusalCodes ==
  ASSUME NEW c \in Commands, NEW p, NEW call \in DOMAIN Refusals(c, p)
  PROVE  Refusals(c, p)[call] \in AtCodes \ {"none", "SUCCESS"}
BY DEF Refusals, MlbsRefusals, AmapMlbslocRefusals, OneosposMlbslocRefusals,
       AtCodes

\* Every step of the AT task keeps the types.
LEMMA TypeAt ==
  ASSUME TypeInv, AtTask \/ \E c \in Commands, p \in Platforms : Locate(c, p)
  PROVE  TypeInv'
<1> USE RequestsAssumption, PlatformsAssumption
    DEF TypeInv, TypeOK, Requests, Families, Commands, AtCodes, ClientPcs,
        TaskPcs, Healthy, Return, taskVars
<1>1. ASSUME NEW c \in Commands, NEW p \in Platforms, Locate(c, p)
      PROVE  TypeInv'
  <2>1. nreq + 1 \in Requests /\ nreq' \in Requests
    BY <1>1 DEF Locate
  <2>2. reply' \in [Requests -> AtCodes]
    BY <1>1, <2>1, RefusalCodes DEF Locate
  <2> QED BY <1>1, <2>1, <2>2 DEF Locate
<1>2. CASE CreateTask
  <2>1. InitReply(cmd, 2) \in AtCodes /\ nreq \in Requests
    BY <1>2 DEF CreateTask, InitReply
  <2>2. reply' \in [Requests -> AtCodes]
    BY <1>2, <2>1 DEF CreateTask
  <2> HIDE DEF Return
  <2>3. cpc' \in ClientPcs
    BY <1>2 DEF CreateTask, Return
  <2> HIDE DEF AtCodes, ClientPcs, Families, Requests
  <2> QED BY <1>2, <2>1, <2>2, <2>3 DEF CreateTask
<1>3. CASE CreateQuen
  <2>1. InitReply(cmd, 2) \in AtCodes /\ nreq \in Requests
    BY <1>3 DEF CreateQuen, InitReply
  <2>2. reply' \in [Requests -> AtCodes]
    BY <1>3, <2>1 DEF CreateQuen
  <2> HIDE DEF Return
  <2>3. cpc' \in ClientPcs
    BY <1>3 DEF CreateQuen, Return
  <2> HIDE DEF AtCodes, ClientPcs, Families, Requests
  <2> QED BY <1>3, <2>1, <2>2, <2>3 DEF CreateQuen
<1>4. CASE InitAttr
  <2>1. InitReply(cmd, 2) \in AtCodes /\ nreq \in Requests
    BY <1>4 DEF InitAttr, InitReply
  <2>2. reply' \in [Requests -> AtCodes]
    BY <1>4, <2>1 DEF InitAttr
  <2> HIDE DEF Return
  <2>3. cpc' \in ClientPcs
    BY <1>4 DEF InitAttr, Return
  <2> QED BY <1>4, <2>1, <2>2, <2>3 DEF InitAttr, Family
<1>5. CASE CheckLocation
  <2>1. LocationReply(cmd, 1) \in AtCodes /\ LocationReply(cmd, 2) \in AtCodes
    BY DEF LocationReply
  <2> QED BY <1>5, <2>1 DEF CheckLocation, Family
<1>6. CASE ArmAttr
  <2>1. crashed' \in BOOLEAN /\ faults' \in SUBSET FaultKinds
    BY <1>6 DEF ArmAttr, Crash, FaultKinds
  <2>2. cbmsg' \in [Families -> Nat]
    <3>1. cbmsg' = [cbmsg EXCEPT ![Family(s_platform)] = nreq]
      BY <1>6 DEF ArmAttr
    <3>2. nreq \in Nat /\ cbmsg \in [Families -> Nat]
      OBVIOUS
    <3> HIDE DEF TypeInv, TypeOK, Families
    <3> QED BY <3>1, <3>2
  <2>4. cpc' \in ClientPcs /\ nreq \in Requests /\ nreq' = nreq
    BY <1>6 DEF ArmAttr
  <2>3. attr' \in [Families -> {"null", "set", "armed"}]
    BY <1>6 DEF ArmAttr
  <2> QED BY <1>6, <2>1, <2>2, <2>3, <2>4 DEF ArmAttr
<1>7. CASE SendLocation
  <2>1. LocationReply(cmd, 3) \in AtCodes
    BY DEF LocationReply
  <2>2. cpc = "send" /\ nreq \in Requests
    BY <1>7 DEF SendLocation
  <2>3. attr' \in [Families -> {"null", "set", "armed"}]
    BY <1>7 DEF SendLocation
  <2>4. reply' \in [Requests -> AtCodes]
    BY <1>7, <2>1, <2>2 DEF SendLocation
  <2>5. accepted' \in SUBSET Requests
    BY <1>7, <2>2 DEF SendLocation
  <2>6. cpc' \in ClientPcs /\ msgs' \in Nat
    BY <1>7 DEF SendLocation
  <2> QED BY <1>7, <2>2, <2>3, <2>4, <2>5, <2>6 DEF SendLocation
<1>8. CASE ReplySuccess
  BY <1>8 DEF ReplySuccess, lbsVars
<1> QED BY <1>1, <1>2, <1>3, <1>4, <1>5, <1>6, <1>7, <1>8 DEF AtTask

\* Every step of the LBS task keeps the types.
LEMMA TypeLbs ==
  ASSUME TypeInv, LbsTask
  PROVE  TypeInv'
<1> USE OutcomesAssumption
    DEF TypeInv, TypeOK, TaskPcs, Families, Healthy, TaskGoto, FaultKinds,
        Crash, lbsVars, atVars, taskVars, seenVars
<1>1. CASE QueueRev
  <2>1. CASE queun
    <3>1. msgs' \in Nat
      BY <1>1, <2>1 DEF QueueRev
    <3>2. tpc' \in TaskPcs /\ UNCHANGED <<faults, crashed, tfam, tout>>
      BY <1>1, <2>1 DEF QueueRev
    <3> QED BY <1>1, <3>1, <3>2 DEF QueueRev
  <2>2. CASE ~queun
    BY <1>1, <2>2 DEF QueueRev
  <2> QED BY <2>1, <2>2
<1>2. CASE AsynFirst
  BY <1>2 DEF AsynFirst
<1>3. CASE AsynSecond
  BY <1>3 DEF AsynSecond
<1>4. CASE AsynAmap
  BY <1>4 DEF AsynAmap, AsynLocation
<1>5. CASE AsynOneospos
  BY <1>5 DEF AsynOneospos, AsynLocation
<1>6. CASE Urc
  <2>1. CASE UNCHANGED <<answers, taskVars>>
    BY <1>6, <2>1 DEF Urc
  <2>2. CASE answers' = [answers EXCEPT ![cbmsg[tfam]] = @ + 1]
    <3>1. answers' \in [Requests -> Nat]
      <4>1. answers \in [Requests -> Nat]
        OBVIOUS
      <4>2. \A r \in Requests : answers[r] + 1 \in Nat
        BY <4>1
      <4> QED BY ONLY <2>2, <4>1, <4>2
    <3> QED BY <1>6, <3>1 DEF Urc
  <2> QED BY <1>6, <2>1, <2>2 DEF Urc
<1>7. CASE DeinitAmap
  BY <1>7 DEF DeinitAmap, FreeAttr
<1>8. CASE DeinitOneospos
  BY <1>8 DEF DeinitOneospos, FreeAttr
<1>9. CASE OneosposTail
  BY <1>9 DEF OneosposTail, FreeAttr
<1>10. CASE FreeUeinfo
  BY <1>10 DEF FreeUeinfo
<1> QED BY <1>1, <1>2, <1>3, <1>4, <1>5, <1>6, <1>7, <1>8, <1>9, <1>10
        DEF LbsTask

\* Every step, of either thread or none, keeps the types.
LEMMA TypeNext == TypeInv /\ [Next]_vars => TypeInv'
<1> SUFFICES ASSUME TypeInv, [Next]_vars PROVE TypeInv'
  OBVIOUS
<1>1. CASE UNCHANGED vars
  BY <1>1 DEF TypeInv, TypeOK, vars, lbsVars, atVars, taskVars, seenVars
<1>2. CASE Next
  BY <1>2, TypeAt, TypeLbs DEF Next
<1> QED BY <1>1, <1>2

\* The variables keep their types in every behaviour (TypeOK).
THEOREM TypeCorrect == Spec => []TypeOK
<1>1. Init => TypeInv
  BY TypeInit
<1>2. TypeInv /\ [Next]_vars => TypeInv'
  BY TypeNext
<1>3. TypeInv => TypeOK
  BY DEF TypeInv
<1> QED BY <1>1, <1>2, <1>3, PTL DEF Spec

(***************************************************************************)
(* The command in progress.                                                *)
(***************************************************************************)

\* A step of the LBS task does not touch what CommandInv speaks of.
LEMMA LbsLeavesCommand ==
  ASSUME LbsTask
  PROVE  UNCHANGED <<s_platform, task, queun, cbmsg, atVars, reply, accepted>>
BY DEF LbsTask, QueueRev, AsynFirst, AsynSecond, AsynAmap, AsynOneospos,
       AsynLocation, Urc, DeinitAmap, DeinitOneospos, OneosposTail, FreeAttr,
       FreeUeinfo, lbsVars, atVars, seenVars

\* The codes a refused command is given.
LEMMA Codes ==
  ASSUME cmd \in Commands
  PROVE  /\ InitReply(cmd, 2) \in AtCodes \ {"none", "SUCCESS"}
         /\ \A n \in 1..3 : LocationReply(cmd, n) \in AtCodes \ {"none", "SUCCESS"}
BY DEF Commands, InitReply, LocationReply, AtCodes

\* A step keeps CommandInv: a command writes its own request only, and one
\* that was refused is never accepted later.
LEMMA CommandNext ==
  ASSUME TypeInv, CommandInv, [Next]_vars
  PROVE  CommandInv'
<1> USE RequestsAssumption DEF CommandInv, Requests, Healthy, Return
<1>0. /\ cpc # "idle" => nreq \in Requests
      /\ nreq \in 0..MaxRequests
      /\ reply \in [Requests -> AtCodes]
      /\ cmd \in Commands
  BY DEF TypeInv, TypeOK
<1>1. ASSUME NEW c \in Commands, NEW p \in Platforms, Locate(c, p)
      PROVE  CommandInv'
  BY <1>0, <1>1, RefusalCodes DEF Locate
<1>2. CASE CreateTask
  BY <1>0, <1>2, Codes DEF CreateTask
<1>3. CASE CreateQuen
  BY <1>0, <1>3, Codes DEF CreateQuen
<1>4. CASE InitAttr
  BY <1>0, <1>4, Codes DEF InitAttr
<1>5. CASE CheckLocation
  BY <1>0, <1>5, Codes DEF CheckLocation
<1>6. CASE ArmAttr
  BY <1>0, <1>6 DEF ArmAttr
<1>7. CASE SendLocation
  BY <1>0, <1>7, Codes DEF SendLocation
<1>8. CASE ReplySuccess
  BY <1>0, <1>8 DEF ReplySuccess, lbsVars
<1>9. CASE LbsTask \/ UNCHANGED vars
  <2>1. UNCHANGED <<s_platform, cpc, cplat, nreq, reply, accepted>>
    BY <1>9, LbsLeavesCommand DEF vars, lbsVars, atVars, seenVars
  <2> QED BY <2>1
<1> QED BY <1>1, <1>2, <1>3, <1>4, <1>5, <1>6, <1>7, <1>8, <1>9
        DEF Next, AtTask

(***************************************************************************)
(* One answer per request, on every platform, when msgsnd does not fail.   *)
(***************************************************************************)

\* A step keeps QueueInv: until CreateQuen the LBS task can only wait.
LEMMA QueueNext ==
  ASSUME TypeInv, QueueInv, [Next]_vars
  PROVE  QueueInv'
<1> USE DEF QueueInv
<1>1. CASE CreateTask
  <2>1. UNCHANGED <<queun, answers>>
    BY <1>1 DEF CreateTask
  <2>2. CASE task /\ cpc' = "init" /\ UNCHANGED <<task, tpc, reply>>
    BY <2>1, <2>2
  <2>3. CASE ~task /\ task' = TRUE /\ tpc' = "wait" /\ cpc' = "queue"
    BY <2>1, <2>3
  <2>4. CASE ~task /\ cpc' = "idle" /\ UNCHANGED <<task, tpc>>
    BY <2>1, <2>4
  <2> QED BY <1>1, <2>2, <2>3, <2>4 DEF CreateTask, Return
<1>2. CASE CreateQuen
  BY <1>2 DEF CreateQuen, taskVars
<1>3. CASE InitAttr \/ CheckLocation \/ ArmAttr \/ SendLocation \/ ReplySuccess
  BY <1>3 DEF InitAttr, CheckLocation, ArmAttr, SendLocation, ReplySuccess,
              Return, lbsVars, taskVars
<1>4. ASSUME NEW c \in Commands, NEW p \in Platforms, Locate(c, p)
      PROVE  QueueInv'
  BY <1>4 DEF Locate, taskVars
<1>5. CASE LbsTask
  <2>1. UNCHANGED <<task, queun, cpc>>
    BY <1>5, LbsLeavesCommand DEF atVars
  <2>2. CASE queun
    BY <2>1, <2>2
  <2>3. CASE ~queun
    <3>1. tpc \in {"none", "wait"}
      BY <2>3
    <3>2. QueueRev
      BY <1>5, <3>1 DEF LbsTask, AsynFirst, AsynSecond, AsynAmap,
         AsynOneospos, AsynLocation, Urc, DeinitAmap, DeinitOneospos,
         OneosposTail, FreeAttr, FreeUeinfo
    <3>3. UNCHANGED <<tpc, answers>>
      BY <2>3, <3>2 DEF QueueRev, taskVars
    <3> QED BY <2>1, <3>3
  <2> QED BY <2>2, <2>3
<1>6. CASE UNCHANGED vars
  BY <1>6 DEF vars, lbsVars, atVars, taskVars, seenVars
<1> QED BY <1>1, <1>2, <1>3, <1>4, <1>5, <1>6 DEF Next, AtTask

\* No request is answered twice, nor one that cm_lbs_location did not accept.
OnceInv ==
    /\ CallbackInv
    /\ \A r \in Requests : answers[r] <= 1 /\ (answers[r] = 1 => Valid(r))

\* A step of the AT task keeps OnceInv: it arms an attribute only with the
\* request in progress, which has no answer yet.
LEMMA OnceAt ==
  ASSUME "send" \notin Failures, TypeInv, CommandInv, QueueInv, OnceInv,
         AtTask \/ \E c \in Commands, p \in Platforms : Locate(c, p)
  PROVE  OnceInv'
<1> USE DEF OnceInv, CallbackInv, Valid, Answered, Families
<1> USE DEF Family
<1>f. Family(cplat) = "amap" \/ Family(cplat) = "oneospos"
  OBVIOUS
<1>0. /\ cpc # "idle" => /\ nreq \in Requests
                         /\ cplat \in Platforms /\ s_platform = cplat
      /\ attr \in [Families -> {"null", "set", "armed"}]
      /\ cbmsg \in [Families -> Nat]
      /\ answers \in [Requests -> Nat]
      /\ accepted \subseteq Requests
      /\ tfam \in Families
      /\ cpc \notin {"idle", "reply"} => nreq \notin accepted
  BY DEF TypeInv, TypeOK, CommandInv
<1>1. ASSUME NEW c \in Commands, NEW p \in Platforms, Locate(c, p)
      PROVE  OnceInv'
  BY <1>0, <1>1 DEF Locate, taskVars
<1>2. CASE CreateTask
  <2>1. ~task => ~queun /\ tpc \in {"none", "wait"}
    BY DEF QueueInv
  <2> QED BY <1>0, <1>2, <2>1 DEF CreateTask, Return
<1>3. CASE CreateQuen
  BY <1>0, <1>3 DEF CreateQuen, Return, taskVars
<1>4. CASE InitAttr
  <2>1. /\ cpc = "init" /\ cpc' \in {"idle", "check"}
        /\ UNCHANGED <<cbmsg, cplat, nreq, tpc, tfam, accepted, answers>>
    BY <1>4 DEF InitAttr, Return, taskVars
  <2>2. /\ \A f \in Families : attr'[f] = "armed" => attr[f] = "armed"
        /\ \A f \in Families : attr[f] = "armed" => attr'[f] = "armed"
        /\ cpc' = "check" => attr'[Family(cplat)] = "set"
    BY <1>0, <1>4 DEF InitAttr, Return
  <2>3. CASE cpc' = "idle"
    BY <1>0, <2>1, <2>2, <2>3
  <2>4. CASE cpc' = "check"
    BY <1>0, <1>f, <2>1, <2>2, <2>4
  <2> QED BY <2>1, <2>3, <2>4
<1>5. CASE CheckLocation
  <2>1. /\ cpc = "check" /\ cpc' \in {"idle", "arm"}
        /\ UNCHANGED <<cbmsg, cplat, nreq, tpc, tfam, accepted, answers>>
    BY <1>5 DEF CheckLocation, Return, taskVars
  <2>2. \A f \in Families : attr'[f] = attr[f] \/ f = Family(cplat)
    BY <1>0, <1>5 DEF CheckLocation
  <2>3. attr'[Family(cplat)] # "armed" /\ attr[Family(cplat)] # "armed"
    BY <1>0, <1>5 DEF CheckLocation
  <2>4. CASE Family(cplat) = "amap"
    BY <1>0, <2>1, <2>2, <2>3, <2>4
  <2>5. CASE Family(cplat) = "oneospos"
    BY <1>0, <2>1, <2>2, <2>3, <2>5
  <2> QED BY <1>f, <2>4, <2>5
<1>6. CASE ArmAttr
  <2>1. /\ cpc = "arm" /\ cpc' \in {"arm", "send"}
        /\ UNCHANGED <<cplat, nreq, tpc, tfam, accepted, answers>>
    BY <1>6 DEF ArmAttr, taskVars
  <2>2. /\ cbmsg'[Family(cplat)] = nreq
        /\ \A f \in Families : f # Family(cplat) =>
              cbmsg'[f] = cbmsg[f] /\ attr'[f] = attr[f]
    BY <1>0, <1>6 DEF ArmAttr
  <2>3. IF cpc' = "send" THEN attr'[Family(cplat)] = "armed"
                         ELSE attr'[Family(cplat)] = "null"
    BY <1>0, <1>6 DEF ArmAttr
  <2>4. answers[nreq] = 0
    BY <1>0, <2>1
  <2>5. \A f \in Families : f # Family(cplat) /\ attr'[f] = "armed" =>
            cbmsg[f] \in accepted /\ cbmsg'[f] # nreq
    BY <1>0, <2>1, <2>2
  <2>6. attr[Family(cplat)] # "armed" /\ Family(cplat) \in Families
    BY <2>1
  <2>7. CASE cpc' = "send"
    <3>1. CASE Family(cplat) = "amap"
      BY <1>0, <2>1, <2>2, <2>3, <2>4, <2>5, <2>6, <2>7, <3>1
    <3>2. CASE Family(cplat) = "oneospos"
      BY <1>0, <2>1, <2>2, <2>3, <2>4, <2>5, <2>6, <2>7, <3>2
    <3> QED BY <1>f, <3>1, <3>2
  <2>8. CASE cpc' = "arm"
    <3>1. CASE Family(cplat) = "amap"
      BY <1>0, <2>1, <2>2, <2>3, <2>5, <2>6, <2>8, <3>1
    <3>2. CASE Family(cplat) = "oneospos"
      BY <1>0, <2>1, <2>2, <2>3, <2>5, <2>6, <2>8, <3>2
    <3> QED BY <1>f, <3>1, <3>2
  <2> QED BY <2>1, <2>7, <2>8
<1>7. CASE SendLocation
  BY <1>0, <1>7 DEF SendLocation, Return, taskVars, QueueInv
<1>8. CASE ReplySuccess
  BY <1>0, <1>8 DEF ReplySuccess, Return, lbsVars, taskVars
<1> QED BY <1>1, <1>2, <1>3, <1>4, <1>5, <1>6, <1>7, <1>8 DEF AtTask

\* A step of the LBS task keeps OnceInv: Urc answers a request that was not
\* answered before, and frees its attribute before the next message.
LEMMA OnceLbs ==
  ASSUME TypeInv, OnceInv, LbsTask
  PROVE  OnceInv'
<1> USE DEF OnceInv, CallbackInv, Valid, Answered, Families, TaskGoto
<1>0. /\ attr \in [Families -> {"null", "set", "armed"}]
      /\ cbmsg \in [Families -> Nat]
      /\ answers \in [Requests -> Nat]
      /\ accepted \subseteq Requests
      /\ tfam \in Families
      /\ cpc # "idle" => nreq \in Requests
  BY DEF TypeInv, TypeOK
<1>00. UNCHANGED <<cbmsg, cpc, cplat, nreq, accepted>>
  BY LbsLeavesCommand DEF atVars
<1>1. CASE QueueRev \/ AsynFirst \/ AsynSecond
  BY <1>0, <1>00, <1>1
     DEF QueueRev, AsynFirst, AsynSecond, lbsVars, taskVars, seenVars
<1>2. CASE AsynAmap \/ AsynOneospos
  BY <1>0, <1>00, <1>2
     DEF AsynAmap, AsynOneospos, AsynLocation, lbsVars, taskVars
<1>3. CASE Urc
  BY <1>0, <1>00, <1>3 DEF Urc, lbsVars, taskVars
<1>4. CASE DeinitAmap
  BY <1>0, <1>00, <1>4 DEF DeinitAmap, FreeAttr, seenVars
<1>5. CASE DeinitOneospos \/ OneosposTail
  <2>1. /\ tpc \in {"free_oneospos", "tail"} /\ tpc' \in {"tail", "free_ue"}
        /\ UNCHANGED <<tfam, answers>>
        /\ attr' = [attr EXCEPT !["oneospos"] = "null"]
    BY <1>5 DEF DeinitOneospos, OneosposTail, FreeAttr, seenVars
  <2> QED BY <1>0, <1>00, <2>1
<1>6. CASE FreeUeinfo
  BY <1>0, <1>00, <1>6 DEF FreeUeinfo, lbsVars
<1> QED BY <1>1, <1>2, <1>3, <1>4, <1>5, <1>6 DEF LbsTask

\* The inductive invariant of all platforms.
CoreInv == TypeInv /\ CommandInv /\ QueueInv /\ OnceInv

\* It holds initially.
LEMMA CoreInit == Init => CoreInv
<1> SUFFICES ASSUME Init PROVE CommandInv /\ QueueInv /\ OnceInv
  BY TypeInit DEF CoreInv
<1> QED BY DEF Init, CommandInv, QueueInv, OnceInv, CallbackInv, Valid, Families

\* Every step keeps it, while msgsnd does not fail.
LEMMA CoreNext ==
  ASSUME "send" \notin Failures, CoreInv, [Next]_vars
  PROVE  CoreInv'
<1> SUFFICES OnceInv'
  BY TypeNext, CommandNext, QueueNext DEF CoreInv
<1> USE DEF CoreInv
<1>1. CASE UNCHANGED vars
  BY <1>1 DEF OnceInv, CallbackInv, Valid, Answered, vars, lbsVars, atVars,
              taskVars, seenVars
<1>2. CASE Next
  BY <1>2, OnceAt, OnceLbs DEF Next
<1> QED BY <1>1, <1>2

\* No request is answered twice and no refused request is answered
\* (AnswersMatchRequests), whatever platforms are switched between and
\* whatever else fails.
THEOREM AnswersCorrect ==
  ASSUME "send" \notin Failures
  PROVE  Spec => []AnswersMatchRequests
<1>1. CoreInv /\ [Next]_vars => CoreInv'
  BY CoreNext
<1>2. CoreInv => AnswersMatchRequests
  <2> SUFFICES ASSUME CoreInv, NEW r \in Requests
               PROVE  /\ answers[r] <= 1
                      /\ answers[r] = 1 => Valid(r)
                      /\ reply[r] \notin {"none", "SUCCESS"} => answers[r] = 0
    BY DEF AnswersMatchRequests, Valid
  <2>1. answers[r] \in Nat
    BY DEF CoreInv, TypeInv, TypeOK
  <2>2. reply[r] \notin {"none", "SUCCESS"} => ~Valid(r)
    BY DEF CoreInv, CommandInv, Valid
  <2> QED BY <2>1, <2>2 DEF CoreInv, OnceInv
<1> QED BY <1>1, <1>2, CoreInit, PTL DEF Spec

(***************************************************************************)
(* s_amap_attr is a lock when only the AMap platforms are configured.      *)
(***************************************************************************)

\* A step of the AT task keeps LockInv: InitAttr takes the lock only when it
\* is free.
LEMMA LockAt ==
  ASSUME Platforms \subseteq Amap, TypeInv, CommandInv, LockInv,
         AtTask \/ \E c \in Commands, p \in Platforms : Locate(c, p)
  PROVE  LockInv'
<1> USE DEF LockInv, AmapOnly, Handling, AttrPresentWhenUsed, Healthy, Return,
            taskVars, Family, Families
<1>0. /\ attr \in [Families -> {"null", "set", "armed"}]
      /\ msgs \in Nat /\ cpc \in ClientPcs
      /\ cpc # "idle" => s_platform \in Amap /\ cplat \in Amap
  BY DEF TypeInv, TypeOK
<1>1. ASSUME NEW c \in Commands, NEW p \in Platforms, Locate(c, p)
      PROVE  LockInv'
  BY <1>0, <1>1 DEF Locate
<1>2. CASE CreateTask
  BY <1>0, <1>2 DEF CreateTask
<1>3. CASE CreateQuen
  BY <1>0, <1>3 DEF CreateQuen
<1>4. CASE InitAttr
  BY <1>0, <1>4 DEF InitAttr
<1>5. CASE CheckLocation
  BY <1>0, <1>5 DEF CheckLocation
<1>6. CASE ArmAttr
  BY <1>0, <1>6 DEF ArmAttr
<1>7. CASE SendLocation
  BY <1>0, <1>7 DEF SendLocation
<1>8. CASE ReplySuccess
  BY <1>0, <1>8 DEF ReplySuccess, lbsVars
<1> QED BY <1>1, <1>2, <1>3, <1>4, <1>5, <1>6, <1>7, <1>8 DEF AtTask

\* A step of the LBS task keeps LockInv: it releases the lock after its
\* message and only then.
LEMMA LockLbs ==
  ASSUME TypeInv, LockInv, LbsTask
  PROVE  LockInv'
<1> USE DEF LockInv, AmapOnly, Handling, AttrPresentWhenUsed, Healthy,
            TaskGoto, Families, lbsVars, atVars, taskVars, seenVars
<1>0. /\ attr \in [Families -> {"null", "set", "armed"}]
      /\ msgs \in Nat
  BY DEF TypeInv, TypeOK
<1>00. UNCHANGED <<s_platform, cpc, cplat>>
  BY LbsLeavesCommand
<1>1. CASE QueueRev
  BY <1>0, <1>00, <1>1 DEF QueueRev, Crash
<1>2. CASE AsynFirst
  BY <1>0, <1>00, <1>2 DEF AsynFirst
<1>3. CASE AsynSecond
  BY <1>0, <1>00, <1>3 DEF AsynSecond, Amap
<1>4. CASE AsynAmap
  BY <1>0, <1>00, <1>4 DEF AsynAmap, AsynLocation
<1>5. CASE AsynOneospos \/ OneosposTail
  BY <1>5 DEF AsynOneospos, AsynLocation, OneosposTail, FreeAttr
<1>6. CASE Urc
  BY <1>0, <1>00, <1>6 DEF Urc, Crash
<1>7. CASE DeinitAmap
  BY <1>0, <1>00, <1>7 DEF DeinitAmap, FreeAttr
<1>8. CASE DeinitOneospos
  BY <1>0, <1>00, <1>8 DEF DeinitOneospos, FreeAttr
<1>9. CASE FreeUeinfo
  BY <1>0, <1>00, <1>9 DEF FreeUeinfo
<1> QED BY <1>1, <1>2, <1>3, <1>4, <1>5, <1>6, <1>7, <1>8, <1>9 DEF LbsTask

\* A step of the AT task keeps TurnInv: the send hands the turn to the LBS
\* task.
LEMMA TurnAt ==
  ASSUME TypeInv, CommandInv, LockInv, TurnInv,
         AtTask \/ \E c \in Commands, p \in Platforms : Locate(c, p)
  PROVE  TurnInv'
<1> USE DEF TurnInv, Outstanding, Return, taskVars
<1>0. /\ cbmsg \in [Families -> Nat] /\ answers \in [Requests -> Nat]
      /\ accepted \subseteq Requests
      /\ cpc # "idle" => nreq \in Requests /\ s_platform \in Amap
      /\ cpc \notin {"idle", "reply"} => nreq \notin accepted
      /\ "amap" \in Families
  BY DEF TypeInv, TypeOK, CommandInv, LockInv, AmapOnly, Families
<1>1. ASSUME NEW c \in Commands, NEW p \in Platforms, Locate(c, p)
      PROVE  TurnInv'
  BY <1>0, <1>1 DEF Locate
<1>2. CASE CreateTask
  <2>1. ~task => tpc = "none"
    BY DEF LockInv, AmapOnly
  <2> QED BY <1>0, <1>2, <2>1 DEF CreateTask
<1>3. CASE CreateQuen
  BY <1>0, <1>3 DEF CreateQuen
<1>4. CASE InitAttr
  BY <1>0, <1>4 DEF InitAttr
<1>5. CASE CheckLocation
  BY <1>0, <1>5 DEF CheckLocation
<1>6. CASE ArmAttr
  <2>1. msgs # 1 /\ tpc \notin {"first", "amap", "urc", "free_amap"}
    BY <1>6 DEF ArmAttr, LockInv, Handling
  <2> QED BY <1>0, <1>6, <2>1 DEF ArmAttr, Family
<1>7. CASE SendLocation
  <2>1. msgs = 0 /\ tpc \notin {"first", "amap", "urc", "free_amap"}
    BY <1>7 DEF SendLocation, LockInv, Handling
  <2> QED BY <1>0, <1>7, <2>1 DEF SendLocation
<1>8. CASE ReplySuccess
  BY <1>0, <1>8 DEF ReplySuccess, lbsVars
<1> QED BY <1>1, <1>2, <1>3, <1>4, <1>5, <1>6, <1>7, <1>8 DEF AtTask

\* A step of the LBS task keeps TurnInv: the answer comes before the release.
LEMMA TurnLbs ==
  ASSUME TypeInv, LockInv, TurnInv, LbsTask
  PROVE  TurnInv'
<1> USE DEF TurnInv, Outstanding, TaskGoto, lbsVars, taskVars, seenVars
<1>0. /\ cbmsg \in [Families -> Nat] /\ answers \in [Requests -> Nat]
      /\ accepted \subseteq Requests /\ msgs \in Nat /\ msgs <= 1
      /\ tfam = "amap" /\ "amap" \in Families
  BY DEF TypeInv, TypeOK, LockInv, AmapOnly, Families
<1>00. UNCHANGED <<cbmsg, cpc, nreq, accepted>>
  BY LbsLeavesCommand DEF atVars
<1>1. CASE QueueRev
  BY <1>0, <1>00, <1>1 DEF QueueRev
<1>2. CASE AsynFirst
  <2>1. s_platform \in Amap
    BY <1>2 DEF AsynFirst, LockInv, AmapOnly
  <2> QED BY <1>0, <1>00, <1>2, <2>1 DEF AsynFirst
<1>3. CASE AsynSecond
  BY <1>0, <1>00, <1>3 DEF AsynSecond
<1>4. CASE AsynAmap
  <2>1. tpc = "amap" /\ attr["amap"] = "armed"
    BY <1>4 DEF AsynAmap, AsynLocation, LockInv, Handling
  <2>2. tpc' = "urc" /\ UNCHANGED <<msgs, answers>>
    BY <1>4, <2>1 DEF AsynAmap, AsynLocation
  <2> QED BY <1>0, <1>00, <2>1, <2>2
<1>5. CASE AsynOneospos \/ OneosposTail
  BY <1>5 DEF AsynOneospos, AsynLocation, OneosposTail, FreeAttr, LockInv,
              AmapOnly
<1>6. CASE Urc
  <2>1. msgs # 1
    BY <1>6 DEF Urc, LockInv, Handling
  <2> QED BY <1>0, <1>00, <1>6, <2>1 DEF Urc
<1>7. CASE DeinitAmap
  BY <1>0, <1>00, <1>7 DEF DeinitAmap, FreeAttr
<1>8. CASE DeinitOneospos
  BY <1>0, <1>00, <1>8 DEF DeinitOneospos, FreeAttr
<1>9. CASE FreeUeinfo
  BY <1>0, <1>00, <1>9 DEF FreeUeinfo
<1> QED BY <1>1, <1>2, <1>3, <1>4, <1>5, <1>6, <1>7, <1>8, <1>9 DEF LbsTask

\* The inductive invariant of the AMap platforms.
AmapInv == TypeInv /\ CommandInv /\ LockInv /\ TurnInv

\* The inductive invariant of the AMap platforms holds initially.
LEMMA AmapInit == Init => AmapInv
<1> SUFFICES ASSUME Init PROVE CommandInv /\ LockInv /\ TurnInv
  BY TypeInit DEF AmapInv
<1>1. CommandInv
  BY DEF Init, CommandInv
<1>2. LockInv
  BY DEF Init, LockInv, AmapOnly, Handling, AttrPresentWhenUsed, Families
<1>3. TurnInv
  BY DEF Init, TurnInv, Outstanding
<1> QED BY <1>1, <1>2, <1>3

\* Every step keeps the inductive invariant of the AMap platforms.
LEMMA AmapNext ==
  ASSUME Platforms \subseteq Amap, AmapInv, [Next]_vars
  PROVE  AmapInv'
<1>1. TypeInv' /\ CommandInv'
  BY TypeNext, CommandNext DEF AmapInv
<1>2. CASE UNCHANGED vars
  BY <1>1, <1>2 DEF AmapInv, LockInv, AmapOnly, Handling, TurnInv, Outstanding,
     AttrPresentWhenUsed, vars, lbsVars, atVars, taskVars, seenVars
<1>3. CASE Next
  BY <1>1, <1>3, LockAt, LockLbs, TurnAt, TurnLbs DEF Next, AmapInv
<1> QED BY <1>2, <1>3

\* With the AMap platforms alone at most one request is in flight
\* (OneRequestInFlight), the LBS task always finds the attribute and its
\* callback (AttrPresentWhenUsed), and answers match requests, for any
\* number of requests and whatever fails.
THEOREM AmapSerialised ==
  ASSUME Platforms \subseteq Amap
  PROVE  Spec => [](OneRequestInFlight /\ AttrPresentWhenUsed
                    /\ AnswersMatchRequests)
<1>1. Init => AmapInv
  BY AmapInit
<1>2. AmapInv /\ [Next]_vars => AmapInv'
  BY AmapNext
<1>3. AmapInv => OneRequestInFlight /\ AttrPresentWhenUsed
  BY DEF AmapInv, LockInv, TurnInv, OneRequestInFlight
<1>4. AmapInv => AnswersMatchRequests
  <2> SUFFICES ASSUME AmapInv, NEW r \in Requests
               PROVE  /\ answers[r] <= 1
                      /\ answers[r] = 1 => r \in accepted
                      /\ reply[r] \notin {"none", "SUCCESS"} => answers[r] = 0
    BY DEF AnswersMatchRequests
  <2> QED BY DEF AmapInv, TurnInv, CommandInv
<1> QED BY <1>1, <1>2, <1>3, <1>4, PTL DEF Spec

\* With the AMap platforms alone no step frees the attribute of an accepted
\* request before its answer (RequestFreedOnlyAfterAnswer).
THEOREM AmapFreedAfterAnswer ==
  ASSUME Platforms \subseteq Amap
  PROVE  Spec => RequestFreedOnlyAfterAnswer
<1> DEFINE Freed(f) == attr[f] = "armed" /\ cbmsg[f] \in accepted
                         /\ attr'[f] # "armed"
           Step == \A f \in Families : Freed(f) => answers[cbmsg[f]] = 1
<1>1. Init => AmapInv
  BY AmapInit
<1>2. AmapInv /\ [Next]_vars => AmapInv'
  BY AmapNext
<1>3. AmapInv /\ [Next]_vars => [Step]_vars
  <2> SUFFICES ASSUME AmapInv, [Next]_vars, NEW f \in Families, Freed(f)
               PROVE  answers[cbmsg[f]] = 1
    OBVIOUS
  <2>1. /\ f = "amap" /\ attr \in [Families -> {"null", "set", "armed"}]
        /\ attr["amap"] = "armed" /\ attr'["amap"] # "armed"
        /\ "amap" \in Families
    BY DEF AmapInv, LockInv, AmapOnly, TypeInv, TypeOK, Families
  <2>2. cpc \notin {"idle", "reply"} =>
            nreq \notin accepted /\ s_platform \in Amap /\ cplat \in Amap
    BY DEF AmapInv, CommandInv, LockInv, AmapOnly
  <2>3. /\ cpc \in {"check", "arm"} => attr["amap"] = "set"
        /\ cpc = "send" => cbmsg["amap"] = nreq
        /\ tpc \notin {"oneospos", "tail"}
        /\ tpc = "free_amap" => answers[cbmsg["amap"]] = 1
    BY DEF AmapInv, LockInv, AmapOnly, TurnInv
  <2>4. ~UNCHANGED attr
    BY <2>1
  <2>5. ASSUME AtTask \/ \E c \in Commands, p \in Platforms : Locate(c, p)
        PROVE  FALSE
    BY <2>1, <2>2, <2>3, <2>4, <2>5 DEF AtTask, Locate, CreateTask, CreateQuen, InitAttr,
       CheckLocation, ArmAttr, SendLocation, ReplySuccess, lbsVars, Family
  <2>6. ASSUME LbsTask PROVE tpc = "free_amap"
    BY <2>1, <2>3, <2>4, <2>6 DEF LbsTask, QueueRev, AsynFirst, AsynSecond,
       AsynAmap, AsynOneospos, AsynLocation, Urc, DeinitAmap, DeinitOneospos,
       OneosposTail, FreeAttr, FreeUeinfo, lbsVars
  <2>7. Next
    BY <2>4 DEF vars, lbsVars
  <2> QED BY <2>1, <2>3, <2>5, <2>6, <2>7 DEF Next
<1> QED BY <1>1, <1>2, <1>3, PTL DEF Spec, RequestFreedOnlyAfterAnswer

\* With the AMap platforms alone neither thread ever finds the attribute it
\* uses missing or without its callback (AttrPresentWhenUsed).
THEOREM AmapAttrPresent ==
  ASSUME Platforms \subseteq Amap
  PROVE  Spec => []AttrPresentWhenUsed
BY AmapSerialised, PTL

(***************************************************************************)
(* The race of the LBS thread with the creation of its queue.              *)
(***************************************************************************)

\* Without a queue nothing has been accepted, and who met that has ended.
StartInv ==
    /\ ~queun => accepted = {}
    /\ "null_queue" \in faults => crashed /\ accepted = {}

\* A step keeps StartInv: CreateQuen, the only one that may leave the queue
\* NULL, runs when it is NULL anyway.
LEMMA StartNext ==
  ASSUME TypeInv, QueueInv, StartInv, [Next]_vars
  PROVE  StartInv'
<1> USE DEF StartInv, Healthy
<1>1. CASE CreateTask \/ InitAttr \/ CheckLocation \/ ReplySuccess
  BY <1>1 DEF CreateTask, InitAttr, CheckLocation, ReplySuccess, lbsVars
<1>2. CASE CreateQuen
  BY <1>2 DEF CreateQuen, QueueInv
<1>3. CASE ArmAttr
  BY <1>3 DEF ArmAttr, Crash
<1>4. CASE SendLocation
  BY <1>4 DEF SendLocation
<1>5. ASSUME NEW c \in Commands, NEW p \in Platforms, Locate(c, p) PROVE StartInv'
  BY <1>5 DEF Locate
<1>6. CASE LbsTask
  <2>1. UNCHANGED <<queun, accepted>> /\ ~crashed
    BY <1>6, LbsLeavesCommand DEF LbsTask, QueueRev, AsynFirst, AsynSecond,
       AsynAmap, AsynOneospos, AsynLocation, Urc, DeinitAmap, DeinitOneospos,
       OneosposTail, FreeAttr, FreeUeinfo
  <2>2. CASE QueueRev
    BY <2>1, <2>2 DEF QueueRev, Crash
  <2>3. CASE ~QueueRev
    <3>1. CASE AsynFirst \/ AsynSecond \/ DeinitAmap \/ DeinitOneospos \/ OneosposTail
      BY <2>1, <3>1 DEF AsynFirst, AsynSecond, DeinitAmap, DeinitOneospos,
                        OneosposTail, FreeAttr, seenVars
    <3>2. ASSUME NEW f \in Families, NEW outcomes, AsynLocation(f, outcomes) PROVE StartInv'
      <4>1. \/ faults' = faults \cup {"null_attr"}
            \/ faults' = faults \cup {"null_cb"}
            \/ faults' = faults
        <5>1. attr[f] \in {"null", "set", "armed"}
          BY <3>2 DEF TypeInv, TypeOK
        <5> QED BY <3>2, <5>1 DEF AsynLocation, Crash
      <4> QED BY <2>1, <4>1
    <3>3. CASE Urc
      BY <2>1, <3>3 DEF Urc, Crash
    <3>4. CASE FreeUeinfo
      BY <2>1, <3>4 DEF FreeUeinfo
    <3> QED BY <1>6, <2>3, <3>1, <3>2, <3>3, <3>4
            DEF LbsTask, AsynAmap, AsynOneospos, Families
  <2> QED BY <2>2, <2>3
<1>7. CASE UNCHANGED vars
  BY <1>7 DEF vars, lbsVars, seenVars
<1> QED BY <1>1, <1>2, <1>3, <1>4, <1>5, <1>6, <1>7 DEF Next, AtTask

\* The LBS thread finds no queue only before the first request has been
\* accepted, on every platform and whatever fails (QueueRaceOnlyAtStart).
THEOREM QueueRace == Spec => []QueueRaceOnlyAtStart
<1> DEFINE Inv == TypeInv /\ QueueInv /\ StartInv
<1>1. Init => Inv
  <2> SUFFICES ASSUME Init PROVE QueueInv /\ StartInv
    BY TypeInit
  <2> QED BY DEF Init, QueueInv, StartInv
<1>2. Inv /\ [Next]_vars => Inv'
  BY TypeNext, QueueNext, StartNext
<1>3. Inv => QueueRaceOnlyAtStart
  BY DEF StartInv, QueueRaceOnlyAtStart
<1> QED BY <1>1, <1>2, <1>3, PTL DEF Spec

(***************************************************************************)
(* One answer per request at most, on every platform and whatever fails.   *)
(***************************************************************************)

\* The command has begun and not yet registered its callback.
BeforeArm == cpc \in {"create", "queue", "init", "check", "arm"} /\ ~crashed

\* The callbacks the two families hold belong to different requests, and
\* none to the request of a command that has not registered its own.
HolderInv ==
    /\ \A f \in Families : cbmsg[f] <= nreq /\ (BeforeArm => cbmsg[f] < nreq)
    /\ cbmsg["amap"] = cbmsg["oneospos"] => cbmsg["amap"] = 0

\* A callback that may still be called has not been called before, although
\* after a failed send it may no longer be in an armed attribute.
UncalledInv ==
    /\ \A f \in Families : attr[f] = "armed" =>
          cbmsg[f] >= 1 /\ (answers[cbmsg[f]] = 0 \/ Answered(f))
    /\ tpc = "urc" => cbmsg[tfam] >= 1 /\ answers[cbmsg[tfam]] = 0
    /\ BeforeArm => answers[nreq] = 0
    /\ \A r \in Requests : answers[r] <= 1 /\ (r > nreq => answers[r] = 0)

AnsweredAtMostOnce == \A r \in Requests : answers[r] <= 1

\* A step keeps HolderInv: only ArmAttr changes a holder.
LEMMA HolderNext ==
  ASSUME TypeInv, CommandInv, HolderInv, [Next]_vars
  PROVE  HolderInv'
<1> USE RequestsAssumption DEF HolderInv, BeforeArm, Families
<1>0. /\ cbmsg \in [Families -> Nat]
      /\ nreq \in 0..MaxRequests
      /\ cpc # "idle" => nreq \in Requests /\ s_platform = cplat
  BY DEF TypeInv, TypeOK, CommandInv
<1>1. ASSUME NEW c \in Commands, NEW p \in Platforms, Locate(c, p)
      PROVE  HolderInv'
  BY <1>0, <1>1 DEF Locate
<1>2. CASE CreateTask \/ CreateQuen \/ InitAttr \/ CheckLocation \/ SendLocation
            \/ ReplySuccess
  <2>1. UNCHANGED <<cbmsg, nreq, crashed>> /\ (BeforeArm' => BeforeArm)
    BY <1>2 DEF CreateTask, CreateQuen, InitAttr, CheckLocation, SendLocation,
       ReplySuccess, Return, Healthy, lbsVars
  <2> QED BY <2>1
<1>3. CASE ArmAttr
  <2>1. /\ ~BeforeArm' /\ nreq' = nreq /\ nreq >= 1
        /\ \A f \in Families : cbmsg[f] < nreq
    BY <1>0, <1>3 DEF ArmAttr, Crash, Requests
  <2>2. cbmsg' = [cbmsg EXCEPT ![Family(s_platform)] = nreq]
    BY <1>3 DEF ArmAttr
  <2> QED BY <1>0, <2>1, <2>2 DEF Family
<1>4. CASE LbsTask
  <2>1. UNCHANGED <<cbmsg, cpc, nreq>> /\ ~crashed
    BY <1>4, LbsLeavesCommand DEF LbsTask, QueueRev, AsynFirst, AsynSecond,
       AsynAmap, AsynOneospos, AsynLocation, Urc, DeinitAmap, DeinitOneospos,
       OneosposTail, FreeAttr, FreeUeinfo, atVars
  <2> QED BY <2>1
<1>5. CASE UNCHANGED vars
  BY <1>5 DEF vars, lbsVars, atVars, seenVars
<1> QED BY <1>1, <1>2, <1>3, <1>4, <1>5 DEF Next, AtTask

\* A step of the AT task keeps UncalledInv: it arms an attribute with a
\* request that has no answer yet.
LEMMA UncalledAt ==
  ASSUME TypeInv, CommandInv, QueueInv, HolderInv, UncalledInv,
         AtTask \/ \E c \in Commands, p \in Platforms : Locate(c, p)
  PROVE  UncalledInv'
<1> USE RequestsAssumption DEF UncalledInv, BeforeArm, Answered, Families
<1>0. /\ cbmsg \in [Families -> Nat] /\ nreq \in 0..MaxRequests
      /\ attr \in [Families -> {"null", "set", "armed"}]
      /\ answers \in [Requests -> Nat] /\ tfam \in Families
      /\ cpc # "idle" => nreq \in Requests
  BY DEF TypeInv, TypeOK
<1>1. ASSUME NEW c \in Commands, NEW p \in Platforms, Locate(c, p)
      PROVE  UncalledInv'
  <2>1. /\ nreq' = nreq + 1 /\ nreq' \in Requests
        /\ UNCHANGED <<attr, cbmsg, tpc, tfam, answers>>
    BY <1>0, <1>1 DEF Locate, taskVars, Requests
  <2> QED BY <1>0, <2>1 DEF Requests
<1>2. CASE CreateTask
  <2>1. ~task => tpc \in {"none", "wait"}
    BY DEF QueueInv
  <2>2. UNCHANGED <<attr, cbmsg, tfam, answers, nreq, crashed>>
    BY <1>2 DEF CreateTask, Healthy
  <2>3. cpc = "create" /\ ~crashed /\ (tpc' = tpc \/ (~task /\ tpc' = "wait"))
    BY <1>2 DEF CreateTask
  <2> QED BY <1>0, <2>1, <2>2, <2>3
<1>3. CASE CreateQuen \/ InitAttr \/ CheckLocation \/ SendLocation
            \/ ReplySuccess
  <2>1. /\ UNCHANGED <<cbmsg, tpc, tfam, answers, nreq, crashed>>
        /\ BeforeArm' => BeforeArm
    BY <1>3 DEF CreateQuen, InitAttr, CheckLocation, SendLocation,
       ReplySuccess, Return, Healthy, lbsVars, taskVars
  <2>2. \A f \in Families : attr'[f] = "armed" => attr[f] = "armed"
    BY <1>0, <1>3 DEF CreateQuen, InitAttr, CheckLocation, SendLocation,
       ReplySuccess, lbsVars, Family
  <2> QED BY <1>0, <2>1, <2>2
<1>4. CASE ArmAttr
  <2>1. /\ ~BeforeArm' /\ nreq \in Requests /\ nreq >= 1 /\ answers[nreq] = 0
        /\ UNCHANGED <<tpc, tfam, answers, nreq>>
    BY <1>0, <1>4 DEF ArmAttr, Crash, taskVars, Requests
  <2>2. \A f \in Families :
            \/ cbmsg'[f] = nreq
            \/ cbmsg'[f] = cbmsg[f] /\ attr'[f] = attr[f]
    BY <1>0, <1>4 DEF ArmAttr, Family
  <2> QED BY <1>0, <2>1, <2>2
<1> QED BY <1>1, <1>2, <1>3, <1>4 DEF AtTask

\* A step of the LBS task keeps UncalledInv: Urc answers the request of one
\* family and leaves that of the other alone.
LEMMA UncalledLbs ==
  ASSUME TypeInv, HolderInv, UncalledInv, LbsTask
  PROVE  UncalledInv'
<1> USE RequestsAssumption DEF UncalledInv, Answered, Families, TaskGoto
<1>0. /\ cbmsg \in [Families -> Nat] /\ nreq \in 0..MaxRequests
      /\ attr \in [Families -> {"null", "set", "armed"}]
      /\ answers \in [Requests -> Nat] /\ tfam \in Families
  BY DEF TypeInv, TypeOK
<1>00. UNCHANGED <<cbmsg, cpc, nreq>> /\ ~crashed
  BY LbsLeavesCommand DEF LbsTask, QueueRev, AsynFirst, AsynSecond,
     AsynAmap, AsynOneospos, AsynLocation, Urc, DeinitAmap, DeinitOneospos,
     OneosposTail, FreeAttr, FreeUeinfo, atVars
<1>b. BeforeArm' => BeforeArm
  BY <1>00 DEF BeforeArm
<1>1. CASE QueueRev \/ AsynFirst \/ AsynSecond
  BY <1>0, <1>00, <1>b, <1>1
     DEF QueueRev, AsynFirst, AsynSecond, lbsVars, taskVars, seenVars
<1>2. CASE AsynAmap \/ AsynOneospos
  BY <1>0, <1>00, <1>b, <1>2
     DEF AsynAmap, AsynOneospos, AsynLocation, lbsVars, taskVars
<1>3. CASE Urc
  <2>1. CASE UNCHANGED <<answers, taskVars>>
    BY <1>0, <1>00, <1>b, <1>3, <2>1 DEF Urc, lbsVars, taskVars
  <2>2. CASE tpc' = "free_amap" /\ answers' = [answers EXCEPT ![cbmsg[tfam]] = @ + 1]
    <3>1. /\ tpc = "urc" /\ tpc' = "free_amap" /\ UNCHANGED <<attr, tfam>>
          /\ answers' = [answers EXCEPT ![cbmsg[tfam]] = @ + 1]
      BY <1>3, <2>2 DEF Urc, TaskGoto, lbsVars, taskVars
    <3>2. /\ cbmsg[tfam] \in Requests /\ cbmsg[tfam] <= nreq
          /\ BeforeArm => cbmsg[tfam] # nreq
          /\ answers[cbmsg[tfam]] = 0
      BY <1>0, <3>1 DEF HolderInv, Requests
    <3>3. \A f \in Families : f # tfam => cbmsg[f] # cbmsg[tfam]
      BY <1>0, <3>1 DEF HolderInv
    <3>4. \A r : r # cbmsg[tfam] /\ r \in Requests => answers'[r] = answers[r]
      BY <1>0, <3>1
    <3>5. answers'[cbmsg[tfam]] = 1
      BY <1>0, <3>1, <3>2
    <3>6. \A f \in Families : cbmsg[f] <= nreq
      BY DEF HolderInv
    <3> QED BY <1>0, <1>00, <1>b, <3>1, <3>2, <3>3, <3>4, <3>5, <3>6
            DEF Requests, BeforeArm
  <2> QED BY <1>3, <2>1, <2>2 DEF Urc, TaskGoto
<1>4. CASE DeinitAmap
  BY <1>0, <1>00, <1>b, <1>4 DEF DeinitAmap, FreeAttr, seenVars
<1>5. CASE DeinitOneospos \/ OneosposTail
  <2>1. /\ tpc \in {"free_oneospos", "tail"} /\ tpc' \in {"tail", "free_ue"}
        /\ UNCHANGED <<tfam, answers>>
        /\ attr' = [attr EXCEPT !["oneospos"] = "null"]
    BY <1>5 DEF DeinitOneospos, OneosposTail, FreeAttr, seenVars
  <2> QED BY <1>0, <1>00, <1>b, <2>1
<1>6. CASE FreeUeinfo
  BY <1>0, <1>00, <1>b, <1>6 DEF FreeUeinfo, lbsVars
<1> QED BY <1>1, <1>2, <1>3, <1>4, <1>5, <1>6 DEF LbsTask

\* No callback is called twice for a request: on every mix of platforms,
\* whatever fails, the failed send of another request included, after which
\* AnswersMatchRequests as a whole no longer holds.
THEOREM AtMostOnce == Spec => []AnsweredAtMostOnce
<1> DEFINE Inv == TypeInv /\ CommandInv /\ QueueInv /\ HolderInv /\ UncalledInv
<1>1. Init => Inv
  <2> SUFFICES ASSUME Init PROVE HolderInv /\ UncalledInv
    BY CoreInit DEF CoreInv
  <2> QED BY DEF Init, HolderInv, UncalledInv, BeforeArm, Families
<1>2. Inv /\ [Next]_vars => Inv'
  <2> SUFFICES ASSUME Inv, [Next]_vars PROVE UncalledInv'
    BY TypeNext, CommandNext, QueueNext, HolderNext
  <2>1. CASE UNCHANGED vars
    BY <2>1 DEF UncalledInv, BeforeArm, Answered, vars, lbsVars, atVars,
                taskVars, seenVars
  <2>2. CASE Next
    BY <2>2, UncalledAt, UncalledLbs DEF Next
  <2> QED BY <2>1, <2>2
<1>3. Inv => AnsweredAtMostOnce
  BY DEF UncalledInv, AnsweredAtMostOnce
<1> QED BY <1>1, <1>2, <1>3, PTL DEF Spec

(***************************************************************************)
(* Nothing is lost with the AMap platforms: the safety part of why every   *)
(* accepted request is answered and the busy state ends.                   *)
(***************************************************************************)

\* The LBS thread, once created, does not end.
ThreadInv == task => tpc # "none"

\* A step keeps ThreadInv.
LEMMA ThreadNext ==
  ASSUME TypeInv, ThreadInv, [Next]_vars
  PROVE  ThreadInv'
<1> USE DEF ThreadInv
<1>1. CASE CreateTask
  BY <1>1 DEF CreateTask
<1>2. CASE CreateQuen \/ InitAttr \/ CheckLocation \/ ArmAttr \/ SendLocation
            \/ ReplySuccess \/ UNCHANGED vars
  BY <1>2 DEF CreateQuen, InitAttr, CheckLocation, ArmAttr, SendLocation,
     ReplySuccess, vars, lbsVars, taskVars
<1>3. ASSUME NEW c \in Commands, NEW p \in Platforms, Locate(c, p)
      PROVE  ThreadInv'
  BY <1>3 DEF Locate, taskVars
<1>4. CASE LbsTask
  <2>1. tpc # "none" => tpc' # "none"
    <3>1. \A f \in Families : attr[f] \in {"null", "set", "armed"}
      BY DEF TypeInv, TypeOK
    <3>2. ASSUME NEW f \in Families, NEW outcomes, AsynLocation(f, outcomes)
          PROVE  tpc' \in {tpc, "urc"}
      BY <3>1, <3>2 DEF AsynLocation, taskVars
    <3>3. CASE AsynAmap \/ AsynOneospos
      BY <3>2, <3>3 DEF AsynAmap, AsynOneospos, Families
    <3>4. CASE ~(AsynAmap \/ AsynOneospos)
      BY <1>4, <3>4 DEF LbsTask, QueueRev, AsynFirst, AsynSecond, Urc,
         DeinitAmap, DeinitOneospos, OneosposTail, FreeAttr, FreeUeinfo,
         TaskGoto, taskVars
    <3> QED BY <3>3, <3>4
  <2>2. tpc # "none"
    BY <1>4 DEF LbsTask, QueueRev, AsynFirst, AsynSecond, AsynAmap,
       AsynOneospos, AsynLocation, Urc, DeinitAmap, DeinitOneospos,
       OneosposTail, FreeAttr, FreeUeinfo
  <2> QED BY <2>1, <2>2
<1> QED BY <1>1, <1>2, <1>3, <1>4 DEF Next, AtTask

\* The inductive invariant of the AMap platforms with what the other
\* invariants say of the queue and its reader.
ServedInv == AmapInv /\ QueueInv /\ StartInv /\ ThreadInv

\* It holds initially.
LEMMA ServedInit == Init => ServedInv
<1> SUFFICES ASSUME Init PROVE QueueInv /\ StartInv /\ ThreadInv
  BY AmapInit DEF ServedInv
<1> QED BY DEF Init, QueueInv, StartInv, ThreadInv

\* Every step keeps it.
LEMMA ServedNext ==
  ASSUME Platforms \subseteq Amap, ServedInv, [Next]_vars
  PROVE  ServedInv'
BY AmapNext, QueueNext, StartNext, ThreadNext DEF ServedInv, AmapInv

\* A queued message has a queue and a reader.
LEMMA MessageHasReader ==
  ASSUME ServedInv, msgs = 1
  PROVE  queun /\ tpc # "none"
<1>1. accepted # {}
  BY DEF ServedInv, AmapInv, TurnInv
<1>2. queun
  BY <1>1 DEF ServedInv, StartInv
<1> QED BY <1>2 DEF ServedInv, QueueInv, ThreadInv

\* With the AMap platforms alone an accepted request waits for its answer in
\* an armed attribute, with its message queued or in the LBS task's hands
\* (NoRequestLost), and the busy state always has somebody who ends it
\* (BusyHasOwner), for any number of requests and whatever fails.
THEOREM AmapNothingLost ==
  ASSUME Platforms \subseteq Amap
  PROVE  Spec => [](NoRequestLost /\ BusyHasOwner)
<1>1. Init => ServedInv
  BY ServedInit
<1>2. ServedInv /\ [Next]_vars => ServedInv'
  BY ServedNext
<1>3. ServedInv => NoRequestLost
  <2> SUFFICES ASSUME ServedInv, NEW r \in Outstanding
               PROVE  /\ attr["amap"] = "armed" /\ cbmsg["amap"] = r
                      /\ \/ msgs = 1 /\ queun /\ tpc # "none"
                         \/ tpc \in {"first", "amap", "urc"}
    BY DEF NoRequestLost, Families
  <2>1. r = cbmsg["amap"] /\ (msgs = 1 \/ tpc \in {"first", "amap", "urc"})
    BY DEF ServedInv, AmapInv, TurnInv
  <2>2. attr["amap"] = "armed"
    BY <2>1 DEF ServedInv, AmapInv, LockInv, Handling
  <2> QED BY <2>1, <2>2, MessageHasReader
<1>4. ServedInv => BusyHasOwner
  <2> SUFFICES ASSUME ServedInv, attr["amap"] # "null"
               PROVE  \/ cpc \in {"check", "arm", "send"}
                      \/ msgs = 1 /\ queun /\ tpc # "none"
                      \/ Handling
    BY DEF BusyHasOwner, Handling
  <2>1. attr["amap"] \in {"set", "armed"}
    BY DEF ServedInv, AmapInv, TypeInv, TypeOK, Families
  <2> QED BY <2>1, MessageHasReader DEF ServedInv, AmapInv, LockInv
<1> QED BY <1>1, <1>2, <1>3, <1>4, PTL DEF Spec

\* With the AMap platforms alone the attribute that makes further commands
\* fail as busy is never left behind by an error path: a command, a queued
\* message or the LBS task is there to free it (BusyHasOwner).
THEOREM AmapBusyOwned ==
  ASSUME Platforms \subseteq Amap
  PROVE  Spec => []BusyHasOwner
BY AmapNothingLost, PTL

(***************************************************************************)
(* The LBS task comes back to its queue, on every platform.                *)
(***************************************************************************)

\* A step of the LBS task decreases the steps it has left.
LEMMA Decreases ==
  ASSUME TypeInv, LbsTask
  PROVE  crashed' \/ 15 * msgs' + StepsLeft' < 15 * msgs + StepsLeft
<1> USE DEF StepsLeft, TaskGoto, Families
<1>0. msgs \in Nat /\ tfam \in Families /\ tpc \in TaskPcs
  BY DEF TypeInv, TypeOK
<1>1. CASE QueueRev
  <2>1. CASE queun
    <3>1. tpc = "wait" /\ tpc' = "first" /\ msgs' = msgs - 1 /\ msgs > 0
      BY <1>1, <2>1 DEF QueueRev
    <3> QED BY <1>0, <3>1
  <2>2. CASE ~queun
    BY <1>1, <2>2 DEF QueueRev, Crash
  <2> QED BY <2>1, <2>2
<1>2. CASE AsynFirst
  BY <1>0, <1>2 DEF AsynFirst, lbsVars
<1>3. CASE AsynSecond
  BY <1>0, <1>3 DEF AsynSecond, lbsVars
<1>4. CASE AsynAmap
  <2>1. crashed' \/ (tfam' = "amap" /\ tpc' = "urc")
    <3>1. attr["amap"] \in {"null", "set", "armed"}
      BY DEF TypeInv, TypeOK
    <3> QED BY <1>4, <3>1 DEF AsynAmap, AsynLocation, Crash
  <2> QED BY <1>0, <1>4, <2>1 DEF AsynAmap, AsynLocation, lbsVars
<1>5. CASE AsynOneospos
  <2>1. crashed' \/ (tfam' = "oneospos" /\ tpc' = "urc")
    <3>1. attr["oneospos"] \in {"null", "set", "armed"}
      BY DEF TypeInv, TypeOK
    <3> QED BY <1>5, <3>1 DEF AsynOneospos, AsynLocation, Crash
  <2> QED BY <1>0, <1>5, <2>1 DEF AsynOneospos, AsynLocation, lbsVars
<1>6. CASE Urc
  BY <1>0, <1>6 DEF Urc, Crash, lbsVars
<1>7. CASE DeinitAmap
  BY <1>0, <1>7 DEF DeinitAmap, FreeAttr
<1>8. CASE DeinitOneospos
  BY <1>0, <1>8 DEF DeinitOneospos, FreeAttr
<1>9. CASE OneosposTail
  BY <1>0, <1>9 DEF OneosposTail, FreeAttr
<1>10. CASE FreeUeinfo
  BY <1>0, <1>10 DEF FreeUeinfo, lbsVars
<1> QED BY <1>1, <1>2, <1>3, <1>4, <1>5, <1>6, <1>7, <1>8, <1>9, <1>10
        DEF LbsTask

\* Every step of the LBS task takes it closer to an empty queue and its wait
\* there, on every mix of platforms (LbsTaskAdvances).
THEOREM TaskAdvances == Spec => LbsTaskAdvances
<1>1. Init => TypeInv
  BY TypeInit
<1>2. TypeInv /\ [Next]_vars => TypeInv'
  BY TypeNext
<1>3. TypeInv /\ [Next]_vars =>
        [LbsTask => \/ crashed'
                    \/ 15 * msgs' + StepsLeft' < 15 * msgs + StepsLeft]_vars
  BY Decreases
<1> QED BY <1>1, <1>2, <1>3, PTL DEF Spec, LbsTaskAdvances

(***************************************************************************)
(* With the AMap platforms the request lifecycle implements                *)
(* LocationService.                                                        *)
(***************************************************************************)

Refused == {r \in Requests : reply[r] \notin {"none", "SUCCESS"}}

\* A command that is refused is the latest one.
LEMMA Refusing ==
  ASSUME AmapInv, cpc # "idle" \/ nreq < MaxRequests,
         NEW r \in Requests, NEW code \in AtCodes \ {"none", "SUCCESS"},
         cpc # "reply",
         r = IF cpc = "idle" THEN nreq + 1 ELSE nreq,
         reply' = [reply EXCEPT ![r] = code],
         UNCHANGED <<accepted, answers>>
  PROVE  Service!Refuse(r)
<1>1. /\ reply \in [Requests -> AtCodes] /\ nreq \in Nat
      /\ accepted \subseteq Requests /\ Requests \subseteq Nat
  BY RequestsAssumption DEF AmapInv, TypeInv, TypeOK, Requests
<1>2. \A s \in Requests : s > nreq => s \notin accepted /\ reply[s] = "none"
  BY DEF AmapInv, CommandInv
<1>3. cpc # "idle" => nreq \notin accepted /\ reply[nreq] = "none"
  BY DEF AmapInv, CommandInv
<1>4. r \notin accepted /\ reply[r] = "none"
  BY <1>1, <1>2, <1>3
<1>5. \A s \in accepted \cup Refused : s < r
  BY <1>1, <1>2, <1>3, <1>4 DEF Refused
<1>6. Refused' = Refused \cup {r}
  BY <1>1 DEF Refused
<1> QED BY <1>5, <1>6 DEF Service!Refuse, Service!New, Refused

\* Each step of the threads is a step of the service or changes nothing that
\* it shows.
LEMMA ServiceStep ==
  ASSUME Platforms \subseteq Amap, AmapInv, [Next]_vars
  PROVE  [Service!Next]_(<<accepted, Refused, answers>>)
<1> USE RequestsAssumption
<1>0. /\ reply \in [Requests -> AtCodes] /\ nreq \in 0..MaxRequests
      /\ accepted \subseteq Requests /\ Requests \subseteq Nat
      /\ answers \in [Requests -> Nat]
      /\ cmd \in Commands
      /\ cpc # "idle" => nreq \in Requests
  BY DEF AmapInv, TypeInv, TypeOK, Requests
<1>s. ASSUME UNCHANGED <<accepted, reply, answers>>
      PROVE  UNCHANGED <<accepted, Refused, answers>>
  BY <1>s DEF Refused
<1>r. ASSUME cpc \notin {"idle", "reply"},
             NEW code \in AtCodes \ {"none", "SUCCESS"}, Return(code),
             UNCHANGED <<accepted, answers>>
      PROVE  Service!Next
  BY <1>0, <1>r, Refusing DEF Return, Service!Next
<1>1. ASSUME NEW c \in Commands, NEW p \in Platforms, Locate(c, p)
      PROVE  Service!Next \/ UNCHANGED <<accepted, Refused, answers>>
  <2>1. CASE UNCHANGED reply
    BY <1>1, <1>s, <2>1 DEF Locate
  <2>2. ASSUME NEW call \in DOMAIN Refusals(c, p),
               reply' = [reply EXCEPT ![nreq + 1] = Refusals(c, p)[call]]
        PROVE  Service!Next
    <3>1. /\ nreq + 1 \in Requests /\ cpc = "idle" /\ nreq < MaxRequests
          /\ UNCHANGED <<accepted, answers>>
      BY <1>0, <1>1 DEF Locate, Requests
    <3>2. PICK r \in Requests : r = nreq + 1
      BY <3>1
    <3>3. Refusals(c, p)[call] \in AtCodes \ {"none", "SUCCESS"}
      BY RefusalCodes
    <3>4. Service!Refuse(r)
      BY <2>2, <3>1, <3>2, <3>3, Refusing
    <3> QED BY <3>4 DEF Service!Next
  <2> QED BY <1>1, <2>1, <2>2 DEF Locate
<1>2. CASE CreateTask
  BY <1>0, <1>s, <1>r, <1>2, Codes DEF CreateTask
<1>3. CASE CreateQuen
  BY <1>0, <1>s, <1>r, <1>3, Codes DEF CreateQuen
<1>4. CASE InitAttr
  BY <1>0, <1>s, <1>r, <1>4, Codes DEF InitAttr
<1>5. CASE CheckLocation
  BY <1>0, <1>s, <1>r, <1>5, Codes DEF CheckLocation
<1>6. CASE ArmAttr
  BY <1>s, <1>6 DEF ArmAttr
<1>7. CASE SendLocation
  <2>1. cpc = "send" /\ UNCHANGED answers
    BY <1>7 DEF SendLocation
  <2>2. CASE accepted' = accepted \cup {nreq} /\ UNCHANGED reply
    <3>1. msgs = 0 /\ tpc \notin {"first", "amap", "urc"}
      BY <2>1 DEF AmapInv, LockInv, Handling
    <3>2. Service!Pending = {}
      BY <3>1 DEF Service!Pending, AmapInv, TurnInv, Outstanding
    <3>3. /\ nreq \notin accepted /\ reply[nreq] = "none"
          /\ \A s \in Requests : s > nreq => s \notin accepted /\ reply[s] = "none"
      BY <2>1 DEF AmapInv, CommandInv
    <3>4. \A s \in accepted \cup Refused : s < nreq
      BY <1>0, <3>3 DEF Refused
    <3>5. Service!Accept(nreq)
      BY <2>1, <2>2, <3>2, <3>4 DEF Service!Accept, Service!New, Refused
    <3> QED BY <1>0, <2>1, <3>5 DEF Service!Next
  <2>3. CASE Return(LocationReply(cmd, 3)) /\ UNCHANGED accepted
    BY <1>0, <1>r, <2>1, <2>3, Codes
  <2> QED BY <1>7, <2>2, <2>3 DEF SendLocation
<1>8. CASE ReplySuccess
  <2>1. /\ nreq \in Requests /\ reply[nreq] = "none"
        /\ reply' = [reply EXCEPT ![nreq] = "SUCCESS"]
        /\ UNCHANGED <<accepted, answers>>
    BY <1>0, <1>8 DEF ReplySuccess, Return, AmapInv, CommandInv
  <2>2. Refused' = Refused
    BY <1>0, <2>1 DEF Refused
  <2> QED BY <2>1, <2>2
<1>9. CASE Urc
  <2>1. CASE UNCHANGED answers
    BY <1>s, <1>9, <2>1 DEF Urc
  <2>2. CASE answers' = [answers EXCEPT ![cbmsg[tfam]] = @ + 1]
    <3>1. tfam = "amap" /\ tpc = "urc" /\ UNCHANGED <<accepted, reply>>
      BY <1>9 DEF Urc, AmapInv, LockInv, AmapOnly
    <3>2. cbmsg["amap"] \in accepted /\ answers[cbmsg["amap"]] = 0
      BY <3>1 DEF AmapInv, TurnInv
    <3>3. Service!Pending = {cbmsg["amap"]}
      BY <3>2 DEF Service!Pending, AmapInv, TurnInv, Outstanding
    <3>4. answers' = [answers EXCEPT ![cbmsg["amap"]] = 1]
      BY <1>0, <2>2, <3>1, <3>2
    <3>5. Service!Answer(cbmsg["amap"])
      BY <3>1, <3>3, <3>4 DEF Service!Answer, Refused
    <3> QED BY <1>0, <3>2, <3>5 DEF Service!Next
  <2> QED BY <1>9, <2>1, <2>2 DEF Urc
<1>10. CASE UNCHANGED vars \/ (LbsTask /\ ~Urc)
  <2>1. UNCHANGED <<accepted, reply, answers>>
    BY <1>10 DEF vars, LbsTask, QueueRev, AsynFirst, AsynSecond, AsynAmap,
       AsynOneospos, AsynLocation, DeinitAmap, DeinitOneospos, OneosposTail,
       FreeAttr, FreeUeinfo, seenVars
  <2> QED BY <1>s, <2>1
<1> QED BY <1>1, <1>2, <1>3, <1>4, <1>5, <1>6, <1>7, <1>8, <1>9, <1>10
        DEF Next, AtTask

\* With the AMap platforms alone users see a service that takes one request
\* at a time, answers each accepted one once before the next, and refused
\* ones never (ImplementsService), whatever fails.
THEOREM AmapService ==
  ASSUME Platforms \subseteq Amap
  PROVE  Spec => ImplementsService
<1>1. Init => Service!Init
  BY DEF Init, Service!Init
<1>2. AmapInv /\ [Next]_vars =>
        [Service!Next]_(<<accepted,
            {r \in Requests : reply[r] \notin {"none", "SUCCESS"}}, answers>>)
  BY ServiceStep DEF Refused
<1> QED BY <1>1, <1>2, AmapInit, AmapNext, PTL
        DEF Spec, ImplementsService, Service!Spec
=============================================================================
