-------------------------- MODULE LbsSystemProofs ---------------------------
(***************************************************************************)
(* The composed service implements LbsCore: a platform that is called only *)
(* in states its own history allows treats a request in one of the ways    *)
(* LbsCore chooses from.  What LbsCoreProofs shows of LbsCore therefore    *)
(* holds of the service.                                                   *)
(***************************************************************************)
EXTENDS LbsSystem, LbsCoreProofs

(***************************************************************************)
(* The calls of the platforms.                                             *)
(***************************************************************************)

\* What a platform call with parameters r may do to the callback.
Contract(r) ==
    /\ asked' = r
    /\ \/ calls' = 1 /\ ret' \in {"OK", "crash"} /\ given' \in {r, NULL}
       \/ calls' = 0 /\ ret' \in {"BUSY", "PARAMERR", "MEMROYERR", "ERR", "crash"}

LEMMA AmapCall ==
    ASSUME AmapPlatform!AnsweredMeansBusy, NEW r,
           AmapPlatform!cm_amap_location(r)
    PROVE  Contract(r) /\ AmapPlatform!AnsweredMeansBusy'
<1> USE DEF AmapPlatform!AnsweredMeansBusy, AmapPlatform!Return, Contract
<1>1. asked' = r
  BY DEF AmapPlatform!cm_amap_location
<1>2. CASE AmapPlatform!RequestFails \/ AmapPlatform!RequestCrashes(r)
  BY <1>1, <1>2 DEF AmapPlatform!RequestFails, AmapPlatform!RequestCrashes
<1>3. CASE ~a_client /\ AmapPlatform!RequestAnswered(r)
  BY <1>1, <1>3 DEF AmapPlatform!RequestAnswered, AmapPlatform!cm_lbs_http_callback
<1>4. CASE UNCHANGED AmapPlatform!amapVars
           /\ \E c \in {"BUSY", "PARAMERR"} : AmapPlatform!Return(c, 0, NULL)
  BY <1>1, <1>4 DEF AmapPlatform!amapVars
<1>5. CASE ~a_client /\ AmapPlatform!__cm_amap_return_last_location(r)
  BY <1>5 DEF AmapPlatform!__cm_amap_return_last_location, AmapPlatform!Valid
<1> QED
  BY <1>2, <1>3, <1>4, <1>5 DEF AmapPlatform!cm_amap_location,
     AmapPlatform!__cm_amap_http_requst, AmapPlatform!__cm_amap_create_by_attr_fails

LEMMA OneosposCall ==
    ASSUME OneosposPlatform!AnsweredMeansBusy, NEW r,
           OneosposPlatform!cm_oneospos_location(r)
    PROVE  Contract(r) /\ OneosposPlatform!AnsweredMeansBusy'
<1> USE DEF OneosposPlatform!AnsweredMeansBusy, OneosposPlatform!Return, Contract
<1>1. asked' = r
  BY DEF OneosposPlatform!cm_oneospos_location
<1>2. CASE OneosposPlatform!PostFails \/ OneosposPlatform!PostCrashes(r)
  BY <1>1, <1>2 DEF OneosposPlatform!PostFails, OneosposPlatform!PostCrashes
<1>3. CASE o_state = "FREE" /\ OneosposPlatform!PostAnswered(r)
  <2>1. o_cbstate # 2 /\ o_state' = "BUSY"
    BY <1>3 DEF OneosposPlatform!PostAnswered
  <2>2. PICK h : OneosposPlatform!cm_lbs_http_callback(r, h)
    BY <1>3 DEF OneosposPlatform!PostAnswered
  <2> QED BY <1>1, <2>1, <2>2 DEF OneosposPlatform!cm_lbs_http_callback
<1>4. CASE UNCHANGED OneosposPlatform!oneosposVars
           /\ \E c \in {"BUSY", "MEMROYERR"} : OneosposPlatform!Return(c, 0, NULL)
  BY <1>1, <1>4 DEF OneosposPlatform!oneosposVars
<1>5. CASE o_state = "FREE" /\ OneosposPlatform!__cm_oneospos_return_last_location(r)
  BY <1>5 DEF OneosposPlatform!__cm_oneospos_return_last_location,
              OneosposPlatform!Valid
<1> QED
  BY <1>2, <1>3, <1>4, <1>5 DEF OneosposPlatform!cm_oneospos_location,
     OneosposPlatform!cm_oneospos_asynlocation,
     OneosposPlatform!cm_oneospos_create_attr_fails

(***************************************************************************)
(* Simulation.                                                             *)
(***************************************************************************)

\* What an answered request leaves in a platform is met only while busy.
BusyInv == AmapPlatform!AnsweredMeansBusy /\ OneosposPlatform!AnsweredMeansBusy

\* Assumed of Outcomes: LbsCore must allow what the platforms do.
AllowedOutcomes == {"ok", "err", "fail"} \subseteq Outcomes

\* A call that keeps the contract is a step of LbsCore's AsynLocation or, if
\* the process ends before the callback, none.
LEMMA ReturnedStep ==
    ASSUME AllowedOutcomes, NEW f \in Families, NEW r, NEW nomem,
           NEW outcomes, {"ok", "err", "fail", nomem} \cap Outcomes \subseteq outcomes,
           ~crashed, tpc = f, attr[f] = "armed",
           Contract(r), Returned(f, nomem)
    PROVE  AsynLocation(f, outcomes) \/ UNCHANGED vars
<1>1. CASE UNCHANGED vars
  BY <1>1
<1>2. ASSUME NEW out \in outcomes, Outcome(f, out) PROVE AsynLocation(f, outcomes)
  BY <1>2 DEF Outcome, AsynLocation, Healthy, seenVars
<1>3. {"ok", "err", "fail"} \subseteq outcomes
  BY DEF AllowedOutcomes
<1>4. ~(calls' = 0 /\ ret' = "OK")
  BY DEF Contract
<1> QED BY <1>1, <1>2, <1>3, <1>4 DEF Returned

LEMMA NotCalledStep ==
    ASSUME TypeInv, NEW f \in Families, NEW outcomes, NEW known,
           outcomes \cap Outcomes \subseteq known,
           NotCalled(f, outcomes)
    PROVE  AsynLocation(f, known)
<1>1. ~crashed /\ tpc = f
  BY DEF NotCalled
<1>2. CASE attr[f] = "armed"
  <2>1. PICK out \in known : Outcome(f, out)
    BY <1>2 DEF NotCalled
  <2> QED BY <1>1, <1>2, <2>1 DEF Outcome, AsynLocation, Healthy, seenVars
<1>3. CASE attr[f] # "armed"
  <2>1. attr[f] \in {"null", "set"}
    BY <1>3 DEF TypeInv, TypeOK
  <2>2. AsynLocation(f, {})
    BY <1>3 DEF NotCalled
  <2> QED BY <2>1, <2>2 DEF AsynLocation
<1> QED BY <1>2, <1>3

LEMMA SystemStep ==
    ASSUME AllowedOutcomes, TypeInv, BusyInv, [SystemNext]_systemVars
    PROVE  [Next]_vars /\ BusyInv'
<1>1. ASSUME UNCHANGED <<amapVars, oneosposVars>> PROVE BusyInv'
  BY <1>1 DEF BusyInv, amapVars, oneosposVars, AmapPlatform!AnsweredMeansBusy,
              OneosposPlatform!AnsweredMeansBusy
<1>2. ASSUME NEW c \in Commands, NEW p \in Platforms, NEW k \in Keys,
             SystemLocate(c, p, k)
      PROVE  Next /\ BusyInv'
  BY <1>1, <1>2 DEF SystemLocate, Next, platformVars
<1>3. CASE SystemInitAttr \/ SystemAtTask
  BY <1>1, <1>3 DEF SystemInitAttr, SystemAtTask, Next, AtTask, platformVars
<1>4. CASE SystemUrc \/ SystemLbsTask
  BY <1>1, <1>4 DEF SystemUrc, SystemLbsTask, Next, LbsTask, platformVars
<1>5. CASE SystemFreeUeinfo
  BY <1>1, <1>5 DEF SystemFreeUeinfo, Next, LbsTask, platformVars
<1>6. CASE NotCalled("amap", {"ueinfo", "forbidden"})
  <2>1. AsynAmap
    BY <1>6, NotCalledStep DEF AsynAmap, Families
  <2> QED BY <1>1, <1>6, <2>1 DEF NotCalled, Next, LbsTask, platformVars
<1>7. CASE NotCalled("oneospos", {"ueinfo"})
  <2>1. AsynOneospos
    BY <1>7, NotCalledStep DEF AsynOneospos, Families
  <2> QED BY <1>1, <1>7, <2>1 DEF NotCalled, Next, LbsTask, platformVars
<1>8. ASSUME NEW u \in Ues, CallAmap(u) PROVE [Next]_vars /\ BusyInv'
  <2> DEFINE r == [ue |-> u, key |-> key["amap"]]
  <2>1. Contract(r) /\ AmapPlatform!AnsweredMeansBusy'
    BY <1>8, AmapCall DEF CallAmap, BusyInv
  <2>2. OneosposPlatform!AnsweredMeansBusy'
    BY <1>8 DEF CallAmap, BusyInv, oneosposVars, OneosposPlatform!AnsweredMeansBusy
  <2>3. ~crashed /\ tpc = "amap" /\ attr["amap"] = "armed"
        /\ Returned("amap", "ok_nomem")
    BY <1>8 DEF CallAmap
  <2> HIDE DEF r
  <2>4. AsynAmap \/ UNCHANGED vars
    BY <2>1, <2>3, ReturnedStep DEF AsynAmap, Families
  <2> QED BY <2>1, <2>2, <2>4 DEF BusyInv, Next, LbsTask
<1>9. ASSUME NEW u \in Ues, CallOneospos(u) PROVE [Next]_vars /\ BusyInv'
  <2> DEFINE r == [ue |-> u, key |-> key["oneospos"]]
  <2>1. Contract(r) /\ OneosposPlatform!AnsweredMeansBusy'
    BY <1>9, OneosposCall DEF CallOneospos, BusyInv
  <2>2. AmapPlatform!AnsweredMeansBusy'
    BY <1>9 DEF CallOneospos, BusyInv, amapVars, AmapPlatform!AnsweredMeansBusy
  <2>3. ~crashed /\ tpc = "oneospos" /\ attr["oneospos"] = "armed"
        /\ Returned("oneospos", "err")
    BY <1>9 DEF CallOneospos
  <2> HIDE DEF r
  <2>4. AsynOneospos \/ UNCHANGED vars
    BY <2>1, <2>3, ReturnedStep DEF AsynOneospos, Families
  <2> QED BY <2>1, <2>2, <2>4 DEF BusyInv, Next, LbsTask
<1>10. CASE Clock
  BY <1>1, <1>10 DEF Clock
<1>11. CASE UNCHANGED systemVars
  BY <1>1, <1>11 DEF systemVars, platformVars
<1> QED BY <1>2, <1>3, <1>4, <1>5, <1>6, <1>7, <1>8, <1>9, <1>10, <1>11
        DEF SystemNext

LEMMA SystemInitFacts == SystemInit => Init /\ TypeInv /\ BusyInv
<1> SUFFICES ASSUME SystemInit PROVE BusyInv
  BY TypeInit DEF SystemInit
<1> QED BY DEF SystemInit, BusyInv, AmapPlatform!Init, OneosposPlatform!Init,
              AmapPlatform!AnsweredMeansBusy, OneosposPlatform!AnsweredMeansBusy

\* With the real platforms behind it the service does nothing that LbsCore
\* does not allow (ImplementsCore), whatever a platform remembers of earlier
\* requests and whatever fails.
THEOREM SystemImplementsCore ==
    ASSUME AllowedOutcomes
    PROVE  SystemSpec => ImplementsCore
<1>1. SystemInit => Init /\ TypeInv /\ BusyInv
  BY SystemInitFacts
<1>2. TypeInv /\ BusyInv /\ [SystemNext]_systemVars
      => [Next]_vars /\ TypeInv' /\ BusyInv'
  BY SystemStep, TypeNext
<1> QED BY <1>1, <1>2, PTL DEF SystemSpec, ImplementsCore, Spec

\* With the AMap platforms alone a failed send does no harm: what the AMap
\* invariants say implies what is known of all platforms.
LEMMA AmapIsCore == AmapInv /\ QueueInv => CoreInv
<1> SUFFICES ASSUME AmapInv, QueueInv PROVE CoreInv
  OBVIOUS
<1> USE DEF AmapInv
<1>1. /\ tfam = "amap" /\ attr["oneospos"] = "null"
      /\ cpc # "idle" => cplat \in Amap
      /\ attr["amap"] = "armed" <=> (msgs = 1 \/ Handling \/ cpc = "send")
      /\ attr["amap"] = "set" <=> cpc \in {"check", "arm"}
  BY DEF LockInv, AmapOnly
<1>2. ASSUME attr["amap"] = "armed"
      PROVE  /\ Valid(cbmsg["amap"])
             /\ answers[cbmsg["amap"]] = 0 \/ Answered("amap")
  <2>1. CASE msgs = 1 \/ tpc \in {"first", "amap", "urc"}
    BY <2>1 DEF TurnInv, Valid
  <2>2. CASE tpc = "free_amap"
    BY <1>1, <2>2 DEF TurnInv, Valid, Answered
  <2>3. CASE cpc = "send"
    <3>1. nreq \in Requests /\ nreq \notin accepted
      BY <2>3 DEF TypeInv, CommandInv
    <3>2. answers[nreq] = 0
      BY <3>1 DEF TurnInv
    <3> QED BY <2>3, <3>2 DEF TurnInv, Valid
  <2> QED BY <1>1, <1>2, <2>1, <2>2, <2>3 DEF Handling
<1>3. CallbackInv
  BY <1>1, <1>2 DEF CallbackInv, Handling, Families, Family
<1>4. \A r \in Requests : answers[r] <= 1 /\ (answers[r] = 1 => Valid(r))
  BY DEF TurnInv, Valid
<1> QED BY <1>3, <1>4 DEF CoreInv, OnceInv

\* The service answers every accepted request at most once, and a refused one
\* never (AnswersMatchRequests), while msgsnd does not fail or the platform is
\* one of AMap.
THEOREM SystemAnswersCorrect ==
    ASSUME AllowedOutcomes, "send" \notin Failures \/ Platforms \subseteq Amap
    PROVE  SystemSpec => []AnswersMatchRequests
<1>1. CASE "send" \notin Failures
  BY <1>1, SystemImplementsCore, AnswersCorrect, PTL DEF ImplementsCore
<1>2. CASE Platforms \subseteq Amap
  BY <1>2, SystemImplementsCore, AmapSerialised, PTL DEF ImplementsCore
<1> QED BY <1>1, <1>2

\* The whole service calls no callback twice for a request, whatever platforms
\* are switched between and whatever fails.
THEOREM SystemAtMostOnce ==
    ASSUME AllowedOutcomes
    PROVE  SystemSpec => []AnsweredAtMostOnce
BY SystemImplementsCore, AtMostOnce, PTL DEF ImplementsCore

\* With the AMap platforms the whole service, statics of the platform
\* included, is the service that LocationService describes
\* (ImplementsService), whatever fails.
THEOREM SystemService ==
    ASSUME AllowedOutcomes, Platforms \subseteq Amap
    PROVE  SystemSpec => ImplementsService
BY SystemImplementsCore, AmapService, PTL DEF ImplementsCore

\* With the AMap platforms the whole service loses no accepted request
\* (NoRequestLost) and does not stay busy without somebody who ends it
\* (BusyHasOwner), whatever fails.
THEOREM SystemNothingLost ==
    ASSUME AllowedOutcomes, Platforms \subseteq Amap
    PROVE  SystemSpec => [](NoRequestLost /\ BusyHasOwner)
BY SystemImplementsCore, AmapNothingLost, PTL DEF ImplementsCore

(***************************************************************************)
(* Whose location a URC shows.                                             *)
(***************************************************************************)

\* The key in an attribute is that of the request it was filled for, which is
\* the request whose callback it holds once it is armed; and a location on
\* its way to the callback belongs to the parameters of that attribute.
OwnInv ==
    /\ key \in [Families -> Keys \cup {NULL}]
    /\ want \in [Requests -> Keys \cup {NULL}]
    /\ DOMAIN got = Requests
    /\ \A f \in Families :
          /\ attr[f] = "set" => /\ cpc \in {"check", "arm"} /\ f = Family(cplat)
                                /\ key[f] = want[nreq]
          /\ attr[f] = "armed" => key[f] = want[cbmsg[f]]
    /\ tpc = "urc" /\ tout = "ok" =>
          given = asked /\ asked = [ue |-> asked.ue, key |-> key[tfam]]

\* An armed attribute belongs to a request that was made.
LEMMA ArmedRequest ==
    ASSUME CoreInv, NEW f \in Families, attr[f] = "armed"
    PROVE  cbmsg[f] \in Requests /\ cbmsg[f] <= nreq
<1>1. Valid(cbmsg[f])
  BY DEF CoreInv, OnceInv, CallbackInv
<1>2. nreq \in 0..MaxRequests /\ accepted \subseteq Requests
  BY DEF CoreInv, TypeInv, TypeOK
<1>3. CASE cbmsg[f] \in accepted
  <2>1. cbmsg[f] \in Requests /\ ~(cbmsg[f] > nreq)
    BY <1>2, <1>3 DEF CoreInv, CommandInv
  <2> QED BY <1>2, <2>1, RequestsAssumption DEF Requests
<1>4. CASE cbmsg[f] = nreq /\ cpc = "send"
  BY <1>2, <1>4 DEF CoreInv, TypeInv
<1> QED BY <1>1, <1>3, <1>4 DEF Valid

\* A platform call puts a location of the attribute's own key on its way.
LEMMA OwnCall ==
    ASSUME OwnInv, NEW f \in Families, NEW u,
           NEW nomem \in {"ok_nomem", "err"},
           Contract([ue |-> u, key |-> key[f]]), Returned(f, nomem),
           UNCHANGED <<key, want, got>>, tpc = f
    PROVE  OwnInv'
<1>1. UNCHANGED <<attr, cbmsg, cpc, cplat, nreq>>
  BY DEF Returned, Outcome, lbsVars, atVars, vars
<1>2. asked' = [ue |-> u, key |-> key[f]]
  BY DEF Contract
<1>3. asked' = [ue |-> asked'.ue, key |-> key'[f]]
  BY <1>2
<1>4. tpc' = "urc" /\ tout' = "ok" => tfam' = f /\ given' = asked'
  <2>1. calls' > 0 /\ given' # NULL => given' = asked'
    BY <1>2 DEF Contract
  <2>2. f # "urc"
    BY DEF Families
  <2> QED BY <2>1, <2>2 DEF Returned, Outcome, TaskGoto, vars, taskVars
<1> QED BY <1>1, <1>3, <1>4 DEF OwnInv

\* A step of the AT task keeps OwnInv: it fills an attribute only when there
\* is none, and registers the callback of the request it was filled for.
LEMMA OwnAt ==
    ASSUME CoreInv, OwnInv, SystemAtTask
    PROVE  OwnInv'
<1>0. /\ attr \in [Families -> {"null", "set", "armed"}]
      /\ cbmsg \in [Families -> Nat] /\ tpc \in TaskPcs
      /\ cpc # "idle" => s_platform = cplat
  BY DEF CoreInv, TypeInv, TypeOK, CommandInv
<1>1. UNCHANGED <<key, want, got, asked, given>>
  BY DEF SystemAtTask, platformVars, callVars
<1>2. UNCHANGED <<nreq, cplat, tfam, tout>> /\ (tpc' = "urc" => tpc = "urc")
  BY DEF SystemAtTask, CreateTask, CreateQuen, CheckLocation, ArmAttr,
         SendLocation, ReplySuccess, taskVars
<1>3. ASSUME NEW f \in Families
      PROVE  /\ attr'[f] = "set" => /\ cpc' \in {"check", "arm"} /\ f = Family(cplat)
                                    /\ key[f] = want[nreq]
             /\ attr'[f] = "armed" => key[f] = want[cbmsg'[f]]
  <2>0. /\ attr[f] = "set" => /\ cpc \in {"check", "arm"} /\ f = Family(cplat)
                              /\ key[f] = want[nreq]
        /\ attr[f] = "armed" => key[f] = want[cbmsg[f]]
    BY <1>3 DEF OwnInv
  <2>1. CASE CreateTask \/ CreateQuen \/ ReplySuccess
    <3>1. UNCHANGED <<attr, cbmsg>> /\ cpc \notin {"check", "arm"}
      BY <2>1 DEF CreateTask, CreateQuen, ReplySuccess, lbsVars
    <3> QED BY <2>0, <3>1
  <2>2. CASE CheckLocation
    <3>1. cpc = "check" /\ UNCHANGED cbmsg
      BY <2>2 DEF CheckLocation
    <3>2. CASE attr' = [attr EXCEPT ![Family(s_platform)] = "null"]
      <4>1. f = Family(cplat) => attr'[f] = "null"
        BY <1>0, <1>3, <3>1, <3>2
      <4>2. f # Family(cplat) => attr'[f] = attr[f]
        BY <1>0, <1>3, <3>1, <3>2
      <4> QED BY <2>0, <3>1, <4>1, <4>2
    <3>3. CASE attr' = attr /\ (cpc' = "arm" \/ attr[Family(s_platform)] = "null")
      BY <1>0, <2>0, <3>1, <3>3
    <3> QED BY <2>2, <3>2, <3>3 DEF CheckLocation
  <2>3. CASE ArmAttr
    <3>1. /\ cpc = "arm" /\ s_platform = cplat
          /\ cbmsg' = [cbmsg EXCEPT ![Family(cplat)] = nreq]
          /\ \/ attr' = attr /\ cpc' = cpc /\ attr[Family(cplat)] = "null"
             \/ attr' = [attr EXCEPT ![Family(cplat)] = "armed"]
                /\ attr[Family(cplat)] # "null"
      BY <1>0, <2>3 DEF ArmAttr
    <3>2. attr[Family(cplat)] # "armed"
      BY <3>1 DEF CoreInv, OnceInv, CallbackInv
    <3>3. CASE f = Family(cplat)
      BY <1>0, <1>3, <2>0, <3>1, <3>2, <3>3
    <3>4. CASE f # Family(cplat)
      BY <1>0, <1>3, <2>0, <3>1, <3>4
    <3> QED BY <3>3, <3>4
  <2>4. CASE SendLocation
    <3>1. cpc = "send" /\ UNCHANGED cbmsg
          /\ (attr' = attr \/ attr' = [attr EXCEPT ![Family(s_platform)] = "null"])
      BY <2>4 DEF SendLocation
    <3>2. attr'[f] \in {attr[f], "null"}
      BY <1>0, <1>3, <3>1
    <3> QED BY <2>0, <3>1, <3>2
  <2> QED BY <2>1, <2>2, <2>3, <2>4 DEF SystemAtTask
<1> QED BY <1>1, <1>2, <1>3 DEF OwnInv

LEMMA OwnLocate ==
    ASSUME CoreInv, OwnInv, NEW c \in Commands, NEW p \in Platforms,
           NEW k \in Keys, SystemLocate(c, p, k)
    PROVE  OwnInv'
<1>1. /\ cpc = "idle" /\ nreq' = nreq + 1 /\ nreq < MaxRequests
      /\ want' = [want EXCEPT ![nreq + 1] = k]
      /\ UNCHANGED <<attr, cbmsg, tpc, tfam, tout, asked, given, key, got>>
  BY DEF SystemLocate, Locate, taskVars, platformVars, callVars
<1>2. nreq \in 0..MaxRequests /\ attr \in [Families -> {"null", "set", "armed"}]
  BY DEF CoreInv, TypeInv, TypeOK
<1>3. want' \in [Requests -> Keys \cup {NULL}]
  BY <1>1 DEF OwnInv
<1>4. \A f \in Families : attr[f] # "set"
  BY <1>1 DEF OwnInv
<1>5. ASSUME NEW f \in Families, attr[f] = "armed" PROVE key[f] = want'[cbmsg[f]]
  <2>1. cbmsg[f] \in Requests /\ cbmsg[f] <= nreq
    BY <1>5, ArmedRequest
  <2>2. cbmsg[f] # nreq + 1
    BY <1>2, <2>1 DEF Requests
  <2> QED BY <1>1, <1>5, <2>1, <2>2 DEF OwnInv
<1> QED BY <1>1, <1>3, <1>4, <1>5 DEF OwnInv

LEMMA OwnInitAttr ==
    ASSUME CoreInv, OwnInv, SystemInitAttr
    PROVE  OwnInv'
<1> DEFINE g == Family(cplat)
<1>1. /\ cpc = "init" /\ nreq \in Requests /\ g \in Families
      /\ attr \in [Families -> {"null", "set", "armed"}]
      /\ tpc = "urc" => attr[tfam] = "armed"
      /\ tfam \in Families
  BY DEF SystemInitAttr, InitAttr, CoreInv, TypeInv, TypeOK, OnceInv,
         CallbackInv, Family, Families
<1>2. /\ UNCHANGED <<cplat, nreq, cbmsg, tpc, tfam, tout, want, got, asked, given>>
      /\ key' = [key EXCEPT ![g] = IF attr[g] = "null" THEN want[nreq] ELSE @]
      /\ \/ attr' = attr
         \/ attr[g] = "null" /\ attr' = [attr EXCEPT ![g] = "set"] /\ cpc' = "check"
  BY DEF SystemInitAttr, InitAttr, platformVars, callVars, taskVars
<1> HIDE DEF g
<1>3. key \in [Families -> Keys \cup {NULL}] /\ want[nreq] \in Keys \cup {NULL}
  BY <1>1 DEF OwnInv
<1>4. key' \in [Families -> Keys \cup {NULL}]
      /\ \A f \in Families : f # g \/ attr[f] # "null" => key'[f] = key[f]
  BY <1>2, <1>3
<1>5. \A f \in Families : attr[f] # "set"
  BY <1>1 DEF OwnInv
<1>6. ASSUME NEW f \in Families
      PROVE  /\ attr'[f] = "set" => /\ cpc' \in {"check", "arm"} /\ f = g
                                    /\ key'[f] = want[nreq]
             /\ attr'[f] = "armed" => key'[f] = want[cbmsg[f]]
  <2>1. attr[f] = "armed" => key[f] = want[cbmsg[f]]
    BY DEF OwnInv
  <2>2. attr'[f] = "set" => f = g /\ attr[g] = "null" /\ cpc' = "check"
    BY <1>1, <1>2, <1>5
  <2>3. attr'[f] = "set" => key'[f] = want[nreq]
    BY <1>1, <1>2, <1>3, <2>2
  <2>4. attr'[f] = "armed" => attr[f] = "armed"
    BY <1>1, <1>2
  <2> QED BY <1>4, <2>1, <2>2, <2>3, <2>4
<1>7. tpc = "urc" => key'[tfam] = key[tfam]
  BY <1>1, <1>4
<1> QED BY <1>2, <1>4, <1>6, <1>7 DEF OwnInv, g

\* A step of the LBS task without a platform call keeps OwnInv.
LEMMA OwnLbs ==
    ASSUME CoreInv, OwnInv,
           \/ SystemLbsTask \/ SystemFreeUeinfo
           \/ NotCalled("amap", {"ueinfo", "forbidden"})
           \/ NotCalled("oneospos", {"ueinfo"})
    PROVE  OwnInv'
<1>0. attr \in [Families -> {"null", "set", "armed"}]
  BY DEF CoreInv, TypeInv, TypeOK
<1>1. UNCHANGED <<key, want, got, cbmsg, nreq, cpc, cplat>>
  <2>1. CASE SystemLbsTask
    <3>1. LbsTask /\ UNCHANGED <<key, want, got>>
      BY <2>1 DEF SystemLbsTask, LbsTask
    <3> QED BY <3>1, LbsLeavesCommand DEF atVars
  <2>2. CASE SystemFreeUeinfo
    BY <2>2 DEF SystemFreeUeinfo, FreeUeinfo, vars, lbsVars, atVars
  <2>3. ASSUME NEW f, NEW outs, NotCalled(f, outs)
        PROVE  UNCHANGED <<key, want, got, cbmsg, nreq, cpc, cplat>>
    BY <2>3 DEF NotCalled, Outcome, AsynLocation, lbsVars, atVars
  <2> QED BY <2>1, <2>2, <2>3
<1>2. \A f \in Families : attr'[f] \in {attr[f], "null"}
  BY <1>0 DEF SystemLbsTask, SystemFreeUeinfo, FreeUeinfo, NotCalled, Outcome,
     AsynLocation, QueueRev, AsynFirst, AsynSecond, DeinitAmap, DeinitOneospos,
     OneosposTail, FreeAttr, lbsVars, vars
<1>3. ~(tpc' = "urc" /\ tout' = "ok")
  <2>1. CASE SystemLbsTask
    BY <2>1 DEF SystemLbsTask, QueueRev, AsynFirst, AsynSecond, DeinitAmap,
       DeinitOneospos, OneosposTail, FreeAttr, TaskGoto, taskVars
  <2>2. CASE SystemFreeUeinfo
    BY <2>2 DEF SystemFreeUeinfo, FreeUeinfo, TaskGoto, vars, taskVars
  <2>3. ASSUME NEW f \in Families, NEW outs, "ok" \notin outs, NotCalled(f, outs)
        PROVE  ~(tpc' = "urc" /\ tout' = "ok")
    <3>1. CASE attr[f] = "armed"
      BY <2>3, <3>1 DEF NotCalled, Outcome
    <3>2. CASE attr[f] # "armed"
      <4>1. attr[f] \in {"null", "set"}
        BY <1>0, <3>2
      <4>2. tpc = f /\ UNCHANGED tpc
        BY <2>3, <3>2, <4>1 DEF NotCalled, AsynLocation, taskVars
      <4> QED BY <4>2 DEF Families
    <3> QED BY <3>1, <3>2
  <2>4. "ok" \notin {"ueinfo", "forbidden"} /\ "ok" \notin {"ueinfo"}
        /\ "amap" \in Families /\ "oneospos" \in Families
    BY DEF Families
  <2> QED BY <2>1, <2>2, <2>3, <2>4
<1> QED BY <1>1, <1>2, <1>3 DEF OwnInv

\* The URC shows what is on its way.
LEMMA OwnUrc ==
    ASSUME CoreInv, OwnInv, SystemUrc
    PROVE  /\ OwnInv'
           /\ \A r \in Requests : got'[r] # got[r] =>
                 got'[r] = [ue |-> asked.ue, key |-> want[r]]
<1>1. /\ tpc = "urc" /\ tfam \in Families /\ attr[tfam] = "armed"
  BY DEF SystemUrc, Urc, CoreInv, TypeInv, TypeOK, OnceInv, CallbackInv
<1>2. /\ UNCHANGED <<attr, cbmsg, cpc, cplat, nreq, tfam, tout, key, want, asked, given>>
      /\ got' = [got EXCEPT ![cbmsg[tfam]] = IF tout = "ok" /\ ~crashed' THEN given ELSE @]
      /\ tpc' = "urc" => UNCHANGED tpc
  BY DEF SystemUrc, Urc, Crash, TaskGoto, lbsVars, atVars, taskVars, platformVars,
         callVars
<1>3. key[tfam] = want[cbmsg[tfam]]
      /\ (tout = "ok" => given = [ue |-> asked.ue, key |-> key[tfam]])
  BY <1>1 DEF OwnInv
<1>4. ASSUME NEW r \in Requests, got'[r] # got[r]
      PROVE  got'[r] = [ue |-> asked.ue, key |-> want[r]]
  <2>1. DOMAIN got = Requests
    BY DEF OwnInv
  <2>2. r = cbmsg[tfam] /\ tout = "ok" /\ got'[r] = given
    BY <1>2, <1>4, <2>1
  <2> QED BY <1>3, <2>2
<1>5. OwnInv'
  BY <1>1, <1>2 DEF OwnInv
<1> QED BY <1>4, <1>5

LEMMA OwnNext ==
    ASSUME AllowedOutcomes, CoreInv, BusyInv, OwnInv, [SystemNext]_systemVars
    PROVE  /\ OwnInv'
           /\ ~UNCHANGED systemVars => \A r \in Requests : got'[r] # got[r] =>
                 got'[r] = [ue |-> asked.ue, key |-> want[r]]
<1>1. CASE SystemUrc
  BY <1>1, OwnUrc
<1>2. ASSUME NEW c \in Commands, NEW p \in Platforms, NEW k \in Keys,
             SystemLocate(c, p, k)
      PROVE  OwnInv' /\ UNCHANGED got
  BY <1>2, OwnLocate DEF SystemLocate
<1>3. CASE SystemInitAttr
  BY <1>3, OwnInitAttr DEF SystemInitAttr
<1>4. CASE SystemAtTask
  BY <1>4, OwnAt DEF SystemAtTask
<1>5. CASE \/ SystemLbsTask \/ SystemFreeUeinfo
           \/ NotCalled("amap", {"ueinfo", "forbidden"})
           \/ NotCalled("oneospos", {"ueinfo"})
  BY <1>5, OwnLbs DEF SystemLbsTask, SystemFreeUeinfo, NotCalled
<1>6. ASSUME NEW u \in Ues, CallAmap(u) PROVE OwnInv' /\ UNCHANGED got
  <2>1. Contract([ue |-> u, key |-> key["amap"]])
    BY <1>6, AmapCall DEF CallAmap, BusyInv
  <2>2. /\ Returned("amap", "ok_nomem") /\ UNCHANGED <<key, want, got>>
        /\ tpc = "amap" /\ "amap" \in Families
    BY <1>6 DEF CallAmap, Families
  <2> QED BY <2>1, <2>2, OwnCall
<1>7. ASSUME NEW u \in Ues, CallOneospos(u) PROVE OwnInv' /\ UNCHANGED got
  <2>1. Contract([ue |-> u, key |-> key["oneospos"]])
    BY <1>7, OneosposCall DEF CallOneospos, BusyInv
  <2>2. /\ Returned("oneospos", "err") /\ UNCHANGED <<key, want, got>>
        /\ tpc = "oneospos" /\ "oneospos" \in Families
    BY <1>7 DEF CallOneospos, Families
  <2> QED BY <2>1, <2>2, OwnCall
<1>8. CASE Clock \/ UNCHANGED systemVars
  BY <1>8 DEF Clock, OwnInv, systemVars, platformVars, vars, lbsVars, atVars,
              taskVars, callVars
<1> QED BY <1>1, <1>2, <1>3, <1>4, <1>5, <1>6, <1>7, <1>8 DEF SystemNext

\* The location shown to a command is that of its own parameters
\* (AnswerIsOwn), however the commands, the LBS task and changes of the
\* platform interleave, while msgsnd does not fail or the platform is one of
\* AMap.
THEOREM SystemAnswersOwn ==
    ASSUME AllowedOutcomes, "send" \notin Failures \/ Platforms \subseteq Amap
    PROVE  SystemSpec => AnswerIsOwn
<1> DEFINE Inv == /\ CoreInv /\ BusyInv /\ OwnInv
                  /\ Platforms \subseteq Amap => AmapInv
           Step == \A r \in Requests : got'[r] # got[r] =>
                      got'[r] = [ue |-> asked.ue, key |-> want[r]]
<1>1. SystemInit => Inv
  <2> SUFFICES ASSUME SystemInit PROVE CoreInv /\ OwnInv /\ AmapInv
    BY SystemInitFacts
  <2>1. CoreInv /\ AmapInv
    BY CoreInit, AmapInit DEF SystemInit
  <2>2. OwnInv
    BY DEF SystemInit, Init, OwnInv
  <2> QED BY <2>1, <2>2
<1>2. Inv /\ [SystemNext]_systemVars => Inv' /\ [Step]_systemVars
  <2> SUFFICES ASSUME Inv, [SystemNext]_systemVars PROVE Inv' /\ [Step]_systemVars
    OBVIOUS
  <2>1. [Next]_vars /\ BusyInv'
    BY SystemStep DEF CoreInv
  <2>2. Platforms \subseteq Amap => AmapInv'
    BY <2>1, AmapNext
  <2>3. CoreInv'
    <3>1. CASE "send" \notin Failures
      BY <2>1, <3>1, CoreNext
    <3>2. CASE Platforms \subseteq Amap
      <4>1. QueueInv'
        BY <2>1, QueueNext DEF CoreInv
      <4>2. AmapInv' /\ QueueInv' => CoreInv'
        BY AmapIsCore, PTL
      <4> QED BY <2>2, <3>2, <4>1, <4>2
    <3> QED BY <3>1, <3>2
  <2>4. OwnInv' /\ (~UNCHANGED systemVars => Step)
    BY OwnNext
  <2> QED BY <2>1, <2>2, <2>3, <2>4
<1> QED BY <1>1, <1>2, PTL DEF SystemSpec, AnswerIsOwn

(***************************************************************************)
(* Types.                                                                  *)
(***************************************************************************)

\* A call of the AMap platform keeps its statics well typed.
LEMMA AmapCallTyped ==
    ASSUME AmapPlatform!TypeOK, NEW r \in Parameters,
           AmapPlatform!cm_amap_location(r)
    PROVE  AmapPlatform!TypeOK'
<1> USE DEF AmapPlatform!TypeOK, AmapPlatform!Requests, Parameters
<1>1. asked' = r /\ now' = now
  BY DEF AmapPlatform!cm_amap_location
<1>2. ASSUME NEW c \in AmapPlatform!Codes, NEW n \in {0, 1}, NEW l \in {r, NULL},
             AmapPlatform!Return(c, n, l)
      PROVE  ret' \in AmapPlatform!Codes /\ calls' \in Nat
             /\ given' \in Parameters \cup {NULL}
  BY <1>2 DEF AmapPlatform!Return
<1>3. ASSUME UNCHANGED AmapPlatform!amapVars, ret' \in AmapPlatform!Codes,
             calls' \in Nat, given' \in Parameters \cup {NULL}
      PROVE  AmapPlatform!TypeOK'
  BY <1>1, <1>3 DEF AmapPlatform!amapVars
<1>4. CASE UNCHANGED AmapPlatform!amapVars /\
           \E c \in {"BUSY", "PARAMERR"} : AmapPlatform!Return(c, 0, NULL)
  BY <1>2, <1>3, <1>4 DEF AmapPlatform!Codes
<1>5. CASE AmapPlatform!__cm_amap_return_last_location(r)
  <2>1. a_rsp.for \in Parameters
    BY <1>5 DEF AmapPlatform!__cm_amap_return_last_location, AmapPlatform!Valid,
                AmapPlatform!Cache
  <2> QED BY <1>3, <1>5, <2>1 DEF AmapPlatform!__cm_amap_return_last_location,
                                  AmapPlatform!Return, AmapPlatform!Codes
<1>6. CASE /\ AmapPlatform!__cm_amap_backup_lastkey(r.key)
           /\ AmapPlatform!__cm_amap_backup_ueinfo(r.ue)
           /\ AmapPlatform!__cm_amap_http_requst(r)
  <2>1. a_key' \in Keys \cup {NULL}
    BY <1>6 DEF AmapPlatform!__cm_amap_backup_lastkey
  <2>2. a_ue' \in Ues \cup {NULL, Freed}
    BY <1>6 DEF AmapPlatform!__cm_amap_backup_ueinfo
  <2>3. CASE AmapPlatform!RequestFails \/ AmapPlatform!RequestCrashes(r)
    <3>1. a_handle' \in AmapPlatform!CurlHandles
      BY <2>3 DEF AmapPlatform!RequestFails, AmapPlatform!RequestCrashes,
                  AmapPlatform!Handles, AmapPlatform!Released,
                  AmapPlatform!CurlHandles
    <3>2. UNCHANGED <<a_client, a_rsp, a_cbstate>>
      BY <2>3 DEF AmapPlatform!RequestFails, AmapPlatform!RequestCrashes
    <3>3. ret' \in AmapPlatform!Codes /\ calls' \in Nat
          /\ given' \in Parameters \cup {NULL}
      BY <1>2, <2>3 DEF AmapPlatform!RequestFails, AmapPlatform!RequestCrashes,
                        AmapPlatform!Codes
    <3> QED BY <1>1, <2>1, <2>2, <3>1, <3>2, <3>3
  <2>4. CASE AmapPlatform!RequestAnswered(r)
    <3>1. a_handle' \in AmapPlatform!CurlHandles /\ a_client' \in BOOLEAN
      BY <2>4 DEF AmapPlatform!RequestAnswered, AmapPlatform!Handles,
                  AmapPlatform!CurlHandles
    <3>2. AmapPlatform!cm_lbs_http_callback(r)
      BY <2>4 DEF AmapPlatform!RequestAnswered
    <3>3. a_cbstate' \in {0, 2}
      BY <3>2 DEF AmapPlatform!cm_lbs_http_callback
    <3>4. ret' \in AmapPlatform!Codes /\ calls' \in Nat
          /\ given' \in Parameters \cup {NULL}
      BY <1>2, <3>2 DEF AmapPlatform!cm_lbs_http_callback, AmapPlatform!Codes
    <3>5. a_rsp' \in AmapPlatform!Cache \cup {NULL}
      BY <3>2 DEF AmapPlatform!cm_lbs_http_callback, AmapPlatform!Cache,
                  AmapPlatform!__cm_lbs_amap_rsp_backup
    <3> QED BY <1>1, <2>1, <2>2, <3>1, <3>3, <3>4, <3>5
  <2> QED BY <1>6, <2>3, <2>4 DEF AmapPlatform!__cm_amap_http_requst
<1> QED BY <1>4, <1>5, <1>6 DEF AmapPlatform!cm_amap_location,
           AmapPlatform!__cm_amap_create_by_attr_fails

\* A call of the OneOS-POS platform keeps its statics well typed.
LEMMA OneosposCallTyped ==
    ASSUME OneosposPlatform!TypeOK, NEW r \in Parameters,
           OneosposPlatform!cm_oneospos_location(r)
    PROVE  OneosposPlatform!TypeOK'
<1> USE DEF OneosposPlatform!TypeOK, OneosposPlatform!Requests, Parameters
<1>1. asked' = r /\ now' = now
  BY DEF OneosposPlatform!cm_oneospos_location
<1>2. ASSUME NEW c \in OneosposPlatform!Codes, NEW n \in {0, 1},
             NEW l \in {r, NULL}, OneosposPlatform!Return(c, n, l)
      PROVE  ret' \in OneosposPlatform!Codes /\ calls' \in Nat
             /\ given' \in Parameters \cup {NULL}
  BY <1>2 DEF OneosposPlatform!Return
<1>3. ASSUME UNCHANGED OneosposPlatform!oneosposVars,
             ret' \in OneosposPlatform!Codes,
             calls' \in Nat, given' \in Parameters \cup {NULL}
      PROVE  OneosposPlatform!TypeOK'
  BY <1>1, <1>3 DEF OneosposPlatform!oneosposVars
<1>4. CASE UNCHANGED OneosposPlatform!oneosposVars /\
           \E c \in {"BUSY", "MEMROYERR"} : OneosposPlatform!Return(c, 0, NULL)
  BY <1>2, <1>3, <1>4 DEF OneosposPlatform!Codes
<1>5. CASE OneosposPlatform!__cm_oneospos_return_last_location(r)
  <2>1. o_rsp.for \in Parameters
    BY <1>5 DEF OneosposPlatform!__cm_oneospos_return_last_location,
                OneosposPlatform!Valid, OneosposPlatform!Cache
  <2> QED BY <1>3, <1>5, <2>1
          DEF OneosposPlatform!__cm_oneospos_return_last_location,
              OneosposPlatform!Return, OneosposPlatform!Codes
<1>6. CASE /\ OneosposPlatform!__cm_oneospos_backup_lastpid(r.key)
           /\ OneosposPlatform!__cm_oneospos_backup_ueinfo(r.ue)
           /\ OneosposPlatform!cm_oneospos_asynlocation(r)
  <2>1. o_pid' \in Keys \cup {NULL}
    BY <1>6 DEF OneosposPlatform!__cm_oneospos_backup_lastpid
  <2>2. o_ue' \in Ues \cup {NULL, Freed}
    BY <1>6 DEF OneosposPlatform!__cm_oneospos_backup_ueinfo
  <2>3. ASSUME NEW c \in OneosposPlatform!CurlInit
        PROVE  c[1] \in OneosposPlatform!CurlHandles /\ c[2] \in BOOLEAN
    <3>1. \/ c = <<"live", TRUE>>
          \/ c = <<o_handle, o_multi>>
          \/ c \in {"null", "live"} \X BOOLEAN
      BY DEF OneosposPlatform!CurlInit
    <3>2. CASE c \in {"null", "live"} \X BOOLEAN
      <4>1. PICK h \in {"null", "live"}, m \in BOOLEAN : c = <<h, m>>
        BY <3>2
      <4> QED BY <4>1 DEF OneosposPlatform!CurlHandles
    <3>3. CASE c = <<"live", TRUE>>
      BY <3>3 DEF OneosposPlatform!CurlHandles
    <3>4. CASE c = <<o_handle, o_multi>>
      BY <3>4
    <3> QED BY <3>1, <3>2, <3>3, <3>4
  <2>4. ASSUME NEW h \in OneosposPlatform!CurlHandles
        PROVE  OneosposPlatform!Released(h) \in OneosposPlatform!CurlHandles
    BY DEF OneosposPlatform!Released, OneosposPlatform!CurlHandles
  <2>5. CASE OneosposPlatform!PostFails \/ OneosposPlatform!PostCrashes(r)
    <3>1. o_handle' \in OneosposPlatform!CurlHandles /\ o_multi' \in BOOLEAN
      BY <2>3, <2>4, <2>5, Zenon DEF OneosposPlatform!PostFails,
                                     OneosposPlatform!PostCrashes
    <3>2. UNCHANGED <<o_state, o_rsp, o_cbstate>> /\ o_content' \in {"null", o_content}
      BY <2>5 DEF OneosposPlatform!PostFails, OneosposPlatform!PostCrashes
    <3>3. ret' \in OneosposPlatform!Codes /\ calls' \in Nat
          /\ given' \in Parameters \cup {NULL}
      BY <1>2, <2>5 DEF OneosposPlatform!PostFails, OneosposPlatform!PostCrashes,
                        OneosposPlatform!Codes
    <3> QED BY <1>1, <2>1, <2>2, <3>1, <3>2, <3>3
  <2>6. CASE OneosposPlatform!PostAnswered(r)
    <3>1. PICK c \in OneosposPlatform!CurlInit :
             o_multi' = TRUE /\ OneosposPlatform!cm_lbs_http_callback(r, c[1])
      BY <2>6 DEF OneosposPlatform!PostAnswered
    <3>2. o_content' = "live" /\ o_state' = "BUSY"
      BY <2>6 DEF OneosposPlatform!PostAnswered
    <3>3. c[1] \in OneosposPlatform!CurlHandles
      BY <2>3
    <3>4. o_handle' \in OneosposPlatform!CurlHandles
      BY <3>1, <3>3, <2>4 DEF OneosposPlatform!cm_lbs_http_callback
    <3>5. o_cbstate' \in {0, 2}
      BY <3>1 DEF OneosposPlatform!cm_lbs_http_callback
    <3>6. ret' \in OneosposPlatform!Codes /\ calls' \in Nat
          /\ given' \in Parameters \cup {NULL}
      BY <1>2, <3>1 DEF OneosposPlatform!cm_lbs_http_callback,
                        OneosposPlatform!Codes
    <3>7. o_rsp' \in OneosposPlatform!Cache \cup {NULL}
      BY <3>1 DEF OneosposPlatform!cm_lbs_http_callback, OneosposPlatform!Cache,
                  OneosposPlatform!__cm_oneospos_loaction_rsp_backup
    <3> QED BY <1>1, <2>1, <2>2, <3>1, <3>2, <3>4, <3>5, <3>6, <3>7
  <2> QED BY <1>6, <2>5, <2>6 DEF OneosposPlatform!cm_oneospos_asynlocation
<1> QED BY <1>4, <1>5, <1>6 DEF OneosposPlatform!cm_oneospos_location,
           OneosposPlatform!cm_oneospos_create_attr_fails

\* What a platform call needs of the core: an attribute that is set holds
\* the key of a request that was made.
KeyInv ==
    /\ key \in [Families -> Keys \cup {NULL}]
    /\ want \in [Requests -> Keys \cup {NULL}]
    /\ \A r \in Requests : r <= nreq => want[r] \in Keys
    /\ \A f \in Families : attr[f] # "null" => key[f] \in Keys

PlatformTypes == AmapPlatform!TypeOK /\ OneosposPlatform!TypeOK

SeenTypes == got \in [Requests -> Parameters \cup {NULL}] /\ dead \in BOOLEAN

\* Only InitAttr fills an attribute, and only Locate makes a request.
LEMMA KeyNext ==
    ASSUME TypeInv, KeyInv, [Next]_vars, [SystemNext]_systemVars
    PROVE  KeyInv'
<1>0. /\ attr \in [Families -> {"null", "set", "armed"}]
      /\ nreq \in 0..MaxRequests
      /\ tfam \in Families
      /\ s_platform \in Platforms \cup {"START"}
  BY DEF TypeInv, TypeOK
<1>1. ASSUME UNCHANGED <<key, want, nreq>>,
             \A f \in Families : attr'[f] # "null" => attr[f] # "null"
      PROVE  KeyInv'
  BY <1>1 DEF KeyInv
<1>2. ASSUME NEW c \in Commands, NEW p \in Platforms, NEW k \in Keys,
             SystemLocate(c, p, k)
      PROVE  KeyInv'
  <2>1. /\ nreq' = nreq + 1 /\ UNCHANGED <<key, attr>>
        /\ want' = [want EXCEPT ![nreq + 1] = k]
    BY <1>2 DEF SystemLocate, Locate
  <2>2. want' \in [Requests -> Keys \cup {NULL}]
        /\ \A r \in Requests : want'[r] = IF r = nreq + 1 THEN k ELSE want[r]
    BY <2>1 DEF KeyInv
  <2>3. \A r \in Requests : r <= nreq + 1 => r = nreq + 1 \/ r <= nreq
    BY <1>0 DEF Requests
  <2> QED BY <2>1, <2>2, <2>3 DEF KeyInv
<1>3. CASE SystemInitAttr
  <2> DEFINE g == Family(cplat)
  <2>1. /\ nreq \in Requests /\ g \in Families
    BY <1>3 DEF SystemInitAttr, InitAttr, TypeInv, Family, Families
  <2>2. /\ UNCHANGED <<nreq, want>>
        /\ key' = [key EXCEPT ![g] = IF attr[g] = "null" THEN want[nreq] ELSE @]
        /\ attr' = attr \/ attr' = [attr EXCEPT ![g] = "set"]
    BY <1>3 DEF SystemInitAttr, InitAttr
  <2> HIDE DEF g
  <2>3. want[nreq] \in Keys
    BY <1>0, <2>1 DEF KeyInv
  <2>4. key' \in [Families -> Keys \cup {NULL}]
    BY <2>1, <2>2, <2>3 DEF KeyInv
  <2>5. ASSUME NEW f \in Families, attr'[f] # "null" PROVE key'[f] \in Keys
    BY <1>0, <2>1, <2>2, <2>3, <2>5 DEF KeyInv
  <2> QED BY <2>2, <2>4, <2>5 DEF KeyInv
<1>4. CASE SystemAtTask
  <2>1. UNCHANGED <<key, want, nreq>>
    BY <1>4 DEF SystemAtTask, CreateTask, CreateQuen, CheckLocation, ArmAttr,
                SendLocation, ReplySuccess
  <2>2. \/ UNCHANGED attr
        \/ attr' = [attr EXCEPT ![Family(s_platform)] = "null"]
        \/ attr[Family(s_platform)] # "null"
           /\ attr' = [attr EXCEPT ![Family(s_platform)] = "armed"]
    BY <1>4 DEF SystemAtTask, CreateTask, CreateQuen, CheckLocation, ArmAttr,
                SendLocation, ReplySuccess, lbsVars
  <2> QED BY <1>0, <1>1, <2>1, <2>2
<1>5. CASE SystemLbsTask \/ SystemFreeUeinfo \/ SystemUrc
  <2>1. UNCHANGED <<key, want, nreq>>
    BY <1>5 DEF SystemLbsTask, SystemFreeUeinfo, SystemUrc, QueueRev, AsynFirst,
                AsynSecond, DeinitAmap, DeinitOneospos, OneosposTail, FreeAttr,
                FreeUeinfo, Urc, atVars, vars
  <2>2. UNCHANGED attr \/ \E f \in Families : attr' = [attr EXCEPT ![f] = "null"]
    BY <1>5 DEF SystemLbsTask, SystemFreeUeinfo, SystemUrc, QueueRev, AsynFirst,
                AsynSecond, DeinitAmap, DeinitOneospos, OneosposTail, FreeAttr,
                FreeUeinfo, Urc, lbsVars, vars, Families
  <2> QED BY <1>0, <1>1, <2>1, <2>2
<1>6. ASSUME NEW f, NEW outcomes, NotCalled(f, outcomes) PROVE KeyInv'
  BY <1>1, <1>6 DEF NotCalled, Outcome, AsynLocation, lbsVars, atVars
<1>7. ASSUME NEW u, CallAmap(u) \/ CallOneospos(u) PROVE KeyInv'
  BY <1>1, <1>7 DEF CallAmap, CallOneospos, Returned, Outcome, lbsVars, atVars, vars
<1>8. CASE Clock \/ UNCHANGED systemVars
  BY <1>1, <1>8 DEF Clock, systemVars, vars, lbsVars, atVars
<1> QED BY <1>2, <1>3, <1>4, <1>5, <1>6, <1>7, <1>8 DEF SystemNext

\* A static of a platform changes in a call of it, or with the clock.
LEMMA PlatformTypesNext ==
    ASSUME TypeInv, KeyInv, PlatformTypes, [SystemNext]_systemVars
    PROVE  PlatformTypes'
<1> USE DEF PlatformTypes
<1>1. ASSUME UNCHANGED platformVars PROVE PlatformTypes'
  BY <1>1 DEF platformVars, amapVars, oneosposVars, callVars,
              AmapPlatform!TypeOK, OneosposPlatform!TypeOK
<1>2. ASSUME NEW f \in Families, NEW u \in Ues, attr[f] = "armed"
      PROVE  [ue |-> u, key |-> key[f]] \in Parameters
  BY <1>2 DEF KeyInv, Parameters
<1>3. /\ AmapPlatform!Requests = OneosposPlatform!Requests
      /\ AmapPlatform!Codes = OneosposPlatform!Codes
      /\ AmapPlatform!Times = OneosposPlatform!Times
  BY DEF AmapPlatform!Requests, OneosposPlatform!Requests,
         AmapPlatform!Codes, OneosposPlatform!Codes,
         AmapPlatform!Times, OneosposPlatform!Times
<1>4. ASSUME NEW u \in Ues, CallAmap(u) PROVE PlatformTypes'
  <2>1. AmapPlatform!TypeOK'
    BY <1>2, <1>4, AmapCallTyped DEF CallAmap, Families
  <2>2. UNCHANGED oneosposVars
    BY <1>4 DEF CallAmap
  <2> QED BY <1>3, <2>1, <2>2 DEF AmapPlatform!TypeOK, OneosposPlatform!TypeOK,
                                  oneosposVars
<1>5. ASSUME NEW u \in Ues, CallOneospos(u) PROVE PlatformTypes'
  <2>1. OneosposPlatform!TypeOK'
    BY <1>2, <1>5, OneosposCallTyped DEF CallOneospos, Families
  <2>2. UNCHANGED amapVars
    BY <1>5 DEF CallOneospos
  <2> QED BY <1>3, <2>1, <2>2 DEF AmapPlatform!TypeOK, OneosposPlatform!TypeOK,
                                  amapVars
<1>6. CASE Clock
  <2>1. /\ UNCHANGED <<amapVars, oneosposVars, callVars>>
        /\ now' \in AmapPlatform!Times /\ now' \in OneosposPlatform!Times
    BY <1>6 DEF Clock, AmapPlatform!Times, OneosposPlatform!Times
  <2> QED BY <2>1 DEF AmapPlatform!TypeOK, OneosposPlatform!TypeOK, amapVars,
                      oneosposVars, callVars
<1>7. CASE \/ \E c \in Commands, p \in Platforms, k \in Keys : SystemLocate(c, p, k)
           \/ SystemInitAttr \/ SystemAtTask
           \/ NotCalled("amap", {"ueinfo", "forbidden"})
           \/ NotCalled("oneospos", {"ueinfo"})
           \/ SystemUrc \/ SystemFreeUeinfo \/ SystemLbsTask
           \/ UNCHANGED systemVars
  BY <1>1, <1>7 DEF SystemLocate, SystemInitAttr, SystemAtTask, NotCalled,
                    SystemUrc, SystemFreeUeinfo, SystemLbsTask, systemVars
<1> QED BY <1>4, <1>5, <1>6, <1>7 DEF SystemNext

\* What a URC shows is what the platform delivered.
LEMMA SeenTypesNext ==
    ASSUME PlatformTypes, SeenTypes, [SystemNext]_systemVars
    PROVE  SeenTypes'
<1>1. dead' \in BOOLEAN
  <2>1. dead' = dead \/ dead' = TRUE
    BY DEF SystemNext, SystemLocate, SystemInitAttr, SystemAtTask, NotCalled,
           CallAmap, CallOneospos, Returned, SystemUrc, SystemFreeUeinfo,
           SystemLbsTask, Clock, systemVars
  <2> QED BY <2>1, Zenon DEF SeenTypes
<1>2. UNCHANGED got \/ SystemUrc
  BY DEF SystemNext, SystemLocate, SystemInitAttr, SystemAtTask, NotCalled,
         CallAmap, CallOneospos, SystemFreeUeinfo, SystemLbsTask, Clock, systemVars
<1>3. given \in Parameters \cup {NULL}
  BY DEF PlatformTypes, AmapPlatform!TypeOK, AmapPlatform!Requests, Parameters
<1>4. CASE SystemUrc
  <2>1. got' = [got EXCEPT ![cbmsg[tfam]] = IF tout = "ok" /\ ~crashed' THEN given ELSE @]
    BY <1>4 DEF SystemUrc
  <2> QED BY <1>1, <1>3, <2>1 DEF SeenTypes
<1>5. CASE UNCHANGED got
  BY <1>1, <1>5 DEF SeenTypes
<1> QED BY <1>2, <1>4, <1>5

\* The globals of the whole service keep their types, for every set of
\* platforms, keys and failures.
THEOREM SystemTyped ==
    ASSUME AllowedOutcomes
    PROVE  SystemSpec => []SystemTypeOK
<1> DEFINE Inv == TypeInv /\ BusyInv /\ KeyInv /\ PlatformTypes /\ SeenTypes
<1>1. SystemInit => Inv
  <2> SUFFICES ASSUME SystemInit PROVE KeyInv /\ PlatformTypes /\ SeenTypes
    BY SystemInitFacts
  <2>1. KeyInv
    BY DEF SystemInit, Init, KeyInv, Requests
  <2>2. a_client \in BOOLEAN /\ o_multi \in BOOLEAN /\ dead \in BOOLEAN
    BY Zenon DEF SystemInit, AmapPlatform!Init, OneosposPlatform!Init
  <2>3. 0 \in AmapPlatform!Times /\ 0 \in OneosposPlatform!Times
    BY ClockAssumption DEF AmapPlatform!Times, OneosposPlatform!Times
  <2>4. AmapPlatform!TypeOK
    BY <2>2, <2>3 DEF SystemInit, AmapPlatform!Init, AmapPlatform!TypeOK,
              AmapPlatform!CurlHandles, AmapPlatform!Codes
  <2>5. OneosposPlatform!TypeOK
    BY <2>2, <2>3 DEF SystemInit, OneosposPlatform!Init, OneosposPlatform!TypeOK,
              OneosposPlatform!CurlHandles, OneosposPlatform!Codes
  <2>6. SeenTypes
    BY <2>2 DEF SystemInit, SeenTypes
  <2> QED BY <2>1, <2>4, <2>5, <2>6 DEF PlatformTypes
<1>2. Inv /\ [SystemNext]_systemVars => Inv'
  <2> SUFFICES ASSUME Inv, [SystemNext]_systemVars PROVE Inv'
    OBVIOUS
  <2>1. [Next]_vars /\ BusyInv'
    BY SystemStep
  <2>2. TypeInv'
    BY <2>1, TypeNext
  <2> QED BY <2>1, <2>2, KeyNext, PlatformTypesNext, SeenTypesNext
<1>3. Inv => SystemTypeOK
  BY DEF TypeInv, KeyInv, PlatformTypes, SeenTypes, SystemTypeOK
<1> QED BY <1>1, <1>2, <1>3, PTL DEF SystemSpec
=============================================================================
