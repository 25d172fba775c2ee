----------------------------- MODULE LbsSystem ------------------------------
(***************************************************************************)
(* The location service as a whole: the two threads of LbsCore and the two *)
(* platforms, whose statics survive a request and decide what the next one *)
(* meets.  Where LbsCore chooses an outcome, the LBS task here calls the   *)
(* platform and goes on as the calling code does, whatever comes back: it  *)
(* relies on the callback having been called once if the platform returns  *)
(* OK, and not at all otherwise.                                           *)
(*                                                                         *)
(* A request has a key, taken from the configuration when its attribute is *)
(* filled; the UE information is collected by the LBS task.                *)
(***************************************************************************)
EXTENDS LbsCore

CONSTANTS
    Ues, Keys, NULL, Freed, MaxTime, ValidTime,     \* see LbsRequest
    PlatformFailures    \* the platforms' calls that may fail

ASSUME ClockAssumption == MaxTime \in Nat

VARIABLES
    (* statics of cm_lbs_amap.c *)
    a_client, a_handle, a_rsp, a_ue, a_key, a_cbstate,
    (* statics of cm_lbs_oneospos.c *)
    o_state, o_handle, o_multi, o_content, o_rsp, o_ue, o_pid, o_cbstate,
    now,                            \* time(NULL)
    asked, ret, calls, given,       \* the last call of a platform
    key,            \* in the attribute of each family
    want,           \* the key of each request
    got,            \* the location its URC showed
    dead            \* the process ended inside a platform

amapVars     == <<a_client, a_handle, a_rsp, a_ue, a_key, a_cbstate>>
oneosposVars == <<o_state, o_handle, o_multi, o_content, o_rsp, o_ue, o_pid,
                  o_cbstate>>
callVars     == <<asked, ret, calls, given>>
platformVars == <<amapVars, oneosposVars, callVars, now>>
systemVars   == <<vars, platformVars, key, want, got, dead>>

AmapPlatform == INSTANCE LbsAmap WITH
    Failures <- PlatformFailures,
    s_amap_client <- a_client, s_amap_curl_handle <- a_handle,
    s_amap_location_rsp <- a_rsp, s_ue_info_last <- a_ue,
    s_amap_last_key <- a_key, callback_state <- a_cbstate

OneosposPlatform == INSTANCE LbsOneospos WITH
    Failures <- PlatformFailures,
    s_oneospos_state <- o_state, s_oneospos_curl_handle <- o_handle,
    s_curl_multi_handle <- o_multi, s_http_content <- o_content,
    s_rsp_buf <- o_rsp, s_ue_info_last <- o_ue, s_oneospos_lastpid <- o_pid,
    callback_state <- o_cbstate

Parameters == [ue : Ues, key : Keys]

SystemInit ==
    /\ Init
    /\ AmapPlatform!Init /\ OneosposPlatform!Init
    /\ key = [f \in Families |-> NULL]
    /\ want = [r \in Requests |-> NULL]
    /\ got = [r \in Requests |-> NULL]
    /\ dead = FALSE

(***************************************************************************)
(* The AT task.                                                            *)
(***************************************************************************)
SystemLocate(c, p, k) ==
    /\ ~dead
    /\ Locate(c, p)
    /\ want' = [want EXCEPT ![nreq + 1] = k]
    /\ UNCHANGED <<platformVars, key, got, dead>>

\* The attribute gets a copy of the key.
SystemInitAttr ==
    /\ ~dead
    /\ InitAttr
    /\ key' = [key EXCEPT ![Family(cplat)] =
                  IF attr[Family(cplat)] = "null" THEN want[nreq] ELSE @]
    /\ UNCHANGED <<platformVars, want, got, dead>>

SystemAtTask ==
    /\ ~dead
    /\ \/ CreateTask \/ CreateQuen \/ CheckLocation \/ ArmAttr \/ SendLocation
       \/ ReplySuccess
    /\ UNCHANGED <<platformVars, key, want, got, dead>>

(***************************************************************************)
(* The LBS task.                                                           *)
(***************************************************************************)

\* The request of family f, armed, has its callback called with out.
Outcome(f, out) ==
    /\ tfam' = f /\ tpc' = "urc" /\ tout' = out
    /\ UNCHANGED <<lbsVars, atVars, seenVars>>

\* The platform is not called: the attribute is missing, or the request has
\* failed already.
NotCalled(f, outcomes) ==
    /\ ~dead /\ ~crashed /\ tpc = f
    /\ IF attr[f] = "armed" THEN \E out \in outcomes \cap Outcomes : Outcome(f, out)
       ELSE AsynLocation(f, {})
    /\ UNCHANGED <<platformVars, key, want, got, dead>>

\* What the call that the platform has just returned from did.  The callback
\* of family f needs memory for a location.
Returned(f, nomem) ==
    \/ /\ calls' > 0 /\ given' # NULL
       /\ \E out \in {"ok", nomem} \cap Outcomes : Outcome(f, out)
       /\ UNCHANGED dead
    \/ /\ calls' > 0 /\ given' = NULL
       /\ Outcome(f, "err")
       /\ UNCHANGED dead
    \/ /\ calls' = 0 /\ ret' \notin {"OK", "crash"}
       /\ Outcome(f, "fail")
       /\ UNCHANGED dead
    \/ /\ calls' = 0 /\ ret' = "OK"     \* nobody calls the callback
       /\ TaskGoto(IF f = "amap" THEN "second" ELSE "wait")
       /\ UNCHANGED <<lbsVars, atVars, seenVars, dead>>
    \/ /\ calls' = 0 /\ ret' = "crash"
       /\ dead' = TRUE
       /\ UNCHANGED vars

\* The rest of cm_lbs_asyn_location_amap: the UE information is stored in
\* the attribute and the platform is called.
CallAmap(u) ==
    /\ ~dead /\ ~crashed /\ tpc = "amap" /\ attr["amap"] = "armed"
    /\ AmapPlatform!cm_amap_location([ue |-> u, key |-> key["amap"]])
    /\ Returned("amap", "ok_nomem")
    /\ UNCHANGED <<oneosposVars, key, want, got>>

CallOneospos(u) ==
    /\ ~dead /\ ~crashed /\ tpc = "oneospos" /\ attr["oneospos"] = "armed"
    /\ OneosposPlatform!cm_oneospos_location([ue |-> u, key |-> key["oneospos"]])
    /\ Returned("oneospos", "err")
    /\ UNCHANGED <<amapVars, key, want, got>>

SystemUrc ==
    /\ ~dead
    /\ Urc
    /\ got' = [got EXCEPT ![cbmsg[tfam]] = IF tout = "ok" /\ ~crashed' THEN given ELSE @]
    /\ UNCHANGED <<platformVars, key, want, dead>>

\* A process that ends inside the platform after the callback gets no further.
SystemFreeUeinfo ==
    /\ ~dead
    /\ IF ret = "crash"
       THEN tpc = "free_ue" /\ dead' = TRUE /\ UNCHANGED vars
       ELSE FreeUeinfo /\ UNCHANGED dead
    /\ UNCHANGED <<platformVars, key, want, got>>

SystemLbsTask ==
    /\ ~dead
    /\ \/ QueueRev \/ AsynFirst \/ AsynSecond
       \/ DeinitAmap \/ DeinitOneospos \/ OneosposTail
    /\ UNCHANGED <<platformVars, key, want, got, dead>>

\* The clock advances, or is set.  Only a platform call reads it, so it need
\* not change earlier than before one.
Clock ==
    /\ ~dead /\ tpc \in Families
    /\ now' \in 0..MaxTime \ {now}
    /\ UNCHANGED <<vars, amapVars, oneosposVars, callVars, key, want, got, dead>>

(***************************************************************************)
(* Specification.                                                          *)
(***************************************************************************)
SystemNext ==
    \/ \E c \in Commands, p \in Platforms, k \in Keys : SystemLocate(c, p, k)
    \/ SystemInitAttr
    \/ SystemAtTask
    \/ NotCalled("amap", {"ueinfo", "forbidden"})
    \/ NotCalled("oneospos", {"ueinfo"})
    \/ \E u \in Ues : CallAmap(u)
    \/ \E u \in Ues : CallOneospos(u)
    \/ SystemUrc
    \/ SystemFreeUeinfo
    \/ SystemLbsTask
    \/ Clock

SystemSpec == SystemInit /\ [][SystemNext]_systemVars

(***************************************************************************)
(* Properties.                                                             *)
(***************************************************************************)

\* The globals of the whole service keep their types.
SystemTypeOK ==
    /\ TypeOK
    /\ AmapPlatform!TypeOK /\ OneosposPlatform!TypeOK
    /\ key \in [Families -> Keys \cup {NULL}]
    /\ want \in [Requests -> Keys \cup {NULL}]
    /\ got \in [Requests -> Parameters \cup {NULL}]
    /\ dead \in BOOLEAN

\* With the real platforms behind it the service does nothing that LbsCore
\* does not allow: whatever the statics of a platform hold from earlier
\* requests, an accepted request gets its one callback, and an attribute is
\* released only after it.
ImplementsCore == Spec

\* The location a URC shows belongs to the parameters of the command that
\* asked for it: its own key, and the UE information collected for it; never
\* a cached one of other parameters, nor that of the request before or after.
AnswerIsOwn ==
    [][\A r \in Requests : got'[r] # got[r] =>
          got'[r] = [ue |-> asked.ue, key |-> want[r]]]_systemVars
=============================================================================
