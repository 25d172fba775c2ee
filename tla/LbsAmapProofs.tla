--------------------------- MODULE LbsAmapProofs ----------------------------
(***************************************************************************)
(* The AMap platform keeps the contract of LbsPlatform, for every set of   *)
(* requests, failures and clock values.  The contract is not inductive: a  *)
(* call could return OK without a callback (callback_state is 2) or with   *)
(* the location of other parameters (the cache is older than the last      *)
(* parameters).  AnsweredMeansBusy excludes both.                          *)
(***************************************************************************)
EXTENDS LbsAmap, TLAPS

\* A step of the platform keeps AnsweredMeansBusy: only an answer sets
\* callback_state or fills the cache, and it leaves the client set.
LEMMA BusyNext ==
    ASSUME AnsweredMeansBusy, [Next]_vars
    PROVE  AnsweredMeansBusy'
<1> USE DEF AnsweredMeansBusy
<1>1. CASE UNCHANGED vars
  BY <1>1 DEF vars, amapVars
<1>2. CASE Clock
  BY <1>2 DEF Clock, amapVars
<1>3. ASSUME NEW r \in Requests, cm_amap_location(r) PROVE AnsweredMeansBusy'
  <2>1. CASE UNCHANGED amapVars
    BY <2>1 DEF amapVars
  <2>2. CASE RequestFails \/ RequestCrashes(r)
    BY <2>2 DEF RequestFails, RequestCrashes
  <2>3. CASE RequestAnswered(r)
    BY <2>3 DEF RequestAnswered
  <2> QED
    BY <1>3, <2>1, <2>2, <2>3 DEF cm_amap_location, __cm_amap_http_requst,
          __cm_amap_return_last_location, __cm_amap_create_by_attr_fails
<1> QED
  BY <1>1, <1>2, <1>3 DEF Next

\* One call is one step of the contract: refused while busy, never answered
\* from the cache, answered once otherwise.
LEMMA CallStep ==
    ASSUME AnsweredMeansBusy, NEW r \in Requests, cm_amap_location(r)
    PROVE  Platform!Next
<1>1. ret # "crash" /\ asked' = r /\ asked' \in Requests
  BY DEF cm_amap_location
<1>2. ASSUME NEW c \in {"BUSY", "PARAMERR", "MEMROYERR", "ERR"},
             Return(c, 0, NULL)
      PROVE  Platform!Refuse
  BY <1>2 DEF Return, Platform!Refuse, Platform!Errors
<1>3. ASSUME NEW l \in {r, NULL}, Return("OK", 1, l)
      PROVE  Platform!Answer
  BY <1>1, <1>3 DEF Return, Platform!Answer
<1>4. ASSUME NEW n \in {0, 1}, NEW l \in {r, NULL}, Return("crash", n, l)
      PROVE  Platform!Die
  BY <1>1, <1>4 DEF Return, Platform!Die
<1>5. CASE s_amap_client
  BY <1>1, <1>2, <1>5 DEF cm_amap_location, Platform!Next
<1>6. CASE ~s_amap_client
  <2>1. callback_state # 2 /\ s_amap_location_rsp = NULL
    BY <1>6 DEF AnsweredMeansBusy
  <2>2. ~__cm_amap_return_last_location(r)
    BY <2>1 DEF __cm_amap_return_last_location, Valid
  <2>3. __cm_amap_create_by_attr_fails \/ __cm_amap_http_requst(r)
    BY <1>6, <2>2 DEF cm_amap_location
  <2>4. CASE RequestFails
    BY <1>1, <1>2, <2>4 DEF RequestFails, Platform!Next
  <2>5. CASE RequestAnswered(r)
    <3>1. \E l \in {r, NULL} : Return("OK", 1, l)
      BY <2>1, <2>5 DEF RequestAnswered, cm_lbs_http_callback
    <3> QED
      BY <1>1, <1>3, <3>1 DEF Platform!Next
  <2>6. CASE RequestCrashes(r)
    BY <1>1, <1>4, <2>6 DEF RequestCrashes, Platform!Next
  <2>7. CASE Return("PARAMERR", 0, NULL)
    BY <1>1, <1>2, <2>7 DEF Platform!Next
  <2> QED
    BY <2>3, <2>4, <2>5, <2>6, <2>7 DEF __cm_amap_http_requst,
                                               __cm_amap_create_by_attr_fails
<1> QED
  BY <1>5, <1>6

\* callback_state 2 and a cached location are met only while the client
\* makes cm_amap_location return CM_LBS_BUSY.
THEOREM AmapBusy == Spec => []AnsweredMeansBusy
<1>1. Init => AnsweredMeansBusy
  BY DEF Init, AnsweredMeansBusy
<1>2. AnsweredMeansBusy /\ [Next]_vars => AnsweredMeansBusy'
  BY BusyNext
<1> QED
  BY <1>1, <1>2, PTL DEF Spec

\* cm_amap_location keeps the contract cm_lbs.c relies on: OK means exactly
\* one callback, with the location of this request or an error.
THEOREM AmapContract == Spec => AmapKeepsContract
<1>1. Init => Platform!Init
  BY DEF Init, Platform!Init
<1>2. AnsweredMeansBusy /\ [Next]_vars
      => [Platform!Next]_<<asked, ret, calls, given>>
  <2> SUFFICES ASSUME AnsweredMeansBusy, [Next]_vars
               PROVE  [Platform!Next]_<<asked, ret, calls, given>>
    OBVIOUS
  <2>1. CASE UNCHANGED vars
    BY <2>1 DEF vars, callVars
  <2>2. CASE Clock
    BY <2>2 DEF Clock, callVars
  <2>3. CASE \E r \in Requests : cm_amap_location(r)
    BY <2>3, CallStep
  <2> QED
    BY <2>1, <2>2, <2>3 DEF Next
<1> QED
  BY <1>1, <1>2, AmapBusy, PTL DEF Spec, AmapKeepsContract, Platform!Spec
=============================================================================
