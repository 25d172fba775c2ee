-------------------------- MODULE LbsOneosposProofs --------------------------
(***************************************************************************)
(* The OneOS-POS platform keeps the contract of LbsPlatform, for every set *)
(* of requests, failures and clock values.  As for AMap the contract is    *)
(* not inductive, and AnsweredMeansBusy excludes the calls that would      *)
(* return OK without a callback or with another request's location.        *)
(***************************************************************************)
EXTENDS LbsOneospos, TLAPS

\* A step of the platform keeps AnsweredMeansBusy: only an answer sets
\* callback_state or fills the cache, and it leaves the state BUSY.
LEMMA BusyNext ==
    ASSUME AnsweredMeansBusy, [Next]_vars
    PROVE  AnsweredMeansBusy'
<1> USE DEF AnsweredMeansBusy
<1>1. CASE UNCHANGED vars
  BY <1>1 DEF vars, oneosposVars
<1>2. CASE Clock
  BY <1>2 DEF Clock, oneosposVars
<1>3. ASSUME NEW r \in Requests, cm_oneospos_location(r) PROVE AnsweredMeansBusy'
  <2>1. CASE UNCHANGED oneosposVars
    BY <2>1 DEF oneosposVars
  <2>2. CASE PostFails \/ PostCrashes(r)
    BY <2>2 DEF PostFails, PostCrashes
  <2>3. CASE PostAnswered(r)
    BY <2>3 DEF PostAnswered
  <2> QED
    BY <1>3, <2>1, <2>2, <2>3 DEF cm_oneospos_location, cm_oneospos_asynlocation,
          __cm_oneospos_return_last_location, cm_oneospos_create_attr_fails
<1> QED
  BY <1>1, <1>2, <1>3 DEF Next

\* One call is one step of the contract: refused while busy, never answered
\* from the cache, answered once otherwise.
LEMMA CallStep ==
    ASSUME AnsweredMeansBusy, NEW r \in Requests, cm_oneospos_location(r)
    PROVE  Platform!Next
<1>1. ret # "crash" /\ asked' = r /\ asked' \in Requests
  BY DEF cm_oneospos_location
<1>2. ASSUME NEW c \in {"BUSY", "PARAMERR", "MEMROYERR", "ERR"},
             Return(c, 0, NULL)
      PROVE  Platform!Refuse
  BY <1>2 DEF Return, Platform!Refuse, Platform!Errors
<1>3. ASSUME NEW l \in {r, NULL}, Return("OK", 1, l)
      PROVE  Platform!Answer
  BY <1>1, <1>3 DEF Return, Platform!Answer
<1>4. ASSUME NEW n \in {0, 1}, NEW l \in {r, NULL}, Return("crash", n, l)
      PROVE  Platform!Die
  BY <1>1, <1>4 DEF Return, Platform!Die
<1>5. CASE s_oneospos_state = "BUSY"
  BY <1>1, <1>2, <1>5 DEF cm_oneospos_location, Platform!Next
<1>6. CASE s_oneospos_state # "BUSY"
  <2>1. callback_state # 2 /\ s_rsp_buf = NULL
    BY <1>6 DEF AnsweredMeansBusy
  <2>2. ~__cm_oneospos_return_last_location(r)
    BY <2>1 DEF __cm_oneospos_return_last_location, Valid
  <2>3. cm_oneospos_create_attr_fails \/ cm_oneospos_asynlocation(r)
    BY <1>6, <2>2 DEF cm_oneospos_location
  <2>4. CASE PostFails
    BY <1>1, <1>2, <2>4 DEF PostFails, Platform!Next
  <2>5. CASE PostAnswered(r)
    <3>1. \/ \E l \in {r, NULL} : Return("OK", 1, l)
          \/ Return("crash", 1, NULL)
      BY <2>1, <2>5 DEF PostAnswered, cm_lbs_http_callback
    <3> QED
      BY <1>1, <1>3, <1>4, <3>1 DEF Platform!Next
  <2>6. CASE PostCrashes(r)
    BY <1>1, <1>4, <2>6 DEF PostCrashes, Platform!Next
  <2>7. CASE Return("MEMROYERR", 0, NULL)
    BY <1>1, <1>2, <2>7 DEF Platform!Next
  <2> QED
    BY <2>3, <2>4, <2>5, <2>6, <2>7 DEF cm_oneospos_asynlocation,
                                               cm_oneospos_create_attr_fails
<1> QED
  BY <1>5, <1>6

\* callback_state 2 and a cached location are met only while the state
\* makes cm_oneospos_location return CM_LBS_BUSY.
THEOREM OneosposBusy == Spec => []AnsweredMeansBusy
<1>1. Init => AnsweredMeansBusy
  BY DEF Init, AnsweredMeansBusy
<1>2. AnsweredMeansBusy /\ [Next]_vars => AnsweredMeansBusy'
  BY BusyNext
<1> QED
  BY <1>1, <1>2, PTL DEF Spec

\* cm_oneospos_location keeps the contract cm_lbs.c relies on: OK means exactly
\* one callback, with the location of this request or an error.
THEOREM OneosposContract == Spec => OneosposKeepsContract
<1>1. Init => Platform!Init
  BY DEF Init, Platform!Init
<1>2. AnsweredMeansBusy /\ [Next]_vars
      => [Platform!Next]_<<asked, ret, calls, given>>
  <2> SUFFICES ASSUME AnsweredMeansBusy, [Next]_vars
               PROVE  [Platform!Next]_<<asked, ret, calls, given>>
    OBVIOUS
  <2>1. CASE UNCHANGED vars
    BY <2>1 DEF vars, callVars
  <2>2. CASE Clock
    BY <2>2 DEF Clock, callVars
  <2>3. CASE \E r \in Requests : cm_oneospos_location(r)
    BY <2>3, CallStep
  <2> QED
    BY <2>1, <2>2, <2>3 DEF Next
<1> QED
  BY <1>1, <1>2, OneosposBusy, PTL DEF Spec, OneosposKeepsContract, Platform!Spec
=============================================================================
