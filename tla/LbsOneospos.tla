---------------------------- MODULE LbsOneospos -----------------------------
(***************************************************************************)
(* The OneOS-POS platform, cm_lbs_oneospos.c.  As in LbsAmap a call is one *)
(* step of the LBS task and RSP_CONTENT_IND, raised directly after the one *)
(* curl_multi_perform, is the only event.                                  *)
(*                                                                         *)
(* __cm_oneospos_http_post writes behind a string literal and parses a     *)
(* response structure nobody filled, so a request that reaches that far    *)
(* may crash, fail or yield any parse result; so may one whose content was *)
(* freed twice.                                                            *)
(***************************************************************************)
EXTENDS LbsRequest

VARIABLES
    s_oneospos_state,       \* "FREE" or "BUSY"
    s_oneospos_curl_handle,
    s_curl_multi_handle,    \* s_curl_multi_handle # NULL
    s_http_content,         \* "null" or "live"
    s_rsp_buf,              \* the cached location, with s_rsp_time, or NULL
    s_ue_info_last, s_oneospos_lastpid,
    callback_state,         \* of cm_lbs_http_callback
    now,                    \* time(NULL)
    asked, ret, calls, given

oneosposVars == <<s_oneospos_state, s_oneospos_curl_handle,
                  s_curl_multi_handle, s_http_content, s_rsp_buf,
                  s_ue_info_last, s_oneospos_lastpid, callback_state>>
callVars == <<asked, ret, calls, given>>
vars     == <<oneosposVars, now, callVars>>

\* The globals keep their types.
TypeOK ==
    /\ s_oneospos_state \in {"FREE", "BUSY"}
    /\ s_oneospos_curl_handle \in CurlHandles
    /\ s_curl_multi_handle \in BOOLEAN
    /\ s_http_content \in {"null", "live"}
    /\ s_rsp_buf \in Cache \cup {NULL}
    /\ s_ue_info_last \in Ues \cup {NULL, Freed}
    /\ s_oneospos_lastpid \in Keys \cup {NULL}
    /\ callback_state \in {0, 2}
    /\ now \in Times
    /\ asked \in Requests
    /\ ret \in Codes
    /\ calls \in Nat
    /\ given \in Requests \cup {NULL}

Init ==
    /\ s_oneospos_state = "FREE"
    /\ s_oneospos_curl_handle = "null" /\ s_curl_multi_handle = FALSE
    /\ s_http_content = "null"
    /\ s_rsp_buf = NULL
    /\ s_ue_info_last = NULL /\ s_oneospos_lastpid = NULL
    /\ callback_state = 0
    /\ now = 0
    /\ asked \in Requests
    /\ ret = "none" /\ calls = 0 /\ given = NULL

Return(code, n, location) ==
    /\ ret' = code
    /\ calls' = n
    /\ given' = location

(***************************************************************************)
(* The filter for repeated requests.                                       *)
(***************************************************************************)

\* The possible results of the comparison: freed memory may hold anything.
__cm_oneospos_ueinfo_compare(ue) ==
    IF s_ue_info_last = Freed THEN BOOLEAN ELSE {s_ue_info_last = ue}

__cm_oneospos_compare_lastpid(pid) == s_oneospos_lastpid = pid

\* The state is set to BUSY and back.
__cm_oneospos_return_last_location(r) ==
    /\ TRUE \in __cm_oneospos_ueinfo_compare(r.ue)
    /\ __cm_oneospos_compare_lastpid(r.key)
    /\ Valid(s_rsp_buf, now)
    /\ Return("OK", 1, s_rsp_buf.for)
    /\ UNCHANGED oneosposVars

NotRepeated(r) ==
    \/ FALSE \in __cm_oneospos_ueinfo_compare(r.ue)
    \/ ~__cm_oneospos_compare_lastpid(r.key)
    \/ ~Valid(s_rsp_buf, now)
    \/ "malloc" \in Failures

(***************************************************************************)
(* A new request.                                                          *)
(***************************************************************************)

\* A failed allocation leaves no pid.
__cm_oneospos_backup_lastpid(pid) ==
    s_oneospos_lastpid' \in
        {pid} \cup IF "malloc" \in Failures THEN {NULL} ELSE {}

\* A failed allocation leaves the pointer to the information just freed.
__cm_oneospos_backup_ueinfo(ue) ==
    \/ s_ue_info_last' = ue
    \/ /\ "malloc" \in Failures
       /\ s_ue_info_last' = IF s_ue_info_last = NULL THEN NULL ELSE Freed

\* The curl handles a request works with: both are created when there is
\* neither, and either creation may fail.  A released one is used again.
CurlInit ==
    IF s_oneospos_curl_handle = "null" /\ ~s_curl_multi_handle
    THEN {<<"live", TRUE>>} \cup
         IF "curl" \in Failures
         THEN {"null", "live"} \X BOOLEAN ELSE {}
    ELSE {<<s_oneospos_curl_handle, s_curl_multi_handle>>}

\* A success is cached unless its copy cannot be allocated; an error clears
\* the cache.
__cm_oneospos_loaction_rsp_backup(location) ==
    \/ /\ location = NULL
       /\ s_rsp_buf' = NULL
    \/ /\ location # NULL
       /\ \E long \in BOOLEAN :
             s_rsp_buf' = [for |-> location, at |-> now, long |-> long]
    \/ /\ location # NULL /\ "malloc" \in Failures
       /\ UNCHANGED s_rsp_buf

\* RSP_CONTENT_IND: a second one is ignored; else the callback is called
\* once and the handle released.  A response that cannot be allocated is
\* reported as unknown and then dereferenced.
cm_lbs_http_callback(r, h) ==
    \/ /\ callback_state = 2
       /\ Return("OK", 0, NULL)
       /\ s_oneospos_curl_handle' = h
       /\ UNCHANGED <<callback_state, s_rsp_buf>>
    \/ /\ callback_state = 0
       /\ callback_state' = 2
       /\ s_oneospos_curl_handle' = Released(h)
       /\ \/ \E location \in {r, NULL} :
                /\ __cm_oneospos_loaction_rsp_backup(location)
                /\ Return("OK", 1, location)
          \/ /\ "malloc" \in Failures
             /\ UNCHANGED s_rsp_buf
             /\ Return("crash", 1, NULL)

\* Mutant of PostAnswered: the state is set back to FREE after a success.
PostAnsweredFrees(r) ==
    /\ \E c \in CurlInit :
          /\ c[1] # "null" /\ c[2]
          /\ s_curl_multi_handle' = TRUE
          /\ cm_lbs_http_callback(r, c[1])
    /\ s_http_content' = "live"
    /\ s_oneospos_state' = "FREE"

\* The request runs: nothing sets the state back or frees the content.
PostAnswered(r) ==
    /\ \E c \in CurlInit :
          /\ c[1] # "null" /\ c[2]
          /\ s_curl_multi_handle' = TRUE
          /\ cm_lbs_http_callback(r, c[1])
    /\ s_http_content' = "live"
    /\ s_oneospos_state' = "BUSY"

\* It fails before the callback.  asynlocation releases the handle and frees
\* the content, and __cm_oneospos_oneospos_client_free frees it once more
\* through s_http_content: the process goes on or, below, crashes.
PostFails ==
    /\ "curl" \in Failures
    /\ \E c \in CurlInit :
          /\ s_oneospos_curl_handle' = Released(c[1])
          /\ s_curl_multi_handle' = c[2]
    /\ s_http_content' = "null"
    /\ Return("ERR", 0, NULL)
    /\ UNCHANGED <<s_oneospos_state, s_rsp_buf, callback_state>>

\* The process ends before or after the callback.
PostCrashes(r) ==
    /\ \/ Return("crash", 0, NULL)
       \/ \E location \in {r, NULL} : Return("crash", 1, location)
    /\ UNCHANGED <<s_oneospos_state, s_oneospos_curl_handle,
                   s_curl_multi_handle, s_http_content, s_rsp_buf,
                   callback_state>>

cm_oneospos_asynlocation(r) == PostFails \/ PostAnswered(r) \/ PostCrashes(r)

\* The platform's copy of the parameters, or none.
cm_oneospos_create_attr_fails ==
    /\ "malloc" \in Failures
    /\ Return("MEMROYERR", 0, NULL)
    /\ UNCHANGED oneosposVars

cm_oneospos_location(r) ==
    /\ ret # "crash"
    /\ asked' = r
    /\ \/ /\ s_oneospos_state = "BUSY"
          /\ Return("BUSY", 0, NULL)
          /\ UNCHANGED oneosposVars
       \/ /\ s_oneospos_state = "FREE"
          /\ __cm_oneospos_return_last_location(r)
       \/ /\ s_oneospos_state = "FREE"
          /\ NotRepeated(r)
          /\ \/ cm_oneospos_create_attr_fails
             \/ /\ __cm_oneospos_backup_lastpid(r.key)
                /\ __cm_oneospos_backup_ueinfo(r.ue)
                /\ cm_oneospos_asynlocation(r)
    /\ UNCHANGED now

\* The clock advances, or is set.
Clock ==
    /\ now' \in Times \ {now}
    /\ UNCHANGED <<oneosposVars, callVars>>

Next == Clock \/ \E r \in Requests : cm_oneospos_location(r)

Spec == Init /\ [][Next]_vars

(***************************************************************************)
(* Properties.                                                             *)
(***************************************************************************)
Platform == INSTANCE LbsPlatform WITH NoLocation <- NULL

\* The OneOS-POS platform keeps the contract that cm_lbs.c relies on: OK
\* means one callback, an error means none, and a location taken from the
\* cache is never that of other parameters.
OneosposKeepsContract == Platform!Spec

\* What keeps the contract true: see LbsAmap.
AnsweredMeansBusy ==
    callback_state = 2 \/ s_rsp_buf # NULL => s_oneospos_state = "BUSY"
=============================================================================
