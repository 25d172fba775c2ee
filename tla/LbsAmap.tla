------------------------------ MODULE LbsAmap -------------------------------
(***************************************************************************)
(* The AMap platform, cm_lbs_amap.c.  Only the LBS task calls it, so one   *)
(* call of cm_amap_location is one step.  Its HTTP exchange is synchronous *)
(* here: curl_multi_perform is called once and the callback for            *)
(* RSP_CONTENT_IND directly after it; no other event is ever raised.       *)
(*                                                                         *)
(* __cm_amap_http_requst writes the URL through an uninitialised pointer   *)
(* and hands an uninitialised response to the parser, so a request that    *)
(* reaches that far may crash, fail or yield any parse result.             *)
(***************************************************************************)
EXTENDS LbsRequest

VARIABLES
    s_amap_client,          \* s_amap_client # NULL (its state is then BUSY)
    s_amap_curl_handle,
    s_amap_location_rsp,    \* the cached location, with s_rsp_time, or NULL
    s_ue_info_last, s_amap_last_key,
    callback_state,         \* of cm_lbs_http_callback
    now,                    \* time(NULL)
    asked, ret, calls, given

amapVars == <<s_amap_client, s_amap_curl_handle, s_amap_location_rsp,
              s_ue_info_last, s_amap_last_key, callback_state>>
callVars == <<asked, ret, calls, given>>
vars     == <<amapVars, now, callVars>>

\* The globals keep their types; a callback count above one is excluded by
\* the contract, not here.
TypeOK ==
    /\ s_amap_client \in BOOLEAN
    /\ s_amap_curl_handle \in CurlHandles
    /\ s_amap_location_rsp \in Cache \cup {NULL}
    /\ s_ue_info_last \in Ues \cup {NULL, Freed}
    /\ s_amap_last_key \in Keys \cup {NULL}
    /\ callback_state \in {0, 2}
    /\ now \in Times
    /\ asked \in Requests
    /\ ret \in Codes
    /\ calls \in Nat
    /\ given \in Requests \cup {NULL}

Init ==
    /\ s_amap_client = FALSE
    /\ s_amap_curl_handle = "null"
    /\ s_amap_location_rsp = NULL
    /\ s_ue_info_last = NULL /\ s_amap_last_key = NULL
    /\ callback_state = 0
    /\ now = 0
    /\ asked \in Requests
    /\ ret = "none" /\ calls = 0 /\ given = NULL

Return(code, n, location) ==
    /\ ret' = code
    /\ calls' = n
    /\ given' = location

(***************************************************************************)
(* The filter for repeated requests.                                       *)
(***************************************************************************)

\* The possible results of the comparison: freed memory may hold anything.
__cm_amap_ueinfo_compare(ue) ==
    IF s_ue_info_last = Freed THEN BOOLEAN ELSE {s_ue_info_last = ue}

__cm_amap_compare_lastkey(key) == s_amap_last_key = key

__cm_amap_return_last_location(r) ==
    /\ TRUE \in __cm_amap_ueinfo_compare(r.ue)
    /\ __cm_amap_compare_lastkey(r.key)
    /\ Valid(s_amap_location_rsp, now)
    /\ Return("OK", 1, s_amap_location_rsp.for)
    /\ UNCHANGED amapVars

NotRepeated(r) ==
    \/ FALSE \in __cm_amap_ueinfo_compare(r.ue)
    \/ ~__cm_amap_compare_lastkey(r.key)
    \/ ~Valid(s_amap_location_rsp, now)
    \/ "malloc" \in Failures

(***************************************************************************)
(* A new request.                                                          *)
(***************************************************************************)

\* A failed allocation leaves no key.
__cm_amap_backup_lastkey(key) ==
    s_amap_last_key' \in {key} \cup IF "malloc" \in Failures THEN {NULL} ELSE {}

\* A failed allocation leaves the pointer to the information just freed.
__cm_amap_backup_ueinfo(ue) ==
    \/ s_ue_info_last' = ue
    \/ /\ "malloc" \in Failures
       /\ s_ue_info_last' = IF s_ue_info_last = NULL THEN NULL ELSE Freed

\* The curl handle a request works with: created when there is none.  One
\* that was released is not NULL and is used again.
Handles ==
    IF s_amap_curl_handle = "null"
    THEN {"live"} \cup IF "curl" \in Failures THEN {"null"} ELSE {}
    ELSE {s_amap_curl_handle}

\* A success is cached unless its copy cannot be allocated; an error clears
\* the cache.
__cm_lbs_amap_rsp_backup(location) ==
    \/ /\ location = NULL
       /\ s_amap_location_rsp' = NULL
    \/ /\ location # NULL
       /\ \E long \in BOOLEAN :
             s_amap_location_rsp' = [for |-> location, at |-> now, long |-> long]
    \/ /\ location # NULL /\ "malloc" \in Failures
       /\ UNCHANGED s_amap_location_rsp

\* Mutant of cm_lbs_http_callback: callback_state counts the events.
cm_lbs_http_callback_counts(r) ==
    /\ callback_state' = callback_state + 1
    /\ s_amap_location_rsp' = NULL
    /\ Return("OK", 1, NULL)

\* RSP_CONTENT_IND: a second one is ignored; else the callback is called
\* once, with the parsed location, with the parse error or, when the
\* response cannot be allocated, with an unknown error.
cm_lbs_http_callback(r) ==
    \/ /\ callback_state = 2
       /\ Return("OK", 0, NULL)
       /\ UNCHANGED <<callback_state, s_amap_location_rsp>>
    \/ /\ callback_state = 0
       /\ callback_state' = 2
       /\ \/ \E location \in {r, NULL} :
                /\ __cm_lbs_amap_rsp_backup(location)
                /\ Return("OK", 1, location)
          \/ /\ "malloc" \in Failures
             /\ UNCHANGED s_amap_location_rsp
             /\ Return("OK", 1, NULL)

\* Mutant of RequestAnswered: the client is deleted after a success too.
RequestAnsweredFrees(r) ==
    /\ \E h \in Handles \ {"null"} : s_amap_curl_handle' = h
    /\ cm_lbs_http_callback(r)
    /\ s_amap_client' = FALSE

\* The request runs: nothing deletes the client afterwards.
RequestAnswered(r) ==
    /\ \E h \in Handles \ {"null"} : s_amap_curl_handle' = h
    /\ cm_lbs_http_callback(r)
    /\ s_amap_client' = TRUE

\* It fails before the callback: the handle is released, the client deleted.
RequestFails ==
    /\ \/ /\ "malloc" \in Failures
          /\ s_amap_curl_handle' = Released(s_amap_curl_handle)
          /\ Return("MEMROYERR", 0, NULL)
       \/ /\ "curl" \in Failures
          /\ \E h \in Handles : s_amap_curl_handle' = Released(h)
          /\ Return("ERR", 0, NULL)
    /\ UNCHANGED <<s_amap_client, s_amap_location_rsp, callback_state>>

\* The process ends before or after the callback.
RequestCrashes(r) ==
    /\ \/ Return("crash", 0, NULL)
       \/ \E location \in {r, NULL} : Return("crash", 1, location)
    /\ UNCHANGED <<s_amap_client, s_amap_curl_handle, s_amap_location_rsp,
                   callback_state>>

__cm_amap_http_requst(r) == RequestFails \/ RequestAnswered(r) \/ RequestCrashes(r)

\* The client's copy of the parameters, or none.
__cm_amap_create_by_attr_fails ==
    /\ "malloc" \in Failures
    /\ Return("PARAMERR", 0, NULL)
    /\ UNCHANGED amapVars

cm_amap_location(r) ==
    /\ ret # "crash"
    /\ asked' = r
    /\ \/ /\ s_amap_client
          /\ Return("BUSY", 0, NULL)
          /\ UNCHANGED amapVars
       \/ /\ ~s_amap_client
          /\ __cm_amap_return_last_location(r)
       \/ /\ ~s_amap_client
          /\ NotRepeated(r)
          /\ \/ __cm_amap_create_by_attr_fails
             \/ /\ __cm_amap_backup_lastkey(r.key)
                /\ __cm_amap_backup_ueinfo(r.ue)
                /\ __cm_amap_http_requst(r)
    /\ UNCHANGED now

\* The clock advances, or is set.
Clock ==
    /\ now' \in Times \ {now}
    /\ UNCHANGED <<amapVars, callVars>>

Next == Clock \/ \E r \in Requests : cm_amap_location(r)

Spec == Init /\ [][Next]_vars

(***************************************************************************)
(* Properties.                                                             *)
(***************************************************************************)
Platform == INSTANCE LbsPlatform WITH NoLocation <- NULL

\* The AMap platform keeps the contract that cm_lbs.c relies on, over any
\* sequence of calls: OK means one callback, an error means none, and a
\* location taken from the cache is never that of other parameters.
AmapKeepsContract == Platform!Spec

\* What keeps the contract true: the static callback_state that swallows a
\* second answer, and the cached location, which a failed request for other
\* parameters does not clear, are reached only while the client blocks every
\* further request.
AnsweredMeansBusy ==
    callback_state = 2 \/ s_amap_location_rsp # NULL => s_amap_client
=============================================================================
