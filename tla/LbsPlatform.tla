---------------------------- MODULE LbsPlatform -----------------------------
(***************************************************************************)
(* What cm_lbs.c expects of a location platform: cm_amap_location and      *)
(* cm_oneospos_location are called with a request and a callback, and a    *)
(* call either returns OK after calling the callback exactly once, with    *)
(* the location of that request or with an error event, or returns an      *)
(* error code and leaves the callback alone.  LbsCore's outcomes "ok" and  *)
(* "err" are the first case, its "fail" is the second.                     *)
(***************************************************************************)
CONSTANTS Requests, NoLocation

VARIABLES
    asked,      \* the request of the last call
    ret,        \* what it returned
    calls,      \* how often it called the callback
    given       \* whose location the callback got

Errors == {"BUSY", "PARAMERR", "MEMROYERR", "ERR"}

Init == ret = "none" /\ calls = 0 /\ given = NoLocation

Answer ==
    /\ ret' = "OK"
    /\ calls' = 1
    /\ given' \in {asked', NoLocation}

Refuse ==
    /\ ret' \in Errors
    /\ calls' = 0
    /\ given' = NoLocation

\* The process ends inside the call.
Die ==
    /\ ret' = "crash"
    /\ calls' \in {0, 1}
    /\ given' \in {asked', NoLocation}

Next ==
    /\ ret # "crash"
    /\ asked' \in Requests
    /\ Answer \/ Refuse \/ Die

Spec == Init /\ [][Next]_<<asked, ret, calls, given>>
=============================================================================
