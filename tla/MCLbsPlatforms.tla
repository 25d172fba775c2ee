--------------------------- MODULE MCLbsPlatforms ---------------------------
(***************************************************************************)
(* The two location platforms in one run.  They share no state, so a       *)
(* behaviour uses the one that AT+MLBSCFG="method" configured.             *)
(***************************************************************************)
EXTENDS LbsAmap

VARIABLES platform, o_state, o_handle, o_multi, o_content, o_rsp, o_ue, o_pid,
          o_cbstate, o_asked, o_ret, o_calls, o_given

oVars == <<o_state, o_handle, o_multi, o_content, o_rsp, o_ue, o_pid,
           o_cbstate, o_asked, o_ret, o_calls, o_given>>

Oneospos == INSTANCE LbsOneospos WITH
    s_oneospos_state <- o_state, s_oneospos_curl_handle <- o_handle,
    s_curl_multi_handle <- o_multi, s_http_content <- o_content,
    s_rsp_buf <- o_rsp, s_ue_info_last <- o_ue, s_oneospos_lastpid <- o_pid,
    callback_state <- o_cbstate, asked <- o_asked, ret <- o_ret,
    calls <- o_calls, given <- o_given

MCInit == Init /\ Oneospos!Init /\ platform \in {"AMAP", "ONEOSPOS"}

AmapNext == platform = "AMAP" /\ Next /\ UNCHANGED <<oVars, platform>>

OneosposNext ==
    /\ platform = "ONEOSPOS"
    /\ Oneospos!Next
    /\ UNCHANGED <<amapVars, callVars, platform>>

MCSpec == MCInit /\ [][AmapNext \/ OneosposNext]_<<vars, oVars, platform>>

\* The contract, for cm_oneospos_location: OK means one callback.
OneosposKeepsContract == Oneospos!OneosposKeepsContract
=============================================================================
