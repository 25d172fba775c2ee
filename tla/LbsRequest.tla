----------------------------- MODULE LbsRequest -----------------------------
(***************************************************************************)
(* What the two location platforms have in common: the parameters of a     *)
(* request, which both remember to recognise a repeated one, and the       *)
(* location they cache for it.                                             *)
(***************************************************************************)
EXTENDS Integers

CONSTANTS
    Ues,        \* values of the UE information (cell, IMEI, IMSI)
    Keys,       \* values of the AMap keys, of the OneOS-POS product id
    NULL,
    Freed,      \* a pointer to memory that was freed
    MaxTime,    \* bound on the clock
    ValidTime,  \* how long a cached location is valid
    Failures    \* the calls that may fail: a subset of {"malloc", "curl"}

Requests == [ue : Ues, key : Keys]
Times    == 0..MaxTime

\* A cached location: whose, from when, and whether its strings are long
\* enough to be handed out again.
Cache == [for : Requests, at : Times, long : BOOLEAN]

ASSUME UesAssumption  == Ues \cap {NULL, Freed} = {} /\ NULL # Freed
ASSUME KeysAssumption == NULL \notin Keys
ASSUME NullAssumption == NULL \notin Requests /\ NULL \notin Cache
ASSUME TimeAssumption == MaxTime \in Nat /\ ValidTime \in Nat

Codes == {"none", "OK", "BUSY", "PARAMERR", "MEMROYERR", "ERR", "crash"}

\* A curl handle is "null", "live" or "released": curl_easy_cleanup gets a
\* copy of the pointer and the global one stays set.
CurlHandles == {"null", "live", "released"}
Released(h) == IF h = "null" THEN "null" ELSE "released"

\* A location cached at time at may be used at time t: it is not too old and
\* the clock was not set back.
Valid(cache, t) == /\ cache # NULL
                   /\ t - cache.at \in 0..ValidTime
                   /\ cache.long
=============================================================================
