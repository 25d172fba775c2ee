-------------------------- MODULE LocationService ---------------------------
(***************************************************************************)
(* What the location service promises its users: commands are numbered in  *)
(* the order they are given, each is accepted or refused, an accepted one  *)
(* is answered by one URC, a refused one by none, and a new one is only    *)
(* accepted when the one before it has been answered.  LbsCore implements  *)
(* it as long as the configured platforms are those of AMap.               *)
(***************************************************************************)
EXTENDS Naturals

CONSTANT Requests

VARIABLES
    accepted, refused,      \* requests
    answers                 \* URCs delivered for each request

Pending == {r \in accepted : answers[r] = 0}

\* The request r is later than all that have been dealt with.
New(r) == \A s \in accepted \cup refused : s < r

Init ==
    /\ accepted = {} /\ refused = {}
    /\ answers = [r \in Requests |-> 0]

Accept(r) ==
    /\ Pending = {} /\ New(r)
    /\ accepted' = accepted \cup {r}
    /\ UNCHANGED <<refused, answers>>

Refuse(r) ==
    /\ New(r)
    /\ refused' = refused \cup {r}
    /\ UNCHANGED <<accepted, answers>>

Answer(r) ==
    /\ Pending = {r}
    /\ answers' = [answers EXCEPT ![r] = 1]
    /\ UNCHANGED <<accepted, refused>>

Next == \E r \in Requests : Accept(r) \/ Refuse(r) \/ Answer(r)

Spec == Init /\ [][Next]_<<accepted, refused, answers>>
=============================================================================
