---------------------------- MODULE ConfigStore -----------------------------
(***************************************************************************)
(* What the configuration files promise: a command changes one option, the *)
(* method itself or an option of the platform the method selects, to a     *)
(* value of that option.  A write that fails or is cut short by a crash    *)
(* may lose the one file it was writing, never another one.  Only after a  *)
(* read that failed are defaults written back in the place of the other    *)
(* options, or an option of the default platform changed.                  *)
(***************************************************************************)
CONSTANTS Values(_), Default(_)

VARIABLES
    conf,       \* file |-> option |-> value
    misread     \* whether a read of the present command failed

\* What the present command may have read.
View(f) == {conf[f]} \cup IF misread THEN {Default(f)} ELSE {}

Writable == {"atcmd"} \cup {c["method"] : c \in View("atcmd")}

Init == \A f \in DOMAIN conf : conf[f] = Default(f)

Set ==
    \E f \in Writable : \E o \in DOMAIN conf[f], c \in View(f) : \E v \in Values(o) :
        conf' = [conf EXCEPT ![f] = [c EXCEPT ![o] = v]]

Lose == \E f \in Writable : conf' = [conf EXCEPT ![f] = Default(f)]

Next == Set \/ Lose

Spec == Init /\ [][Next]_conf
=============================================================================
