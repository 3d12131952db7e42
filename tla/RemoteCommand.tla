--------------------------- MODULE RemoteCommand ---------------------------
(***************************************************************************)
(* What the GCS link promises an operator, whatever the network does: a    *)
(* request may be handled never, once or again and again, early or late;   *)
(* but only requests that were made are handled, as they were made, and    *)
(* the operator is only told the outcome of a handling of his own request. *)
(***************************************************************************)
EXTENDS Sequences, Naturals

CONSTANTS
    Requests,       \* what the operator may ask for
    Outcomes(_),    \* the answers a handling of a request may give
    Silent,         \* the answer that is not sent
    Times,          \* the timestamps of the first, second, ... request
    Untold

VARIABLES asked, told, handled
vars == <<asked, told, handled>>

Init ==
    /\ asked = <<>>
    /\ told = [t \in DOMAIN Times |-> Untold]
    /\ handled = {}

Ask ==
    /\ Len(asked) < Len(Times)
    /\ \E r \in Requests : asked' = Append(asked, r)
    /\ UNCHANGED <<told, handled>>

Handle ==
    \E t \in DOMAIN asked : \E a \in Outcomes(asked[t]) :
        /\ handled' = handled \cup {[time |-> Times[t], request |-> asked[t], answer |-> a]}
        /\ UNCHANGED <<asked, told>>

Learn ==
    \E t \in DOMAIN asked : \E h \in handled :
        /\ h.time = Times[t] /\ h.answer # Silent
        /\ told[t] = Untold
        /\ told' = [told EXCEPT ![t] = h.answer]
        /\ UNCHANGED <<asked, handled>>

Next == Ask \/ Handle \/ Learn
Spec == Init /\ [][Next]_vars
=============================================================================
