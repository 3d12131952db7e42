----------------------------- MODULE AtomicNode -----------------------------
(***************************************************************************)
(* What a DataNode promises its threads: a value that a set replaces at    *)
(* once, or leaves when the new value is no change, and that a get returns *)
(* whole.  The other modules of the project assume this node.              *)
(***************************************************************************)
EXTENDS Integers

CONSTANTS Threads, Values, CountModulus, Default, Changed(_, _)

VARIABLES val, has, count, got

atomicVars == <<val, has, count, got>>

Init ==
    /\ val = Default
    /\ has = FALSE
    /\ count = 0
    /\ got = [t \in Threads |-> Default]

(* The first set is always taken; later ones only if they change the value. *)
Set(v) ==
    /\ ~has \/ Changed(val, v)
    /\ val' = v
    /\ has' = TRUE
    /\ count' = (count + 1) % CountModulus
    /\ UNCHANGED got

Get(t) ==
    /\ got' = [got EXCEPT ![t] = val]
    /\ UNCHANGED <<val, has, count>>

Next == (\E v \in Values : Set(v)) \/ (\E t \in Threads : Get(t))

Spec == Init /\ [][Next]_atomicVars
=============================================================================
