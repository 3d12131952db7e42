------------------------------ MODULE DataNode ------------------------------
(***************************************************************************)
(* DataNode<T> of common/DataNode.hpp: a value behind a std::mutex, set    *)
(* and read by several threads.  The copies of T are made field by field,  *)
(* as the assignment of a struct is; nothing but the mutex makes them      *)
(* whole.  stale, getUpdateCount and getFrequencyHz read without the lock, *)
(* but nothing calls them.                                                 *)
(***************************************************************************)
EXTENDS Integers, FiniteSets

CONSTANTS
    Threads,       \* the threads that use the node
    NoThread,      \* owner of a free mutex
    Fields,        \* the fields of T
    Values,        \* the values threads set, functions on Fields
    Default,       \* T value{}
    Band,          \* dead band of T's operator!= per field: 0.01 of a reading,
                   \* none of a flag or of distanceToTarget
    AlwaysChanged, \* TRUE where operator!= only returns true
    CountModulus   \* updateCount is a uint64_t: 2^64

ASSUME NodeAssumption ==
    /\ NoThread \notin Threads
    /\ Values \subseteq [Fields -> Int]
    /\ Default \in [Fields -> Int]
    /\ Band \in [Fields -> Nat]
    /\ AlwaysChanged \in BOOLEAN
    /\ CountModulus \in Nat \ {0}

VARIABLES
    value, hasValue, updateCount,
    mutex,         \* the thread that holds the mutex
    pc, arg,       \* where a thread is, and the newValue of its set
    out,           \* the copy its get is making
    todo,          \* the fields its copy has still to move
    got            \* what its last get returned

vars == <<value, hasValue, updateCount, mutex, pc, arg, out, todo, got>>

Near(f, a, b) == a - b <= Band[f] /\ b - a <= Band[f]

(* operator!= of T, and hasChanged, which ignores the threshold argument.  *)
Changed(old, new) == AlwaysChanged \/ \E f \in Fields : ~Near(f, old[f], new[f])

Init ==
    /\ value = Default
    /\ hasValue = FALSE
    /\ updateCount = 0
    /\ mutex = NoThread
    /\ pc = [t \in Threads |-> "idle"]
    /\ arg = [t \in Threads |-> Default]
    /\ out = [t \in Threads |-> Default]
    /\ todo = [t \in Threads |-> {}]
    /\ got = [t \in Threads |-> Default]

(* set(newValue) and get() up to their lock_guard.                         *)
CallSet(t, v) ==
    /\ pc[t] = "idle"
    /\ pc' = [pc EXCEPT ![t] = "lock_set"]
    /\ arg' = [arg EXCEPT ![t] = v]
    /\ UNCHANGED <<value, hasValue, updateCount, mutex, out, todo, got>>

CallGet(t) ==
    /\ pc[t] = "idle"
    /\ pc' = [pc EXCEPT ![t] = "lock_get"]
    /\ UNCHANGED <<value, hasValue, updateCount, mutex, arg, out, todo, got>>

(* Slip: no mutex.                                                         *)
Unguarded == TRUE
Free == mutex = NoThread

Lock(t, from, to) ==
    /\ pc[t] = from
    /\ Free
    /\ mutex' = t
    /\ pc' = [pc EXCEPT ![t] = to]

LockSet(t) ==
    /\ Lock(t, "lock_set", "compare")
    /\ UNCHANGED <<value, hasValue, updateCount, arg, out, todo, got>>

LockGet(t) ==
    /\ Lock(t, "lock_get", "copy_out")
    /\ todo' = [todo EXCEPT ![t] = Fields]
    /\ UNCHANGED <<value, hasValue, updateCount, arg, out, got>>

(* The destructor of the lock_guard, and the return.                       *)
Return(t) ==
    /\ mutex' = NoThread
    /\ pc' = [pc EXCEPT ![t] = "idle"]

(* Slip: the value set first is never replaced.                            *)
SetOnce(t) == hasValue
Unchanged(t) == hasValue /\ ~Changed(value, arg[t])

SetNothing(t) ==
    /\ pc[t] = "compare"
    /\ Unchanged(t)
    /\ Return(t)
    /\ arg' = [arg EXCEPT ![t] = Default]
    /\ UNCHANGED <<value, hasValue, updateCount, out, todo, got>>

SetBegin(t) ==
    /\ pc[t] = "compare"
    /\ ~Unchanged(t)
    /\ pc' = [pc EXCEPT ![t] = "copy_in"]
    /\ todo' = [todo EXCEPT ![t] = Fields]
    /\ UNCHANGED <<value, hasValue, updateCount, mutex, arg, out, got>>

CopyIn(t, f) ==
    /\ pc[t] = "copy_in"
    /\ f \in todo[t]
    /\ value' = [value EXCEPT ![f] = arg[t][f]]
    /\ todo' = [todo EXCEPT ![t] = @ \ {f}]
    /\ UNCHANGED <<hasValue, updateCount, mutex, pc, arg, out, got>>

SetEnd(t) ==
    /\ pc[t] = "copy_in"
    /\ todo[t] = {}
    /\ hasValue' = TRUE
    /\ updateCount' = (updateCount + 1) % CountModulus
    /\ Return(t)
    /\ arg' = [arg EXCEPT ![t] = Default]
    /\ UNCHANGED <<value, out, todo, got>>

CopyOut(t, f) ==
    /\ pc[t] = "copy_out"
    /\ f \in todo[t]
    /\ out' = [out EXCEPT ![t][f] = value[f]]
    /\ todo' = [todo EXCEPT ![t] = @ \ {f}]
    /\ UNCHANGED <<value, hasValue, updateCount, mutex, pc, arg, got>>

GetEnd(t) ==
    /\ pc[t] = "copy_out"
    /\ todo[t] = {}
    /\ got' = [got EXCEPT ![t] = out[t]]
    /\ Return(t)
    /\ out' = [out EXCEPT ![t] = Default]
    /\ UNCHANGED <<value, hasValue, updateCount, arg, todo>>

Call(t) == CallGet(t) \/ \E v \in Values : CallSet(t, v)
Enter(t) == LockSet(t) \/ LockGet(t)
Proceed(t) == SetNothing(t) \/ SetBegin(t) \/ SetEnd(t) \/ GetEnd(t)
              \/ \E f \in Fields : CopyIn(t, f) \/ CopyOut(t, f)

Next == \E t \in Threads : Call(t) \/ Enter(t) \/ Proceed(t)

Spec == Init /\ [][Next]_vars

-----------------------------------------------------------------------------
Inside == {"compare", "copy_in", "copy_out"}

(* The types of the node and of every thread in it.                        *)
TypeOK ==
    /\ value \in [Fields -> Int] /\ hasValue \in BOOLEAN
    /\ updateCount \in 0 .. CountModulus - 1
    /\ mutex \in Threads \cup {NoThread}
    /\ pc \in [Threads -> {"idle", "lock_set", "lock_get"} \cup Inside]
    /\ arg \in [Threads -> [Fields -> Int]] /\ out \in [Threads -> [Fields -> Int]]
    /\ todo \in [Threads -> SUBSET Fields] /\ got \in [Threads -> [Fields -> Int]]

(* The lock_guards cover every access: who is between lock and return      *)
(* holds the mutex, so no two threads are.                                 *)
OneInside == \A t \in Threads : pc[t] \in Inside => mutex = t

(* A copy in progress agrees with its source on the fields already moved.  *)
CopiesInv ==
    \A t \in Threads :
        /\ pc[t] = "copy_in" =>
              \A f \in Fields \ todo[t] : value[f] = arg[t][f]
        /\ pc[t] = "copy_out" =>
              \A f \in Fields \ todo[t] : out[t][f] = value[f]
        /\ pc[t] \in {"lock_set", "compare", "copy_in"} => arg[t] \in Values

Inv == TypeOK /\ OneInside /\ CopiesInv

-----------------------------------------------------------------------------
(* The refinement: a set counts as done when it has decided to copy.       *)

Copying == mutex # NoThread /\ pc[mutex] = "copy_in"
Settled == IF Copying THEN arg[mutex] ELSE value

Node == INSTANCE AtomicNode WITH
    val <- Settled,
    has <- hasValue \/ Copying,
    count <- IF Copying THEN (updateCount + 1) % CountModulus ELSE updateCount

(* The node with its field-by-field copies implements the atomic one: no   *)
(* get returns a value torn between two sets, and none is counted twice or *)
(* lost, although value is torn whenever a copy is under way.              *)
IsAtomic == Node!Spec

(* When set returns, the node holds the value offered, or one the dead     *)
(* band of the type cannot tell from it: a slow drift is never swallowed,  *)
(* because the comparison is with the value stored.                        *)
WithinBand ==
    [][\A t \in Threads : pc[t] \in {"compare", "copy_in"} /\ pc'[t] = "idle" =>
          \A f \in Fields : Near(f, value'[f], arg[t][f])]_vars
=============================================================================
