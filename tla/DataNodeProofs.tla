--------------------------- MODULE DataNodeProofs ---------------------------
(***************************************************************************)
(* Proofs about DataNode, for any threads, type and dead band: the mutex   *)
(* covers every copy, and the node is atomic.                              *)
(***************************************************************************)
EXTENDS DataNode, TLAPS

USE NodeAssumption

LEMMA InvInit == Init => Inv
<1> SUFFICES ASSUME Init PROVE Inv
  OBVIOUS
<1>1. 0 \in 0 .. CountModulus - 1
  OBVIOUS
<1>2. TypeOK
  <2>1. value \in [Fields -> Int] /\ hasValue \in BOOLEAN
        /\ updateCount \in 0 .. CountModulus - 1 /\ mutex \in Threads \cup {NoThread}
    BY <1>1 DEF Init
  <2>2. pc \in [Threads -> {"idle", "lock_set", "lock_get"} \cup Inside]
    BY DEF Init
  <2>3. arg \in [Threads -> [Fields -> Int]] /\ out \in [Threads -> [Fields -> Int]]
        /\ got \in [Threads -> [Fields -> Int]]
    BY DEF Init
  <2>4. todo \in [Threads -> SUBSET Fields]
    BY DEF Init
  <2>5. QED BY <2>1, <2>2, <2>3, <2>4 DEF TypeOK
<1>3. \A t \in Threads : pc[t] = "idle"
  BY DEF Init
<1>4. QED BY <1>2, <1>3 DEF Inv, OneInside, CopiesInv, Inside

(* A step of one thread, for the type, the mutex and the copies.           *)
LEMMA InvNext == Inv /\ [Next]_vars => Inv'
<1> SUFFICES ASSUME Inv, [Next]_vars PROVE Inv'
  OBVIOUS
<1> USE DEF Inv, TypeOK, OneInside, CopiesInv, Inside
<1>1. ASSUME NEW t \in Threads, Call(t) PROVE Inv'
  <2>1. CASE CallGet(t)
    BY <2>1 DEF CallGet
  <2>2. ASSUME NEW v \in Values, CallSet(t, v) PROVE Inv'
    BY <2>2 DEF CallSet
  <2>3. QED BY <1>1, <2>1, <2>2 DEF Call
<1>2. ASSUME NEW t \in Threads, Enter(t) PROVE Inv'
  <2>1. CASE LockSet(t)
    BY <2>1 DEF LockSet, Lock, Free
  <2>2. CASE LockGet(t)
    BY <2>2 DEF LockGet, Lock, Free
  <2>3. QED BY <1>2, <2>1, <2>2 DEF Enter
<1>3. ASSUME NEW t \in Threads, Proceed(t) PROVE Inv'
  <2>1. CASE SetNothing(t)
    BY <2>1 DEF SetNothing, Return
  <2>2. CASE SetBegin(t)
    BY <2>2 DEF SetBegin
  <2>3. CASE SetEnd(t)
    BY <2>3 DEF SetEnd, Return
  <2>4. CASE GetEnd(t)
    BY <2>4 DEF GetEnd, Return
  <2>5. ASSUME NEW f \in Fields, CopyIn(t, f) PROVE Inv'
    BY <2>5 DEF CopyIn
  <2>6. ASSUME NEW f \in Fields, CopyOut(t, f) PROVE Inv'
    BY <2>6 DEF CopyOut
  <2>7. QED BY <1>3, <2>1, <2>2, <2>3, <2>4, <2>5, <2>6 DEF Proceed
<1>4. CASE UNCHANGED vars
  BY <1>4 DEF vars
<1>5. QED BY <1>1, <1>2, <1>3, <1>4 DEF Next

(* At every moment at most the owner of the mutex is inside, and every     *)
(* copy agrees with its source on the fields it has moved.                 *)
THEOREM NodeInvariant == Spec => []Inv
  BY InvInit, InvNext, PTL DEF Spec

-----------------------------------------------------------------------------
(* The refinement: of the steps of a thread, the decision to copy is the   *)
(* set of the atomic node, the end of a get is its get, and all the others *)
(* leave it as it is.                                                      *)

LEMMA AtomicInit == Init => Node!Init
  BY DEF Init, Node!Init, Settled, Copying

LEMMA Stutter ==
  ASSUME Copying' <=> Copying, Settled' = Settled, hasValue' = hasValue,
         updateCount' = updateCount, got' = got
  PROVE  UNCHANGED Node!atomicVars
  BY DEF Node!atomicVars

(* When every field has been moved, the copy is the original.              *)
LEMMA WholeCopy ==
  ASSUME NEW a \in [Fields -> Int], NEW b \in [Fields -> Int],
         \A f \in Fields : a[f] = b[f]
  PROVE  a = b
  OBVIOUS

LEMMA AtomicStep == Inv /\ [Next]_vars => [Node!Next]_Node!atomicVars
<1> SUFFICES ASSUME Inv, [Next]_vars PROVE [Node!Next]_Node!atomicVars
  OBVIOUS
<1>a. TypeOK /\ OneInside /\ CopiesInv
  BY DEF Inv
<1>1. ASSUME NEW t \in Threads, Call(t) PROVE UNCHANGED Node!atomicVars
  <2>1. pc[t] = "idle" /\ mutex' = mutex /\ value' = value
        /\ hasValue' = hasValue /\ updateCount' = updateCount /\ got' = got
    BY <1>1 DEF Call, CallGet, CallSet
  <2>2. /\ pc'[t] \in {"lock_set", "lock_get"}
        /\ \A u \in Threads \ {t} : pc'[u] = pc[u] /\ arg'[u] = arg[u]
    BY <1>1, <1>a DEF Call, CallGet, CallSet, TypeOK
  <2>3. Copying' <=> Copying
    BY <2>1, <2>2, <1>a DEF Copying, TypeOK
  <2>4. Settled' = Settled
    BY <2>1, <2>2, <2>3, <1>a DEF Copying, Settled, TypeOK
  <2>5. QED BY <2>1, <2>3, <2>4, Stutter
<1>2. ASSUME NEW t \in Threads, Enter(t) PROVE UNCHANGED Node!atomicVars
  <2>1. mutex = NoThread /\ mutex' = t /\ value' = value
        /\ hasValue' = hasValue /\ updateCount' = updateCount /\ got' = got
    BY <1>2 DEF Enter, LockSet, LockGet, Lock, Free
  <2>2. pc'[t] \in {"compare", "copy_out"}
    BY <1>2, <1>a DEF Enter, LockSet, LockGet, Lock, TypeOK
  <2>3. ~Copying /\ ~Copying'
    BY <2>1, <2>2 DEF Copying
  <2>4. QED BY <2>1, <2>3, Stutter DEF Settled
<1>3. ASSUME NEW t \in Threads, Proceed(t) PROVE [Node!Next]_Node!atomicVars
  <2>a. pc[t] \in Inside
    BY <1>3 DEF Proceed, SetNothing, SetBegin, SetEnd, GetEnd, CopyIn, CopyOut, Inside
  <2>b. mutex = t /\ mutex # NoThread
    BY <2>a, <1>a DEF OneInside
  <2>1. CASE SetNothing(t)
    <3>1. ~Copying /\ ~Copying'
      BY <2>1, <2>b DEF SetNothing, Return, Copying
    <3>2. QED BY <3>1, <2>1, Stutter DEF SetNothing, Settled
  <2>2. CASE SetBegin(t)
    <3>1. ~Copying /\ Copying'
      BY <2>2, <2>b, <1>a DEF SetBegin, Copying, TypeOK
    <3>2. Settled = value /\ Settled' = arg[t]
      BY <3>1, <2>2, <2>b DEF SetBegin, Settled
    <3>3. arg[t] \in Values
      BY <2>2, <1>a DEF SetBegin, CopiesInv
    <3>4. ~hasValue \/ Changed(value, arg[t])
      BY <2>2 DEF SetBegin, Unchanged
    <3>5. Node!Set(arg[t])
      BY <3>1, <3>2, <3>4, <2>2 DEF SetBegin, Node!Set
    <3>6. QED BY <3>3, <3>5 DEF Node!Next
  <2>3. CASE SetEnd(t)
    <3>1. Copying /\ ~Copying'
      BY <2>3, <2>b DEF SetEnd, Return, Copying
    <3>2. arg[t] = value
      BY <2>3, <1>a, WholeCopy DEF SetEnd, CopiesInv, TypeOK
    <3>3. QED BY <3>1, <3>2, <2>3, <2>b DEF SetEnd, Settled, Node!atomicVars
  <2>4. CASE GetEnd(t)
    <3>1. ~Copying /\ ~Copying'
      BY <2>4, <2>b DEF GetEnd, Return, Copying
    <3>2. out[t] = value
      BY <2>4, <1>a, WholeCopy DEF GetEnd, CopiesInv, TypeOK
    <3>3. Node!Get(t)
      BY <3>1, <3>2, <2>4 DEF GetEnd, Settled, Node!Get
    <3>4. QED BY <3>3 DEF Node!Next
  <2>5. ASSUME NEW f \in Fields, CopyIn(t, f) PROVE UNCHANGED Node!atomicVars
    <3>1. Copying /\ Copying'
      BY <2>5, <2>b DEF CopyIn, Copying
    <3>2. QED BY <3>1, <2>5, Stutter DEF CopyIn, Settled
  <2>6. ASSUME NEW f \in Fields, CopyOut(t, f) PROVE UNCHANGED Node!atomicVars
    <3>1. ~Copying /\ ~Copying'
      BY <2>6, <2>b DEF CopyOut, Copying
    <3>2. QED BY <3>1, <2>6, Stutter DEF CopyOut, Settled
  <2>7. QED BY <1>3, <2>1, <2>2, <2>3, <2>4, <2>5, <2>6 DEF Proceed
<1>4. CASE UNCHANGED vars
  BY <1>4 DEF vars, Node!atomicVars, Settled, Copying
<1>5. QED BY <1>1, <1>2, <1>3, <1>4 DEF Next

(* The node with its mutex, its early return and its field-by-field copies *)
(* implements a node that is read and replaced at once: what every handler *)
(* of the other modules assumes of get and set.                            *)
THEOREM NodeIsAtomic == Spec => IsAtomic
  BY AtomicInit, AtomicStep, NodeInvariant, PTL DEF Spec, IsAtomic, Node!Spec

-----------------------------------------------------------------------------
(* Only the end of a set takes a thread from inside a set to idle.         *)
LEMMA SetReturns ==
  ASSUME TypeOK, Next, NEW t \in Threads,
         pc[t] \in {"compare", "copy_in"}, pc'[t] = "idle"
  PROVE  SetNothing(t) \/ SetEnd(t)
<1>1. PICK u \in Threads : Call(u) \/ Enter(u) \/ Proceed(u)
  BY DEF Next
<1>2. ASSUME u # t PROVE FALSE
  <2>1. pc'[t] = pc[t]
    BY <1>1, <1>2 DEF TypeOK, Call, CallGet, CallSet, Enter, LockSet, LockGet, Lock,
          Proceed, SetNothing, SetBegin, SetEnd, GetEnd, CopyIn, CopyOut, Return
  <2>2. QED BY <2>1
<1>3. ~Call(t) /\ ~Enter(t) /\ ~GetEnd(t)
  BY DEF Call, CallGet, CallSet, Enter, LockSet, LockGet, Lock, GetEnd
<1>4. ~SetBegin(t) /\ \A f \in Fields : ~CopyIn(t, f) /\ ~CopyOut(t, f)
  BY DEF TypeOK, SetBegin, CopyIn, CopyOut
<1>5. QED BY <1>1, <1>2, <1>3, <1>4 DEF Proceed

LEMMA BandStep ==
  ASSUME Inv, Next, NEW t \in Threads, NEW f \in Fields,
         pc[t] \in {"compare", "copy_in"}, pc'[t] = "idle"
  PROVE  Near(f, value'[f], arg[t][f])
<1>1. TypeOK /\ CopiesInv
  BY DEF Inv
<1>2. CASE SetNothing(t)
  BY <1>2 DEF SetNothing, Unchanged, Changed
<1>3. CASE SetEnd(t)
  <2>1. arg[t] = value /\ value' = value
    BY <1>1, <1>3, WholeCopy DEF SetEnd, CopiesInv, TypeOK
  <2>2. value[f] \in Int /\ Band[f] \in Nat
    BY <1>1 DEF TypeOK
  <2>3. QED BY <2>1, <2>2 DEF Near
<1>4. QED BY <1>1, <1>2, <1>3, SetReturns

LEMMA BandStepHolds ==
  Inv /\ [Next]_vars =>
    [\A t \in Threads : pc[t] \in {"compare", "copy_in"} /\ pc'[t] = "idle" =>
        \A f \in Fields : Near(f, value'[f], arg[t][f])]_vars
<1> SUFFICES ASSUME Inv, Next,
                    NEW t \in Threads, pc[t] \in {"compare", "copy_in"}, pc'[t] = "idle",
                    NEW f \in Fields
             PROVE  Near(f, value'[f], arg[t][f])
  OBVIOUS
<1>1. QED BY BandStep

(* When set returns, the node holds the value offered or one within the    *)
(* dead band of it, for every type and every band.                         *)
THEOREM SetsAreWithinBand == Spec => WithinBand
  BY BandStepHolds, NodeInvariant, PTL DEF Spec, WithinBand
=============================================================================
