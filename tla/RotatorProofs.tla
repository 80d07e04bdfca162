--------------------------- MODULE RotatorProofs ---------------------------
(***************************************************************************)
(* Theorems about module Rotator, for every set of addresses, every bound  *)
(* on the pools and both kinds of listener.                                *)
(***************************************************************************)
EXTENDS Rotator, UpstreamsProofs

(* The pools New and Update are given are sequences of addresses.          *)
LEMMA PoolsAreSequences == Pools \subseteq Seq(Addr)
BY RotatorAssumption DEF Pools

(* The inductive invariant: an index in range needs the types, and a       *)
(* removal leaves a natural number as index only if it was in range.       *)
Inv == TypeOK /\ IndexInRange

LEMMA InitInv == Init => Inv
<1> SUFFICES ASSUME Init PROVE Inv
  OBVIOUS
<1>1. PICK p \in Pools : rot = NewRotator(p)
  BY DEF Init
<1>2. rot \in RotatorState(Addr) /\ InRange(rot)
  BY <1>1, PoolsAreSequences, NewRotatorType
<1> QED BY <1>2 DEF Init, Inv, TypeOK, IndexInRange

LEMMA NextInv == Inv /\ [Next]_vars => Inv'
<1> SUFFICES ASSUME Inv, [Next]_vars PROVE Inv'
  OBVIOUS
<1> USE DEF Inv, TypeOK, IndexInRange
<1>0. CASE UNCHANGED vars
  BY <1>0 DEF vars
<1>a. Advanced(rot) \in RotatorState(Addr) /\ InRange(Advanced(rot))
  BY AdvancedType
<1>1. CASE CallNext
  BY <1>1, <1>a DEF CallNext, ByCaller
<1>2. CASE CallTrigger
  BY <1>2 DEF CallTrigger
<1>3. CASE CallStop
  BY <1>3 DEF CallStop
<1>4. CASE StopReturns
  BY <1>4 DEF StopReturns
<1>5. ASSUME NEW p \in Pools, CallUpdate(p) PROVE Inv'
  BY <1>5, PoolsAreSequences, NewRotatorType DEF CallUpdate, Updated, ByCaller
<1>6. ASSUME NEW a \in Addr, CallRemove(a) PROVE Inv'
  BY <1>6, RemovedType DEF CallRemove, ByCaller
<1>7. CASE CallRemoveCurrent
  BY <1>7, RemovedCurrentType DEF CallRemoveCurrent, ByCaller
<1>8. CASE ListenerTick
  BY <1>8, <1>a DEF ListenerTick, DoRotate
<1>9. CASE ListenerTrigger
  BY <1>9, <1>a DEF ListenerTrigger, DoRotate
<1>10. CASE ListenerStop
  BY <1>10 DEF ListenerStop
<1> QED
  BY <1>0, <1>1, <1>2, <1>3, <1>4, <1>5, <1>6, <1>7, <1>8, <1>9, <1>10 DEF Next

(* Every field of the rotator keeps its type.                              *)
THEOREM TypeCorrect == Spec => []TypeOK
BY InitInv, NextInv, PTL DEF Spec, Inv

(* No interleaving of Next, Trigger, Update, Remove and RemoveCurrent      *)
(* takes the index out of the pool: r.pool[r.index] never panics.          *)
THEOREM IndexAlwaysInRange == Spec => []IndexInRange
BY InitInv, NextInv, PTL DEF Spec, Inv

-----------------------------------------------------------------------------
(* The two modules range over the same pools.                              *)
LEMMA SamePools == RR!Pools = Pools
BY DEF Pools, RR!Pools

(* A rotation of the pool is a rotation of the queue, or nothing to rotate. *)
LEMMA AdvancedRefines ==
    ASSUME Inv, rot' = Advanced(rot), UNCHANGED epoch
    PROVE  [RR!Next]_(RR!vars)
<1> USE DEF Inv, TypeOK, IndexInRange
<1>1. CASE Empty(rot)
  BY <1>1 DEF Advanced, RR!vars
<1>2. CASE ~Empty(rot)
  <2>1. CyclicView(rot)' = Append(Tail(CyclicView(rot)), Head(CyclicView(rot)))
    BY <1>2, CyclicViewOfAdvanced
  <2>2. CyclicView(rot) # << >>
    <3>1. Len(CyclicView(rot)) = Len(rot.pool) /\ CyclicView(rot) \in Seq(Addr)
      BY CyclicViewType
    <3>2. Len(rot.pool) # 0
      BY <1>2 DEF Empty, RotatorState
    <3> QED BY <3>1, <3>2
  <2> QED BY <2>1, <2>2 DEF RR!Next, RR!Rotate
<1> QED BY <1>1, <1>2

(* A removal from the pool drops one element of the queue, or none.        *)
LEMMA RemovedAtRefines ==
    ASSUME Inv, NEW i \in DOMAIN rot.pool, rot' = RemovedAt(rot, i), UNCHANGED epoch
    PROVE  [RR!Next]_(RR!vars)
<1>1. PICK k \in DOMAIN CyclicView(rot) :
         CyclicView(rot)' = RemoveAt(CyclicView(rot), k)
  BY CyclicViewOfRemovedAt DEF Inv, TypeOK, IndexInRange
<1> QED BY <1>1 DEF RR!Next, RR!Drop, RemoveAt, RR!RemoveAt

LEMMA StepRefines ==
    ASSUME Inv, [Next]_vars
    PROVE  [RR!Next]_(RR!vars)
<1> USE DEF Inv, TypeOK, IndexInRange
<1>0. CASE UNCHANGED <<rot, epoch>>
  BY <1>0 DEF RR!vars
<1>1. CASE rot' = Advanced(rot) /\ UNCHANGED epoch
  BY <1>1, AdvancedRefines
<1>2. ASSUME NEW p \in Pools, CallUpdate(p) PROVE [RR!Next]_(RR!vars)
  <2>1. CyclicView(rot)' = p
    BY <1>2, PoolsAreSequences, CyclicViewOfNew DEF CallUpdate, Updated
  <2> QED BY <1>2, <2>1, SamePools DEF RR!Next, RR!Replace, CallUpdate
<1>3. ASSUME NEW a \in Addr, CallRemove(a) PROVE [RR!Next]_(RR!vars)
  <2>1. CASE \E i \in DOMAIN rot.pool : rot.pool[i] = a
    <3>1. /\ FirstIndex(rot.pool, a) \in DOMAIN rot.pool
          /\ rot' = RemovedAt(rot, FirstIndex(rot.pool, a)) /\ UNCHANGED epoch
      BY <1>3, <2>1, FirstIndexIsIndex DEF CallRemove, Removed, RotatorState
    <3> QED BY <3>1, RemovedAtRefines
  <2>2. CASE ~ \E i \in DOMAIN rot.pool : rot.pool[i] = a
    BY <1>0, <1>3, <2>2 DEF CallRemove, Removed
  <2> QED BY <2>1, <2>2
<1>4. CASE CallRemoveCurrent
  <2>1. CASE Empty(rot)
    BY <1>0, <1>4, <2>1 DEF CallRemoveCurrent, RemovedCurrent
  <2>2. CASE ~Empty(rot)
    <3>1. /\ rot.index + 1 \in DOMAIN rot.pool
          /\ rot' = RemovedAt(rot, rot.index + 1) /\ UNCHANGED epoch
      BY <1>4, <2>2, RemovedCurrentIsRemovedAt DEF CallRemoveCurrent
    <3> QED BY <3>1, RemovedAtRefines
  <2> QED BY <2>1, <2>2
<1> QED
  BY <1>0, <1>1, <1>2, <1>3, <1>4
  DEF Next, vars, CallNext, CallTrigger, CallStop, StopReturns,
      ListenerTick, ListenerTrigger, ListenerStop, DoRotate

(* The rotator implements the round-robin queue: removing any address at   *)
(* any index, and every rotation, keep the turns of all the others.        *)
THEOREM ImplementsRoundRobin == Spec => RoundRobinSpec
<1>1. Init => RR!Init
  <2> SUFFICES ASSUME Init PROVE RR!Init
    OBVIOUS
  <2>1. PICK p \in Pools : rot = NewRotator(p)
    BY DEF Init
  <2>2. CyclicView(rot) = p
    BY <2>1, PoolsAreSequences, CyclicViewOfNew
  <2> QED BY <2>2, SamePools DEF RR!Init, Init
<1>2. Inv /\ [Next]_vars => [RR!Next]_(RR!vars)
  BY StepRefines
<1> QED BY <1>1, <1>2, InitInv, NextInv, PTL DEF Spec, RoundRobinSpec, RR!Spec

-----------------------------------------------------------------------------
(* Stop returns only after the listener has (wg.Wait), and a listener that *)
(* has returned never runs again.                                          *)
StopInv == stop = "returned" => listener = "returned"

LEMMA NextStop == StopInv /\ [Next]_vars => StopInv'
BY DEF StopInv, Next, vars, CallNext, CallTrigger, CallStop, StopReturns, CallUpdate,
       CallRemove, CallRemoveCurrent, ListenerTick, ListenerTrigger, ListenerStop

LEMMA StopKeepsTurn ==
    ASSUME StopInv, [Next]_vars, stop = "returned"
    PROVE  UNCHANGED <<rot, mover>> \/ mover' = "caller"
<1>1. ~ListenerTick /\ ~ListenerTrigger
  BY DEF StopInv, ListenerTick, ListenerTrigger
<1> QED
  BY <1>1
  DEF Next, vars, CallNext, CallTrigger, CallStop, StopReturns, CallUpdate,
      CallRemove, CallRemoveCurrent, ListenerStop, ByCaller

(* Once Stop() has returned, neither the ticker nor a pending trigger ever *)
(* moves the turn: only the callers of Next, Remove, Update and            *)
(* RemoveCurrent do.                                                       *)
THEOREM StopIsFinal == Spec => NoRotationAfterStop
<1>1. Init => StopInv
  BY DEF Init, StopInv
<1>2. StopInv /\ [Next]_vars
          => [stop = "returned" => UNCHANGED <<rot, mover>> \/ mover' = "caller"]_vars
  BY StopKeepsTurn
<1> QED BY <1>1, <1>2, NextStop, PTL DEF Spec, NoRotationAfterStop

=============================================================================
