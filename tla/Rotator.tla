------------------------------ MODULE Rotator ------------------------------
(***************************************************************************)
(* rotator/rotator.go: the round-robin rotator shared by every request     *)
(* goroutine, the health checker, the refresher and its own listener       *)
(* goroutine.  Each method runs under r.mu (atomic here); Trigger and Stop *)
(* talk to the listener through triggerCh (capacity 1) and stopCh.         *)
(***************************************************************************)
EXTENDS RotatorOps

CONSTANTS
    MaxLen,        \* bound on the pools New and Update are given
    AutoRotate     \* interval > 0: the listener also has a ticker

ASSUME RotatorAssumption ==
    /\ MaxLen \in Nat
    /\ AutoRotate \in BOOLEAN
    /\ NoAddr \notin Addr

VARIABLES
    rot,           \* pool and index
    trigger,       \* is a token in triggerCh?
    stop,          \* "open", "closed" (Stop is in wg.Wait), "returned"
    listener,      \* "select" or "returned"
    epoch,         \* flips with every Update (history)
    mover          \* who acted on rot last: "caller" or "listener" (history)

vars == <<rot, trigger, stop, listener, epoch, mover>>

Pools == UNION {[1 .. n -> Addr] : n \in 0 .. MaxLen}

Init ==
    /\ \E p \in Pools : rot = NewRotator(p)
    /\ trigger = FALSE
    /\ stop = "open"
    /\ listener = "select"
    /\ epoch = FALSE
    /\ mover = "caller"

(* A method that works on the pool runs in the goroutine of its caller.    *)
ByCaller == mover' = "caller"

CallNext ==
    /\ rot' = Advanced(rot)
    /\ ByCaller
    /\ UNCHANGED <<trigger, stop, listener, epoch>>

CallTrigger ==
    /\ trigger' = TRUE
    /\ UNCHANGED <<rot, stop, listener, epoch, mover>>

(* Stop(): closes stopCh, then waits for the listener.  It is called once. *)
CallStop ==
    /\ stop = "open"
    /\ stop' = "closed"
    /\ UNCHANGED <<rot, trigger, listener, epoch, mover>>

(* Mutant of StopReturns: Stop does not wait for the listener.             *)
StopReturnsAtOnce ==
    /\ stop = "closed"
    /\ stop' = "returned"
    /\ UNCHANGED <<rot, trigger, listener, epoch, mover>>

StopReturns ==
    /\ stop = "closed"
    /\ listener = "returned"
    /\ stop' = "returned"
    /\ UNCHANGED <<rot, trigger, listener, epoch, mover>>

CallUpdate(p) ==
    /\ rot' = Updated(rot, p)
    /\ epoch' = ~epoch
    /\ ByCaller
    /\ UNCHANGED <<trigger, stop, listener>>

CallRemove(a) ==
    /\ rot' = Removed(rot, a)
    /\ ByCaller
    /\ UNCHANGED <<trigger, stop, listener, epoch>>

CallRemoveCurrent ==
    /\ rot' = RemovedCurrent(rot)
    /\ ByCaller
    /\ UNCHANGED <<trigger, stop, listener, epoch>>

(* rotate(): as Next does.  The address that onRotate is given, and Next   *)
(* returns, is only logged.                                                *)
DoRotate == rot' = Advanced(rot) /\ mover' = "listener"

(* The cases of the listener's select.  A ready stopCh does not have       *)
(* priority: Go picks any ready case.                                      *)
ListenerTick ==
    /\ listener = "select"
    /\ AutoRotate
    /\ DoRotate
    /\ UNCHANGED <<trigger, stop, listener, epoch>>

(* Mutant of ListenerTrigger: an empty pool is not worth a rotation.       *)
ListenerTriggerIfAny ==
    /\ listener = "select"
    /\ trigger /\ ~Empty(rot)
    /\ trigger' = FALSE
    /\ DoRotate
    /\ UNCHANGED <<stop, listener, epoch>>

ListenerTrigger ==
    /\ listener = "select"
    /\ trigger
    /\ trigger' = FALSE
    /\ DoRotate
    /\ UNCHANGED <<stop, listener, epoch>>

(* Mutant of ListenerStop: Stop closes stopCh after it waited.             *)
ListenerStopLate ==
    /\ listener = "select"
    /\ stop = "returned"
    /\ listener' = "returned"
    /\ UNCHANGED <<rot, trigger, stop, epoch, mover>>

ListenerStop ==
    /\ listener = "select"
    /\ stop # "open"
    /\ listener' = "returned"
    /\ UNCHANGED <<rot, trigger, stop, epoch, mover>>

Next ==
    \/ CallNext
    \/ CallTrigger
    \/ CallStop
    \/ StopReturns
    \/ \E p \in Pools : CallUpdate(p)
    \/ \E a \in Addr : CallRemove(a)
    \/ CallRemoveCurrent
    \/ ListenerTick
    \/ ListenerTrigger
    \/ ListenerStop

Spec == Init /\ [][Next]_vars

(***************************************************************************)
(* The listener goroutine keeps running, and Go's select chooses uniformly *)
(* among its ready cases, so a case that is ready over and over is taken:  *)
(* strong fairness for the trigger and the stop case, which compete.       *)
(***************************************************************************)
Fairness ==
    /\ SF_vars(ListenerTrigger)
    /\ SF_vars(ListenerStop)
    /\ WF_vars(StopReturns)

FairSpec == Spec /\ Fairness

-----------------------------------------------------------------------------
(* The state every field is in; the pool may be of any length the callers  *)
(* gave it.                                                                *)
TypeOK ==
    /\ rot \in RotatorState(Addr)
    /\ trigger \in BOOLEAN
    /\ stop \in {"open", "closed", "returned"}
    /\ listener \in {"select", "returned"}
    /\ epoch \in BOOLEAN
    /\ mover \in {"caller", "listener"}

(* Current(), Next() and RemoveCurrent() index r.pool[r.index] with no     *)
(* check but len(r.pool) == 0: after any interleaving of Remove, Update    *)
(* and rotations the index is a position of the pool, or 0 if it is empty. *)
IndexInRange == InRange(rot)

(* The rotator implements the queue of RoundRobin: removing an address     *)
(* before, at or after the index (rotator.go Remove: "adjusted to avoid    *)
(* skipping an element") and every rotation keep the others' turns.        *)
RR == INSTANCE RoundRobin WITH queue <- CyclicView(rot)

RoundRobinSpec == RR!Spec

(* An accepted Trigger() is followed by a rotation, unless the rotator is  *)
(* being stopped: the token never stays in triggerCh.                      *)
TriggerServed == trigger ~> (~trigger \/ stop # "open")

(* Stop() "waits for it to finish": it always returns, and then the        *)
(* listener goroutine is gone.                                             *)
StopTerminates == (stop = "closed") ~> (stop = "returned" /\ listener = "returned")

(* "Stop shuts down the auto-rotate goroutine": once Stop() has returned,  *)
(* no tick and no pending trigger moves the turn any more; what still      *)
(* changes the pool or the index is a caller's Next, Remove, RemoveCurrent *)
(* or Update.                                                              *)
NoRotationAfterStop ==
    [][stop = "returned" => UNCHANGED <<rot, mover>> \/ mover' = "caller"]_vars

=============================================================================
