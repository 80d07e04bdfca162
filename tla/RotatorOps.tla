---------------------------- MODULE RotatorOps ----------------------------
(***************************************************************************)
(* rotator/rotator.go: what each critical section of a Rotator does to its *)
(* two fields, as operators on a record r = [pool, index].  The pool is a  *)
(* sequence of upstream addresses; index is 0-based as in the code, so the *)
(* element the code calls r.pool[i] is r.pool[i + 1] here.  Every method   *)
(* of Rotator holds r.mu for its whole body, so one operator is one atomic *)
(* step wherever a module uses it.                                         *)
(***************************************************************************)
EXTENDS Naturals, Sequences, SequencesExt

CONSTANTS
    Addr,          \* every upstream address (host:port) that can appear
    NoAddr         \* the empty string Current and Next return

RotatorState(A) == [pool : Seq(A), index : Nat]

(* New(pool, ...): the index starts at 0.  Update(newPool) resets it too.  *)
NewRotator(p) == [pool |-> p, index |-> 0]

Updated(r, p) == NewRotator(p)

Empty(r) == r.pool = << >>

CurrentOf(r) == IF Empty(r) THEN NoAddr ELSE r.pool[r.index + 1]

(* The step Next and rotate share: the index moves on, cyclically.         *)
Advanced(r) ==
    IF Empty(r) THEN r
    ELSE [r EXCEPT !.index = (@ + 1) % Len(r.pool)]

(* Mutants of RemovedAt: the index follows every removal; the index never  *)
(* follows one.                                                            *)
RemovedAtAlwaysSteps(r, i) ==
    [ pool |-> RemoveAt(r.pool, i), index |-> r.index - 1 ]

RemovedAtNeverSteps(r, i) ==
    LET p == RemoveAt(r.pool, i)
    IN  [ pool |-> p, index |-> IF r.index >= Len(p) THEN 0 ELSE r.index ]

(* The body of the loop of Remove at the (1-based) position i it stops at. *)
RemovedAt(r, i) ==
    LET p == RemoveAt(r.pool, i)
    IN  [ pool  |-> p,
          index |-> IF p = << >> THEN 0
                    ELSE IF i - 1 < r.index THEN r.index - 1
                    ELSE IF i - 1 = r.index /\ r.index >= Len(p) THEN 0
                    ELSE r.index ]

IsFirst(p, a, i) == p[i] = a /\ \A j \in 1 .. (i - 1) : p[j] # a

FirstIndex(p, a) == CHOOSE i \in DOMAIN p : IsFirst(p, a, i)

(* Remove(addr): the first occurrence goes; an unknown address is ignored. *)
Removed(r, a) ==
    IF \E i \in DOMAIN r.pool : r.pool[i] = a
    THEN RemovedAt(r, FirstIndex(r.pool, a))
    ELSE r

(* Mutant of RemovedCurrent: the index does not wrap.                      *)
RemovedCurrentNoWrap(r) ==
    IF Empty(r) THEN r
    ELSE [ pool |-> RemoveAt(r.pool, r.index + 1), index |-> r.index ]

(* RemoveCurrent(): drops pool[index]; the index wraps if it fell off.     *)
RemovedCurrent(r) ==
    IF Empty(r) THEN r
    ELSE LET p == RemoveAt(r.pool, r.index + 1)
         IN  [ pool  |-> p,
               index |-> IF r.index >= Len(p) THEN 0 ELSE r.index ]

(* The index is a position of the pool, or 0 when there is none.           *)
InRange(r) == r.index < Len(r.pool) \/ (r.index = 0 /\ Empty(r))

(* The pool as the round robin will visit it, the current address first.   *)
CyclicView(r) ==
    SubSeq(r.pool, r.index + 1, Len(r.pool)) \o SubSeq(r.pool, 1, r.index)

=============================================================================
