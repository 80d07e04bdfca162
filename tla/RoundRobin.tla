---------------------------- MODULE RoundRobin ----------------------------
(***************************************************************************)
(* What a Rotator promises, with no index: the upstreams stand in a queue  *)
(* whose head is the current one.  A rotation sends the head to the back;  *)
(* taking an upstream out leaves the turn of all the others as it was, so  *)
(* nobody is skipped and nobody is served twice in a round.  Only an       *)
(* update starts a new queue, and with it a new epoch: no other step can   *)
(* pass for one.                                                           *)
(***************************************************************************)
EXTENDS Naturals, Sequences, SequencesExt

CONSTANTS Addr, MaxLen

VARIABLES
    queue,
    epoch          \* TRUE or FALSE, the other one after each update

vars == <<queue, epoch>>

Pools == UNION {[1 .. n -> Addr] : n \in 0 .. MaxLen}

Init == queue \in Pools /\ epoch = FALSE

Rotate ==
    /\ queue # << >>
    /\ queue' = Append(Tail(queue), Head(queue))
    /\ UNCHANGED epoch

Drop(k) == queue' = RemoveAt(queue, k) /\ UNCHANGED epoch

Replace(p) == queue' = p /\ epoch' = ~epoch

Next ==
    \/ Rotate
    \/ \E k \in DOMAIN queue : Drop(k)
    \/ \E p \in Pools : Replace(p)

Spec == Init /\ [][Next]_vars

=============================================================================
