----------------------------- MODULE MCRotator -----------------------------
(* Three upstreams, pools of at most three, repeated addresses allowed.    *)
EXTENDS Rotator

CONSTANTS a, b, c

MCAddr == {a, b, c}

=============================================================================
