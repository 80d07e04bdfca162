----------------------------- MODULE MCStream -----------------------------
(* Instances of the stream: a few lines are held back, a few more follow.  *)
EXTENDS StreamTimed
=============================================================================
