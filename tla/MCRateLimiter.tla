--------------------------- MODULE MCRateLimiter ---------------------------
(* Instances of RateLimiter: small numbers of the same order as main.go's. *)
EXTENDS RateLimiter
=============================================================================
