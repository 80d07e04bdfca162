----------------------------- MODULE Upstreams -----------------------------
(***************************************************************************)
(* What is known of upstream addresses, as operators on the contents of    *)
(* the shared structures: the IP blacklist (proxy/blacklist.go) and the    *)
(* router over the proxies the user gave (proxy/router.go).  The pool of   *)
(* Shadowsocks servers is in PoolOps.                                      *)
(***************************************************************************)
EXTENDS RotatorOps, FiniteSets

CONSTANTS
    IP, IPOf,      \* the IP of an address, or NoIP when it has a host name
    NoIP

(* extractIP, IsBlacklisted and Add of BlacklistManager: a host name has   *)
(* no IP, so it is never recorded and never blacklisted.                   *)
IsBlacklisted(bl, a) == IPOf[a] # NoIP /\ IPOf[a] \in bl

(* Mutant of Blacklisting: what is no IP is recorded too.                  *)
BlacklistingAny(bl, a) == bl \cup {IPOf[a]}

Blacklisting(bl, a) == IF IPOf[a] = NoIP THEN bl ELSE bl \cup {IPOf[a]}

(* SmartRouter.SelectBest: nothing records a latency, so the best proxy is *)
(* the first one that is alive and not blacklisted; NoAddr is Go's nil.    *)
SelectBest(proxies, alive, bl) ==
    LET I == {i \in DOMAIN proxies : proxies[i] \in alive /\ ~IsBlacklisted(bl, proxies[i])}
    IN  IF I = {} THEN NoAddr ELSE proxies[CHOOSE i \in I : \A j \in I : i <= j]

=============================================================================
