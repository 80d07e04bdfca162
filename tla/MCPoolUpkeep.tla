---------------------------- MODULE MCPoolUpkeep ----------------------------
(* Instances of PoolUpkeep.  sa and sa2 are two configurations of one      *)
(* host:port a; c is another port of a's host, b has a host name.          *)
EXTENDS PoolUpkeep, TLC

CONSTANTS a, b, c, sa, sa2, sb, sc, ip1, x1

MCAddr == {a, b, c}
MCIP == {ip1}
MCIPOf == a :> ip1 @@ b :> NoIP @@ c :> ip1
MCServer == {sa, sa2, sb, sc}
MCAddrOf == sa :> a @@ sa2 :> a @@ sb :> b @@ sc :> c

PoolAA == <<sa, sa2>>
FetchC == {<<sc>>}
FetchB == {<<sb>>}

Nobody == {}
OneBlamer == {x1}
RouterA == {a}

=============================================================================
