------------------------------ MODULE PoolOps ------------------------------
(***************************************************************************)
(* The pool of Shadowsocks servers (sspool/pool.go), as operators on its   *)
(* contents.  A server is a whole configuration, which is what Key()       *)
(* tells apart; AddrOf is its host:port, and several servers may share     *)
(* one.  The pool is a sequence of servers, while the rotator, the dead    *)
(* list and the blacklist only know addresses.                             *)
(***************************************************************************)
EXTENDS Upstreams

CONSTANTS
    Server,        \* every configuration that can appear
    AddrOf         \* its host:port

ASSUME PoolAssumption == AddrOf \in [Server -> Addr]

(* ssAddresses of main.go: one address for each server, copies included.   *)
SSAddresses(servers) == [i \in DOMAIN servers |-> AddrOf[servers[i]]]

HasAddr(servers, a) == \E i \in DOMAIN servers : AddrOf[servers[i]] = a

(* Mutant of PoolAdd: the filter is not asked.                             *)
PoolAddUnfiltered(servers, bl, s) ==
    IF Contains(servers, s) THEN servers ELSE Append(servers, s)

(* SSPool.Add: blacklisted and duplicate servers are ignored.              *)
PoolAdd(servers, bl, s) ==
    IF IsBlacklisted(bl, AddrOf[s]) \/ Contains(servers, s)
    THEN servers
    ELSE Append(servers, s)

(* The elements of s that are in S, in their order.                        *)
Kept(s, S) ==
    LET f[i \in 0 .. Len(s)] ==
            IF i = 0 THEN << >>
            ELSE IF s[i] \in S THEN Append(f[i - 1], s[i]) ELSE f[i - 1]
    IN  f[Len(s)]

(* Mutant of SnapshotAlive: Snapshot, the dead included.                   *)
SnapshotAll(servers, dead) == servers

(* SSPool.SnapshotAlive: the servers whose address is not marked dead.     *)
SnapshotAlive(servers, dead) == Kept(servers, {s \in Server : AddrOf[s] \notin dead})

(* The servers HealthCheck and HealthCheckFast keep: those that answer a   *)
(* TCP dial, in their order.                                               *)
Reachable(servers, up) == Kept(servers, up)

(* SSPool.GetByAddr with NewSSDialer: a tunnel can be built only to an     *)
(* address that is in the pool now, and only if the first server there has *)
(* a cipher that is supported.                                             *)
CanTunnel(servers, usable, a) ==
    \E i \in DOMAIN servers :
        IsFirst(SSAddresses(servers), a, i) /\ servers[i] \in usable

=============================================================================
