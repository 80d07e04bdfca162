----------------------------- MODULE PoolUpkeep -----------------------------
(***************************************************************************)
(* The goroutines of main.go that keep the pool while the program serves:  *)
(* the health check with its concurrent dials (sspool/health.go), the      *)
(* refresh, and savePoolToFile.  They share the pool with its index        *)
(* (sspool/pool.go) and the rotator, and every call they make is a         *)
(* critical section of its own.                                            *)
(*                                                                         *)
(* Of a request only what it does to that state is kept (ChatServer has    *)
(* its steps): it gives up an address, which takes it several calls.  The  *)
(* rotator's index plays no part (any position may be the current one), so *)
(* the rotator is the sequence of its addresses.                           *)
(***************************************************************************)
EXTENDS PoolOps, Integers

CONSTANTS
    InitServers,       \* the pool after the start
    Fetches,           \* what the shadowmere API may answer
    SaveProxy,         \* is --save-proxy given?
    MaxDials,          \* maxConcurrentChecks
    Blamers,           \* requests that may give up an address at a time
    RouterAddrs        \* the addresses of the SmartRouter's proxies

ASSUME UpkeepAssumption ==
    /\ InitServers \in Seq(Server) /\ IsInjective(InitServers)
    /\ Fetches \subseteq Seq(Server)
    /\ RouterAddrs \subseteq Addr
    /\ SaveProxy \in BOOLEAN
    /\ MaxDials \in Nat \ {0}
    /\ NoAddr \notin Addr /\ NoIP \notin IP
    /\ IPOf \in [Addr -> IP \cup {NoIP}]

VARIABLES
    pool, dead,    \* SSPool.servers with index, and deadAddrs
    blacklist,     \* BlacklistManager.entries
    rot,           \* Rotator.pool
    hc,            \* the health goroutine with its dials
    rf,            \* the refresh goroutine
    sv,            \* the savePoolToFile in progress
    job,           \* the calls a request has still to make
    stale          \* history: the rotator has a list ReplaceAll overtook

vars == <<pool, dead, blacklist, rot, hc, rf, sv, job, stale>>

(* dial: for every server of the snapshot queued, dialing, up or down.     *)
NoHealth == [pc |-> "idle", list |-> << >>, dial |-> << >>, tokens |-> 0]

(* late: ReplaceAll came since SnapshotAlive (history).                    *)
NoRefresh == [pc |-> "idle", list |-> << >>, added |-> FALSE, late |-> FALSE]

(* disturbed: ReplaceAll came during the save (history).                   *)
NoSave == [pc |-> "off", i |-> 0, lines |-> << >>, disturbed |-> FALSE]

(* os.Create empties the file, or fails and that was the save.             *)
SaveBegun == IF SaveProxy THEN {NoSave, [NoSave EXCEPT !.pc = "test"]} ELSE {NoSave}

NoJob == [addr |-> NoAddr, todo |-> << >>]

(* The start is over but for its save of the pool, if there is any.        *)
Init ==
    /\ pool = NewRotator(InitServers)
    /\ dead = {} /\ blacklist = {}
    /\ rot = SSAddresses(InitServers)
    /\ hc = NoHealth /\ rf = NoRefresh /\ stale = FALSE
    /\ job = [x \in Blamers |-> NoJob]
    /\ sv \in IF Empty(pool) THEN {NoSave} ELSE SaveBegun

-----------------------------------------------------------------------------
(* The health goroutine, every 60 s.                                       *)

HealthTick ==
    /\ hc.pc = "idle"
    /\ LET snap == SnapshotAlive(pool.pool, dead)
       IN  hc' = [pc |-> "dial", list |-> snap,
                  dial |-> [i \in DOMAIN snap |-> "queued"], tokens |-> 0]
    /\ UNCHANGED <<pool, dead, blacklist, rot, rf, sv, job, stale>>

(* HealthCheck: a goroutine for every server; a dial needs one of MaxDials *)
(* tokens, and its end returns it whether or not the server answered.      *)
DialStart(i) ==
    /\ hc.dial[i] = "queued" /\ hc.tokens < MaxDials
    /\ hc' = [hc EXCEPT !.dial[i] = "dialing", !.tokens = @ + 1]
    /\ UNCHANGED <<pool, dead, blacklist, rot, rf, sv, job, stale>>

(* Mutant of DialEnd: the token is returned only when the server answers.  *)
DialEndKeepsToken(i, ok) ==
    /\ hc.dial[i] = "dialing"
    /\ hc' = [hc EXCEPT !.dial[i] = IF ok THEN "up" ELSE "down",
                        !.tokens = IF ok THEN @ - 1 ELSE @]
    /\ UNCHANGED <<pool, dead, blacklist, rot, rf, sv, job, stale>>

DialEnd(i, ok) ==
    /\ hc.dial[i] = "dialing"
    /\ hc' = [hc EXCEPT !.dial[i] = IF ok THEN "up" ELSE "down", !.tokens = @ - 1]
    /\ UNCHANGED <<pool, dead, blacklist, rot, rf, sv, job, stale>>

Dial == \E i \in DOMAIN hc.dial : DialStart(i) \/ DialEnd(i, TRUE) \/ DialEnd(i, FALSE)

(* wg.Wait() has returned: the servers that answered, in their order.      *)
Alive ==
    Reachable(hc.list, {hc.list[i] : i \in {j \in DOMAIN hc.dial : hc.dial[j] = "up"}})

(* Mutant of HealthReplace: the rotator will be given all that was dialled.*)
HealthReplaceKeeps ==
    /\ hc.pc = "dial"
    /\ \A i \in DOMAIN hc.dial : hc.dial[i] \in {"up", "down"}
    /\ pool' = NewRotator(Alive)
    /\ hc' = [NoHealth EXCEPT !.pc = "update", !.list = hc.list]
    /\ sv' = [sv EXCEPT !.disturbed = (sv.pc # "off")]
    /\ rf' = [rf EXCEPT !.late = (rf.pc = "update")]
    /\ UNCHANGED <<dead, blacklist, rot, job, stale>>

(* ReplaceAll: the index starts again at 0.                                *)
HealthReplace ==
    /\ hc.pc = "dial"
    /\ \A i \in DOMAIN hc.dial : hc.dial[i] \in {"up", "down"}
    /\ pool' = NewRotator(Alive)
    /\ hc' = [NoHealth EXCEPT !.pc = "update", !.list = Alive]
    /\ sv' = [sv EXCEPT !.disturbed = (sv.pc # "off")]
    /\ rf' = [rf EXCEPT !.late = (rf.pc = "update")]
    /\ UNCHANGED <<dead, blacklist, rot, job, stale>>

(* Mutant of HealthUpdate: an empty result is not published.               *)
HealthUpdateUnlessEmpty ==
    /\ hc.pc = "update"
    /\ rot' = IF hc.list = << >> THEN rot ELSE SSAddresses(hc.list)
    /\ stale' = FALSE
    /\ hc' = NoHealth
    /\ UNCHANGED <<pool, dead, blacklist, rf, sv, job>>

HealthUpdate ==
    /\ hc.pc = "update"
    /\ rot' = SSAddresses(hc.list)
    /\ stale' = FALSE
    /\ hc' = NoHealth
    /\ UNCHANGED <<pool, dead, blacklist, rf, sv, job>>

-----------------------------------------------------------------------------
(* The refresh goroutine, every 300 s.                                     *)

(* FetchFromShadowmere, which has no timeout.  Whatever goes wrong in it   *)
(* fetchServers logs and takes for an empty answer.  A refresh ends with   *)
(* its save; that of the start is over when the first one begins.          *)
RefreshFetch(s) ==
    /\ rf.pc = "idle" /\ sv.pc = "off"
    /\ rf' = [rf EXCEPT !.pc = "len", !.list = s]
    /\ UNCHANGED <<pool, dead, blacklist, rot, hc, sv, job, stale>>

(* pool.Len() == 0 || pool.Get() != nil: two critical sections, and the    *)
(* health check may empty the pool in between.  Then the server is passed  *)
(* over.                                                                   *)
RefreshLen ==
    /\ rf.pc = "len" /\ rf.list # << >>
    /\ rf' = [rf EXCEPT !.pc = IF Empty(pool) THEN "add" ELSE "get"]
    /\ UNCHANGED <<pool, dead, blacklist, rot, hc, sv, job, stale>>

RefreshGet ==
    /\ rf.pc = "get"
    /\ rf' = IF Empty(pool) THEN [rf EXCEPT !.pc = "len", !.list = Tail(@)]
             ELSE [rf EXCEPT !.pc = "add"]
    /\ UNCHANGED <<pool, dead, blacklist, rot, hc, sv, job, stale>>

RefreshAdd ==
    /\ rf.pc = "add"
    /\ pool' = [pool EXCEPT !.pool = PoolAdd(@, blacklist, Head(rf.list))]
    /\ rf' = [rf EXCEPT !.pc = "len", !.list = Tail(@), !.added = TRUE]
    /\ UNCHANGED <<dead, blacklist, rot, hc, sv, job, stale>>

(* The loop is over: pool.SnapshotAlive() for the rotator, or straight to  *)
(* the save.                                                               *)
RefreshSnapshot ==
    /\ rf.pc = "len" /\ rf.list = << >>
    /\ \/ /\ rf.added
          /\ rf' = [rf EXCEPT !.pc = "update", !.list = SnapshotAlive(pool.pool, dead)]
          /\ UNCHANGED sv
       \/ /\ ~rf.added
          /\ rf' = NoRefresh
          /\ sv' \in SaveBegun
    /\ UNCHANGED <<pool, dead, blacklist, rot, hc, job, stale>>

RefreshUpdate ==
    /\ rf.pc = "update"
    /\ rot' = SSAddresses(rf.list)
    /\ stale' = rf.late
    /\ rf' = NoRefresh
    /\ sv' \in SaveBegun
    /\ UNCHANGED <<pool, dead, blacklist, hc, job>>

-----------------------------------------------------------------------------
(* savePoolToFile: for i := 0; i < Len(); i++ { Get; write; Next }.        *)

(* Mutant of SaveTest: i <= Len().                                         *)
SaveTestOneMore ==
    /\ sv.pc = "test"
    /\ sv' = IF sv.i <= Len(pool.pool) THEN [sv EXCEPT !.pc = "get"] ELSE NoSave
    /\ UNCHANGED <<pool, dead, blacklist, rot, hc, rf, job, stale>>

SaveTest ==
    /\ sv.pc = "test"
    /\ sv' = IF sv.i < Len(pool.pool) THEN [sv EXCEPT !.pc = "get"] ELSE NoSave
    /\ UNCHANGED <<pool, dead, blacklist, rot, hc, rf, job, stale>>

SaveGet ==
    /\ sv.pc = "get"
    /\ sv' = IF Empty(pool) THEN [sv EXCEPT !.pc = "test", !.i = @ + 1]
             ELSE [sv EXCEPT !.pc = "next", !.lines = Append(@, CurrentOf(pool))]
    /\ UNCHANGED <<pool, dead, blacklist, rot, hc, rf, job, stale>>

(* Mutant of SaveNext: the pool's index does not wrap.                     *)
SaveNextNoWrap ==
    /\ sv.pc = "next"
    /\ pool' = [pool EXCEPT !.index = @ + 1]
    /\ sv' = [sv EXCEPT !.pc = "test", !.i = @ + 1]
    /\ UNCHANGED <<dead, blacklist, rot, hc, rf, job, stale>>

SaveNext ==
    /\ sv.pc = "next"
    /\ pool' = Advanced(pool)
    /\ sv' = [sv EXCEPT !.pc = "test", !.i = @ + 1]
    /\ UNCHANGED <<dead, blacklist, rot, hc, rf, job, stale>>

-----------------------------------------------------------------------------
(* The requests.  One that gives up an address makes its calls one by one, *)
(* and what it read of the rotator may be gone by then.                    *)

(* RemoveCurrent, then blacklistAddr (a compliance block) or markAddrDead  *)
(* (no JWT in a compliance loop).                                          *)
BlameRemoved(x, i, forGood) ==
    /\ job[x] = NoJob
    /\ rot' = RemoveAt(rot, i)
    /\ job' = [job EXCEPT ![x] =
                 [addr |-> rot[i], todo |-> IF forGood THEN <<"ban", "dead">> ELSE <<"dead">>]]
    /\ UNCHANGED <<pool, dead, blacklist, hc, rf, sv, stale>>

(* Current, and later Remove and markAddrDead (a 403), MarkDead and Remove *)
(* (a 403 of the bootstrap through a tunnel) or MarkDead alone (a write    *)
(* error of a stream, the bootstrap's 403 through the router).             *)
BlameSeen(x, a, todo) ==
    /\ job[x] = NoJob
    /\ \/ Contains(rot, a)
       \/ a \in RouterAddrs /\ todo = <<"dead">>
    /\ job' = [job EXCEPT ![x] = [addr |-> a, todo |-> todo]]
    /\ UNCHANGED <<pool, dead, blacklist, rot, hc, rf, sv, stale>>

SeenCalls == {<<"remove", "dead">>, <<"dead", "remove">>, <<"dead">>}

(* Rotator.Remove: the first copy only.                                    *)
Without(s, a) == IF Contains(s, a) THEN RemoveAt(s, FirstIndex(s, a)) ELSE s

BlameStep(x) ==
    LET blamed == job[x].addr
        todo   == job[x].todo
        call   == Head(todo)
    IN  /\ job[x] # NoJob
        /\ dead' = IF call = "dead" THEN dead \cup {blamed} ELSE dead
        /\ rot' = IF call = "remove" THEN Without(rot, blamed) ELSE rot
        /\ blacklist' = IF call = "ban" THEN Blacklisting(blacklist, blamed) ELSE blacklist
        /\ job' = [job EXCEPT ![x] = IF Len(todo) = 1 THEN NoJob
                                     ELSE [addr |-> blamed, todo |-> Tail(todo)]]
        /\ UNCHANGED <<pool, hc, rf, sv, stale>>

-----------------------------------------------------------------------------
Health == HealthReplace \/ HealthUpdate

Refresh ==
    \/ RefreshLen \/ RefreshGet \/ RefreshAdd \/ RefreshSnapshot \/ RefreshUpdate

SavePool == SaveTest \/ SaveGet \/ SaveNext

Request(x) ==
    \/ \E i \in DOMAIN rot, forGood \in BOOLEAN : BlameRemoved(x, i, forGood)
    \/ \E a \in Addr, todo \in SeenCalls : BlameSeen(x, a, todo)
    \/ BlameStep(x)

Next ==
    \/ HealthTick \/ Dial \/ Health
    \/ \E s \in Fetches \cup {<< >>} : RefreshFetch(s)
    \/ Refresh \/ SavePool
    \/ \E x \in Blamers : Request(x)

Spec == Init /\ [][Next]_vars

(***************************************************************************)
(* A goroutine that can run does, and the health check's ticker keeps      *)
(* ticking.  A dial has a timeout of 5 s; a fetch has none, so nothing is  *)
(* assumed of RefreshFetch.  Nothing is assumed of requests.               *)
(***************************************************************************)
Fairness ==
    /\ WF_vars(HealthTick) /\ WF_vars(Dial) /\ WF_vars(Health)
    /\ WF_vars(Refresh) /\ WF_vars(SavePool)

FairSpec == Spec /\ Fairness

-----------------------------------------------------------------------------
Calls == SeenCalls \cup {<<"ban", "dead">>, <<"remove">>}

TypeOK ==
    /\ pool \in RotatorState(Server) /\ InRange(pool)
    /\ dead \subseteq Addr /\ blacklist \subseteq IP /\ rot \in Seq(Addr)
    /\ job \in [Blamers -> {NoJob} \cup [addr : Addr, todo : Calls]]
    /\ hc.pc \in {"idle", "dial", "update"} /\ hc.list \in Seq(Server)
    /\ hc.tokens \in 0 .. MaxDials
    /\ rf.pc \in {"idle", "len", "get", "add", "update"} /\ rf.list \in Seq(Server)
    /\ rf.added \in BOOLEAN /\ rf.late \in BOOLEAN /\ stale \in BOOLEAN
    /\ sv.pc \in {"off", "test", "get", "next"} /\ sv.i \in Nat
    /\ sv.lines \in Seq(Server) /\ sv.disturbed \in BOOLEAN

(* Every address in the rotator has a configuration in the pool (without   *)
(* one, forwardRequest connects directly), but for two windows: the health *)
(* check has replaced the pool and not yet updated the rotator, or it did  *)
(* so between the refresh's SnapshotAlive and Update, and no health check  *)
(* has ended since.                                                        *)
Backed == \A i \in DOMAIN rot : HasAddr(pool.pool, rot[i])

RotatorMatchesPool == Backed \/ hc.pc = "update" \/ stale

(* The addresses in the pool, in the rotator and in the lists on the way   *)
(* to them.                                                                *)
Circulating ==
    ToSet(rot) \cup ToSet(SSAddresses(pool.pool)) \cup ToSet(SSAddresses(hc.list))
        \cup (IF rf.pc = "update" THEN ToSet(SSAddresses(rf.list)) ELSE {})

(* blacklist.go:26 "if 1.2.3.4:5600 is blacklisted, 1.2.3.4:8080 is also   *)
(* skipped": a port that was in circulation when its IP was blacklisted    *)
(* goes on being used, but no other one comes in.                          *)
NoNewPorts ==
    [][ \A x \in Circulating' \ Circulating : ~IsBlacklisted(blacklist, x) ]_vars

Occurrences(s, x) == Cardinality({i \in DOMAIN s : s[i] = x})

SavedOnce ==
    \A x \in Server : Occurrences(sv.lines, x) = IF Contains(pool.pool, x) THEN 1 ELSE 0

(* A save that no health check disturbs writes every server of the pool    *)
(* exactly once, wherever an earlier, disturbed save left the index.       *)
SaveIsComplete ==
    [][ sv.pc = "test" /\ sv'.pc = "off" /\ ~sv.disturbed => SavedOnce ]_vars

(* Every health check publishes its result, however many servers do not    *)
(* answer: the dials never run out of tokens.                              *)
ChecksEnd == hc.pc = "dial" ~> hc.pc = "idle"

(* The windows in which the rotator hands out addresses the pool has no    *)
(* configuration for (RotatorMatchesPool) close: the health check always   *)
(* makes the two agree again.                                              *)
RotatorRealigns == []<>Backed

(* The addresses the requests marked dead leave the rotator and in the end *)
(* stay out of it, although most calls that mark one dead remove no copy   *)
(* or one, both goroutines publish snapshots from before, and the refresh  *)
(* puts the dead back into the pool.                                       *)
BlamedLeave == <>[](ToSet(rot) \cap dead = {})

=============================================================================
