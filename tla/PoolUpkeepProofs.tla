-------------------------- MODULE PoolUpkeepProofs --------------------------
(***************************************************************************)
(* Theorems about module PoolUpkeep, for every pool, every answer of the   *)
(* API and every number of concurrent dials.                               *)
(***************************************************************************)
EXTENDS PoolUpkeep, UpstreamsProofs

(* The records of the three goroutines.                                    *)
HealthState ==
    [pc : {"idle", "dial", "update"}, list : Seq(Server),
     dial : Seq({"queued", "dialing", "up", "down"}), tokens : Nat]

RefreshState ==
    [pc : {"idle", "len", "get", "add", "update"}, list : Seq(Server),
     added : BOOLEAN, late : BOOLEAN]

SaveState ==
    [pc : {"off", "test", "get", "next"}, i : Nat, lines : Seq(Server), disturbed : BOOLEAN]

(* A token is out for every dial that is under way.                        *)
Dialing(d) == {i \in DOMAIN d : d[i] = "dialing"}

TokensExact == hc.tokens = Cardinality(Dialing(hc.dial)) /\ hc.tokens <= MaxDials

HealthInv == hc \in HealthState /\ TokensExact

(* There is a server to test while the loop over the fetched ones runs.    *)
RefreshInv == rf \in RefreshState /\ (rf.pc \in {"get", "add"} => rf.list # << >>)

SharedInv ==
    /\ pool \in RotatorState(Server) /\ InRange(pool)
    /\ dead \subseteq Addr /\ blacklist \subseteq IP /\ rot \in Seq(Addr)

JobInv == job \in [Blamers -> {NoJob} \cup [addr : Addr, todo : Calls]]

TypeInv ==
    /\ SharedInv /\ HealthInv /\ RefreshInv
    /\ sv \in SaveState /\ stale \in BOOLEAN /\ JobInv

LEMMA SaveBegunType ==
    /\ NoSave \in SaveState /\ NoSave.pc = "off"
    /\ \A v \in SaveBegun :
          v \in SaveState /\ v.i = 0 /\ v.lines = << >> /\ v.pc \in {"off", "test"}
<1>1. NoSave \in SaveState /\ NoSave.i = 0 /\ NoSave.lines = << >> /\ NoSave.pc = "off"
  BY DEF NoSave, SaveState
<1>2. \A v \in SaveBegun : \E p \in {"off", "test"} : v = [NoSave EXCEPT !.pc = p]
  <2>1. [NoSave EXCEPT !.pc = "off"] = NoSave
    BY DEF NoSave
  <2> QED BY <2>1 DEF SaveBegun
<1> QED BY <1>1, <1>2 DEF SaveState

(* The values the goroutines start from.                                   *)
LEMMA InitTypes == Init => TypeInv
<1> SUFFICES ASSUME Init PROVE TypeInv
  OBVIOUS
<1>1. SharedInv
  <2>1. pool \in RotatorState(Server) /\ InRange(pool)
    BY UpkeepAssumption, NewRotatorType DEF Init
  <2>2. rot \in Seq(Addr)
    BY UpkeepAssumption, SSAddressesType DEF Init
  <2> QED BY <2>1, <2>2 DEF Init, SharedInv
<1>2. HealthInv
  <2>1. hc \in HealthState /\ hc.dial = << >> /\ hc.tokens = 0
    BY DEF Init, NoHealth, HealthState
  <2>2. Dialing(hc.dial) = {}
    BY <2>1 DEF Dialing
  <2>3. Cardinality(Dialing(hc.dial)) = 0
    BY <2>2, FS_EmptySet
  <2>4. 0 <= MaxDials
    BY UpkeepAssumption
  <2> QED BY <2>1, <2>3, <2>4 DEF HealthInv, TokensExact
<1>3. RefreshInv
  BY DEF Init, NoRefresh, RefreshInv, RefreshState
<1>5. sv \in SaveState
  BY SaveBegunType DEF Init
<1>6. stale \in BOOLEAN
  BY Zenon DEF Init
<1>7. JobInv
  BY DEF Init, JobInv
<1> QED BY <1>1, <1>2, <1>3, <1>5, <1>6, <1>7 DEF TypeInv

(* The list of the next health check or refresh, and the pool after them.  *)
LEMMA ListTypes ==
    ASSUME TypeInv
    PROVE  /\ SnapshotAlive(pool.pool, dead) \in Seq(Server)
           /\ Alive \in Seq(Server)
<1>1. pool.pool \in Seq(Server) /\ hc.list \in Seq(Server)
  BY DEF TypeInv, SharedInv, HealthInv, HealthState, RotatorState
<1> QED BY <1>1, SnapshotAliveType, ReachableType DEF Alive

LEMMA DialingIsFinite ==
    ASSUME NEW d \in Seq({"queued", "dialing", "up", "down"})
    PROVE  IsFiniteSet(Dialing(d))
<1>1. DOMAIN d = 1 .. Len(d) /\ Len(d) \in Nat
  OBVIOUS
<1>2. IsFiniteSet(1 .. Len(d))
  BY <1>1, FS_Interval
<1> QED BY <1>1, <1>2, FS_Subset DEF Dialing

(* The health goroutine: a dial takes a token when it starts and returns   *)
(* it when it ends, whichever way it ends.                                 *)
LEMMA DialTypes ==
    ASSUME HealthInv, NEW i \in DOMAIN hc.dial,
           DialStart(i) \/ DialEnd(i, TRUE) \/ DialEnd(i, FALSE)
    PROVE  HealthInv'
<1> DEFINE d == hc.dial
           D == Dialing(d)
<1>1. /\ d \in Seq({"queued", "dialing", "up", "down"}) /\ hc.tokens \in Nat
      /\ hc.tokens = Cardinality(D) /\ hc.tokens <= MaxDials /\ MaxDials \in Nat
  BY UpkeepAssumption DEF HealthInv, HealthState, TokensExact
<1>2. IsFiniteSet(D)
  BY <1>1, DialingIsFinite
<1>3. ASSUME NEW x \in {"queued", "dialing", "up", "down"}, NEW k \in Nat,
             hc' = [hc EXCEPT !.dial[i] = x, !.tokens = k]
      PROVE  hc' \in HealthState /\ hc'.dial = [d EXCEPT ![i] = x] /\ hc'.tokens = k
  <2>1. [d EXCEPT ![i] = x] \in Seq({"queued", "dialing", "up", "down"})
    BY <1>1
  <2> QED BY <1>3, <2>1 DEF HealthInv, HealthState
<1>4. CASE DialStart(i)
  <2>1. hc.tokens + 1 \in Nat /\ hc.tokens + 1 <= MaxDials
    BY <1>1, <1>4 DEF DialStart
  <2>2. hc' \in HealthState /\ hc'.dial = [d EXCEPT ![i] = "dialing"] /\ hc'.tokens = hc.tokens + 1
    BY <1>3, <1>4, <2>1 DEF DialStart
  <2>3. Dialing(hc'.dial) = D \cup {i} /\ i \notin D
    BY <1>1, <1>4, <2>2 DEF Dialing, DialStart
  <2>4. Cardinality(D \cup {i}) = Cardinality(D) + 1
    BY <1>2, <2>3, FS_AddElement
  <2> QED BY <1>1, <2>1, <2>2, <2>3, <2>4 DEF HealthInv, TokensExact
<1>5. ASSUME NEW x \in {"up", "down"}, hc.dial[i] = "dialing",
             hc' = [hc EXCEPT !.dial[i] = x, !.tokens = @ - 1]
      PROVE  HealthInv'
  <2>1. i \in D
    BY <1>5 DEF Dialing
  <2>2. Cardinality(D \ {i}) = Cardinality(D) - 1 /\ Cardinality(D \ {i}) \in Nat
    BY <1>2, <2>1, FS_RemoveElement, FS_CardinalityType, FS_Subset
  <2>3. hc.tokens - 1 \in Nat /\ hc.tokens - 1 <= MaxDials
    BY <1>1, <2>2
  <2>4. hc' \in HealthState /\ hc'.dial = [d EXCEPT ![i] = x] /\ hc'.tokens = hc.tokens - 1
    BY <1>3, <1>5, <2>3
  <2>5. Dialing(hc'.dial) = D \ {i}
    BY <1>1, <2>4 DEF Dialing
  <2> QED BY <1>1, <2>2, <2>3, <2>4, <2>5 DEF HealthInv, TokensExact
<1>6. CASE DialEnd(i, TRUE)
  BY <1>5, <1>6 DEF DialEnd
<1>7. CASE DialEnd(i, FALSE)
  BY <1>5, <1>7 DEF DialEnd
<1> QED BY <1>4, <1>6, <1>7

(* HealthTick, HealthReplace and HealthUpdate start with no dial under way.*)
LEMMA FreshHealth ==
    ASSUME NEW h \in HealthState, h.tokens = 0, Dialing(h.dial) = {}, hc' = h
    PROVE  HealthInv'
<1>1. Cardinality(Dialing(h.dial)) = 0
  BY FS_EmptySet
<1>2. 0 <= MaxDials
  BY UpkeepAssumption
<1> QED BY <1>1, <1>2 DEF HealthInv, TokensExact

(* What one call of a request does: the rotator only loses addresses.      *)
LEMMA RemoveAtShrinks ==
    ASSUME NEW p \in Seq(Addr), NEW i \in DOMAIN p
    PROVE  RemoveAt(p, i) \in Seq(Addr) /\ ToSet(RemoveAt(p, i)) \subseteq ToSet(p)
<1> DEFINE q == RemoveAt(p, i)
<1>1. /\ q \in Seq(Addr) /\ Len(q) = Len(p) - 1
      /\ \A k \in 1 .. (Len(p) - 1) : q[k] = IF k < i THEN p[k] ELSE p[k + 1]
  BY RemoveAtType
<1> HIDE DEF q
<1>2. \A k \in DOMAIN q : q[k] \in {p[j] : j \in DOMAIN p}
  BY <1>1
<1> QED BY <1>1, <1>2 DEF ToSet, q

LEMMA WithoutShrinks ==
    ASSUME NEW p \in Seq(Addr), NEW a
    PROVE  Without(p, a) \in Seq(Addr) /\ ToSet(Without(p, a)) \subseteq ToSet(p)
<1>1. CASE Contains(p, a)
  <2>1. FirstIndex(p, a) \in DOMAIN p
    BY <1>1, FirstIndexIsIndex DEF Contains
  <2> QED BY <1>1, <2>1, RemoveAtShrinks DEF Without
<1>2. CASE ~Contains(p, a)
  BY <1>2 DEF Without
<1> QED BY <1>1, <1>2

LEMMA RequestEffect ==
    ASSUME TypeInv, \E x \in Blamers : Request(x)
    PROVE  /\ UNCHANGED <<pool, hc, rf, sv, stale>>
           /\ rot' \in Seq(Addr) /\ ToSet(rot') \subseteq ToSet(rot)
           /\ dead' \subseteq Addr /\ blacklist' \subseteq IP
           /\ JobInv'
<1>0. /\ rot \in Seq(Addr) /\ dead \subseteq Addr /\ blacklist \subseteq IP
      /\ job \in [Blamers -> {NoJob} \cup [addr : Addr, todo : Calls]]
  BY DEF TypeInv, SharedInv, JobInv
<1>1. PICK x \in Blamers : Request(x)
  OBVIOUS
<1>2. ASSUME NEW a \in Addr, NEW todo \in Calls,
             job' = [job EXCEPT ![x] = [addr |-> a, todo |-> todo]]
      PROVE  JobInv'
  BY <1>0, <1>2 DEF JobInv
<1>3. ASSUME NEW i \in DOMAIN rot, NEW forGood \in BOOLEAN, BlameRemoved(x, i, forGood)
      PROVE  /\ UNCHANGED <<pool, hc, rf, sv, stale, dead, blacklist>>
             /\ rot' \in Seq(Addr) /\ ToSet(rot') \subseteq ToSet(rot)
             /\ JobInv'
  <2>1. rot[i] \in Addr
    BY <1>0
  <2>2. PICK todo \in Calls : todo = IF forGood THEN <<"ban", "dead">> ELSE <<"dead">>
    BY DEF Calls, SeenCalls
  <2>3. JobInv'
    BY <1>2, <1>3, <2>1, <2>2 DEF BlameRemoved
  <2>4. rot' \in Seq(Addr) /\ ToSet(rot') \subseteq ToSet(rot)
    BY <1>0, <1>3, RemoveAtShrinks DEF BlameRemoved
  <2> QED BY <1>3, <2>3, <2>4 DEF BlameRemoved
<1>4. ASSUME NEW a \in Addr, NEW todo \in SeenCalls, BlameSeen(x, a, todo)
      PROVE  UNCHANGED <<pool, hc, rf, sv, stale, dead, blacklist, rot>> /\ JobInv'
  <2>1. todo \in Calls
    BY DEF Calls
  <2> QED BY <1>2, <1>4, <2>1 DEF BlameSeen
<1>5. ASSUME BlameStep(x)
      PROVE  /\ UNCHANGED <<pool, hc, rf, sv, stale>>
             /\ rot' \in Seq(Addr) /\ ToSet(rot') \subseteq ToSet(rot)
             /\ dead' \subseteq Addr /\ blacklist' \subseteq IP
             /\ JobInv'
  <2>1. PICK a \in Addr, todo \in Calls : job[x] = [addr |-> a, todo |-> todo]
    BY <1>0, <1>5 DEF BlameStep
  <2>2. job[x].addr = a /\ job[x].todo = todo
    BY <2>1
  <2>3. dead' \subseteq Addr
    BY <1>0, <1>5, <2>2 DEF BlameStep
  <2>4. Blacklisting(blacklist, a) \subseteq IP
    BY <1>0, UpkeepAssumption, BlacklistingType
  <2>5. blacklist' \subseteq IP
    BY <1>0, <1>5, <2>2, <2>4 DEF BlameStep
  <2>6. rot' \in Seq(Addr) /\ ToSet(rot') \subseteq ToSet(rot)
    BY <1>0, <1>5, <2>2, WithoutShrinks DEF BlameStep
  <2>7. Len(todo) = 1 \/ Tail(todo) \in Calls
    <3>1. CASE \E c, d \in {"remove", "dead", "ban"} :
                 todo = <<c, d>> /\ d \in {"remove", "dead"}
      <4>1. PICK c, d \in {"remove", "dead", "ban"} :
                   todo = <<c, d>> /\ d \in {"remove", "dead"}
        BY <3>1
      <4>2. Tail(todo) = <<d>>
        BY <4>1
      <4> QED BY <4>1, <4>2 DEF Calls, SeenCalls
    <3>2. CASE \E c \in {"remove", "dead"} : todo = <<c>>
      BY <3>2
    <3> QED BY <3>1, <3>2 DEF Calls, SeenCalls
  <2>8. \/ job' = [job EXCEPT ![x] = NoJob]
        \/ job' = [job EXCEPT ![x] = [addr |-> a, todo |-> Tail(todo)]] /\ Tail(todo) \in Calls
    <3>1. CASE Len(todo) = 1
      BY <1>5, <2>2, <3>1 DEF BlameStep
    <3>2. CASE Len(todo) # 1
      <4>1. job' = [job EXCEPT ![x] = [addr |-> a, todo |-> Tail(todo)]]
        BY <1>5, <2>2, <3>2 DEF BlameStep
      <4> QED BY <2>7, <3>2, <4>1
    <3> QED BY <3>1, <3>2
  <2>9. JobInv'
    BY <1>0, <1>2, <2>8 DEF JobInv
  <2> QED BY <1>5, <2>3, <2>5, <2>6, <2>9 DEF BlameStep
<1> QED BY <1>0, <1>1, <1>3, <1>4, <1>5 DEF Request

LEMMA HealthTypes ==
    ASSUME TypeInv, [Next]_vars
    PROVE  HealthInv'
<1>0. HealthInv
  BY DEF TypeInv
<1>1. CASE UNCHANGED hc
  BY <1>0, <1>1 DEF HealthInv, TokensExact
<1>2. CASE HealthTick
  <2> DEFINE snap == SnapshotAlive(pool.pool, dead)
             q == [i \in DOMAIN snap |-> "queued"]
             h == [pc |-> "dial", list |-> snap, dial |-> q, tokens |-> 0]
  <2>1. snap \in Seq(Server)
    BY ListTypes
  <2>2. hc' = h
    BY <1>2 DEF HealthTick
  <2> HIDE DEF snap
  <2>3. q \in Seq({"queued", "dialing", "up", "down"}) /\ Dialing(q) = {}
    BY <2>1 DEF Dialing
  <2> HIDE DEF q
  <2>4. h \in HealthState /\ h.tokens = 0 /\ h.dial = q
    BY <2>1, <2>3 DEF HealthState
  <2> HIDE DEF h
  <2> QED BY <2>2, <2>3, <2>4, FreshHealth
<1>3. CASE HealthReplace \/ HealthUpdate
  <2>1. NoHealth \in HealthState /\ NoHealth.tokens = 0 /\ NoHealth.dial = << >>
    BY DEF NoHealth, HealthState
  <2>2. Dialing(<< >>) = {}
    BY DEF Dialing
  <2>3. CASE HealthUpdate
    BY <2>1, <2>2, <2>3, FreshHealth DEF HealthUpdate
  <2>4. CASE HealthReplace
    <3> DEFINE h == [NoHealth EXCEPT !.pc = "update", !.list = Alive]
    <3>1. h \in HealthState /\ h.tokens = 0 /\ h.dial = << >>
      BY <2>1, ListTypes DEF HealthState
    <3>2. hc' = h
      BY <2>4 DEF HealthReplace
    <3> HIDE DEF h
    <3> QED BY <2>2, <3>1, <3>2, FreshHealth
  <2> QED BY <1>3, <2>3, <2>4
<1>4. CASE Dial
  BY <1>0, <1>4, DialTypes DEF Dial
<1>5. CASE \E s \in Fetches \cup {<< >>} : RefreshFetch(s)
  BY <1>1, <1>5 DEF RefreshFetch
<1>6. CASE Refresh
  BY <1>1, <1>6 DEF Refresh, RefreshLen, RefreshGet, RefreshAdd, RefreshSnapshot, RefreshUpdate
<1>7. CASE SavePool
  BY <1>1, <1>7 DEF SavePool, SaveTest, SaveGet, SaveNext
<1>8. CASE \E x \in Blamers : Request(x)
  BY <1>1, <1>8, RequestEffect
<1>9. CASE UNCHANGED vars
  BY <1>1, <1>9 DEF vars
<1> QED BY <1>2, <1>3, <1>4, <1>5, <1>6, <1>7, <1>8, <1>9 DEF Next, Health

(* The refresh goroutine.                                                  *)
LEMMA RefreshTypes ==
    ASSUME TypeInv, [Next]_vars
    PROVE  RefreshInv'
<1>0. /\ rf \in RefreshState /\ rf.list \in Seq(Server) /\ rf.added \in BOOLEAN
      /\ rf.late \in BOOLEAN /\ (rf.pc \in {"get", "add"} => rf.list # << >>)
  BY DEF TypeInv, RefreshInv, RefreshState
<1>1. CASE UNCHANGED rf
  BY <1>0, <1>1 DEF RefreshInv
<1>2. ASSUME NEW s \in Fetches \cup {<< >>}, RefreshFetch(s)
      PROVE  RefreshInv'
  <2>1. s \in Seq(Server)
    <3>1. << >> \in Seq(Server)
      OBVIOUS
    <3>2. Fetches \subseteq Seq(Server)
      BY UpkeepAssumption
    <3> QED BY <3>1, <3>2
  <2> QED BY <1>0, <1>2, <2>1 DEF RefreshFetch, RefreshInv, RefreshState
<1>3. CASE RefreshLen
  BY <1>0, <1>3 DEF RefreshLen, RefreshInv, RefreshState
<1>4. rf.pc \in {"get", "add"} => Tail(rf.list) \in Seq(Server)
  BY <1>0
<1>5. CASE RefreshGet
  BY <1>0, <1>4, <1>5 DEF RefreshGet, RefreshInv, RefreshState
<1>6. CASE RefreshAdd
  <2>1. TRUE \in BOOLEAN
    OBVIOUS
  <2> QED BY <1>0, <1>4, <1>6, <2>1 DEF RefreshAdd, RefreshInv, RefreshState
<1>7. NoRefresh \in RefreshState /\ NoRefresh.pc = "idle"
  BY DEF NoRefresh, RefreshState
<1>8. CASE RefreshSnapshot
  BY <1>0, <1>7, <1>8, ListTypes DEF RefreshSnapshot, RefreshInv, RefreshState
<1>9. CASE RefreshUpdate
  BY <1>7, <1>9 DEF RefreshUpdate, RefreshInv
<1>10. CASE HealthReplace
  <2> DEFINE b == (rf.pc = "update")
  <2>1. b \in BOOLEAN
    OBVIOUS
  <2>2. rf' = [rf EXCEPT !.late = b]
    BY <1>10 DEF HealthReplace
  <2> HIDE DEF b
  <2> QED BY <1>0, <2>1, <2>2 DEF RefreshInv, RefreshState
<1>11. CASE HealthTick \/ HealthUpdate \/ Dial
  BY <1>1, <1>11 DEF HealthTick, HealthUpdate, Dial, DialStart, DialEnd
<1>12. CASE SavePool
  BY <1>1, <1>12 DEF SavePool, SaveTest, SaveGet, SaveNext
<1>13. CASE \E x \in Blamers : Request(x)
  BY <1>1, <1>13, RequestEffect
<1>14. CASE UNCHANGED vars
  BY <1>1, <1>14 DEF vars
<1> QED BY <1>2, <1>3, <1>5, <1>6, <1>8, <1>9, <1>10, <1>11, <1>12, <1>13, <1>14
        DEF Next, Health, Refresh

(* savePoolToFile.                                                         *)
LEMMA SaveTypes ==
    ASSUME TypeInv, [Next]_vars
    PROVE  sv' \in SaveState
<1>0. sv \in SaveState /\ sv.i \in Nat /\ sv.lines \in Seq(Server)
  BY DEF TypeInv, SaveState
<1>1. CASE UNCHANGED sv
  BY <1>0, <1>1
<1>2. CASE SaveTest
  BY <1>0, <1>2, SaveBegunType DEF SaveTest, SaveState
<1>3. CASE SaveGet
  <2>1. CASE Empty(pool)
    <3>1. sv.i + 1 \in Nat
      BY <1>0
    <3> QED BY <1>0, <1>3, <2>1, <3>1 DEF SaveGet, SaveState
  <2>2. CASE ~Empty(pool)
    <3> DEFINE l == Append(sv.lines, CurrentOf(pool))
    <3>1. CurrentOf(pool) \in Server
      BY <2>2, CurrentOfType DEF TypeInv, SharedInv
    <3>2. l \in Seq(Server)
      BY <1>0, <3>1
    <3>3. sv' = [sv EXCEPT !.pc = "next", !.lines = l]
      BY <1>3, <2>2 DEF SaveGet
    <3> HIDE DEF l
    <3> QED BY <1>0, <3>2, <3>3 DEF SaveState
  <2> QED BY <2>1, <2>2
<1>4. CASE SaveNext
  <2>1. sv.i + 1 \in Nat
    BY <1>0
  <2> QED BY <1>0, <1>4, <2>1 DEF SaveNext, SaveState
<1>5. CASE HealthReplace
  <2> DEFINE b == (sv.pc # "off")
  <2>1. b \in BOOLEAN
    OBVIOUS
  <2>2. sv' = [sv EXCEPT !.disturbed = b]
    BY <1>5 DEF HealthReplace
  <2> HIDE DEF b
  <2> QED BY <1>0, <2>1, <2>2 DEF SaveState
<1>6. CASE Refresh
  BY <1>0, <1>6, SaveBegunType
     DEF Refresh, RefreshLen, RefreshGet, RefreshAdd, RefreshSnapshot, RefreshUpdate
<1>7. CASE \E s \in Fetches \cup {<< >>} : RefreshFetch(s)
  BY <1>1, <1>7 DEF RefreshFetch
<1>8. CASE HealthTick \/ HealthUpdate \/ Dial
  BY <1>1, <1>8 DEF HealthTick, HealthUpdate, Dial, DialStart, DialEnd
<1>9. CASE \E x \in Blamers : Request(x)
  BY <1>1, <1>9, RequestEffect
<1>10. CASE UNCHANGED vars
  BY <1>1, <1>10 DEF vars
<1> QED BY <1>2, <1>3, <1>4, <1>5, <1>6, <1>7, <1>8, <1>9, <1>10 DEF Next, Health, SavePool

LEMMA AddTypes ==
    ASSUME TypeInv, RefreshAdd
    PROVE  /\ pool'.pool = PoolAdd(pool.pool, blacklist, Head(rf.list))
           /\ pool'.index = pool.index
           /\ Head(rf.list) \in Server
           /\ pool' \in RotatorState(Server) /\ InRange(pool')
<1> DEFINE a == Head(rf.list)
           p == PoolAdd(pool.pool, blacklist, a)
<1>1. pool \in RotatorState(Server) /\ pool.pool \in Seq(Server) /\ pool.index \in Nat /\ InRange(pool)
  BY DEF TypeInv, SharedInv, RotatorState
<1>2. a \in Server
  BY DEF RefreshAdd, TypeInv, RefreshInv, RefreshState
<1>3. p \in Seq(Server) /\ Len(p) >= Len(pool.pool)
  <2> HIDE DEF a
  <2>1. p \in Seq(Server)
    BY <1>1, <1>2, PoolAddType
  <2> QED BY <1>1, <1>2, <2>1 DEF PoolAdd
<1>4. pool' = [pool EXCEPT !.pool = p]
  BY DEF RefreshAdd
<1> HIDE DEF p, a
<1>5. pool'.pool = p /\ pool'.index = pool.index /\ pool' \in RotatorState(Server)
  BY <1>1, <1>3, <1>4 DEF RotatorState
<1>6. InRange(pool')
  <2>1. CASE pool.index < Len(pool.pool)
    BY <1>1, <1>3, <1>5, <2>1 DEF InRange
  <2>2. CASE pool.index = 0 /\ Empty(pool)
    BY <1>1, <1>3, <1>5, <2>2 DEF InRange, Empty
  <2> QED BY <1>1, <2>1, <2>2 DEF InRange
<1> QED BY <1>2, <1>5, <1>6 DEF p, a

(* The pool with its index, the blacklist and the rotator.                 *)
LEMMA SharedTypes ==
    ASSUME TypeInv, [Next]_vars
    PROVE  SharedInv'
<1>0. /\ pool \in RotatorState(Server) /\ InRange(pool)
      /\ dead \subseteq Addr /\ blacklist \subseteq IP /\ rot \in Seq(Addr)
      /\ hc.list \in Seq(Server) /\ rf.list \in Seq(Server)
  BY DEF TypeInv, SharedInv, HealthInv, HealthState, RefreshInv, RefreshState
<1>1. CASE UNCHANGED <<pool, dead, blacklist, rot>>
  BY <1>0, <1>1 DEF SharedInv
<1>2. CASE HealthReplace
  BY <1>0, <1>2, ListTypes, NewRotatorType DEF HealthReplace, SharedInv
<1>3. CASE HealthUpdate
  BY <1>0, <1>3, SSAddressesType DEF HealthUpdate, SharedInv
<1>4. CASE RefreshUpdate
  BY <1>0, <1>4, SSAddressesType DEF RefreshUpdate, SharedInv
<1>5. CASE RefreshAdd
  BY <1>0, <1>5, AddTypes DEF RefreshAdd, SharedInv
<1>6. CASE SaveNext
  BY <1>0, <1>6, AdvancedType DEF SaveNext, SharedInv
<1>7. CASE \E x \in Blamers : Request(x)
  BY <1>0, <1>7, RequestEffect DEF SharedInv
<1>8. CASE HealthTick \/ Dial
  BY <1>1, <1>8 DEF HealthTick, Dial, DialStart, DialEnd
<1>9. CASE (\E s \in Fetches \cup {<< >>} : RefreshFetch(s)) \/ RefreshLen \/ RefreshGet
             \/ RefreshSnapshot
  BY <1>1, <1>9 DEF RefreshFetch, RefreshLen, RefreshGet, RefreshSnapshot
<1>10. CASE SaveTest \/ SaveGet
  BY <1>1, <1>10 DEF SaveTest, SaveGet
<1>11. CASE UNCHANGED vars
  BY <1>1, <1>11 DEF vars
<1> QED BY <1>2, <1>3, <1>4, <1>5, <1>6, <1>7, <1>8, <1>9, <1>10, <1>11
        DEF Next, Health, Refresh, SavePool

LEMMA StaleTypes ==
    ASSUME TypeInv, [Next]_vars
    PROVE  stale' \in BOOLEAN
<1>0. rf.late \in BOOLEAN /\ stale \in BOOLEAN
  BY DEF TypeInv, RefreshInv, RefreshState
<1>1. stale' = stale \/ stale' = FALSE \/ stale' = rf.late
  BY Zenon DEF Next, vars, HealthTick, Dial, DialStart, DialEnd, Health, HealthReplace, HealthUpdate,
     RefreshFetch, Refresh, RefreshLen, RefreshGet, RefreshAdd, RefreshSnapshot,
     RefreshUpdate, SavePool, SaveTest, SaveGet, SaveNext,
     Request, BlameRemoved, BlameSeen, BlameStep
<1> QED BY <1>0, <1>1, Zenon

LEMMA JobTypes ==
    ASSUME TypeInv, [Next]_vars
    PROVE  JobInv'
<1>1. CASE UNCHANGED job
  BY <1>1 DEF TypeInv, JobInv
<1>2. CASE \E x \in Blamers : Request(x)
  BY <1>2, RequestEffect
<1>3. CASE HealthTick \/ Dial \/ Health
  BY <1>1, <1>3 DEF HealthTick, Dial, DialStart, DialEnd, Health, HealthReplace, HealthUpdate
<1>4. CASE (\E s \in Fetches \cup {<< >>} : RefreshFetch(s)) \/ Refresh
  BY <1>1, <1>4 DEF RefreshFetch, Refresh, RefreshLen, RefreshGet, RefreshAdd, RefreshSnapshot,
     RefreshUpdate
<1>5. CASE SavePool
  BY <1>1, <1>5 DEF SavePool, SaveTest, SaveGet, SaveNext
<1>6. CASE UNCHANGED vars
  BY <1>1, <1>6 DEF vars
<1> QED BY <1>2, <1>3, <1>4, <1>5, <1>6 DEF Next

LEMMA TypeInvHolds == Spec => []TypeInv
<1>1. TypeInv /\ [Next]_vars => TypeInv'
  BY SharedTypes, HealthTypes, RefreshTypes, SaveTypes, StaleTypes, JobTypes DEF TypeInv
<1> QED BY <1>1, InitTypes, PTL DEF Spec

(* The pool's index stays a position of the pool although ReplaceAll, Add  *)
(* and a save's Next interleave, and no more than maxConcurrentChecks      *)
(* dials are under way.                                                    *)
THEOREM TypeCorrect == Spec => []TypeOK
<1>1. TypeInv => TypeOK
  BY DEF TypeInv, SharedInv, HealthInv, HealthState, TokensExact, RefreshInv, RefreshState,
         SaveState, JobInv, TypeOK
<1> QED BY <1>1, TypeInvHolds, PTL

-----------------------------------------------------------------------------
(* The addresses of a list of servers.                                     *)
AddrSet(s) == ToSet(SSAddresses(s))

LEMMA AddrSetIs ==
    ASSUME NEW s
    PROVE  /\ AddrSet(s) = {AddrOf[x] : x \in ToSet(s)}
           /\ \A a : HasAddr(s, a) <=> a \in AddrSet(s)
BY DEF AddrSet, ToSet, SSAddresses, HasAddr

(* What the lists on the way to the rotator hold.                          *)
LEMMA ListsShrink ==
    ASSUME TypeInv
    PROVE  /\ AddrSet(SnapshotAlive(pool.pool, dead)) \subseteq AddrSet(pool.pool)
           /\ AddrSet(Alive) \subseteq AddrSet(hc.list)
<1>1. pool.pool \in Seq(Server) /\ hc.list \in Seq(Server)
  BY DEF TypeInv, SharedInv, HealthInv, HealthState, RotatorState
<1>2. ASSUME NEW s \in Seq(Server), NEW S
      PROVE  AddrSet(Kept(s, S)) \subseteq AddrSet(s)
  <2> DEFINE t == Kept(s, S)
  <2>1. t \in Seq({s[i] : i \in DOMAIN s} \cap S)
    BY KeptType
  <2> HIDE DEF t
  <2>2. \A i \in DOMAIN t : t[i] \in {s[j] : j \in DOMAIN s}
    BY <2>1
  <2>3. ToSet(t) \subseteq ToSet(s)
    BY <2>2 DEF ToSet
  <2> QED BY <2>3, AddrSetIs DEF t
<1> QED BY <1>1, <1>2 DEF SnapshotAlive, Reachable, Alive

LEMMA AddGrows ==
    ASSUME TypeInv, RefreshAdd
    PROVE  /\ AddrSet(pool.pool) \subseteq AddrSet(pool'.pool)
           /\ \A x \in AddrSet(pool'.pool) \ AddrSet(pool.pool) : ~IsBlacklisted(blacklist, x)
<1> DEFINE a == Head(rf.list)
<1>1. pool.pool \in Seq(Server) /\ a \in Server
        /\ pool'.pool = PoolAdd(pool.pool, blacklist, a)
  BY AddTypes DEF TypeInv, SharedInv, RotatorState
<1> HIDE DEF a
<1>2. CASE pool'.pool = pool.pool
  BY <1>2
<1>3. CASE pool'.pool = Append(pool.pool, a) /\ ~IsBlacklisted(blacklist, AddrOf[a])
  <2> DEFINE p == pool.pool
             q == Append(p, a)
  <2>1. /\ DOMAIN q = DOMAIN p \cup {Len(p) + 1}
        /\ q[Len(p) + 1] = a
        /\ \A i \in DOMAIN p : q[i] = p[i]
    <3> HIDE DEF p
    <3> QED BY <1>1 DEF p
  <2> HIDE DEF p, q
  <2>2. ToSet(q) = ToSet(p) \cup {a}
    BY <2>1 DEF ToSet
  <2>3. AddrSet(q) = AddrSet(p) \cup {AddrOf[a]}
    BY <2>2, AddrSetIs
  <2> QED BY <1>3, <2>3 DEF p, q
<1> QED BY <1>1, <1>2, <1>3 DEF PoolAdd

LEMMA SnapshotStep ==
    ASSUME rf \in RefreshState, RefreshSnapshot
    PROVE  \/ rf' = NoRefresh /\ sv' \in SaveBegun
           \/ /\ rf'.pc = "update" /\ rf'.list = SnapshotAlive(pool.pool, dead)
              /\ sv' = sv /\ rf.pc = "len"
<1> DEFINE l == SnapshotAlive(pool.pool, dead)
<1>1. \/ rf' = NoRefresh /\ sv' \in SaveBegun
      \/ rf' = [rf EXCEPT !.pc = "update", !.list = l] /\ sv' = sv /\ rf.pc = "len"
  BY DEF RefreshSnapshot
<1> HIDE DEF l
<1>2. ASSUME rf' = [rf EXCEPT !.pc = "update", !.list = l]
      PROVE  rf'.pc = "update" /\ rf'.list = l
  BY <1>2 DEF RefreshState
<1> QED BY <1>1, <1>2 DEF l

(* A list on its way to the rotator is of servers in the pool, unless      *)
(* ReplaceAll has overtaken it.                                            *)
BackedInv ==
    /\ ToSet(rot) \subseteq AddrSet(pool.pool) \/ hc.pc = "update" \/ stale
    /\ hc.pc = "update" => AddrSet(hc.list) \subseteq AddrSet(pool.pool)
    /\ rf.pc = "update" /\ ~rf.late => AddrSet(rf.list) \subseteq AddrSet(pool.pool)

(* Every address in the rotator has a configuration in the pool, but for   *)
(* the two windows between a goroutine's snapshot of the pool and its      *)
(* Update of the rotator.                                                  *)
THEOREM RotatorIsBacked == Spec => []RotatorMatchesPool
<1>1. Init => BackedInv
  BY DEF Init, BackedInv, AddrSet, NewRotator, NoHealth, NoRefresh
<1>2. TypeInv /\ BackedInv /\ [Next]_vars => BackedInv'
  <2> SUFFICES ASSUME TypeInv, BackedInv, [Next]_vars
               PROVE  BackedInv'
    OBVIOUS
  <2> USE DEF BackedInv
  <2>0. hc \in HealthState /\ rf \in RefreshState
    BY DEF TypeInv, HealthInv, RefreshInv
  <2>1. CASE UNCHANGED <<pool, rot, hc, stale>> /\ UNCHANGED rf
    BY <2>1
  <2>2. CASE HealthTick
    BY <2>2 DEF HealthTick
  <2>3. CASE Dial
    <3>1. hc'.pc = hc.pc /\ hc'.list = hc.list
      BY <2>0, <2>3 DEF Dial, DialStart, DialEnd, HealthState
    <3>2. UNCHANGED <<pool, rot, rf, stale>>
      BY <2>3 DEF Dial, DialStart, DialEnd
    <3> QED BY <3>1, <3>2
  <2>4. CASE HealthReplace
    <3>1. hc'.pc = "update" /\ hc'.list = Alive /\ pool'.pool = Alive
      BY <2>4 DEF HealthReplace, NoHealth, NewRotator
    <3>2. rf'.pc = rf.pc /\ (rf.pc = "update" => rf'.late)
      BY <2>0, <2>4 DEF HealthReplace, RefreshState
    <3> QED BY <3>1, <3>2
  <2>5. CASE HealthUpdate
    BY <2>5 DEF HealthUpdate, NoHealth, AddrSet
  <2>6. CASE \E s \in Fetches \cup {<< >>} : RefreshFetch(s)
    BY <2>0, <2>6 DEF RefreshFetch, RefreshState
  <2>7. CASE RefreshLen \/ RefreshGet
    BY <2>0, <2>7 DEF RefreshLen, RefreshGet, RefreshState
  <2>8. CASE RefreshAdd
    <3>1. rf'.pc = "len" /\ UNCHANGED <<hc, rot, stale>>
      BY <2>0, <2>8 DEF RefreshAdd, RefreshState
    <3> QED BY <2>8, <3>1, AddGrows
  <2>9. CASE RefreshSnapshot
    <3>1. UNCHANGED <<pool, hc, rot, stale>>
      BY <2>9 DEF RefreshSnapshot
    <3>2. \/ rf'.pc = "idle"
          \/ rf'.pc = "update" /\ rf'.list = SnapshotAlive(pool.pool, dead)
      BY <2>0, <2>9, SnapshotStep DEF NoRefresh
    <3> QED BY <3>1, <3>2, ListsShrink
  <2>10. CASE RefreshUpdate
    BY <2>10 DEF RefreshUpdate, NoRefresh, AddrSet
  <2>11. CASE SaveNext
    <3>1. pool'.pool = pool.pool
      BY <2>11 DEF SaveNext, Advanced, TypeInv, SharedInv, RotatorState
    <3>2. UNCHANGED <<hc, rf, rot, stale>>
      BY <2>11 DEF SaveNext
    <3> QED BY <3>1, <3>2
  <2>12. CASE SaveTest \/ SaveGet
    BY <2>1, <2>12 DEF SaveTest, SaveGet
  <2>13. CASE \E x \in Blamers : Request(x)
    BY <2>13, RequestEffect
  <2>14. CASE UNCHANGED vars
    BY <2>1, <2>14 DEF vars
  <2> QED BY <2>2, <2>3, <2>4, <2>5, <2>6, <2>7, <2>8, <2>9, <2>10, <2>11, <2>12, <2>13, <2>14
          DEF Next, Health, Refresh, SavePool
<1>3. BackedInv => RotatorMatchesPool
  <2>1. ToSet(rot) \subseteq AddrSet(pool.pool) => Backed
    BY AddrSetIs DEF ToSet, Backed
  <2> QED BY <2>1 DEF BackedInv, RotatorMatchesPool
<1> QED BY <1>1, <1>2, <1>3, TypeInvHolds, PTL DEF Spec

(* After an IP is blacklisted no other port of it comes into circulation:  *)
(* SSPool.Add is the only way in, and every list is taken from another.    *)
THEOREM BlockedHostsStayOut == Spec => NoNewPorts
<1>1. TypeInv /\ [Next]_vars =>
          [\A x \in Circulating' \ Circulating : ~IsBlacklisted(blacklist, x)]_vars
  <2> SUFFICES ASSUME TypeInv, Next
               PROVE  \A x \in Circulating' \ Circulating : ~IsBlacklisted(blacklist, x)
    OBVIOUS
  <2> SUFFICES \/ Circulating' \subseteq Circulating
               \/ \A x \in Circulating' \ Circulating : ~IsBlacklisted(blacklist, x)
    OBVIOUS
  <2>0. hc \in HealthState /\ rf \in RefreshState
    BY DEF TypeInv, HealthInv, RefreshInv
  <2>1. CASE UNCHANGED <<pool, rot, hc, rf>>
    BY <2>1 DEF Circulating
  <2>2. CASE HealthTick
    BY <2>2, ListsShrink DEF AddrSet, HealthTick, Circulating
  <2>3. CASE Dial
    <3>1. hc'.list = hc.list
      BY <2>0, <2>3 DEF Dial, DialStart, DialEnd, HealthState
    <3>2. UNCHANGED <<pool, rot, rf>>
      BY <2>3 DEF Dial, DialStart, DialEnd
    <3> QED BY <3>1, <3>2 DEF Circulating
  <2>4. CASE HealthReplace
    <3>1. hc'.list = Alive /\ pool'.pool = Alive /\ rot' = rot
      BY <2>4 DEF HealthReplace, NoHealth, NewRotator
    <3>2. rf'.pc = rf.pc /\ rf'.list = rf.list
      BY <2>0, <2>4 DEF HealthReplace, RefreshState
    <3> QED BY <3>1, <3>2, ListsShrink DEF AddrSet, Circulating
  <2>5. CASE HealthUpdate
    <3>1. ToSet(SSAddresses(<< >>)) = {}
      BY DEF ToSet, SSAddresses
    <3> QED BY <2>5, <3>1 DEF HealthUpdate, NoHealth, Circulating
  <2>6. CASE \E s \in Fetches \cup {<< >>} : RefreshFetch(s)
    BY <2>0, <2>6 DEF RefreshFetch, RefreshState, Circulating
  <2>7. CASE RefreshLen \/ RefreshGet
    BY <2>0, <2>7 DEF RefreshLen, RefreshGet, RefreshState, Circulating
  <2>8. CASE RefreshAdd
    <3>1. rf'.pc = "len" /\ UNCHANGED <<hc, rot>>
      BY <2>0, <2>8 DEF RefreshAdd, RefreshState
    <3> QED BY <2>8, <3>1, AddGrows DEF AddrSet, Circulating
  <2>9. CASE RefreshSnapshot
    <3>1. UNCHANGED <<pool, hc, rot>>
      BY <2>9 DEF RefreshSnapshot
    <3>2. \/ rf'.pc = "idle"
          \/ rf'.pc = "update" /\ rf'.list = SnapshotAlive(pool.pool, dead)
      BY <2>0, <2>9, SnapshotStep DEF NoRefresh
    <3> QED BY <3>1, <3>2, ListsShrink DEF AddrSet, Circulating
  <2>10. CASE RefreshUpdate
    BY <2>10 DEF RefreshUpdate, NoRefresh, Circulating
  <2>11. CASE SaveNext
    <3>1. pool'.pool = pool.pool
      BY <2>11 DEF SaveNext, Advanced, TypeInv, SharedInv, RotatorState
    <3>2. UNCHANGED <<hc, rf, rot>>
      BY <2>11 DEF SaveNext
    <3> QED BY <3>1, <3>2 DEF Circulating
  <2>12. CASE SaveTest \/ SaveGet
    BY <2>1, <2>12 DEF SaveTest, SaveGet
  <2>13. CASE \E x \in Blamers : Request(x)
    BY <2>13, RequestEffect DEF Circulating
  <2> QED BY <2>2, <2>3, <2>4, <2>5, <2>6, <2>7, <2>8, <2>9, <2>10, <2>11, <2>12, <2>13
          DEF Next, Health, Refresh, SavePool
<1> QED BY <1>1, TypeInvHolds, PTL DEF Spec, NoNewPorts

-----------------------------------------------------------------------------
(* The position k steps after s in a cycle of n.                           *)
StepsFrom(n, s, k) == IF s + k < n THEN s + k ELSE s + k - n

LEMMA StepsFromNext ==
    ASSUME NEW n \in Nat, NEW s \in Nat, NEW k \in Nat, s < n, k < n
    PROVE  /\ StepsFrom(n, s, k) \in 0 .. (n - 1)
           /\ (StepsFrom(n, s, k) + 1) % n = StepsFrom(n, s, k + 1)
<1>1. ASSUME NEW x \in 0 .. (n - 1)
      PROVE  (x + 1) % n = IF x + 1 < n THEN x + 1 ELSE 0
  <2>1. CASE x + 1 < n
    BY <2>1
  <2>2. CASE x + 1 = n
    BY <2>2
  <2> QED BY <2>1, <2>2
<1>2. StepsFrom(n, s, k) \in 0 .. (n - 1)
  BY DEF StepsFrom
<1>3. (StepsFrom(n, s, k) + 1) % n
        = IF StepsFrom(n, s, k) + 1 < n THEN StepsFrom(n, s, k) + 1 ELSE 0
  BY <1>1, <1>2
<1>4. StepsFrom(n, s, k + 1)
        = IF StepsFrom(n, s, k) + 1 < n THEN StepsFrom(n, s, k) + 1 ELSE 0
  BY DEF StepsFrom
<1> QED BY <1>2, <1>3, <1>4

(* A walk of n steps meets every position once: the j-th at this step.     *)
StepAt(n, s, j) == IF j > s THEN j - s ELSE j - s + n

LEMMA StepsFromMeets ==
    ASSUME NEW n \in Nat, NEW s \in Nat, s < n, NEW j \in 1 .. n
    PROVE  /\ StepAt(n, s, j) \in 1 .. n
           /\ \A k \in 1 .. n : StepsFrom(n, s, k - 1) + 1 = j <=> k = StepAt(n, s, j)
<1>1. CASE j > s
  BY <1>1 DEF StepsFrom, StepAt
<1>2. CASE j <= s
  BY <1>2 DEF StepsFrom, StepAt
<1> QED BY <1>1, <1>2

(* The lines written so far, from the index s the save began at.           *)
WrittenFrom(s) ==
    /\ s < Len(pool.pool) \/ s = 0
    /\ pool.index = StepsFrom(Len(pool.pool), s, sv.i)
    /\ \A k \in 1 .. Len(sv.lines) :
          sv.lines[k] = pool.pool[StepsFrom(Len(pool.pool), s, k - 1) + 1]

Written ==
    /\ sv.i <= Len(pool.pool)
    /\ sv.pc \in {"get", "next"} => sv.i < Len(pool.pool)
    /\ Len(sv.lines) = IF sv.pc = "next" THEN sv.i + 1 ELSE sv.i
    /\ \E s \in Nat : WrittenFrom(s)

(* No list holds a server twice, and the pool grows only between saves.    *)
ListsInv ==
    /\ NoDuplicates(pool.pool) /\ NoDuplicates(hc.list)
    /\ sv.pc # "off" => rf.pc = "idle"

SaveInv == sv.pc # "off" /\ ~sv.disturbed => Written

LEMMA SaveBegins ==
    ASSUME SharedInv', sv' \in SaveBegun
    PROVE  SaveInv'
<1>1. /\ pool'.pool \in Seq(Server) /\ pool'.index \in Nat
      /\ pool'.index < Len(pool'.pool) \/ (pool'.index = 0 /\ pool'.pool = << >>)
  BY DEF SharedInv, RotatorState, InRange, Empty
<1>2. PICK x \in Nat, n \in Nat : x = pool'.index /\ n = Len(pool'.pool)
  BY <1>1
<1>3. Len(<< >>) = 0
  OBVIOUS
<1>4. x < n \/ (x = 0 /\ n = 0)
  BY <1>1, <1>2, <1>3
<1>5. StepsFrom(n, x, 0) = x
  BY <1>4 DEF StepsFrom
<1>6. sv'.i = 0 /\ sv'.lines = << >> /\ Len(sv'.lines) = 0 /\ sv'.pc \in {"off", "test"}
  BY SaveBegunType, <1>3
<1>7. WrittenFrom(x)'
  BY <1>2, <1>4, <1>5, <1>6 DEF WrittenFrom
<1>8. 0 <= n
  OBVIOUS
<1>9. Written'
  BY <1>2, <1>6, <1>7, <1>8 DEF Written
<1> QED BY <1>9 DEF SaveInv

(* The steps of a save that nothing has disturbed.                         *)
LEMMA SaveSteps ==
    ASSUME TypeInv, SaveInv, SavePool
    PROVE  SaveInv'
<1>0. /\ sv \in SaveState /\ sv.i \in Nat /\ sv.lines \in Seq(Server)
      /\ pool \in RotatorState(Server) /\ pool.pool \in Seq(Server) /\ pool.index \in Nat
      /\ InRange(pool)
  BY DEF TypeInv, SharedInv, SaveState, RotatorState
<1>1. sv.pc # "off" /\ (sv'.pc # "off" => sv'.disturbed = sv.disturbed)
  <2>1. CASE SaveTest
    BY <1>0, <2>1 DEF SaveTest, NoSave, SaveState
  <2>2. CASE SaveGet
    BY <1>0, <2>2 DEF SaveGet, SaveState
  <2>3. CASE SaveNext
    BY <1>0, <2>3 DEF SaveNext, SaveState
  <2> QED BY <2>1, <2>2, <2>3 DEF SavePool
<1> SUFFICES ASSUME ~sv.disturbed, sv'.pc # "off"
             PROVE  Written'
  BY <1>1 DEF SaveInv
<1>2. Written
  BY <1>1 DEF SaveInv
<1> DEFINE n == Len(pool.pool)
<1>3. PICK s \in Nat : WrittenFrom(s)
  BY <1>2 DEF Written
<1>4. n \in Nat /\ sv.i <= n
  BY <1>0, <1>2 DEF Written
<1>5. CASE SaveTest
  <2>1. sv.i < n /\ sv.pc = "test" /\ sv' = [sv EXCEPT !.pc = "get"] /\ pool' = pool
    BY <1>5 DEF SaveTest, NoSave
  <2>2. sv'.pc = "get" /\ sv'.i = sv.i /\ sv'.lines = sv.lines
    BY <1>0, <2>1 DEF SaveState
  <2>3. WrittenFrom(s)'
    BY <1>3, <2>1, <2>2 DEF WrittenFrom
  <2> QED BY <1>2, <2>1, <2>2, <2>3 DEF Written
<1>6. CASE SaveGet
  <2>1. sv.pc = "get" /\ sv.i < n /\ Len(sv.lines) = sv.i
    BY <1>2, <1>6 DEF SaveGet, Written
  <2>2. ~Empty(pool)
    <3>1. Len(<< >>) = 0
      OBVIOUS
    <3> QED BY <1>0, <1>4, <2>1, <3>1 DEF Empty
  <2> DEFINE c == pool.pool[pool.index + 1]
             l == Append(sv.lines, c)
  <2>3. sv' = [sv EXCEPT !.pc = "next", !.lines = l] /\ pool' = pool
    BY <1>6, <2>2 DEF SaveGet, CurrentOf
  <2>4. c \in Server
    BY <1>0, <2>2, CurrentOfType DEF CurrentOf
  <2>5. c = pool.pool[StepsFrom(n, s, sv.i) + 1]
    BY <1>3 DEF WrittenFrom
  <2> HIDE DEF c
  <2>6. /\ l \in Seq(Server) /\ Len(l) = sv.i + 1 /\ l[sv.i + 1] = c
        /\ \A k \in 1 .. sv.i : l[k] = sv.lines[k]
    BY <1>0, <2>1, <2>4
  <2> HIDE DEF l
  <2>7. sv'.pc = "next" /\ sv'.i = sv.i /\ sv'.lines = l
    BY <1>0, <2>3 DEF SaveState
  <2>8. ASSUME NEW k \in 1 .. Len(l)
        PROVE  l[k] = pool.pool[StepsFrom(n, s, k - 1) + 1]
    <3>1. CASE k <= sv.i
      <4>1. k \in 1 .. Len(sv.lines)
        BY <1>0, <2>1, <2>6, <3>1
      <4> QED BY <1>3, <2>1, <2>6, <4>1 DEF WrittenFrom
    <3>2. CASE k = sv.i + 1
      <4>1. k - 1 = sv.i
        BY <1>0, <3>2
      <4> QED BY <2>5, <2>6, <3>2, <4>1
    <3> QED BY <1>0, <2>6, <3>1, <3>2
  <2>9. WrittenFrom(s)'
    BY <1>3, <2>3, <2>7, <2>8 DEF WrittenFrom
  <2> QED BY <1>4, <2>1, <2>3, <2>6, <2>7, <2>9 DEF Written
<1>7. CASE SaveNext
  <2>1. sv.pc = "next" /\ sv.i < n /\ Len(sv.lines) = sv.i + 1
    BY <1>2, <1>7 DEF SaveNext, Written
  <2>2. ~Empty(pool) /\ n # 0
    <3>1. Len(<< >>) = 0
      OBVIOUS
    <3> QED BY <1>0, <1>4, <2>1, <3>1 DEF Empty
  <2>3. s < n
    BY <1>3, <1>4, <2>2 DEF WrittenFrom
  <2>4. pool'.pool = pool.pool /\ pool'.index = (pool.index + 1) % n
    BY <1>0, <1>7, <2>2 DEF SaveNext, Advanced, RotatorState
  <2>5. pool'.index = StepsFrom(n, s, sv.i + 1)
    <3>1. pool.index = StepsFrom(n, s, sv.i)
      BY <1>3 DEF WrittenFrom
    <3>2. (StepsFrom(n, s, sv.i) + 1) % n = StepsFrom(n, s, sv.i + 1)
      <4> HIDE DEF n
      <4> QED BY <1>0, <1>4, <2>1, <2>3, StepsFromNext
    <3> QED BY <2>4, <3>1, <3>2
  <2> DEFINE m == sv.i + 1
  <2>6. m \in Nat /\ m <= n
    BY <1>0, <1>4, <2>1
  <2>7. sv' = [sv EXCEPT !.pc = "test", !.i = m]
    BY <1>7 DEF SaveNext
  <2> HIDE DEF m
  <2>8. sv'.pc = "test" /\ sv'.i = m /\ sv'.lines = sv.lines
    BY <1>0, <2>6, <2>7 DEF SaveState
  <2>9. WrittenFrom(s)'
    BY <1>3, <2>4, <2>5, <2>8 DEF WrittenFrom, m
  <2> QED BY <2>1, <2>4, <2>6, <2>8, <2>9 DEF Written, m
<1> QED BY <1>5, <1>6, <1>7 DEF SavePool

LEMMA ListsNoDuplicates ==
    ASSUME TypeInv, ListsInv
    PROVE  /\ NoDuplicates(SnapshotAlive(pool.pool, dead))
           /\ NoDuplicates(Alive)
<1>1. pool.pool \in Seq(Server) /\ hc.list \in Seq(Server)
  BY DEF TypeInv, SharedInv, HealthInv, HealthState, RotatorState
<1>2. NoDuplicates(pool.pool) /\ NoDuplicates(hc.list)
  BY DEF ListsInv
<1> QED BY <1>1, <1>2, KeptNoDuplicates DEF SnapshotAlive, Reachable, Alive

LEMMA ListsKeep ==
    ASSUME TypeInv, ListsInv, [Next]_vars
    PROVE  ListsInv'
<1>0. /\ hc \in HealthState /\ rf \in RefreshState /\ sv \in SaveState
      /\ pool \in RotatorState(Server) /\ pool.pool \in Seq(Server)
  BY DEF TypeInv, SharedInv, HealthInv, RefreshInv, RotatorState
<1>1. CASE UNCHANGED <<pool, hc, rf, sv>>
  BY <1>1 DEF ListsInv
<1>2. CASE HealthTick
  <2>1. hc'.list = SnapshotAlive(pool.pool, dead) /\ UNCHANGED <<pool, rf, sv>>
    BY <1>2 DEF HealthTick
  <2> QED BY <2>1, ListsNoDuplicates DEF ListsInv
<1>3. CASE Dial
  <2>1. hc'.list = hc.list
    BY <1>0, <1>3 DEF Dial, DialStart, DialEnd, HealthState
  <2>2. UNCHANGED <<pool, rf, sv>>
    BY <1>3 DEF Dial, DialStart, DialEnd
  <2> QED BY <2>1, <2>2 DEF ListsInv
<1>4. CASE HealthReplace
  <2>1. hc'.list = Alive /\ pool'.pool = Alive
    BY <1>4 DEF HealthReplace, NoHealth, NewRotator
  <2>2. rf'.pc = rf.pc /\ sv'.pc = sv.pc
    BY <1>0, <1>4 DEF HealthReplace, RefreshState, SaveState
  <2> QED BY <2>1, <2>2, ListsNoDuplicates DEF ListsInv
<1>5. CASE HealthUpdate
  <2>1. NoDuplicates(<< >>)
    BY DEF NoDuplicates
  <2> QED BY <1>5, <2>1 DEF HealthUpdate, NoHealth, ListsInv
<1>6. CASE (\E s \in Fetches \cup {<< >>} : RefreshFetch(s)) \/ RefreshLen \/ RefreshGet
  BY <1>6 DEF RefreshFetch, RefreshLen, RefreshGet, ListsInv
<1>7. CASE RefreshAdd
  <2> DEFINE a == Head(rf.list)
  <2>1. a \in Server /\ pool'.pool = PoolAdd(pool.pool, blacklist, a)
    BY <1>7, AddTypes
  <2> HIDE DEF a
  <2>2. NoDuplicates(pool'.pool)
    BY <1>0, <2>1, PoolAddNoDuplicates DEF ListsInv
  <2>3. UNCHANGED <<hc, sv>> /\ rf.pc = "add"
    BY <1>7 DEF RefreshAdd
  <2> QED BY <2>2, <2>3 DEF ListsInv
<1>8. CASE RefreshSnapshot
  <2>1. UNCHANGED <<pool, hc>>
    BY <1>8 DEF RefreshSnapshot
  <2> QED BY <1>0, <1>8, <2>1, SnapshotStep DEF ListsInv, NoRefresh
<1>9. CASE RefreshUpdate
  BY <1>9 DEF RefreshUpdate, NoRefresh, ListsInv
<1>10. CASE SavePool
  <2>1. pool'.pool = pool.pool /\ UNCHANGED <<hc, rf>>
    BY <1>0, <1>10 DEF SavePool, SaveTest, SaveGet, SaveNext, Advanced, RotatorState
  <2>2. sv.pc # "off"
    BY <1>10 DEF SavePool, SaveTest, SaveGet, SaveNext
  <2> QED BY <2>1, <2>2 DEF ListsInv
<1>11. CASE \E x \in Blamers : Request(x)
  BY <1>1, <1>11, RequestEffect
<1>12. CASE UNCHANGED vars
  BY <1>1, <1>12 DEF vars
<1> QED BY <1>2, <1>3, <1>4, <1>5, <1>6, <1>7, <1>8, <1>9, <1>10, <1>11, <1>12
        DEF Next, Health, Refresh

LEMMA SaveKeeps ==
    ASSUME TypeInv, ListsInv, SaveInv, [Next]_vars
    PROVE  SaveInv'
<1>0. rf \in RefreshState /\ sv \in SaveState /\ SharedInv'
  BY SharedTypes DEF TypeInv, RefreshInv
<1>1. CASE UNCHANGED <<pool, sv>>
  BY <1>1 DEF SaveInv, Written, WrittenFrom
<1>2. CASE sv.pc = "off" /\ UNCHANGED sv
  BY <1>2 DEF SaveInv
<1>3. CASE sv' \in SaveBegun
  BY <1>0, <1>3, SaveBegins
<1>4. CASE HealthReplace
  <2>1. sv'.pc = sv.pc /\ (sv.pc # "off" => sv'.disturbed)
    BY <1>0, <1>4 DEF HealthReplace, SaveState
  <2> QED BY <2>1 DEF SaveInv
<1>5. CASE HealthTick \/ Dial \/ HealthUpdate
  BY <1>1, <1>5 DEF HealthTick, Dial, DialStart, DialEnd, HealthUpdate
<1>6. CASE (\E s \in Fetches \cup {<< >>} : RefreshFetch(s)) \/ RefreshLen \/ RefreshGet
  BY <1>1, <1>6 DEF RefreshFetch, RefreshLen, RefreshGet
<1>7. CASE RefreshAdd
  BY <1>2, <1>7 DEF RefreshAdd, ListsInv
<1>8. CASE RefreshSnapshot
  BY <1>0, <1>1, <1>3, <1>8, SnapshotStep DEF RefreshSnapshot
<1>9. CASE RefreshUpdate
  BY <1>3, <1>9 DEF RefreshUpdate
<1>10. CASE SavePool
  BY <1>10, SaveSteps
<1>11. CASE \E x \in Blamers : Request(x)
  BY <1>1, <1>11, RequestEffect
<1>12. CASE UNCHANGED vars
  BY <1>1, <1>12 DEF vars
<1> QED BY <1>4, <1>5, <1>6, <1>7, <1>8, <1>9, <1>10, <1>11, <1>12 DEF Next, Health, Refresh

(* What a walk of n steps through a pool of n servers has written.         *)
LEMMA WrittenOnce ==
    ASSUME TypeInv, ListsInv, Written, sv.pc = "test", ~(sv.i < Len(pool.pool)), NEW a
    PROVE  Occurrences(sv.lines, a) = IF Contains(pool.pool, a) THEN 1 ELSE 0
<1> DEFINE p == pool.pool
           n == Len(p)
           K == {k \in DOMAIN sv.lines : sv.lines[k] = a}
<1>0. p \in Seq(Server) /\ n \in Nat /\ sv.i \in Nat /\ sv.lines \in Seq(Server)
  BY DEF TypeInv, SharedInv, SaveState, RotatorState
<1>1. sv.i = n /\ Len(sv.lines) = n /\ DOMAIN sv.lines = 1 .. n
  BY <1>0 DEF Written
<1>2. PICK s \in Nat : WrittenFrom(s)
  BY DEF Written
<1>3. (s < n \/ s = 0) /\ \A k \in 1 .. n : sv.lines[k] = p[StepsFrom(n, s, k - 1) + 1]
  BY <1>1, <1>2 DEF WrittenFrom
<1>4. NoDuplicates(p) /\ DOMAIN p = 1 .. n
  BY <1>0 DEF ListsInv
<1> HIDE DEF n, p
<1>5. ASSUME NEW k \in 1 .. n
      PROVE  s < n /\ StepsFrom(n, s, k - 1) + 1 \in 1 .. n
  <2>1. s < n /\ k - 1 \in Nat /\ k - 1 < n
    BY <1>0, <1>3
  <2>2. StepsFrom(n, s, k - 1) \in 0 .. (n - 1)
    BY <1>0, <2>1, StepsFromNext
  <2> QED BY <1>0, <2>1, <2>2
<1>6. CASE Contains(p, a)
  <2>1. PICK j \in 1 .. n : p[j] = a
    BY <1>6 DEF Contains, n
  <2>2. s < n
    BY <1>5, <2>1
  <2> DEFINE m == StepAt(n, s, j)
  <2>3. m \in 1 .. n /\ \A k \in 1 .. n : StepsFrom(n, s, k - 1) + 1 = j <=> k = m
    BY <1>0, <2>2, StepsFromMeets
  <2> HIDE DEF m
  <2>4. \A k \in 1 .. n : sv.lines[k] = a <=> k = m
    BY <1>3, <1>4, <1>5, <2>1, <2>3 DEF NoDuplicates
  <2>5. K = {m}
    BY <1>1, <2>3, <2>4
  <2>6. Cardinality(K) = 1
    BY <2>5, FS_Singleton
  <2> QED BY <1>6, <2>6 DEF Occurrences, p
<1>7. CASE ~Contains(p, a)
  <2>1. \A k \in 1 .. n : sv.lines[k] # a
    BY <1>3, <1>5, <1>7 DEF Contains, n
  <2>2. K = {}
    BY <1>1, <2>1
  <2>3. Cardinality(K) = 0
    BY <2>2, FS_EmptySet
  <2> QED BY <1>7, <2>3 DEF Occurrences, p
<1> QED BY <1>6, <1>7

(* A save of savePoolToFile that no ReplaceAll disturbs writes every       *)
(* server of the pool exactly once: whatever index an earlier save left    *)
(* behind, and whatever requests and dials do meanwhile.                   *)
THEOREM SavesAreComplete == Spec => SaveIsComplete
<1>1. Init => ListsInv /\ SaveInv
  <2> SUFFICES ASSUME Init PROVE ListsInv /\ SaveInv
    OBVIOUS
  <2>1. NoDuplicates(InitServers) /\ NoDuplicates(<< >>)
    BY UpkeepAssumption DEF IsInjective, NoDuplicates
  <2>2. pool.pool = InitServers /\ pool.index = 0 /\ hc.list = << >> /\ rf.pc = "idle"
    BY DEF Init, NewRotator, NoHealth, NoRefresh
  <2>3. ListsInv
    BY <2>1, <2>2 DEF ListsInv
  <2>4. ASSUME sv = NoSave PROVE SaveInv
    BY <2>4 DEF NoSave, SaveInv
  <2>5. ASSUME sv \in SaveBegun PROVE SaveInv
    <3>1. sv.i = 0 /\ sv.lines = << >> /\ sv.pc \in {"off", "test"} /\ Len(<< >>) = 0
      BY <2>5, SaveBegunType
    <3>2. Len(pool.pool) \in Nat
      BY <2>2, UpkeepAssumption
    <3>3. StepsFrom(Len(pool.pool), 0, 0) = 0
      BY <3>2 DEF StepsFrom
    <3>4. WrittenFrom(0)
      BY <2>2, <3>1, <3>3 DEF WrittenFrom
    <3>5. Written
      BY <3>1, <3>2, <3>4 DEF Written
    <3> QED BY <3>5 DEF SaveInv
  <2> QED BY <2>3, <2>4, <2>5 DEF Init
<1>2. TypeInv /\ ListsInv /\ SaveInv /\ [Next]_vars => ListsInv' /\ SaveInv'
  BY ListsKeep, SaveKeeps
<1>3. TypeInv /\ ListsInv /\ SaveInv /\ [Next]_vars =>
          [sv.pc = "test" /\ sv'.pc = "off" /\ ~sv.disturbed => SavedOnce]_vars
  <2> SUFFICES ASSUME TypeInv, ListsInv, SaveInv, Next,
                      sv.pc = "test", sv'.pc = "off", ~sv.disturbed, NEW x \in Server
               PROVE  Occurrences(sv.lines, x) = IF Contains(pool.pool, x) THEN 1 ELSE 0
    BY DEF SavedOnce
  <2>0. sv \in SaveState /\ rf.pc = "idle"
    BY DEF TypeInv, ListsInv
  <2>1. Written
    BY DEF SaveInv
  <2>2. CASE SaveTest
    <3>1. ~(sv.i < Len(pool.pool))
      BY <2>0, <2>2 DEF SaveTest, SaveState
    <3> QED BY <2>1, <3>1, WrittenOnce
  <2>3. CASE UNCHANGED sv
    BY <2>3
  <2>4. CASE HealthReplace
    BY <2>0, <2>4 DEF HealthReplace, SaveState
  <2>5. CASE HealthTick \/ Dial \/ HealthUpdate
    BY <2>3, <2>5 DEF HealthTick, Dial, DialStart, DialEnd, HealthUpdate
  <2>6. CASE \E s \in Fetches \cup {<< >>} : RefreshFetch(s)
    BY <2>3, <2>6 DEF RefreshFetch
  <2>7. CASE Refresh
    BY <2>0, <2>7 DEF Refresh, RefreshLen, RefreshGet, RefreshAdd, RefreshSnapshot, RefreshUpdate
  <2>8. CASE SaveGet \/ SaveNext
    BY <2>8 DEF SaveGet, SaveNext
  <2>9. CASE \E y \in Blamers : Request(y)
    BY <2>3, <2>9, RequestEffect
  <2> QED BY <2>2, <2>4, <2>5, <2>6, <2>7, <2>8, <2>9 DEF Next, Health, SavePool
<1> QED BY <1>1, <1>2, <1>3, TypeInvHolds, PTL DEF Spec, SaveIsComplete

=============================================================================
