------------------------- MODULE ChatServerProofs -------------------------
(***************************************************************************)
(* Theorems about module ChatServer, for every set of requests, addresses  *)
(* and responses and every number of retries.                              *)
(***************************************************************************)
EXTENDS ChatServer, UpstreamsProofs

(* What forwardRequest and customDo choose is a way to send.               *)
LEMMA RouteType ==
    ASSUME TypeOK PROVE Route \in Via
<1>1. SelectBest(UserProxies, routerAlive, blacklist) \in Addr \cup {NoAddr}
  BY ChatAssumption, SelectBestType
<1>2. ~Empty(rot) => CurrentOf(rot) \in Addr
  BY CurrentOfType DEF TypeOK
<1> QED BY <1>1, <1>2 DEF Route, Via

(* The records the steps of a request are built from.                      *)
LEMMA RecordTypes ==
    ASSUME TypeOK, NEW q \in Requests
    PROVE  /\ req[q] \in RequestState
           /\ Fresh \in RequestState
           /\ Again(q) \in RequestState
           /\ \A h \in Phases : Enter(q, h) \in RequestState
<1>1. req[q] \in RequestState
  BY DEF TypeOK
<1>2. Fresh \in RequestState
  BY DEF Fresh, RequestState, Direct, Via, Phases, Outcomes
<1>3. Again(q) \in RequestState
  <2>1. req[q].n + 1 \in Nat
    BY <1>1 DEF RequestState
  <2> DEFINE k == req[q].n + 1
  <2>2. Again(q) = [req[q] EXCEPT !.pc = "top", !.n = k]
    BY DEF Again
  <2>3. k \in Nat
    BY <2>1
  <2> HIDE DEF k
  <2> QED BY <1>1, <2>2, <2>3 DEF RequestState
<1>4. \A h \in Phases : Enter(q, h) \in RequestState
  BY <1>1 DEF RequestState, Enter
<1> QED BY <1>1, <1>2, <1>3, <1>4

(* Replacing one request by a well-formed one keeps the type of all.       *)
LEMMA MoveType ==
    ASSUME TypeOK, NEW q \in Requests, NEW r \in RequestState, Move(q, r)
    PROVE  req' \in [Requests -> RequestState] /\ sem' \in Int
BY DEF TypeOK, Move

LEMMA FinishType ==
    ASSUME TypeOK, NEW q \in Requests, NEW what \in Outcomes, Finish(q, what)
    PROVE  req' \in [Requests -> RequestState] /\ sem' \in Int
<1>1. req[q] \in RequestState
  BY DEF TypeOK
<1>2. Returned(req[q], what) \in RequestState
  BY <1>1 DEF Returned, RequestState, Via
<1> QED BY <1>2 DEF TypeOK, Finish

-----------------------------------------------------------------------------
(* TypeOK, split into what the steps of a request and what the shared      *)
(* lists contribute.                                                       *)
ReqOK == req \in [Requests -> RequestState] /\ sem \in Int

JwtOK ==
    jwt \in [cached : BOOLEAN, holder : Requests \cup {NoRequest}, used : SUBSET Requests]

RotOK == rot \in RotatorState(Addr) /\ InRange(rot)

ListsOK ==
    /\ servers \in Seq(Server)
    /\ dead \subseteq Addr /\ routerAlive \subseteq Addr
    /\ blacklist \subseteq IP /\ guilty \subseteq IP

BackOK ==
    /\ hc \in GoroutineState({"idle", "dial", "update"})
    /\ rf \in GoroutineState({"idle", "add", "snap", "update"})
    /\ rf.pc = "add" => rf.list # << >>

LEMMA TypeSplit == TypeOK <=> ReqOK /\ JwtOK /\ RotOK /\ ListsOK /\ BackOK
BY DEF TypeOK, ReqOK, JwtOK, RotOK, ListsOK, BackOK

LEMMA TypeSplitPrime ==
    TypeOK' <=> ReqOK' /\ JwtOK' /\ RotOK' /\ ListsOK' /\ BackOK'
BY DEF TypeOK, ReqOK, JwtOK, RotOK, ListsOK, BackOK

(* The rotator after each of its operations.                               *)
LEMMA RotTypes ==
    ASSUME TypeOK
    PROVE  /\ Advanced(rot) \in RotatorState(Addr) /\ InRange(Advanced(rot))
           /\ RemovedCurrent(rot) \in RotatorState(Addr) /\ InRange(RemovedCurrent(rot))
           /\ \A a : Removed(rot, a) \in RotatorState(Addr) /\ InRange(Removed(rot, a))
           /\ \A p \in Seq(Addr) : Updated(rot, p) \in RotatorState(Addr)
                                   /\ InRange(Updated(rot, p))
           /\ CurrentOf(rot) \in Addr \cup {NoAddr}
           /\ ~Empty(rot) => CurrentOf(rot) \in Addr
<1>1. rot \in RotatorState(Addr) /\ InRange(rot)
  BY DEF TypeOK
<1>2. Advanced(rot) \in RotatorState(Addr) /\ InRange(Advanced(rot))
  BY <1>1, AdvancedType
<1>3. RemovedCurrent(rot) \in RotatorState(Addr) /\ InRange(RemovedCurrent(rot))
  BY <1>1, RemovedCurrentType
<1>4. \A a : Removed(rot, a) \in RotatorState(Addr) /\ InRange(Removed(rot, a))
  BY <1>1, RemovedType
<1>5. \A p \in Seq(Addr) : Updated(rot, p) \in RotatorState(Addr) /\ InRange(Updated(rot, p))
  BY NewRotatorType DEF Updated
<1>6. /\ CurrentOf(rot) \in Addr \cup {NoAddr}
      /\ ~Empty(rot) => CurrentOf(rot) \in Addr
  BY <1>1, CurrentOfType
<1> QED BY <1>2, <1>3, <1>4, <1>5, <1>6

(* Blaming, accusing and marking keep the lists well-formed.               *)
LEMMA BlameType ==
    ASSUME TypeOK, NEW q \in Requests, Blame, Accuse(q)
    PROVE  RotOK' /\ ListsOK'
<1>1. RotOK'
  BY RotTypes DEF Blame, RotOK
<1>2. dead' \subseteq Addr
  BY RotTypes DEF Blame, TypeOK
<1>3. blacklist' \subseteq IP
  <2>1. CASE Empty(rot)
    BY <2>1 DEF Blame, TypeOK
  <2>2. CASE ~Empty(rot)
    <3>1. blacklist \in SUBSET IP /\ CurrentOf(rot) \in Addr
      BY <2>2, RotTypes DEF TypeOK
    <3> QED BY <2>2, <3>1, BlacklistingType, ChatAssumption DEF Blame
  <2> QED BY <2>1, <2>2
<1>4. guilty' \subseteq IP
  <2>1. guilty \in SUBSET IP /\ req[q].via \in Via
    BY DEF TypeOK, RequestState
  <2>2. CASE req[q].via = Direct
    BY <2>1, <2>2 DEF Accuse, Direct
  <2>3. CASE req[q].via \in [kind : {"router", "ss"}, addr : Addr]
    BY <2>1, <2>3, BlacklistingType, ChatAssumption DEF Accuse
  <2> QED BY <2>1, <2>2, <2>3 DEF Via
<1> QED BY <1>1, <1>2, <1>3, <1>4 DEF Blame, ListsOK, TypeOK

LEMMA MarkAddrDeadType ==
    ASSUME TypeOK, NEW a \in Addr \cup {NoAddr}, MarkAddrDead(a)
    PROVE  dead' \subseteq Addr /\ routerAlive' \subseteq Addr
BY DEF MarkAddrDead, TypeOK

-----------------------------------------------------------------------------
LEMMA InitType == Init => TypeOK
<1> SUFFICES ASSUME Init PROVE TypeOK
  OBVIOUS
<1>1. ReqOK
  <2>1. Fresh \in RequestState
    BY DEF Fresh, RequestState, Direct, Via, Phases, Outcomes
  <2> QED BY <2>1 DEF Init, ReqOK
<1>2. JwtOK
  BY DEF Init, JwtOK
<1>3. RotOK
  <2>1. SSAddresses(InitServers) \in Seq(Addr)
    BY ChatAssumption, SSAddressesType
  <2> QED BY <2>1, NewRotatorType DEF Init, RotOK
<1>4. ListsOK
  BY ChatAssumption DEF Init, ListsOK
<1>5. BackOK
  BY DEF Init, BackOK, GoroutineState
<1> QED BY <1>1, <1>2, <1>3, <1>4, <1>5, TypeSplit

(* Arrivals.                                                               *)
LEMMA ArriveType ==
    ASSUME TypeOK, NEW q \in Requests, Arrive(q)
    PROVE  TypeOK'
<1> USE DEF shared, background
<1>0. Fresh \in RequestState
  BY RecordTypes
<1>1. ASSUME NEW what \in Outcomes, Turned(q, what) PROVE TypeOK'
  <2>1. [Fresh EXCEPT !.pc = "done", !.out = what] \in RequestState
    BY <1>0 DEF RequestState
  <2>2. ReqOK'
    BY <1>1, <2>1 DEF Turned, TypeOK, ReqOK
  <2> QED
    BY <1>1, <2>2, TypeSplit, TypeSplitPrime
    DEF Turned, JwtOK, RotOK, ListsOK, BackOK
<1>2. ASSUME Accept(q) PROVE TypeOK'
  <2>1. [Fresh EXCEPT !.pc = "body"] \in RequestState
    BY <1>0 DEF RequestState
  <2>2. sem' \in Int
    BY <1>2 DEF Accept, TypeOK
  <2>3. ReqOK'
    BY <1>2, <2>1, <2>2 DEF Accept, TypeOK, ReqOK
  <2> QED
    BY <1>2, <2>3, TypeSplit, TypeSplitPrime
    DEF Accept, JwtOK, RotOK, ListsOK, BackOK
<1> QED
  BY <1>1, <1>2
  DEF Arrive, RejectedByRateLimiter, RejectedBySemaphore, Outcomes

(* The client's body.                                                      *)
LEMMA BodyType ==
    ASSUME TypeOK, NEW q \in Requests, Body(q)
    PROVE  TypeOK'
<1> USE DEF shared, background
<1>1. Fresh \in RequestState /\ "badrequest" \in Outcomes
  BY RecordTypes DEF Outcomes
<1>2. ASSUME NEW isStream \in BOOLEAN, ReadBody(q, isStream) PROVE TypeOK'
  <2>1. [Fresh EXCEPT !.pc = "get", !.stream = isStream] \in RequestState
    BY <1>1 DEF RequestState
  <2>2. ReqOK'
    BY <1>2, <2>1, MoveType DEF ReadBody, ReqOK
  <2> QED
    BY <1>2, <2>2, TypeSplit, TypeSplitPrime
    DEF ReadBody, JwtOK, RotOK, ListsOK, BackOK
<1>3. CASE BadBody(q)
  <2>1. ReqOK'
    BY <1>1, <1>3, FinishType DEF BadBody, ReqOK
  <2> QED
    BY <1>3, <2>1, TypeSplit, TypeSplitPrime
    DEF BadBody, JwtOK, RotOK, ListsOK, BackOK
<1> QED BY <1>2, <1>3 DEF Body

(* The steps at the JWT manager's mutex, and its fetches.                  *)
LEMMA TokenForType ==
    ASSUME TypeOK, NEW q \in Requests, NEW seen \in BOOLEAN, TokenFor(q, seen)
    PROVE  ReqOK'
<1> DEFINE r == [req[q] EXCEPT !.again = seen]
           t == CASE r.phase = "jwt"  -> [r EXCEPT !.pc = "fwd", !.phase = "send", !.n = 0]
                  [] r.phase = "h403" -> [r EXCEPT !.pc = "rotate"]
                  [] OTHER            -> [r EXCEPT !.pc = "fwd"]
<1>1. r \in RequestState
  BY RecordTypes DEF RequestState
<1> HIDE DEF r
<1>2. /\ [r EXCEPT !.pc = "fwd", !.phase = "send", !.n = 0] \in RequestState
      /\ [r EXCEPT !.pc = "rotate"] \in RequestState
      /\ [r EXCEPT !.pc = "fwd"] \in RequestState
  BY <1>1 DEF RequestState, Phases
<1>3. t \in RequestState
  BY <1>2
<1>4. Move(q, t)
  BY DEF TokenFor, r
<1> HIDE DEF t
<1> QED BY <1>3, <1>4, MoveType DEF ReqOK

LEMMA JWTType ==
    ASSUME TypeOK, NEW q \in Requests,
           \/ GetCached(q) \/ GetFetches(q) \/ Invalidate(q)
           \/ FetchOK(q) \/ FetchFails(q) \/ FetchBanned(q)
    PROVE  TypeOK'
<1> USE DEF shared, background
<1>0. req[q] \in RequestState /\ JwtOK
  BY RecordTypes, TypeSplit
<1>1. CASE GetCached(q)
  <2>1. (q \in jwt.used) \in BOOLEAN
    OBVIOUS
  <2>2. ReqOK'
    BY <1>1, <2>1, TokenForType DEF GetCached
  <2>3. JwtOK'
    BY <1>0, <1>1 DEF GetCached, JwtOK
  <2> QED
    BY <1>1, <2>2, <2>3, TypeSplit, TypeSplitPrime DEF GetCached, RotOK, ListsOK, BackOK
<1>2. CASE GetFetches(q)
  <2>1. [req[q] EXCEPT !.pc = "fetch", !.via = Route] \in RequestState
    BY <1>0, RouteType DEF RequestState
  <2>2. ReqOK'
    BY <1>2, <2>1, MoveType DEF GetFetches, ReqOK
  <2>3. JwtOK'
    BY <1>0, <1>2 DEF GetFetches, JwtOK
  <2> QED
    BY <1>2, <2>2, <2>3, TypeSplit, TypeSplitPrime DEF GetFetches, RotOK, ListsOK, BackOK
<1>3. CASE Invalidate(q)
  <2>1. [req[q] EXCEPT !.pc = "get"] \in RequestState /\ "unauthorized" \in Outcomes
    BY <1>0 DEF RequestState, Outcomes
  <2>2. ReqOK'
    BY <1>3, <2>1, MoveType, FinishType DEF Invalidate, ReqOK
  <2>3. JwtOK'
    BY <1>0, <1>3 DEF Invalidate, JwtOK
  <2> QED
    BY <1>3, <2>2, <2>3, TypeSplit, TypeSplitPrime DEF Invalidate, RotOK, ListsOK, BackOK
<1>4. CASE FetchOK(q)
  <2>1. ReqOK'
    BY <1>4, TokenForType DEF FetchOK
  <2>2. JwtOK'
    BY <1>4 DEF FetchOK, JwtOK
  <2> QED
    BY <1>4, <2>1, <2>2, TypeSplit, TypeSplitPrime DEF FetchOK, RotOK, ListsOK, BackOK
<1>5. [req[q] EXCEPT !.pc = "jwterr"] \in RequestState
  BY <1>0 DEF RequestState
<1>6. CASE FetchFails(q)
  <2>1. ReqOK'
    BY <1>5, <1>6, MoveType DEF FetchFails, ReqOK
  <2>2. JwtOK'
    BY <1>0, <1>6 DEF FetchFails, JwtOK
  <2> QED
    BY <1>6, <2>1, <2>2, TypeSplit, TypeSplitPrime DEF FetchFails, RotOK, ListsOK, BackOK
<1>7. CASE FetchBanned(q)
  <2>1. ReqOK'
    BY <1>5, <1>7, MoveType DEF FetchBanned, ReqOK
  <2>2. JwtOK'
    BY <1>0, <1>7 DEF FetchBanned, JwtOK
  <2>3. req[q].via.addr \in Addr
    BY <1>0, <1>7 DEF FetchBanned, RequestState, Via, Direct
  <2>4. dead' \subseteq Addr /\ routerAlive' \subseteq Addr
    BY <1>7, <2>3, MarkAddrDeadType DEF FetchBanned
  <2>5. RotOK'
    BY <1>7, RotTypes, TypeSplit DEF FetchBanned, RotOK
  <2> QED
    BY <1>7, <2>1, <2>2, <2>4, <2>5, TypeSplit, TypeSplitPrime
    DEF FetchBanned, ListsOK, BackOK
<1> QED BY <1>1, <1>2, <1>3, <1>4, <1>6, <1>7

(* The handling of a failed fetch and the tests of the retry loops.        *)
LEMMA LoopType ==
    ASSUME TypeOK, NEW q \in Requests,
           \/ JWTErrorFirst(q) \/ JWTErrorRetry(q) \/ JWTErrorCompliance(q)
           \/ Top401(q) \/ Top429(q) \/ TopCompliance(q)
           \/ Ban(q) \/ Rotate(q)
    PROVE  TypeOK'
<1> USE DEF shared, background, Rest
<1>0. /\ req[q] \in RequestState /\ Again(q) \in RequestState
      /\ [req[q] EXCEPT !.pc = "inval"] \in RequestState
      /\ [req[q] EXCEPT !.pc = "fwd"] \in RequestState
  BY RecordTypes DEF RequestState
<1>a. \A o \in {"unauthorized", "panic", "limited", "original", "forbidden"} : o \in Outcomes
  BY DEF Outcomes
<1>1. CASE JWTErrorFirst(q)
  <2> DEFINE k == req[q].n + 1
  <2>1. k \in Nat
    BY <1>0 DEF RequestState
  <2>2. Empty(rot) \/ Move(q, [req[q] EXCEPT !.pc = "inval", !.n = k])
    BY <1>1 DEF JWTErrorFirst
  <2> HIDE DEF k
  <2>3. [req[q] EXCEPT !.pc = "inval", !.n = k] \in RequestState
    BY <1>0, <2>1 DEF RequestState
  <2>4. ReqOK'
    BY <1>1, <1>a, <2>2, <2>3, MoveType, FinishType DEF JWTErrorFirst, ReqOK
  <2>5. RotOK'
    BY <1>1, RotTypes, TypeSplit DEF JWTErrorFirst, RotOK
  <2> QED
    BY <1>1, <2>4, <2>5, TypeSplit, TypeSplitPrime DEF JWTErrorFirst, JwtOK, ListsOK, BackOK
<1>2. CASE JWTErrorRetry(q)
  <2>1. [req[q] EXCEPT !.pc = "fwd", !.again = TRUE] \in RequestState
    BY <1>0 DEF RequestState
  <2>2. ReqOK'
    BY <1>2, <1>0, <1>a, <2>1, MoveType, FinishType DEF JWTErrorRetry, ReqOK
  <2> QED
    BY <1>2, <2>2, TypeSplit, TypeSplitPrime DEF JWTErrorRetry, JwtOK, RotOK, ListsOK, BackOK
<1>3. CASE JWTErrorCompliance(q)
  <2>1. ReqOK'
    BY <1>3, <1>0, MoveType DEF JWTErrorCompliance, ReqOK
  <2>2. RotOK'
    BY <1>3, RotTypes DEF JWTErrorCompliance, RotOK
  <2>3. dead' \subseteq Addr /\ routerAlive' \subseteq Addr
    BY <1>3, RotTypes, MarkAddrDeadType DEF JWTErrorCompliance
  <2> QED
    BY <1>3, <2>1, <2>2, <2>3, TypeSplit, TypeSplitPrime
    DEF JWTErrorCompliance, JwtOK, ListsOK, BackOK
<1>4. CASE Top401(q)
  <2>1. ReqOK'
    BY <1>4, <1>0, <1>a, MoveType, FinishType DEF Top401, ReqOK
  <2>2. RotOK'
    BY <1>4, RotTypes, TypeSplit DEF Top401, RotOK
  <2> QED
    BY <1>4, <2>1, <2>2, TypeSplit, TypeSplitPrime DEF Top401, JwtOK, ListsOK, BackOK
<1>5. CASE Top429(q)
  <2>1. [req[q] EXCEPT !.pc = "inval", !.phase = "fb429"] \in RequestState
    BY <1>0 DEF RequestState, Phases
  <2>2. ReqOK'
    BY <1>5, <1>0, <1>a, <2>1, MoveType, FinishType DEF Top429, ReqOK
  <2>3. RotOK'
    BY <1>5, RotTypes, TypeSplit DEF Top429, RotOK
  <2> QED
    BY <1>5, <2>2, <2>3, TypeSplit, TypeSplitPrime DEF Top429, JwtOK, ListsOK, BackOK
<1>6. CASE TopCompliance(q)
  <2>1. ReqOK'
    BY <1>6, <1>0, <1>a, MoveType, FinishType DEF TopCompliance, GiveUp, ReqOK
  <2> QED
    BY <1>6, <2>1, TypeSplit, TypeSplitPrime DEF TopCompliance, JwtOK, RotOK, ListsOK, BackOK
<1>7. CASE Ban(q)
  <2>1. [req[q] EXCEPT !.pc = "inval", !.aim = NoAddr] \in RequestState
    BY <1>0 DEF RequestState
  <2>2. ReqOK'
    BY <1>7, <2>1, MoveType DEF Ban, ReqOK
  <2>3. RotOK'
    BY <1>7, RotTypes DEF Ban, RotOK
  <2>4. req[q].aim \in Addr \cup {NoAddr}
    BY <1>0 DEF RequestState
  <2>5. dead' \subseteq Addr /\ routerAlive' \subseteq Addr
    BY <1>7, <2>4, MarkAddrDeadType DEF Ban
  <2> QED
    BY <1>7, <2>2, <2>3, <2>5, TypeSplit, TypeSplitPrime DEF Ban, JwtOK, ListsOK, BackOK
<1>8. CASE Rotate(q)
  <2>1. ReqOK'
    BY <1>8, <1>0, MoveType DEF Rotate, ReqOK
  <2>2. RotOK'
    BY <1>8, RotTypes DEF Rotate, RotOK
  <2> QED
    BY <1>8, <2>1, <2>2, TypeSplit, TypeSplitPrime DEF Rotate, JwtOK, ListsOK, BackOK
<1> QED BY <1>1, <1>2, <1>3, <1>4, <1>5, <1>6, <1>7, <1>8

(* Sending, and sends that fail.                                           *)
LEMMA SendType ==
    ASSUME TypeOK, NEW q \in Requests,
           \/ Forward(q) \/ SendFailsFirst(q) \/ SendFailsRetry(q)
    PROVE  TypeOK'
<1> USE DEF shared, background, Rest
<1>0. req[q] \in RequestState /\ Again(q) \in RequestState
  BY RecordTypes
<1>a. \A o \in {"panic", "limited", "badgateway"} : o \in Outcomes
  BY DEF Outcomes
<1>1. CASE Forward(q)
  <2> DEFINE k == req[q].sends + 1
             r == [req[q] EXCEPT !.pc = "wait", !.via = Route, !.sends = k]
  <2>1. k \in Nat
    BY <1>0 DEF RequestState
  <2>2. Finish(q, "panic") \/ Move(q, r)
    BY <1>1 DEF Forward
  <2> HIDE DEF k
  <2>3. r \in RequestState
    BY <1>0, <2>1, RouteType DEF RequestState
  <2> HIDE DEF r
  <2>4. ReqOK'
    BY <1>a, <2>2, <2>3, MoveType, FinishType DEF ReqOK
  <2> QED
    BY <1>1, <2>4, TypeSplit, TypeSplitPrime DEF Forward, JwtOK, RotOK, ListsOK, BackOK
<1>2. CASE SendFailsFirst(q)
  <2> DEFINE k == req[q].n + 1
             r == [req[q] EXCEPT !.pc = "fwd", !.n = k]
  <2>1. k \in Nat
    BY <1>0 DEF RequestState
  <2>2. Finish(q, "badgateway") \/ Move(q, r)
    BY <1>2 DEF SendFailsFirst
  <2> HIDE DEF k
  <2>3. r \in RequestState
    BY <1>0, <2>1 DEF RequestState
  <2> HIDE DEF r
  <2>4. ReqOK'
    BY <1>a, <2>2, <2>3, MoveType, FinishType DEF ReqOK
  <2>5. RotOK'
    BY <1>2, RotTypes DEF SendFailsFirst, RotOK
  <2> QED
    BY <1>2, <2>4, <2>5, TypeSplit, TypeSplitPrime DEF SendFailsFirst, JwtOK, ListsOK, BackOK
<1>3. [Again(q) EXCEPT !.nilresp = TRUE] \in RequestState
  BY <1>0 DEF RequestState
<1>4. CASE SendFailsRetry(q)
  <2>1. ReqOK'
    BY <1>0, <1>a, <1>3, <1>4, MoveType, FinishType DEF SendFailsRetry, ReqOK
  <2> QED
    BY <1>4, <2>1, TypeSplit, TypeSplitPrime DEF SendFailsRetry, JwtOK, RotOK, ListsOK, BackOK
<1> QED BY <1>1, <1>2, <1>4

(* The answers that go to a handler.                                       *)
LEMMA RefusedType ==
    ASSUME TypeOK, NEW q \in Requests, NEW x \in Responses, Refused(q, x)
    PROVE  TypeOK'
<1> USE DEF shared, background, Rest
<1>0. /\ Again(q) \in RequestState
      /\ \A h \in Phases : Enter(q, h) \in RequestState
  BY RecordTypes
<1>a. "limited" \in Outcomes
  BY DEF Outcomes
<1>b. [Again(q) EXCEPT !.nilresp = FALSE] \in RequestState
  BY <1>0 DEF RequestState
<1>1. \A h \in {"h401", "h403", "h429"} : Enter(q, h) \in RequestState
  BY <1>0 DEF Phases, Loops
<1>2. [Enter(q, "h403") EXCEPT !.pc = "ban", !.aim = CurrentOf(rot)] \in RequestState
  BY <1>1, RotTypes DEF RequestState
<1>3. ReqOK'
  <2> DEFINE h == Handler(req[q].phase, x.status)
  <2>1. CASE h \in {"h401", "h429"} /\ Move(q, IF req[q].phase = h
                       THEN [Again(q) EXCEPT !.nilresp = FALSE]
                       ELSE Enter(q, h))
    BY <1>b, <1>1, <2>1, MoveType DEF ReqOK
  <2>2. CASE h = "h403" /\ Move(q, [Enter(q, h) EXCEPT !.pc = "ban", !.aim = CurrentOf(rot)])
    BY <1>2, <2>2, MoveType DEF ReqOK
  <2>3. CASE Finish(q, "limited")
    BY <1>a, <2>3, FinishType DEF ReqOK
  <2> QED BY <2>1, <2>2, <2>3 DEF Refused
<1> QED
  BY <1>3, TypeSplit, TypeSplitPrime DEF Refused, JwtOK, RotOK, ListsOK, BackOK

(* The answers that are looked at.                                         *)
LEMMA AnswerType ==
    ASSUME TypeOK, NEW q \in Requests, NEW x \in Responses,
           \/ Answered(q, x)
           \/ AnsweredCS(q, x) \/ AnsweredCJ(q, x) \/ AnsweredCN(q, x)
    PROVE  TypeOK'
<1> USE DEF shared, background, Rest
<1>0. /\ req[q] \in RequestState /\ Again(q) \in RequestState
      /\ \A h \in Phases : Enter(q, h) \in RequestState
  BY RecordTypes
<1>1. What(x) \in Outcomes /\ req[q].out \in Outcomes
  <2>1. x.block \in Blocks
    BY ChatAssumption DEF Response
  <2> QED BY <1>0, <2>1 DEF What, Outcomes, RequestState
<1>2. [req[q] EXCEPT !.pc = "streaming", !.out = What(x)] \in RequestState
  BY <1>0, <1>1 DEF RequestState
<1>3. [Again(q) EXCEPT !.nilresp = FALSE] \in RequestState
  BY <1>0 DEF RequestState
<1>4. "cs" \in Phases /\ "cj" \in Phases /\ "cn" \in Phases
  BY DEF Phases, Loops
<1> DEFINE Rec == {Again(q), [Again(q) EXCEPT !.nilresp = FALSE],
                   Enter(q, "cs"), Enter(q, "cj"), Enter(q, "cn")}
           Kept5 == ReqOK' /\ RotOK' /\ ListsOK'
<1>5. \A r \in Rec : r \in RequestState
  BY <1>0, <1>3, <1>4
<1>6. ASSUME NEW r \in Rec, BlameAnd(q, r) PROVE Kept5
  BY <1>5, <1>6, MoveType, BlameType DEF BlameAnd, ReqOK
<1>7. ASSUME Relay(q, x) PROVE Kept5
  <2>1. ReqOK'
    BY <1>2, <1>7, MoveType DEF Relay, ReqOK
  <2> QED BY <1>7, <2>1, TypeSplit DEF Relay, RotOK, ListsOK
<1>8. ASSUME Deliver(q, x) PROVE Kept5
  <2>1. ReqOK'
    BY <1>1, <1>8, FinishType DEF Deliver, ReqOK
  <2> QED BY <1>8, <2>1, TypeSplit DEF Deliver, RotOK, ListsOK
<1>8a. ASSUME Truncated(q) PROVE Kept5
  <2>1. "lost" \in Outcomes
    BY DEF Outcomes
  <2>2. ReqOK'
    BY <1>8a, <2>1, FinishType DEF Truncated, ReqOK
  <2> QED BY <1>8a, <2>2, TypeSplit DEF Truncated, RotOK, ListsOK
<1>9. ASSUME Blame, Accuse(q), Finish(q, What(x)) PROVE Kept5
  BY <1>1, <1>9, FinishType, BlameType DEF ReqOK
<1>10. ASSUME Move(q, Again(q)), UNCHANGED <<rot, shared, guilty>> PROVE Kept5
  <2>1. ReqOK'
    BY <1>0, <1>10, MoveType DEF ReqOK
  <2> QED BY <1>10, <2>1, TypeSplit DEF RotOK, ListsOK
<1> DEFINE Quiet == UNCHANGED <<jwt, background>>
<1>11. ASSUME Kept5, Quiet PROVE TypeOK'
  BY <1>11, TypeSplit, TypeSplitPrime DEF JwtOK, BackOK
<1> HIDE DEF Kept5
<1>12. CASE Answered(q, x)
  <2>1. Kept5
    BY <1>6, <1>7, <1>8, <1>8a, <1>12 DEF Answered, DeliverStream, DeliverBody
  <2> QED BY <1>11, <1>12, <2>1 DEF Answered
<1>13. CASE AnsweredCS(q, x)
  <2>1. Kept5
    BY <1>6, <1>7, <1>8, <1>8a, <1>9, <1>13 DEF AnsweredCS
  <2> QED BY <1>11, <1>13, <2>1 DEF AnsweredCS
<1>14. CASE AnsweredCJ(q, x)
  <2>1. Kept5
    BY <1>6, <1>7, <1>8, <1>14 DEF AnsweredCJ
  <2> QED BY <1>11, <1>14, <2>1 DEF AnsweredCJ
<1>15. CASE AnsweredCN(q, x)
  <2>1. Kept5
    BY <1>6, <1>8, <1>10, <1>15 DEF AnsweredCN
  <2> QED BY <1>11, <1>15, <2>1 DEF AnsweredCN
<1> QED BY <1>12, <1>13, <1>14, <1>15

(* The end of a relayed stream.                                            *)
LEMMA StreamType ==
    ASSUME TypeOK, NEW q \in Requests, StreamEnds(q) \/ StreamWriteError(q)
    PROVE  TypeOK'
<1> USE DEF shared, background, Rest
<1>1. req[q].out \in Outcomes
  BY RecordTypes DEF RequestState
<1>2. CASE StreamEnds(q)
  <2>1. ReqOK'
    BY <1>1, <1>2, FinishType DEF StreamEnds, ReqOK
  <2> QED
    BY <1>2, <2>1, TypeSplit, TypeSplitPrime DEF StreamEnds, JwtOK, RotOK, ListsOK, BackOK
<1>3. CASE StreamWriteError(q)
  <2>1. ReqOK'
    BY <1>1, <1>3, FinishType DEF StreamWriteError, ReqOK
  <2>2. dead' \subseteq Addr /\ routerAlive' \subseteq Addr
    BY <1>3, RotTypes, MarkAddrDeadType DEF StreamWriteError
  <2> QED
    BY <1>3, <2>1, <2>2, TypeSplit, TypeSplitPrime
    DEF StreamWriteError, JwtOK, RotOK, ListsOK, BackOK
<1> QED BY <1>2, <1>3

(* The health check and the refresh.                                       *)
LEMMA BackgroundType ==
    ASSUME TypeOK,
           HealthStep \/ RefreshStep \/ \E list \in Fetches : RefreshFetch(list)
    PROVE  TypeOK'
<1> USE DEF shared
<1>0. /\ servers \in Seq(Server) /\ hc.list \in Seq(Server) /\ rf.list \in Seq(Server)
      /\ hc.pc \in {"idle", "dial", "update"}
      /\ rf.pc \in {"idle", "add", "snap", "update"}
      /\ hc \in GoroutineState({"idle", "dial", "update"})
      /\ rf \in GoroutineState({"idle", "add", "snap", "update"})
      /\ rf.pc = "add" => rf.list # << >>
  BY DEF TypeOK, GoroutineState
<1>1. CASE HealthSnapshot
  <2>1. SnapshotAlive(servers, dead) \in Seq(Server)
    BY <1>0, SnapshotAliveType
  <2>2. BackOK'
    BY <1>0, <1>1, <2>1 DEF HealthSnapshot, BackOK, GoroutineState
  <2> QED
    BY <1>1, <2>2, TypeSplit, TypeSplitPrime DEF HealthSnapshot, ReqOK, JwtOK, RotOK, ListsOK
<1>2. ASSUME NEW up, HealthReplace(up) PROVE TypeOK'
  <2>1. Reachable(hc.list, up) \in Seq(Server)
    BY <1>0, ReachableType
  <2>2. BackOK'
    BY <1>0, <1>2, <2>1 DEF HealthReplace, BackOK, GoroutineState
  <2>3. ListsOK'
    BY <1>2, <2>1, TypeSplit DEF HealthReplace, ListsOK
  <2> QED
    BY <1>2, <2>2, <2>3, TypeSplit, TypeSplitPrime DEF HealthReplace, ReqOK, JwtOK, RotOK
<1>3. CASE HealthUpdate
  <2>0. SSAddresses(hc.list) \in Seq(Addr)
    BY <1>0, SSAddressesType
  <2>1. RotOK'
    BY <1>3, <2>0, RotTypes DEF HealthUpdate, RotOK
  <2>2. BackOK'
    BY <1>0, <1>3 DEF HealthUpdate, BackOK, GoroutineState
  <2> QED
    BY <1>3, <2>1, <2>2, TypeSplit, TypeSplitPrime DEF HealthUpdate, ReqOK, JwtOK, ListsOK
<1>4. ASSUME NEW list \in Fetches, RefreshFetch(list) PROVE TypeOK'
  <2>1. BackOK'
    BY <1>0, <1>4, ChatAssumption DEF RefreshFetch, BackOK, GoroutineState
  <2> QED
    BY <1>4, <2>1, TypeSplit, TypeSplitPrime DEF RefreshFetch, ReqOK, JwtOK, RotOK, ListsOK
<1>5. CASE RefreshAdd
  <2>0. rf.list # << >>
    BY <1>0, <1>5 DEF RefreshAdd
  <2>1. Head(rf.list) \in Server /\ Tail(rf.list) \in Seq(Server)
    BY <1>0, <2>0
  <2>2. Len(rf.list) # 1 => Tail(rf.list) # << >>
    <3>1. Len(rf.list) \in Nat \ {0} /\ Len(Tail(rf.list)) = Len(rf.list) - 1
      BY <1>0, <2>0
    <3>2. << >> \in Seq(Server) /\ Len(<< >>) = 0
      OBVIOUS
    <3> DEFINE t == Tail(rf.list)
    <3>3. ASSUME t = << >> PROVE Len(t) = 0
      BY <3>2, <3>3
    <3>4. Len(rf.list) # 1 => Len(t) # 0
      BY <3>1
    <3> HIDE DEF t
    <3>5. Len(rf.list) # 1 => t # << >>
      BY <3>3, <3>4
    <3> QED BY <3>5 DEF t
  <2>3. ListsOK'
    BY <1>0, <1>5, <2>1, PoolAddType, TypeSplit DEF RefreshAdd, ListsOK
  <2>4. BackOK'
    <3> DEFINE place == IF Len(rf.list) = 1 THEN "snap" ELSE "add"
    <3>1. place \in {"snap", "add"} /\ (place = "add" => Tail(rf.list) # << >>)
      BY <2>2
    <3>2. rf' = [pc |-> place, list |-> Tail(rf.list)] /\ hc' = hc
      BY <1>5 DEF RefreshAdd
    <3> HIDE DEF place
    <3> QED BY <1>0, <2>1, <3>1, <3>2 DEF BackOK, GoroutineState
  <2> QED
    BY <1>5, <2>3, <2>4, TypeSplit, TypeSplitPrime DEF RefreshAdd, ReqOK, JwtOK, RotOK
<1>6. CASE RefreshSnapshot
  <2>1. SnapshotAlive(servers, dead) \in Seq(Server)
    BY <1>0, SnapshotAliveType
  <2>2. BackOK'
    BY <1>0, <1>6, <2>1 DEF RefreshSnapshot, BackOK, GoroutineState
  <2> QED
    BY <1>6, <2>2, TypeSplit, TypeSplitPrime DEF RefreshSnapshot, ReqOK, JwtOK, RotOK, ListsOK
<1>7. CASE RefreshUpdate
  <2>0. SSAddresses(rf.list) \in Seq(Addr)
    BY <1>0, SSAddressesType
  <2>1. RotOK'
    BY <1>7, <2>0, RotTypes DEF RefreshUpdate, RotOK
  <2>2. BackOK'
    BY <1>0, <1>7 DEF RefreshUpdate, BackOK, GoroutineState
  <2> QED
    BY <1>7, <2>1, <2>2, TypeSplit, TypeSplitPrime DEF RefreshUpdate, ReqOK, JwtOK, ListsOK
<1> QED BY <1>1, <1>2, <1>3, <1>4, <1>5, <1>6, <1>7 DEF HealthStep, RefreshStep

(* Every step keeps TypeOK.                                                *)
LEMMA NextType == TypeOK /\ [Next]_vars => TypeOK'
<1> SUFFICES ASSUME TypeOK, [Next]_vars PROVE TypeOK'
  OBVIOUS
<1>1. ASSUME NEW q \in Requests, Arrive(q) PROVE TypeOK'
  BY <1>1, ArriveType
<1>1a. ASSUME NEW q \in Requests, Body(q) PROVE TypeOK'
  BY <1>1a, BodyType
<1>2. ASSUME NEW q \in Requests, Work(q) PROVE TypeOK'
  <2>1. CASE \E x \in Responses :
                \/ Refused(q, x) \/ Answered(q, x)
                \/ AnsweredCS(q, x) \/ AnsweredCJ(q, x) \/ AnsweredCN(q, x)
    BY <2>1, RefusedType, AnswerType
  <2>2. CASE \/ FetchOK(q) \/ FetchFails(q) \/ FetchBanned(q)
    BY <2>2, JWTType
  <2>3. CASE \/ JWTErrorFirst(q) \/ JWTErrorRetry(q) \/ JWTErrorCompliance(q)
             \/ Top401(q) \/ Top429(q) \/ TopCompliance(q)
             \/ Ban(q) \/ Rotate(q)
    BY <2>3, LoopType
  <2>4. CASE \/ Forward(q) \/ SendFailsFirst(q) \/ SendFailsRetry(q)
    BY <2>4, SendType
  <2>5. CASE \/ StreamEnds(q) \/ StreamWriteError(q)
    BY <2>5, StreamType
  <2> QED BY <1>2, <2>1, <2>2, <2>3, <2>4, <2>5 DEF Work
<1>3. ASSUME NEW q \in Requests, Locked(q) PROVE TypeOK'
  BY <1>3, JWTType DEF Locked
<1>4. CASE TokenExpires
  <2>1. JwtOK'
    BY <1>4, TypeSplit DEF TokenExpires, JwtOK
  <2> QED
    BY <1>4, <2>1, TypeSplit, TypeSplitPrime
    DEF TokenExpires, shared, background, ReqOK, RotOK, ListsOK, BackOK
<1>5. CASE HealthStep \/ RefreshStep \/ \E list \in Fetches : RefreshFetch(list)
  BY <1>5, BackgroundType
<1>6. CASE UNCHANGED vars
  BY <1>6, TypeSplit, TypeSplitPrime
  DEF vars, shared, ReqOK, JwtOK, RotOK, ListsOK, BackOK
<1> QED BY <1>1, <1>1a, <1>2, <1>3, <1>4, <1>5, <1>6 DEF Next

(* Type correctness of the server: every interleaving of requests, health  *)
(* checks and refreshes keeps the types, and in particular the index of    *)
(* the rotator within its pool (rotator.go).                               *)
THEOREM ServerTypeCorrect == Spec => []TypeOK
<1>1. Init => TypeOK
  BY InitType
<1>2. TypeOK /\ [Next]_vars => TypeOK'
  BY NextType
<1> QED BY <1>1, <1>2, PTL DEF Spec

-----------------------------------------------------------------------------
(***************************************************************************)
(* The sends a request may have made when it enters each handler: the      *)
(* retry loops of handleChat follow each other in this order.              *)
(***************************************************************************)
Upto401 == TimeoutRetries + 1
Upto403 == Upto401 + JWTRefreshRetries
Upto429 == Upto403 + 1
UptoFallback == Upto429 + RateLimitRetries
UptoCompliance == UptoFallback + 1

(* Where none of the loops runs.                                           *)
Outside == {"idle", "body", "streaming", "done"}

InFlight(pc) == IF pc = "wait" THEN 1 ELSE 0
Begun(pc) == IF pc = "top" THEN 0 ELSE 1

(* The strengthening of SendBudget that is inductive: the sends of a       *)
(* request, bounded by the loop it is in and that loop's counter.          *)
Within(pc, phase, n, sends) ==
    /\ sends <= SendLimit
    /\ pc \notin Outside =>
        /\ phase = "jwt" => pc \in {"get", "fetch", "jwterr", "inval"} /\ sends = 0
        /\ phase = "send" =>
              pc \in {"fwd", "wait"} /\ n <= TimeoutRetries /\ sends <= n + InFlight(pc)
        /\ phase = "h401" =>
              n + Begun(pc) <= JWTRefreshRetries /\ sends <= Upto401 + n + InFlight(pc)
        /\ phase = "h403" => sends <= Upto403 + InFlight(pc)
        /\ phase = "h429" =>
              n + Begun(pc) <= RateLimitRetries /\ sends <= Upto429 + n + InFlight(pc)
        /\ phase = "fb429" => sends <= UptoFallback + InFlight(pc)
        /\ phase \in {"cs", "cj", "cn"} =>
              n + Begun(pc) <= ComplianceRetries /\ sends <= UptoCompliance + n + InFlight(pc)

InBudget(r) == Within(r.pc, r.phase, r.n, r.sends)

BudgetInv == \A q \in Requests : InBudget(req[q])

-----------------------------------------------------------------------------
(* Arithmetic of the budget, on the values of one request.                 *)

(* Moving on inside a handler, with no send and no new attempt.            *)
LEMMA WithinStays ==
    ASSUME NEW n \in Nat, NEW sends \in Nat, NEW phase, NEW pc, NEW pc2,
           Within(pc, phase, n, sends), pc \notin Outside \cup {"top", "wait"},
           pc2 \notin Outside \cup {"top", "wait"},
           phase = "jwt" => pc2 \in {"get", "fetch", "jwterr", "inval"},
           phase = "send" => pc2 = "fwd"
    PROVE  Within(pc2, phase, n, sends)
BY ChatAssumption DEF Within, InFlight, Begun, Outside

(* `continue`: the attempt is counted, whether a send was made or not.     *)
LEMMA WithinAgain ==
    ASSUME NEW n \in Nat, NEW sends \in Nat, NEW phase \in Phases, NEW pc,
           Within(pc, phase, n, sends), pc \notin Outside \cup {"top"},
           phase \notin {"jwt", "send", "h403", "fb429"}
    PROVE  Within("top", phase, n + 1, sends)
BY ChatAssumption
DEF Within, InFlight, Begun, Outside, Upto401, Upto403, Upto429, UptoFallback, UptoCompliance

(* A send.                                                                 *)
LEMMA WithinSend ==
    ASSUME NEW n \in Nat, NEW sends \in Nat, NEW phase \in Phases,
           Within("fwd", phase, n, sends)
    PROVE  Within("wait", phase, n, sends + 1)
BY ChatAssumption
DEF Within, InFlight, Begun, Outside, SendLimit, Phases, Loops,
    UptoCompliance, UptoFallback, Upto429, Upto403, Upto401

(* An attempt of a retry loop begins.                                      *)
LEMMA WithinBegins ==
    ASSUME NEW n \in Nat, NEW sends \in Nat, NEW phase,
           Within("top", phase, n, sends),
           \/ phase = "h401" /\ n < JWTRefreshRetries
           \/ phase = "h429" /\ n < RateLimitRetries
           \/ phase \in {"cs", "cj", "cn"} /\ n < ComplianceRetries
    PROVE  Within("inval", phase, n, sends)
BY ChatAssumption DEF Within, InFlight, Begun, Outside

(* From one handler to a later one.                                        *)
LEMMA WithinEnters ==
    ASSUME NEW n \in Nat, NEW sends \in Nat, NEW phase \in Statuses, NEW next,
           Within("wait", phase, n, sends),
           \/ next = "h401" /\ phase = "send"
           \/ next = "h403" /\ phase \in {"send", "h401"}
           \/ next = "h429" /\ phase \in {"send", "h401", "h403"}
           \/ next \in {"cs", "cj", "cn"}
    PROVE  Within("top", next, 0, sends) /\ (next = "h403" => Within("ban", next, 0, sends))
BY ChatAssumption
DEF Within, InFlight, Begun, Outside, Statuses,
    UptoCompliance, UptoFallback, Upto429, Upto403, Upto401

-----------------------------------------------------------------------------
(* Only the request that takes a step is charged for it.                   *)
LEMMA MoveBudget ==
    ASSUME TypeOK, BudgetInv, NEW q \in Requests, NEW r, InBudget(r), Move(q, r)
    PROVE  BudgetInv'
BY DEF TypeOK, BudgetInv, InBudget, Move

LEMMA FinishBudget ==
    ASSUME TypeOK, BudgetInv, NEW q \in Requests, NEW what, Finish(q, what)
    PROVE  BudgetInv'
<1> DEFINE r == Returned(req[q], what)
<1>1. req[q] \in RequestState /\ InBudget(req[q])
  BY DEF TypeOK, BudgetInv
<1>2. r.pc = "done" /\ r.phase = req[q].phase /\ r.n = req[q].n /\ r.sends = req[q].sends
  BY <1>1 DEF RequestState, Returned
<1>3. InBudget(r)
  BY <1>1, <1>2 DEF InBudget, Within, Outside
<1>4. req' = [req EXCEPT ![q] = r]
  BY DEF Finish
<1> HIDE DEF r
<1> QED BY <1>3, <1>4 DEF TypeOK, BudgetInv

(* The fields of the records that the steps are built from.                *)
LEMMA Fields ==
    ASSUME TypeOK, NEW q \in Requests
    PROVE  /\ req[q].n \in Nat /\ req[q].sends \in Nat /\ req[q].phase \in Phases
           /\ Again(q).pc = "top" /\ Again(q).phase = req[q].phase
           /\ Again(q).n = req[q].n + 1 /\ Again(q).sends = req[q].sends
           /\ Again(q).stream = req[q].stream
           /\ \A h : /\ Enter(q, h).pc = "top" /\ Enter(q, h).phase = h
                     /\ Enter(q, h).n = 0 /\ Enter(q, h).sends = req[q].sends
           /\ Fresh.sends = 0 /\ Fresh.phase = "jwt" /\ Fresh.n = 0
<1>1. req[q] \in RequestState
  BY DEF TypeOK
<1>2. /\ req[q].n \in Nat /\ req[q].sends \in Nat /\ req[q].phase \in Phases
  BY <1>1 DEF RequestState
<1>3. /\ Again(q).pc = "top" /\ Again(q).phase = req[q].phase
      /\ Again(q).n = req[q].n + 1 /\ Again(q).sends = req[q].sends
      /\ Again(q).stream = req[q].stream
  BY <1>1 DEF RequestState, Again
<1>4. ASSUME NEW h
      PROVE  /\ Enter(q, h).pc = "top" /\ Enter(q, h).phase = h
             /\ Enter(q, h).n = 0 /\ Enter(q, h).sends = req[q].sends
  BY <1>1 DEF RequestState, Enter
<1>5. Fresh.sends = 0 /\ Fresh.phase = "jwt" /\ Fresh.n = 0
  BY DEF Fresh
<1> QED BY <1>2, <1>3, <1>4, <1>5

(* A step to another place of the same handler.                            *)
LEMMA PlaceBudget ==
    ASSUME TypeOK, BudgetInv, NEW q \in Requests, NEW r \in RequestState, Move(q, r),
           r.phase = req[q].phase, r.n = req[q].n, r.sends = req[q].sends,
           req[q].pc \notin Outside \cup {"top", "wait"},
           r.pc \notin Outside \cup {"top", "wait"},
           r.phase = "jwt" => r.pc \in {"get", "fetch", "jwterr", "inval"},
           r.phase = "send" => r.pc = "fwd"
    PROVE  BudgetInv'
<1>1. Within(req[q].pc, req[q].phase, req[q].n, req[q].sends)
  BY DEF BudgetInv, InBudget
<1>2. req[q].n \in Nat /\ req[q].sends \in Nat
  BY Fields
<1>3. InBudget(r)
  BY <1>1, <1>2, WithinStays DEF InBudget
<1> QED BY <1>3, MoveBudget

(* Another attempt of the same loop, with or without a response in hand.   *)
LEMMA AgainBudget ==
    ASSUME TypeOK, BudgetInv, NEW q \in Requests, NEW r, Move(q, r),
           r.pc = "top", r.phase = req[q].phase, r.n = req[q].n + 1, r.sends = req[q].sends,
           req[q].pc \notin Outside \cup {"top"},
           req[q].phase \in Loops
    PROVE  BudgetInv'
<1>1. Within(req[q].pc, req[q].phase, req[q].n, req[q].sends)
  BY DEF BudgetInv, InBudget
<1>2. req[q].n \in Nat /\ req[q].sends \in Nat /\ req[q].phase \in Phases
  BY Fields
<1>3. req[q].phase \notin {"jwt", "send", "h403", "fb429"}
  BY DEF Loops
<1>4. Within("top", req[q].phase, req[q].n + 1, req[q].sends)
  BY <1>1, <1>2, <1>3, WithinAgain
<1>5. InBudget(r)
  BY <1>4 DEF InBudget
<1> QED BY <1>5, MoveBudget

-----------------------------------------------------------------------------
(* The steps of a request.                                                 *)

LEMMA ArriveBudget ==
    ASSUME TypeOK, BudgetInv, NEW q \in Requests, Arrive(q)
    PROVE  BudgetInv'
<1>0. /\ Fresh \in RequestState
      /\ Fresh.sends = 0 /\ Fresh.phase = "jwt" /\ Fresh.n = 0
      /\ 0 <= SendLimit
  BY RecordTypes, Fields, ChatAssumption DEF SendLimit
<1>1. ASSUME NEW what, Turned(q, what) PROVE BudgetInv'
  <2> DEFINE r == [Fresh EXCEPT !.pc = "done", !.out = what]
  <2>1. r.pc = "done" /\ r.sends = 0
    BY <1>0 DEF RequestState
  <2>2. InBudget(r)
    BY <1>0, <2>1 DEF InBudget, Within, Outside
  <2>3. req' = [req EXCEPT ![q] = r]
    BY <1>1 DEF Turned
  <2> HIDE DEF r
  <2> QED BY <2>2, <2>3 DEF TypeOK, BudgetInv
<1>2. ASSUME Accept(q) PROVE BudgetInv'
  <2> DEFINE r == [Fresh EXCEPT !.pc = "body"]
  <2>1. r.pc = "body" /\ r.sends = 0
    BY <1>0 DEF RequestState
  <2>2. InBudget(r)
    BY <1>0, <2>1 DEF InBudget, Within, Outside
  <2>3. req' = [req EXCEPT ![q] = r]
    BY <1>2 DEF Accept
  <2> HIDE DEF r
  <2> QED BY <2>2, <2>3 DEF TypeOK, BudgetInv
<1> QED
  BY <1>1, <1>2
  DEF Arrive, RejectedByRateLimiter, RejectedBySemaphore

LEMMA BodyBudget ==
    ASSUME TypeOK, BudgetInv, NEW q \in Requests, Body(q)
    PROVE  BudgetInv'
<1>0. /\ Fresh \in RequestState /\ Fresh.sends = 0 /\ Fresh.phase = "jwt"
      /\ 0 <= SendLimit
  BY RecordTypes, Fields, ChatAssumption DEF SendLimit
<1>1. ASSUME NEW isStream \in BOOLEAN, ReadBody(q, isStream) PROVE BudgetInv'
  <2> DEFINE r == [Fresh EXCEPT !.pc = "get", !.stream = isStream]
  <2>1. r.pc = "get" /\ r.sends = 0 /\ r.phase = "jwt"
    BY <1>0 DEF RequestState
  <2>2. InBudget(r)
    BY <1>0, <2>1 DEF InBudget, Within, Outside
  <2>3. Move(q, r)
    BY <1>1 DEF ReadBody
  <2> HIDE DEF r
  <2> QED BY <2>2, <2>3, MoveBudget
<1>2. CASE BadBody(q)
  BY <1>2, FinishBudget DEF BadBody
<1> QED BY <1>1, <1>2 DEF Body

(* A token was obtained.                                                   *)
LEMMA TokenForBudget ==
    ASSUME TypeOK, BudgetInv, NEW q \in Requests, NEW seen \in BOOLEAN,
           req[q].pc \in {"get", "fetch"}, TokenFor(q, seen)
    PROVE  BudgetInv'
<1>0. req[q] \in RequestState /\ req[q].n \in Nat /\ req[q].sends \in Nat
  BY RecordTypes, Fields
<1>1. CASE req[q].phase = "jwt"
  <2> DEFINE r == [[req[q] EXCEPT !.again = seen]
                      EXCEPT !.pc = "fwd", !.phase = "send", !.n = 0]
  <2>1. r.pc = "fwd" /\ r.phase = "send" /\ r.n = 0 /\ r.sends = req[q].sends
    BY <1>0 DEF RequestState
  <2>2. Move(q, r)
    BY <1>0, <1>1 DEF TokenFor, RequestState
  <2> HIDE DEF r
  <2>3. Within(req[q].pc, "jwt", req[q].n, req[q].sends)
    BY <1>1 DEF BudgetInv, InBudget
  <2>4. Within("fwd", "send", 0, req[q].sends)
    BY <1>0, <2>3, ChatAssumption DEF Within, InFlight, Outside
  <2>5. InBudget(r)
    BY <2>1, <2>4 DEF InBudget
  <2> QED BY <2>2, <2>5, MoveBudget
<1>2. CASE req[q].phase # "jwt"
  <2> DEFINE place == IF req[q].phase = "h403" THEN "rotate" ELSE "fwd"
             r == [req[q] EXCEPT !.again = seen, !.pc = place]
  <2>1. place \in {"rotate", "fwd"} /\ (req[q].phase = "send" => place = "fwd")
    OBVIOUS
  <2>2. Move(q, r)
    BY <1>0, <1>2 DEF TokenFor, RequestState
  <2> HIDE DEF place
  <2>3. /\ r \in RequestState
        /\ r.pc = place /\ r.phase = req[q].phase /\ r.n = req[q].n
        /\ r.sends = req[q].sends
    BY <1>0, <2>1 DEF RequestState
  <2> HIDE DEF r
  <2> QED BY <1>2, <2>1, <2>2, <2>3, PlaceBudget DEF Outside
<1> QED BY <1>1, <1>2

LEMMA JWTBudget ==
    ASSUME TypeOK, BudgetInv, NEW q \in Requests,
           \/ GetCached(q) \/ GetFetches(q) \/ Invalidate(q)
           \/ FetchOK(q) \/ FetchFails(q) \/ FetchBanned(q)
    PROVE  BudgetInv'
<1>0. req[q] \in RequestState
  BY RecordTypes
<1>1. CASE GetCached(q)
  <2>1. (q \in jwt.used) \in BOOLEAN
    OBVIOUS
  <2> QED BY <1>1, <2>1, TokenForBudget DEF GetCached, At
<1>2. CASE FetchOK(q)
  BY <1>2, TokenForBudget DEF FetchOK, At
<1>3. CASE GetFetches(q)
  <2> DEFINE r == [req[q] EXCEPT !.pc = "fetch", !.via = Route]
  <2>1. r \in RequestState
    BY <1>0, RouteType DEF RequestState
  <2>2. r.pc = "fetch" /\ r.phase = req[q].phase /\ r.n = req[q].n /\ r.sends = req[q].sends
    BY <1>0 DEF RequestState
  <2>3. Move(q, r) /\ req[q].pc = "get"
    BY <1>3 DEF GetFetches, At
  <2>4. req[q].phase # "send"
    BY <2>3 DEF BudgetInv, InBudget, Within, Outside
  <2> HIDE DEF r
  <2> QED BY <2>1, <2>2, <2>3, <2>4, PlaceBudget DEF Outside
<1>4. CASE FetchFails(q) \/ FetchBanned(q)
  <2> DEFINE r == [req[q] EXCEPT !.pc = "jwterr"]
  <2>1. /\ r \in RequestState
        /\ r.pc = "jwterr" /\ r.phase = req[q].phase /\ r.n = req[q].n
        /\ r.sends = req[q].sends
    BY <1>0 DEF RequestState
  <2>2. Move(q, r) /\ req[q].pc = "fetch"
    BY <1>4 DEF FetchFails, FetchBanned, At
  <2>3. req[q].phase # "send"
    BY <2>2 DEF BudgetInv, InBudget, Within, Outside
  <2> HIDE DEF r
  <2> QED BY <2>1, <2>2, <2>3, PlaceBudget DEF Outside
<1>5. CASE Invalidate(q)
  <2> DEFINE r == [req[q] EXCEPT !.pc = "get"]
  <2>1. /\ r \in RequestState
        /\ r.pc = "get" /\ r.phase = req[q].phase /\ r.n = req[q].n
        /\ r.sends = req[q].sends
    BY <1>0 DEF RequestState
  <2>2. (Finish(q, "unauthorized") \/ Move(q, r)) /\ req[q].pc = "inval"
    BY <1>5 DEF Invalidate, At
  <2>3. req[q].phase # "send"
    BY <2>2 DEF BudgetInv, InBudget, Within, Outside
  <2> HIDE DEF r
  <2> QED BY <2>1, <2>2, <2>3, PlaceBudget, FinishBudget DEF Outside
<1> QED BY <1>1, <1>2, <1>3, <1>4, <1>5

(* A failed fetch, the tests of the retry loops, the 403 block.            *)
LEMMA LoopBudget ==
    ASSUME TypeOK, BudgetInv, NEW q \in Requests,
           \/ JWTErrorFirst(q) \/ JWTErrorRetry(q) \/ JWTErrorCompliance(q)
           \/ Top401(q) \/ Top429(q) \/ TopCompliance(q)
           \/ Ban(q) \/ Rotate(q)
    PROVE  BudgetInv'
<1>0. /\ req[q] \in RequestState
      /\ req[q].n \in Nat /\ req[q].sends \in Nat
      /\ Within(req[q].pc, req[q].phase, req[q].n, req[q].sends)
  BY RecordTypes, Fields DEF BudgetInv, InBudget
<1>1. CASE JWTErrorFirst(q)
  <2> DEFINE k == req[q].n + 1
             r == [req[q] EXCEPT !.pc = "inval", !.n = k]
  <2>1. /\ Finish(q, "unauthorized") \/ Move(q, r)
        /\ req[q].pc = "jwterr" /\ req[q].phase = "jwt"
    BY <1>1 DEF JWTErrorFirst, At
  <2> HIDE DEF k
  <2>2. r.pc = "inval" /\ r.phase = req[q].phase /\ r.n = k /\ r.sends = req[q].sends
    BY <1>0 DEF RequestState
  <2> HIDE DEF r
  <2>3. InBudget(r)
    BY <1>0, <2>1, <2>2 DEF InBudget, Within, Outside
  <2> QED BY <2>1, <2>3, MoveBudget, FinishBudget
<1>2. CASE JWTErrorRetry(q)
  <2> DEFINE r == [req[q] EXCEPT !.pc = "fwd", !.again = TRUE]
  <2>1. /\ r \in RequestState
        /\ r.pc = "fwd" /\ r.phase = req[q].phase /\ r.n = req[q].n
        /\ r.sends = req[q].sends
    BY <1>0 DEF RequestState
  <2>2. /\ req[q].pc = "jwterr"
        /\ \/ req[q].phase \in {"h401", "h429"} /\ Move(q, Again(q))
           \/ Finish(q, "unauthorized")
           \/ req[q].phase = "fb429" /\ Move(q, r)
    BY <1>2 DEF JWTErrorRetry, At
  <2> HIDE DEF r
  <2>3. CASE req[q].phase \in {"h401", "h429"} /\ Move(q, Again(q))
    BY <2>2, <2>3, Fields, AgainBudget DEF Outside, Loops
  <2>4. CASE req[q].phase = "fb429" /\ Move(q, r)
    BY <2>1, <2>2, <2>4, PlaceBudget DEF Outside
  <2> QED BY <2>2, <2>3, <2>4, FinishBudget
<1>3. CASE JWTErrorCompliance(q)
  BY <1>3, Fields, AgainBudget DEF JWTErrorCompliance, At, Outside, Loops
<1>4. [req[q] EXCEPT !.pc = "inval"] \in RequestState
  BY <1>0 DEF RequestState
<1> DEFINE begun == [req[q] EXCEPT !.pc = "inval"]
<1>5. /\ begun.pc = "inval" /\ begun.phase = req[q].phase
      /\ begun.n = req[q].n /\ begun.sends = req[q].sends
  BY <1>0 DEF RequestState
<1>6. ASSUME req[q].pc = "top",
             \/ req[q].phase = "h401" /\ req[q].n < JWTRefreshRetries
             \/ req[q].phase = "h429" /\ req[q].n < RateLimitRetries
             \/ req[q].phase \in {"cs", "cj", "cn"} /\ req[q].n < ComplianceRetries
      PROVE  InBudget(begun)
  BY <1>0, <1>5, <1>6, WithinBegins DEF InBudget
<1>7. CASE Top401(q)
  <2>1. /\ req[q].pc = "top" /\ req[q].phase = "h401"
        /\ \/ req[q].n < JWTRefreshRetries /\ Move(q, begun)
           \/ \E what : Finish(q, what)
    BY <1>7 DEF Top401, At
  <2> HIDE DEF begun
  <2> QED BY <1>6, <2>1, MoveBudget, FinishBudget
<1>8. CASE TopCompliance(q)
  <2>1. /\ req[q].pc = "top" /\ req[q].phase \in {"cs", "cj", "cn"}
        /\ \/ req[q].n < ComplianceRetries /\ Move(q, begun)
           \/ \E what : Finish(q, what)
    BY <1>8 DEF TopCompliance, At
  <2> HIDE DEF begun
  <2> QED BY <1>6, <2>1, MoveBudget, FinishBudget
<1>9. CASE Top429(q)
  <2> DEFINE r == [req[q] EXCEPT !.pc = "inval", !.phase = "fb429"]
  <2>1. /\ req[q].pc = "top" /\ req[q].phase = "h429"
        /\ \/ req[q].n < RateLimitRetries /\ Move(q, begun)
           \/ Move(q, r)
           \/ \E what : Finish(q, what)
    BY <1>9 DEF Top429, At
  <2>2. r.pc = "inval" /\ r.phase = "fb429" /\ r.n = req[q].n /\ r.sends = req[q].sends
    BY <1>0 DEF RequestState
  <2> HIDE DEF begun, r
  <2>3. Within("inval", "fb429", req[q].n, req[q].sends)
    BY <1>0, <2>1, ChatAssumption
    DEF Within, InFlight, Begun, Outside, UptoFallback, Upto429, Upto403, Upto401
  <2>4. InBudget(r)
    BY <2>2, <2>3 DEF InBudget
  <2> QED BY <1>6, <2>1, <2>4, MoveBudget, FinishBudget
<1>10. CASE Ban(q)
  <2> DEFINE r == [req[q] EXCEPT !.pc = "inval", !.aim = NoAddr]
  <2>1. /\ r \in RequestState
        /\ r.pc = "inval" /\ r.phase = req[q].phase /\ r.n = req[q].n
        /\ r.sends = req[q].sends
    BY <1>0 DEF RequestState
  <2>2. Move(q, r) /\ req[q].pc = "ban"
    BY <1>10 DEF Ban, At
  <2>3. req[q].phase # "send"
    BY <1>0, <2>2 DEF Within, Outside
  <2> HIDE DEF r
  <2> QED BY <2>1, <2>2, <2>3, PlaceBudget DEF Outside
<1>11. CASE Rotate(q)
  <2> DEFINE r == [req[q] EXCEPT !.pc = "fwd"]
  <2>1. /\ r \in RequestState
        /\ r.pc = "fwd" /\ r.phase = req[q].phase /\ r.n = req[q].n
        /\ r.sends = req[q].sends
    BY <1>0 DEF RequestState
  <2>2. Move(q, r) /\ req[q].pc = "rotate"
    BY <1>11 DEF Rotate, At
  <2>3. req[q].phase # "jwt"
    BY <1>0, <2>2 DEF Within, Outside
  <2> HIDE DEF r
  <2> QED BY <2>1, <2>2, <2>3, PlaceBudget DEF Outside
<1> QED BY <1>1, <1>2, <1>3, <1>7, <1>8, <1>9, <1>10, <1>11

(* A send, and a send that fails.                                          *)
LEMMA SendBudgetStep ==
    ASSUME TypeOK, BudgetInv, NEW q \in Requests,
           \/ Forward(q) \/ SendFailsFirst(q) \/ SendFailsRetry(q)
    PROVE  BudgetInv'
<1>0. /\ req[q] \in RequestState
      /\ req[q].n \in Nat /\ req[q].sends \in Nat /\ req[q].phase \in Phases
      /\ Within(req[q].pc, req[q].phase, req[q].n, req[q].sends)
  BY RecordTypes, Fields DEF BudgetInv, InBudget
<1>1. CASE Forward(q)
  <2> DEFINE k == req[q].sends + 1
             r == [req[q] EXCEPT !.pc = "wait", !.via = Route, !.sends = k]
  <2>1. (Finish(q, "panic") \/ Move(q, r)) /\ req[q].pc = "fwd"
    BY <1>1 DEF Forward, At
  <2>2. Within("wait", req[q].phase, req[q].n, k)
    BY <1>0, <2>1, WithinSend
  <2> HIDE DEF k
  <2>3. r.pc = "wait" /\ r.phase = req[q].phase /\ r.n = req[q].n /\ r.sends = k
    BY <1>0 DEF RequestState
  <2> HIDE DEF r
  <2>4. InBudget(r)
    BY <2>2, <2>3 DEF InBudget
  <2> QED BY <2>1, <2>4, MoveBudget, FinishBudget
<1>2. CASE SendFailsFirst(q)
  <2> DEFINE k == req[q].n + 1
             r == [req[q] EXCEPT !.pc = "fwd", !.n = k]
  <2>1. /\ req[q].pc = "wait" /\ req[q].phase = "send"
        /\ Finish(q, "badgateway") \/ (req[q].n < TimeoutRetries /\ Move(q, r))
    BY <1>2 DEF SendFailsFirst, At
  <2>2. req[q].n < TimeoutRetries => Within("fwd", "send", k, req[q].sends)
    BY <1>0, <2>1, ChatAssumption DEF Within, InFlight, Outside
  <2> HIDE DEF k
  <2>3. r.pc = "fwd" /\ r.phase = req[q].phase /\ r.n = k /\ r.sends = req[q].sends
    BY <1>0 DEF RequestState
  <2> HIDE DEF r
  <2>4. req[q].n < TimeoutRetries => InBudget(r)
    BY <2>1, <2>2, <2>3 DEF InBudget
  <2> QED BY <2>1, <2>4, MoveBudget, FinishBudget
<1>3. CASE SendFailsRetry(q)
  <2> DEFINE r == [Again(q) EXCEPT !.nilresp = TRUE]
  <2>1. /\ r.pc = "top" /\ r.phase = req[q].phase
        /\ r.n = req[q].n + 1 /\ r.sends = req[q].sends
    BY RecordTypes, Fields DEF RequestState
  <2>2. /\ req[q].pc = "wait"
        /\ \/ req[q].phase \in {"h401", "h429", "cs"} /\ Move(q, r)
           \/ req[q].phase \in {"cj", "cn"} /\ Move(q, Again(q))
           \/ \E what : Finish(q, what)
    BY <1>3 DEF SendFailsRetry, At
  <2> HIDE DEF r
  <2>3. CASE req[q].phase \in {"h401", "h429", "cs"} /\ Move(q, r)
    BY <2>1, <2>2, <2>3, AgainBudget DEF Outside, Loops
  <2>4. CASE req[q].phase \in {"cj", "cn"} /\ Move(q, Again(q))
    BY <2>2, <2>4, Fields, AgainBudget DEF Outside, Loops
  <2> QED BY <2>2, <2>3, <2>4, FinishBudget
<1> QED BY <1>1, <1>2, <1>3

(* The answers: to a handler that comes later, to another attempt of the   *)
(* same loop, to the client.                                               *)
LEMMA AnswerBudget ==
    ASSUME TypeOK, BudgetInv, NEW q \in Requests, NEW x \in Responses,
           \/ Refused(q, x) \/ Answered(q, x)
           \/ AnsweredCS(q, x) \/ AnsweredCJ(q, x) \/ AnsweredCN(q, x)
    PROVE  BudgetInv'
<1>0. /\ req[q] \in RequestState
      /\ req[q].n \in Nat /\ req[q].sends \in Nat /\ req[q].phase \in Phases
      /\ req[q].pc = "wait"
      /\ Within("wait", req[q].phase, req[q].n, req[q].sends)
  <2>1. req[q].pc = "wait"
    BY DEF Refused, Answered, AnsweredCS, AnsweredCJ, AnsweredCN, At
  <2>2. Within(req[q].pc, req[q].phase, req[q].n, req[q].sends)
    BY DEF BudgetInv, InBudget
  <2> QED BY <2>1, <2>2, RecordTypes, Fields
<1> DEFINE kept == [Again(q) EXCEPT !.nilresp = FALSE]
           relayed == [req[q] EXCEPT !.pc = "streaming", !.out = What(x)]
           banned == [Enter(q, "h403") EXCEPT !.pc = "ban", !.aim = CurrentOf(rot)]
<1>1. /\ kept.pc = "top" /\ kept.phase = req[q].phase
      /\ kept.n = req[q].n + 1 /\ kept.sends = req[q].sends
  BY RecordTypes, Fields DEF RequestState
<1>2. InBudget(relayed)
  <2>1. relayed.pc = "streaming" /\ relayed.sends = req[q].sends
    BY <1>0 DEF RequestState
  <2>2. req[q].sends <= SendLimit
    BY <1>0 DEF Within
  <2> HIDE DEF relayed
  <2> QED BY <2>1, <2>2 DEF InBudget, Within, Outside
<1>3. /\ banned.pc = "ban" /\ banned.phase = "h403"
      /\ banned.n = 0 /\ banned.sends = req[q].sends
  <2>1. Enter(q, "h403") \in RequestState
    BY RecordTypes DEF Phases
  <2> QED BY <2>1, Fields DEF RequestState
<1> HIDE DEF kept, relayed, banned
<1>4. ASSUME NEW h, req[q].phase \in Statuses, Move(q, Enter(q, h)),
             \/ h = "h401" /\ req[q].phase = "send"
             \/ h = "h429" /\ req[q].phase \in {"send", "h401", "h403"}
             \/ h \in {"cs", "cj", "cn"}
      PROVE  BudgetInv'
  <2>1. Within("top", h, 0, req[q].sends)
    BY <1>0, <1>4, WithinEnters
  <2>2. InBudget(Enter(q, h))
    BY <2>1, Fields DEF InBudget
  <2> QED BY <1>4, <2>2, MoveBudget
<1>5. CASE Refused(q, x)
  <2> DEFINE h == Handler(req[q].phase, x.status)
  <2>0. req[q].phase \in Statuses
    BY <1>5 DEF Refused
  <2>1. CASE h \in {"h401", "h429"} /\ req[q].phase = h /\ Move(q, kept)
    BY <1>0, <1>1, <2>1, AgainBudget DEF Outside, Loops
  <2>2. CASE h \in {"h401", "h429"} /\ req[q].phase # h /\ Move(q, Enter(q, h))
    <3>1. \/ h = "h401" /\ req[q].phase = "send"
          \/ h = "h429" /\ req[q].phase \in {"send", "h401", "h403"}
      BY <2>2 DEF Handler
    <3> QED BY <1>4, <2>0, <2>2, <3>1
  <2>3. CASE h = "h403" /\ Move(q, banned)
    <3>1. req[q].phase \in {"send", "h401"}
      BY <2>3 DEF Handler
    <3>2. Within("ban", "h403", 0, req[q].sends)
      BY <1>0, <2>0, <3>1, WithinEnters
    <3>3. InBudget(banned)
      BY <1>3, <3>2 DEF InBudget
    <3> QED BY <2>3, <3>3, MoveBudget
  <2>4. CASE Finish(q, "limited")
    BY <2>4, FinishBudget
  <2> QED BY <1>5, <2>1, <2>2, <2>3, <2>4 DEF Refused, kept, banned
<1>6. ASSUME Relay(q, x) PROVE BudgetInv'
  BY <1>2, <1>6, MoveBudget DEF Relay, relayed
<1>7. ASSUME Deliver(q, x) PROVE BudgetInv'
  BY <1>7, FinishBudget DEF Deliver
<1>7a. ASSUME Truncated(q) PROVE BudgetInv'
  BY <1>7a, FinishBudget DEF Truncated
<1>8. CASE Answered(q, x)
  <2>1. ASSUME NEW h \in {"cs", "cj", "cn"}, BlameAnd(q, Enter(q, h)) PROVE BudgetInv'
    BY <1>4, <1>8, <2>1 DEF Answered, BlameAnd
  <2> QED BY <1>6, <1>7, <1>7a, <1>8, <2>1 DEF Answered, DeliverStream, DeliverBody
<1>9. ASSUME req[q].phase \in {"cs", "cj", "cn"}, Move(q, Again(q)) \/ Move(q, kept)
      PROVE  BudgetInv'
  BY <1>0, <1>1, <1>9, Fields, AgainBudget DEF Outside, Loops
<1>10. CASE AnsweredCS(q, x)
  BY <1>6, <1>7, <1>7a, <1>9, <1>10, FinishBudget DEF AnsweredCS, BlameAnd, kept
<1>11. CASE AnsweredCJ(q, x)
  BY <1>6, <1>7, <1>9, <1>11 DEF AnsweredCJ, BlameAnd
<1>12. CASE AnsweredCN(q, x)
  BY <1>7, <1>9, <1>12 DEF AnsweredCN, BlameAnd
<1> QED BY <1>5, <1>8, <1>10, <1>11, <1>12

(* Every step keeps the budget.                                            *)
LEMMA NextBudget == TypeOK /\ BudgetInv /\ [Next]_vars => BudgetInv'
<1> SUFFICES ASSUME TypeOK, BudgetInv, [Next]_vars PROVE BudgetInv'
  OBVIOUS
<1>1. ASSUME NEW q \in Requests, Arrive(q) PROVE BudgetInv'
  BY <1>1, ArriveBudget
<1>1a. ASSUME NEW q \in Requests, Body(q) PROVE BudgetInv'
  BY <1>1a, BodyBudget
<1>2. ASSUME NEW q \in Requests, Work(q) PROVE BudgetInv'
  <2>1. CASE \E x \in Responses :
                \/ Refused(q, x) \/ Answered(q, x)
                \/ AnsweredCS(q, x) \/ AnsweredCJ(q, x) \/ AnsweredCN(q, x)
    BY <2>1, AnswerBudget
  <2>2. CASE \/ FetchOK(q) \/ FetchFails(q) \/ FetchBanned(q)
    BY <2>2, JWTBudget
  <2>3. CASE \/ JWTErrorFirst(q) \/ JWTErrorRetry(q) \/ JWTErrorCompliance(q)
             \/ Top401(q) \/ Top429(q) \/ TopCompliance(q)
             \/ Ban(q) \/ Rotate(q)
    BY <2>3, LoopBudget
  <2>4. CASE \/ Forward(q) \/ SendFailsFirst(q) \/ SendFailsRetry(q)
    BY <2>4, SendBudgetStep
  <2>5. CASE \/ StreamEnds(q) \/ StreamWriteError(q)
    BY <2>5, FinishBudget DEF StreamEnds, StreamWriteError
  <2> QED BY <1>2, <2>1, <2>2, <2>3, <2>4, <2>5 DEF Work
<1>3. ASSUME NEW q \in Requests, Locked(q) PROVE BudgetInv'
  BY <1>3, JWTBudget DEF Locked
<1>4. CASE \/ TokenExpires \/ HealthStep \/ RefreshStep
           \/ \E list \in Fetches : RefreshFetch(list)
           \/ UNCHANGED vars
  <2>1. req' = req
    BY <1>4
    DEF TokenExpires, HealthStep, HealthSnapshot, HealthReplace, HealthUpdate,
        RefreshStep, RefreshAdd, RefreshSnapshot, RefreshUpdate, RefreshFetch, vars
  <2> QED BY <2>1 DEF BudgetInv
<1> QED BY <1>1, <1>1a, <1>2, <1>3, <1>4 DEF Next

(* Whatever the upstream answers and however requests, health checks and   *)
(* refreshes interleave, one client request makes at most SendLimit        *)
(* upstream requests: the retry loops of handleChat (server.go 352-1004)   *)
(* add up, they never multiply.                                            *)
THEOREM SendsAreBounded == Spec => []SendBudget
<1>1. Init => BudgetInv
  <2>1. 0 <= SendLimit
    BY ChatAssumption DEF SendLimit
  <2> QED BY <2>1 DEF Init, BudgetInv, InBudget, Within, Fresh, Outside
<1>2. TypeOK /\ BudgetInv /\ [Next]_vars => BudgetInv'
  BY NextBudget
<1>3. BudgetInv => SendBudget
  BY DEF BudgetInv, InBudget, Within, SendBudget
<1> QED BY <1>1, <1>2, <1>3, ServerTypeCorrect, PTL DEF Spec

-----------------------------------------------------------------------------
(* The mutex of the JWT manager.                                           *)

(* A step of a request that does not fetch, leaves the mutex alone and     *)
(* does not start to fetch.                                                *)
LEMMA LockKept ==
    ASSUME TypeOK, LockExact, NEW q \in Requests, req[q].pc # "fetch",
           \A p \in Requests \ {q} : req'[p] = req[p],
           req'[q].pc # "fetch", jwt'.holder = jwt.holder
    PROVE  LockExact'
BY DEF LockExact, At

(* A step that ends the fetch of q and unlocks.                            *)
LEMMA LockReleased ==
    ASSUME TypeOK, LockExact, NEW q \in Requests, req[q].pc = "fetch",
           \A p \in Requests \ {q} : req'[p] = req[p],
           req'[q].pc # "fetch", jwt'.holder = NoRequest
    PROVE  LockExact'
BY ChatAssumption DEF LockExact, At

(* What a step of q does to the requests.                                  *)
LEMMA MoveEffect ==
    ASSUME TypeOK, NEW q \in Requests, NEW r, Move(q, r)
    PROVE  req'[q] = r /\ \A p \in Requests \ {q} : req'[p] = req[p]
BY DEF TypeOK, Move

LEMMA FinishEffect ==
    ASSUME TypeOK, NEW q \in Requests, NEW what, Finish(q, what)
    PROVE  req'[q].pc = "done" /\ \A p \in Requests \ {q} : req'[p] = req[p]
<1>1. req[q] \in RequestState
  BY DEF TypeOK
<1>2. Returned(req[q], what).pc = "done"
  BY <1>1 DEF RequestState, Returned
<1> QED BY <1>2 DEF TypeOK, Finish

(* Get and Invalidate, and the ways out of a fetch.                        *)
LEMMA JWTLock ==
    ASSUME TypeOK, LockExact, NEW q \in Requests,
           \/ GetCached(q) \/ GetFetches(q) \/ Invalidate(q)
           \/ FetchOK(q) \/ FetchFails(q) \/ FetchBanned(q)
    PROVE  LockExact'
<1>0. req[q] \in RequestState /\ JwtOK
  BY RecordTypes, TypeSplit
<1>1. ASSUME NEW seen, TokenFor(q, seen)
      PROVE  req'[q].pc \in {"fwd", "rotate"} /\ \A p \in Requests \ {q} : req'[p] = req[p]
  <2> DEFINE r == [req[q] EXCEPT !.again = seen]
  <2>1. /\ [r EXCEPT !.pc = "fwd", !.phase = "send", !.n = 0].pc = "fwd"
        /\ [r EXCEPT !.pc = "rotate"].pc = "rotate"
        /\ [r EXCEPT !.pc = "fwd"].pc = "fwd"
    BY <1>0 DEF RequestState
  <2>2. \/ Move(q, [r EXCEPT !.pc = "fwd", !.phase = "send", !.n = 0])
        \/ Move(q, [r EXCEPT !.pc = "rotate"])
        \/ Move(q, [r EXCEPT !.pc = "fwd"])
    BY <1>1 DEF TokenFor
  <2> HIDE DEF r
  <2> QED BY <2>1, <2>2, MoveEffect
<1>2. CASE GetCached(q)
  <2>1. jwt'.holder = jwt.holder
    BY <1>0, <1>2 DEF GetCached, JwtOK
  <2> QED BY <1>1, <1>2, <2>1, LockKept DEF GetCached, At
<1>3. CASE GetFetches(q)
  <2>1. jwt'.holder = q /\ jwt.holder = NoRequest
    BY <1>0, <1>3 DEF GetFetches, JwtOK
  <2>2. [req[q] EXCEPT !.pc = "fetch", !.via = Route].pc = "fetch"
    BY <1>0 DEF RequestState
  <2>3. req'[q].pc = "fetch" /\ \A p \in Requests \ {q} : req'[p] = req[p]
    BY <1>3, <2>2, MoveEffect DEF GetFetches
  <2> QED BY <2>1, <2>3, ChatAssumption DEF LockExact, At
<1>4. CASE Invalidate(q)
  <2>1. jwt'.holder = jwt.holder
    BY <1>0, <1>4 DEF Invalidate, JwtOK
  <2>2. [req[q] EXCEPT !.pc = "get"].pc = "get"
    BY <1>0 DEF RequestState
  <2>3. req'[q].pc # "fetch" /\ \A p \in Requests \ {q} : req'[p] = req[p]
    BY <1>4, <2>2, MoveEffect, FinishEffect DEF Invalidate
  <2> QED BY <1>4, <2>1, <2>3, LockKept DEF Invalidate, At
<1>5. CASE FetchOK(q)
  <2>1. jwt'.holder = NoRequest
    BY <1>5 DEF FetchOK
  <2> QED BY <1>1, <1>5, <2>1, LockReleased DEF FetchOK, At
<1>6. CASE FetchFails(q) \/ FetchBanned(q)
  <2>1. jwt'.holder = NoRequest
    BY <1>0, <1>6 DEF FetchFails, FetchBanned, JwtOK
  <2>2. [req[q] EXCEPT !.pc = "jwterr"].pc = "jwterr"
    BY <1>0 DEF RequestState
  <2>3. req'[q].pc # "fetch" /\ \A p \in Requests \ {q} : req'[p] = req[p]
    BY <1>6, <2>2, MoveEffect DEF FetchFails, FetchBanned
  <2> QED BY <1>6, <2>1, <2>3, LockReleased DEF FetchFails, FetchBanned, At
<1> QED BY <1>2, <1>3, <1>4, <1>5, <1>6

(* The other steps of a request start outside a fetch, stay outside and    *)
(* leave the JWT manager alone.                                            *)
LEMMA OtherLock ==
    ASSUME TypeOK, LockExact, NEW q \in Requests,
           \/ JWTErrorFirst(q) \/ JWTErrorRetry(q) \/ JWTErrorCompliance(q)
           \/ Top401(q) \/ Top429(q) \/ TopCompliance(q)
           \/ Ban(q) \/ Rotate(q)
           \/ Forward(q) \/ SendFailsFirst(q) \/ SendFailsRetry(q)
           \/ StreamEnds(q) \/ StreamWriteError(q)
    PROVE  LockExact'
<1>0. req[q] \in RequestState /\ Again(q) \in RequestState /\ Again(q).pc = "top"
  BY RecordTypes, Fields
<1>1. req[q].pc # "fetch"
  BY DEF JWTErrorFirst, JWTErrorRetry, JWTErrorCompliance, Top401, Top429, TopCompliance,
         Ban, Rotate, Forward, SendFailsFirst, SendFailsRetry, StreamEnds,
         StreamWriteError, At
<1>2. jwt' = jwt
  BY DEF JWTErrorFirst, JWTErrorRetry, JWTErrorCompliance, Top401, Top429, TopCompliance,
         Ban, Rotate, Forward, SendFailsFirst, SendFailsRetry, StreamEnds,
         StreamWriteError, Rest
<1>3. ASSUME NEW r, Move(q, r), r.pc # "fetch" PROVE LockExact'
  BY <1>1, <1>2, <1>3, MoveEffect, LockKept
<1>4. ASSUME NEW what, Finish(q, what) PROVE LockExact'
  BY <1>1, <1>2, <1>4, FinishEffect, LockKept
<1>5. CASE JWTErrorFirst(q)
  <2>1. [req[q] EXCEPT !.pc = "inval", !.n = @ + 1].pc = "inval"
    BY <1>0 DEF RequestState
  <2> QED BY <1>3, <1>4, <1>5, <2>1 DEF JWTErrorFirst
<1>6. CASE JWTErrorRetry(q)
  <2>1. [req[q] EXCEPT !.pc = "fwd", !.again = TRUE].pc = "fwd"
    BY <1>0 DEF RequestState
  <2> QED BY <1>0, <1>3, <1>4, <1>6, <2>1 DEF JWTErrorRetry
<1>7. CASE JWTErrorCompliance(q)
  BY <1>0, <1>3, <1>7 DEF JWTErrorCompliance
<1>8. /\ [req[q] EXCEPT !.pc = "inval"].pc = "inval"
      /\ [req[q] EXCEPT !.pc = "inval", !.phase = "fb429"].pc = "inval"
      /\ [req[q] EXCEPT !.pc = "inval", !.aim = NoAddr].pc = "inval"
      /\ [req[q] EXCEPT !.pc = "fwd"].pc = "fwd"
  BY <1>0 DEF RequestState
<1>9. CASE Top401(q)
  BY <1>3, <1>4, <1>8, <1>9 DEF Top401
<1>10. CASE Top429(q)
  BY <1>3, <1>4, <1>8, <1>10 DEF Top429
<1>11. CASE TopCompliance(q)
  BY <1>3, <1>4, <1>8, <1>11 DEF TopCompliance
<1>12. CASE Ban(q)
  BY <1>3, <1>8, <1>12 DEF Ban
<1>13. CASE Rotate(q)
  BY <1>3, <1>8, <1>13 DEF Rotate
<1>14. CASE Forward(q)
  <2>1. [req[q] EXCEPT !.pc = "wait", !.via = Route, !.sends = @ + 1].pc = "wait"
    BY <1>0 DEF RequestState
  <2> QED BY <1>3, <1>4, <1>14, <2>1 DEF Forward
<1>15. CASE SendFailsFirst(q)
  <2>1. [req[q] EXCEPT !.pc = "fwd", !.n = @ + 1].pc = "fwd"
    BY <1>0 DEF RequestState
  <2> QED BY <1>3, <1>4, <1>15, <2>1 DEF SendFailsFirst
<1>16. CASE SendFailsRetry(q)
  <2>1. [Again(q) EXCEPT !.nilresp = TRUE].pc = "top"
    BY <1>0 DEF RequestState
  <2> QED BY <1>0, <1>3, <1>4, <1>16, <2>1 DEF SendFailsRetry
<1>17. CASE StreamEnds(q) \/ StreamWriteError(q)
  BY <1>4, <1>17 DEF StreamEnds, StreamWriteError
<1> QED
  BY <1>5, <1>6, <1>7, <1>9, <1>10, <1>11, <1>12, <1>13, <1>14, <1>15, <1>16, <1>17

(* Nor do the answers of the upstream.                                     *)
LEMMA AnswerLock ==
    ASSUME TypeOK, LockExact, NEW q \in Requests, NEW x \in Responses,
           \/ Refused(q, x) \/ Answered(q, x)
           \/ AnsweredCS(q, x) \/ AnsweredCJ(q, x) \/ AnsweredCN(q, x)
    PROVE  LockExact'
<1>0. req[q] \in RequestState /\ Again(q) \in RequestState /\ Again(q).pc = "top"
  BY RecordTypes, Fields
<1>1. req[q].pc # "fetch" /\ jwt' = jwt
  BY DEF Refused, Answered, AnsweredCS, AnsweredCJ, AnsweredCN, At, Rest
<1>3. ASSUME NEW r, Move(q, r), r.pc # "fetch" PROVE LockExact'
  BY <1>1, <1>3, MoveEffect, LockKept
<1>4. ASSUME NEW what, Finish(q, what) PROVE LockExact'
  BY <1>1, <1>4, FinishEffect, LockKept
<1>5. \A h : Enter(q, h).pc = "top"
  BY Fields
<1>6. [Again(q) EXCEPT !.nilresp = FALSE].pc = "top"
  BY <1>0 DEF RequestState
<1>7. [req[q] EXCEPT !.pc = "streaming", !.out = What(x)].pc = "streaming"
  BY <1>0 DEF RequestState
<1>8. ASSUME Relay(q, x) \/ Deliver(q, x) \/ Truncated(q) PROVE LockExact'
  BY <1>3, <1>4, <1>7, <1>8 DEF Relay, Deliver, Truncated
<1>9. CASE Refused(q, x)
  <2>1. [Enter(q, "h403") EXCEPT !.pc = "ban", !.aim = CurrentOf(rot)].pc = "ban"
    <3>1. Enter(q, "h403") \in RequestState
      BY RecordTypes DEF Phases
    <3> QED BY <3>1 DEF RequestState
  <2> DEFINE h == Handler(req[q].phase, x.status)
  <2>2. \/ Move(q, [Again(q) EXCEPT !.nilresp = FALSE])
        \/ Move(q, Enter(q, h))
        \/ Move(q, [Enter(q, "h403") EXCEPT !.pc = "ban", !.aim = CurrentOf(rot)])
        \/ Finish(q, "limited")
    BY <1>9 DEF Refused
  <2> HIDE DEF h
  <2> QED BY <1>3, <1>4, <1>5, <1>6, <2>1, <2>2
<1>10. CASE Answered(q, x)
  BY <1>3, <1>5, <1>8, <1>10 DEF Answered, DeliverStream, DeliverBody, BlameAnd
<1>11. CASE AnsweredCS(q, x)
  BY <1>3, <1>4, <1>6, <1>8, <1>11 DEF AnsweredCS, BlameAnd
<1>12. CASE AnsweredCJ(q, x)
  BY <1>0, <1>3, <1>8, <1>12 DEF AnsweredCJ, BlameAnd
<1>13. CASE AnsweredCN(q, x)
  BY <1>0, <1>3, <1>8, <1>13 DEF AnsweredCN, BlameAnd
<1> QED BY <1>9, <1>10, <1>11, <1>12, <1>13

LEMMA ArriveLock ==
    ASSUME TypeOK, LockExact, NEW q \in Requests, Arrive(q)
    PROVE  LockExact'
<1>0. Fresh \in RequestState
  BY RecordTypes
<1>1. req[q].pc # "fetch" /\ jwt' = jwt
  BY DEF Arrive, RejectedByRateLimiter, RejectedBySemaphore, Accept, Turned, Idle
<1>2. ASSUME NEW what, Turned(q, what) PROVE LockExact'
  <2>1. [Fresh EXCEPT !.pc = "done", !.out = what].pc = "done"
    BY <1>0 DEF RequestState
  <2>2. req'[q].pc # "fetch" /\ \A p \in Requests \ {q} : req'[p] = req[p]
    BY <1>2, <2>1 DEF Turned, TypeOK
  <2> QED BY <1>1, <2>2, LockKept
<1>3. ASSUME Accept(q) PROVE LockExact'
  <2>1. [Fresh EXCEPT !.pc = "body"].pc = "body"
    BY <1>0 DEF RequestState
  <2>2. req'[q].pc # "fetch" /\ \A p \in Requests \ {q} : req'[p] = req[p]
    BY <1>3, <2>1 DEF Accept, TypeOK
  <2> QED BY <1>1, <2>2, LockKept
<1> QED
  BY <1>2, <1>3
  DEF Arrive, RejectedByRateLimiter, RejectedBySemaphore

(* What a request becomes when its body has been read.                     *)
LEMMA BodyEffect ==
    ASSUME TypeOK, NEW q \in Requests, Body(q)
    PROVE  /\ req[q].pc = "body" /\ jwt' = jwt
           /\ \A p \in Requests \ {q} : req'[p] = req[p]
           /\ \/ req'[q].pc = "get" /\ req'[q].phase = "jwt" /\ sem' = sem
              \/ /\ req'[q].pc = "done" /\ req'[q].out = "badrequest"
                 /\ sem' = sem - 1
<1>0. Fresh \in RequestState /\ Fresh.phase = "jwt" /\ req[q] \in RequestState
  BY RecordTypes, Fields
<1>1. req[q].pc = "body" /\ jwt' = jwt
  BY DEF Body, ReadBody, BadBody, At
<1>2. ASSUME NEW isStream \in BOOLEAN, ReadBody(q, isStream)
      PROVE  /\ \A p \in Requests \ {q} : req'[p] = req[p]
             /\ req'[q].pc = "get" /\ req'[q].phase = "jwt" /\ sem' = sem
  <2> DEFINE r == [Fresh EXCEPT !.pc = "get", !.stream = isStream]
  <2>1. r.pc = "get" /\ r.phase = "jwt"
    BY <1>0 DEF RequestState
  <2>2. Move(q, r)
    BY <1>2 DEF ReadBody
  <2> HIDE DEF r
  <2> QED BY <2>1, <2>2, MoveEffect DEF Move
<1>3. ASSUME BadBody(q)
      PROVE  /\ \A p \in Requests \ {q} : req'[p] = req[p]
             /\ req'[q].pc = "done" /\ req'[q].out = "badrequest" /\ sem' = sem - 1
  <2> DEFINE r == Returned(req[q], "badrequest")
  <2>1. r.pc = "done" /\ r.out = "badrequest"
    BY <1>0 DEF RequestState, Returned
  <2>2. req' = [req EXCEPT ![q] = r] /\ sem' = sem - 1
    BY <1>3 DEF BadBody, Finish
  <2> HIDE DEF r
  <2> QED BY <2>1, <2>2 DEF TypeOK
<1> QED BY <1>1, <1>2, <1>3 DEF Body

LEMMA NextLock == TypeOK /\ LockExact /\ [Next]_vars => LockExact'
<1> SUFFICES ASSUME TypeOK, LockExact, [Next]_vars PROVE LockExact'
  OBVIOUS
<1>1. ASSUME NEW q \in Requests, Arrive(q) PROVE LockExact'
  BY <1>1, ArriveLock
<1>1a. ASSUME NEW q \in Requests, Body(q) PROVE LockExact'
  BY <1>1a, BodyEffect, LockKept
<1>2. ASSUME NEW q \in Requests, Work(q) PROVE LockExact'
  <2>1. CASE \E x \in Responses :
                \/ Refused(q, x) \/ Answered(q, x)
                \/ AnsweredCS(q, x) \/ AnsweredCJ(q, x) \/ AnsweredCN(q, x)
    BY <2>1, AnswerLock
  <2>2. CASE \/ FetchOK(q) \/ FetchFails(q) \/ FetchBanned(q)
    BY <2>2, JWTLock
  <2> QED BY <1>2, <2>1, <2>2, OtherLock DEF Work
<1>3. ASSUME NEW q \in Requests, Locked(q) PROVE LockExact'
  BY <1>3, JWTLock DEF Locked
<1>4. CASE TokenExpires
  <2>1. jwt'.holder = jwt.holder /\ req' = req
    BY <1>4 DEF TokenExpires, TypeOK
  <2> QED BY <2>1 DEF LockExact, At
<1>5. CASE \/ HealthStep \/ RefreshStep
           \/ \E list \in Fetches : RefreshFetch(list)
           \/ UNCHANGED vars
  <2>1. req' = req /\ jwt' = jwt
    BY <1>5
    DEF HealthStep, HealthSnapshot, HealthReplace, HealthUpdate,
        RefreshStep, RefreshAdd, RefreshSnapshot, RefreshUpdate, RefreshFetch, vars
  <2> QED BY <2>1 DEF LockExact, At
<1> QED BY <1>1, <1>1a, <1>2, <1>3, <1>4, <1>5 DEF Next

(* The mutex of the JWT manager (jwt.go 36-57) is held exactly while a     *)
(* request fetches a token: every way out of the fetch, the bootstrap's    *)
(* 403 included, unlocks it, and no two requests fetch at once.            *)
THEOREM MutexIsExact == Spec => []LockExact
<1>1. Init => LockExact
  BY ChatAssumption DEF Init, LockExact, At, Fresh
<1>2. TypeOK /\ LockExact /\ [Next]_vars => LockExact'
  BY NextLock
<1> QED BY <1>1, <1>2, ServerTypeCorrect, PTL DEF Spec

-----------------------------------------------------------------------------
(***************************************************************************)
(* The steps of a handler, told apart only as far as the next three        *)
(* theorems need: req[q] is its state before the step and s the one after. *)
(***************************************************************************)
Compliance == {"cs", "cj", "cn"}

Refreshing == Loops \cup {"h403"}

(* From one place of a phase to the next one.                              *)
Walks(r, s) ==
    /\ s.phase = r.phase /\ s.n = r.n /\ s.again = r.again
    /\ \/ r.pc = "get"    /\ s.pc = "fetch"
       \/ r.pc = "fetch"  /\ s.pc = "jwterr"
       \/ r.pc = "inval"  /\ s.pc = "get"
       \/ r.pc = "ban"    /\ s.pc = "inval"
       \/ r.pc = "rotate" /\ s.pc = "fwd"
       \/ r.pc = "fwd"    /\ s.pc = "wait"

(* An attempt of a retry loop begins.                                      *)
Begins(r, s) ==
    /\ r.pc = "top" /\ s.pc = "inval"
    /\ s.phase = r.phase /\ s.n = r.n
    /\ r.phase \in Compliance => r.n < ComplianceRetries

(* It is over, and the loop goes back to its test.                         *)
Retries(r, s) ==
    /\ r.pc \in {"wait", "jwterr"} /\ s.pc = "top"
    /\ s.phase = r.phase

(* An answer leads into another phase.                                     *)
Enters(r, s) ==
    /\ r.pc = "wait" /\ s.pc \in {"top", "ban"}
    /\ s.pc = "ban" => s.phase = "h403"
    /\ s.phase \in {"cs", "cj"} => r.stream

(* The phases that may send with the token they have.                      *)
Plain(r, s) ==
    /\ r.pc \notin Outside /\ s.pc \in {"inval", "fwd"}
    /\ s.phase \in {"jwt", "send", "fb429"}

(* Get returned a token: the cached one, or the one that was fetched.      *)
Obtains(q, s) ==
    /\ req[q].pc \in {"get", "fetch"} /\ s.pc \in {"fwd", "rotate"}
    /\ IF req[q].phase = "jwt" THEN s.phase = "send"
       ELSE s.phase = req[q].phase /\ s.n = req[q].n
    /\ s.again => req[q].pc = "get" /\ q \in jwt.used

(* The answer is relayed as an event stream.                               *)
Relays(r, s) ==
    /\ r.pc = "wait" /\ s.pc = "streaming"
    /\ s.phase = r.phase /\ s.n = r.n
    /\ s.out \in Blocks \cup {"clean"}
    /\ r.stream \/ r.phase \in {"cs", "cj"}
    /\ s.out = "early" => r.phase = "cj"

GoesOn(q, s) ==
    /\ s.stream = req[q].stream
    /\ \/ Walks(req[q], s) \/ Begins(req[q], s) \/ Retries(req[q], s)
       \/ Enters(req[q], s) \/ Plain(req[q], s) \/ Obtains(q, s)
       \/ Relays(req[q], s)

(* The handler returns: a blocked answer is one that was being relayed, or *)
(* the one the JSON loop gives up with, or one that a retry of a blocked   *)
(* stream got as JSON.                                                     *)
EndsWith(r, what) ==
    what \in {"early", "late", "original"} =>
        \/ r.pc = "streaming" /\ what = r.out
        \/ r.pc = "top"  /\ what = "original" /\ r.phase = "cj"
        \/ r.pc = "wait" /\ what = "late" /\ r.phase = "cs"

StepOf(q) ==
    /\ req[q].pc \notin {"idle", "done"}
    /\ \/ \E s : Move(q, s) /\ GoesOn(q, s)
       \/ \E what : Finish(q, what) /\ EndsWith(req[q], what)

LEMMA WalkStep ==
    ASSUME NEW q, NEW s, Move(q, s), s.stream = req[q].stream, Walks(req[q], s)
    PROVE  StepOf(q)
BY DEF StepOf, GoesOn, Walks

LEMMA GoesOnStep ==
    ASSUME NEW q, NEW s, Move(q, s), GoesOn(q, s), req[q].pc \notin {"idle", "done"}
    PROVE  StepOf(q)
BY DEF StepOf

LEMMA FinishStep ==
    ASSUME NEW q, NEW what, Finish(q, what), EndsWith(req[q], what),
           req[q].pc \notin {"idle", "done"}
    PROVE  StepOf(q)
BY DEF StepOf

(* The steps at the JWT manager.                                           *)
LEMMA JWTStep ==
    ASSUME TypeOK, NEW q \in Requests,
           \/ GetCached(q) \/ GetFetches(q) \/ Invalidate(q)
           \/ FetchOK(q) \/ FetchFails(q) \/ FetchBanned(q)
    PROVE  StepOf(q)
<1>0. req[q] \in RequestState
  BY RecordTypes
<1>1. ASSUME NEW seen \in BOOLEAN, TokenFor(q, seen), req[q].pc \in {"get", "fetch"},
             seen => req[q].pc = "get" /\ q \in jwt.used
      PROVE  StepOf(q)
  <2> DEFINE s == IF req[q].phase = "jwt"
                  THEN [req[q] EXCEPT !.again = seen, !.pc = "fwd", !.phase = "send", !.n = 0]
                  ELSE [req[q] EXCEPT !.again = seen,
                          !.pc = IF req[q].phase = "h403" THEN "rotate" ELSE "fwd"]
  <2>1. Move(q, s)
    BY <1>0, <1>1 DEF TokenFor, RequestState
  <2>2. /\ s.stream = req[q].stream /\ s.pc \in {"fwd", "rotate"}
        /\ IF req[q].phase = "jwt" THEN s.phase = "send"
           ELSE s.phase = req[q].phase /\ s.n = req[q].n
        /\ s.again = seen
    BY <1>0 DEF RequestState
  <2> HIDE DEF s
  <2>3. Obtains(q, s)
    BY <1>1, <2>2 DEF Obtains
  <2> QED BY <1>1, <2>1, <2>2, <2>3 DEF StepOf, GoesOn
<1>2. CASE GetCached(q)
  <2>1. (q \in jwt.used) \in BOOLEAN
    OBVIOUS
  <2> QED BY <1>1, <1>2, <2>1 DEF GetCached, At
<1>3. CASE FetchOK(q)
  BY <1>1, <1>3 DEF FetchOK, At
<1>4. CASE GetFetches(q)
  <2> DEFINE s == [req[q] EXCEPT !.pc = "fetch", !.via = Route]
  <2>1. s.stream = req[q].stream /\ Walks(req[q], s)
    BY <1>0, <1>4 DEF RequestState, GetFetches, At, Walks
  <2>2. Move(q, s)
    BY <1>4 DEF GetFetches
  <2> HIDE DEF s
  <2> QED BY <2>1, <2>2, WalkStep
<1>5. CASE FetchFails(q) \/ FetchBanned(q)
  <2> DEFINE s == [req[q] EXCEPT !.pc = "jwterr"]
  <2>1. s.stream = req[q].stream /\ Walks(req[q], s)
    BY <1>0, <1>5 DEF RequestState, FetchFails, FetchBanned, At, Walks
  <2>2. Move(q, s)
    BY <1>5 DEF FetchFails, FetchBanned
  <2> HIDE DEF s
  <2> QED BY <2>1, <2>2, WalkStep
<1>6. CASE Invalidate(q)
  <2> DEFINE s == [req[q] EXCEPT !.pc = "get"]
  <2>1. req[q].pc = "inval" /\ s.stream = req[q].stream /\ Walks(req[q], s)
    BY <1>0, <1>6 DEF RequestState, Invalidate, At, Walks
  <2>2. Move(q, s) \/ Finish(q, "unauthorized")
    BY <1>6 DEF Invalidate
  <2>3. EndsWith(req[q], "unauthorized")
    BY DEF EndsWith
  <2> HIDE DEF s
  <2> QED BY <2>1, <2>2, <2>3, WalkStep, FinishStep
<1> QED BY <1>2, <1>3, <1>4, <1>5, <1>6

(* A failed fetch, the tests of the retry loops, the 403 block.            *)
LEMMA LoopStep ==
    ASSUME TypeOK, NEW q \in Requests,
           \/ JWTErrorFirst(q) \/ JWTErrorRetry(q) \/ JWTErrorCompliance(q)
           \/ Top401(q) \/ Top429(q) \/ TopCompliance(q)
           \/ Ban(q) \/ Rotate(q)
    PROVE  StepOf(q)
<1>0. /\ req[q] \in RequestState /\ Again(q).pc = "top" /\ Again(q).phase = req[q].phase
      /\ Again(q).stream = req[q].stream
  BY RecordTypes, Fields
<1>1. \A o \in {"unauthorized", "panic", "limited", "forbidden"} : EndsWith(req[q], o)
  BY DEF EndsWith
<1>2. ASSUME req[q].pc = "jwterr", Move(q, Again(q)) PROVE StepOf(q)
  BY <1>0, <1>2, GoesOnStep DEF GoesOn, Retries
<1>3. CASE JWTErrorFirst(q)
  <2> DEFINE k == req[q].n + 1
             s == [req[q] EXCEPT !.pc = "inval", !.n = k]
  <2>1. /\ Finish(q, "unauthorized") \/ Move(q, s)
        /\ req[q].pc = "jwterr" /\ req[q].phase = "jwt"
    BY <1>3 DEF JWTErrorFirst, At
  <2> HIDE DEF k
  <2>2. s.pc = "inval" /\ s.phase = req[q].phase /\ s.stream = req[q].stream
    BY <1>0 DEF RequestState
  <2> HIDE DEF s
  <2>3. GoesOn(q, s)
    BY <2>1, <2>2 DEF GoesOn, Plain, Outside
  <2> QED BY <1>1, <2>1, <2>3, GoesOnStep, FinishStep
<1>4. CASE JWTErrorRetry(q)
  <2> DEFINE s == [req[q] EXCEPT !.pc = "fwd", !.again = TRUE]
  <2>1. /\ req[q].pc = "jwterr"
        /\ \/ Move(q, Again(q))
           \/ Finish(q, "unauthorized")
           \/ req[q].phase = "fb429" /\ Move(q, s)
    BY <1>4 DEF JWTErrorRetry, At
  <2>2. s.pc = "fwd" /\ s.phase = req[q].phase /\ s.stream = req[q].stream
    BY <1>0 DEF RequestState
  <2> HIDE DEF s
  <2>3. req[q].phase = "fb429" => GoesOn(q, s)
    BY <2>1, <2>2 DEF GoesOn, Plain, Outside
  <2> QED BY <1>1, <1>2, <2>1, <2>3, GoesOnStep, FinishStep
<1>5. CASE JWTErrorCompliance(q)
  BY <1>2, <1>5 DEF JWTErrorCompliance, At
<1> DEFINE begun == [req[q] EXCEPT !.pc = "inval"]
<1>6. begun.pc = "inval" /\ begun.phase = req[q].phase /\ begun.n = req[q].n
      /\ begun.stream = req[q].stream
  BY <1>0 DEF RequestState
<1>7. ASSUME req[q].pc = "top", req[q].phase \in Compliance => req[q].n < ComplianceRetries
      PROVE  GoesOn(q, begun)
  BY <1>6, <1>7 DEF GoesOn, Begins
<1>8. CASE Top401(q)
  <2>1. /\ req[q].pc = "top" /\ req[q].phase = "h401"
        /\ Move(q, begun) \/ Finish(q, "panic") \/ Finish(q, "unauthorized")
    BY <1>8 DEF Top401, At
  <2> HIDE DEF begun
  <2> QED BY <1>1, <1>7, <2>1, GoesOnStep, FinishStep DEF Compliance
<1>9. CASE Top429(q)
  <2> DEFINE s == [req[q] EXCEPT !.pc = "inval", !.phase = "fb429"]
  <2>1. /\ req[q].pc = "top" /\ req[q].phase = "h429"
        /\ \/ Move(q, begun) \/ Move(q, s)
           \/ Finish(q, "panic") \/ Finish(q, "limited")
    BY <1>9 DEF Top429, At
  <2>2. s.pc = "inval" /\ s.phase = "fb429" /\ s.stream = req[q].stream
    BY <1>0 DEF RequestState
  <2> HIDE DEF begun, s
  <2>3. GoesOn(q, s)
    BY <2>1, <2>2 DEF GoesOn, Plain, Outside
  <2> QED BY <1>1, <1>7, <2>1, <2>3, GoesOnStep, FinishStep DEF Compliance
<1>10. CASE TopCompliance(q)
  <2>1. /\ req[q].pc = "top"
        /\ \/ req[q].n < ComplianceRetries /\ Move(q, begun)
           \/ req[q].phase = "cj" /\ Finish(q, "original")
           \/ Finish(q, "forbidden")
    BY <1>10 DEF TopCompliance, At, GiveUp
  <2>2. req[q].phase = "cj" => EndsWith(req[q], "original")
    BY <2>1 DEF EndsWith
  <2> HIDE DEF begun
  <2> QED BY <1>1, <1>7, <2>1, <2>2, GoesOnStep, FinishStep
<1>11. CASE Ban(q)
  <2> DEFINE s == [req[q] EXCEPT !.pc = "inval", !.aim = NoAddr]
  <2>1. s.stream = req[q].stream /\ Walks(req[q], s)
    BY <1>0, <1>11 DEF RequestState, Ban, At, Walks
  <2>2. Move(q, s)
    BY <1>11 DEF Ban
  <2> HIDE DEF s
  <2> QED BY <2>1, <2>2, WalkStep
<1>12. CASE Rotate(q)
  <2> DEFINE s == [req[q] EXCEPT !.pc = "fwd"]
  <2>1. s.stream = req[q].stream /\ Walks(req[q], s)
    BY <1>0, <1>12 DEF RequestState, Rotate, At, Walks
  <2>2. Move(q, s)
    BY <1>12 DEF Rotate
  <2> HIDE DEF s
  <2> QED BY <2>1, <2>2, WalkStep
<1> QED BY <1>3, <1>4, <1>5, <1>8, <1>9, <1>10, <1>11, <1>12

(* A send, a send that fails, the end of a relayed stream.                 *)
LEMMA SendStep ==
    ASSUME TypeOK, NEW q \in Requests,
           \/ Forward(q) \/ SendFailsFirst(q) \/ SendFailsRetry(q)
           \/ StreamEnds(q) \/ StreamWriteError(q)
    PROVE  StepOf(q)
<1>0. /\ req[q] \in RequestState /\ Again(q) \in RequestState
      /\ Again(q).pc = "top" /\ Again(q).phase = req[q].phase
      /\ Again(q).stream = req[q].stream
  BY RecordTypes, Fields
<1>1. \A o \in {"panic", "limited", "badgateway"} : EndsWith(req[q], o)
  BY DEF EndsWith
<1>2. CASE Forward(q)
  <2> DEFINE k == req[q].sends + 1
             s == [req[q] EXCEPT !.pc = "wait", !.via = Route, !.sends = k]
  <2>1. (Finish(q, "panic") \/ Move(q, s)) /\ req[q].pc = "fwd"
    BY <1>2 DEF Forward, At
  <2> HIDE DEF k
  <2>2. s.stream = req[q].stream /\ Walks(req[q], s)
    BY <1>0, <2>1 DEF RequestState, Walks
  <2> HIDE DEF s
  <2> QED BY <1>1, <2>1, <2>2, WalkStep, FinishStep
<1>3. CASE SendFailsFirst(q)
  <2> DEFINE k == req[q].n + 1
             s == [req[q] EXCEPT !.pc = "fwd", !.n = k]
  <2>1. /\ Finish(q, "badgateway") \/ Move(q, s)
        /\ req[q].pc = "wait" /\ req[q].phase = "send"
    BY <1>3 DEF SendFailsFirst, At
  <2> HIDE DEF k
  <2>2. s.pc = "fwd" /\ s.phase = req[q].phase /\ s.stream = req[q].stream
    BY <1>0 DEF RequestState
  <2> HIDE DEF s
  <2>3. GoesOn(q, s)
    BY <2>1, <2>2 DEF GoesOn, Plain, Outside
  <2> QED BY <1>1, <2>1, <2>3, GoesOnStep, FinishStep
<1>4. CASE SendFailsRetry(q)
  <2> DEFINE s == [Again(q) EXCEPT !.nilresp = TRUE]
  <2>1. s.pc = "top" /\ s.phase = req[q].phase /\ s.stream = req[q].stream
    BY <1>0 DEF RequestState
  <2>2. /\ req[q].pc = "wait"
        /\ \/ Move(q, s) \/ Move(q, Again(q))
           \/ Finish(q, "badgateway") \/ Finish(q, "limited")
    BY <1>4 DEF SendFailsRetry, At
  <2> HIDE DEF s
  <2>3. GoesOn(q, s) /\ GoesOn(q, Again(q))
    BY <1>0, <2>1, <2>2 DEF GoesOn, Retries
  <2> QED BY <1>1, <2>2, <2>3, GoesOnStep, FinishStep
<1>5. CASE StreamEnds(q) \/ StreamWriteError(q)
  <2>1. req[q].pc = "streaming" /\ Finish(q, req[q].out)
    BY <1>5 DEF StreamEnds, StreamWriteError, At
  <2> QED BY <2>1, FinishStep DEF EndsWith
<1> QED BY <1>2, <1>3, <1>4, <1>5

(* The answers of the upstream.                                            *)
LEMMA AnswerStep ==
    ASSUME TypeOK, NEW q \in Requests, NEW x \in Responses,
           \/ Refused(q, x) \/ Answered(q, x)
           \/ AnsweredCS(q, x) \/ AnsweredCJ(q, x) \/ AnsweredCN(q, x)
    PROVE  StepOf(q)
<1>0. /\ req[q] \in RequestState /\ req[q].pc = "wait"
      /\ Again(q) \in RequestState /\ Again(q).pc = "top" /\ Again(q).phase = req[q].phase
      /\ Again(q).stream = req[q].stream
  <2>1. req[q].pc = "wait"
    BY DEF Refused, Answered, AnsweredCS, AnsweredCJ, AnsweredCN, At
  <2> QED BY <2>1, RecordTypes, Fields
<1>1. x.block \in Blocks
  BY ChatAssumption DEF Response
<1> DEFINE kept == [Again(q) EXCEPT !.nilresp = FALSE]
           relayed == [req[q] EXCEPT !.pc = "streaming", !.out = What(x)]
<1>2. ASSUME Move(q, Again(q)) \/ Move(q, kept) PROVE StepOf(q)
  <2>1. kept.pc = "top" /\ kept.phase = req[q].phase /\ kept.stream = req[q].stream
    BY <1>0 DEF RequestState
  <2> HIDE DEF kept
  <2>2. GoesOn(q, kept) /\ GoesOn(q, Again(q))
    BY <1>0, <2>1 DEF GoesOn, Retries
  <2> QED BY <1>0, <1>2, <2>2, GoesOnStep
<1>3. ASSUME NEW h, Move(q, Enter(q, h)),
             h \in {"cs", "cj"} => req[q].stream
      PROVE  StepOf(q)
  <2>1. Enter(q, h).pc = "top" /\ Enter(q, h).phase = h /\ Enter(q, h).stream = req[q].stream
    BY <1>0 DEF Enter, RequestState
  <2>2. GoesOn(q, Enter(q, h))
    BY <1>0, <1>3, <2>1 DEF GoesOn, Enters
  <2> QED BY <1>0, <1>3, <2>2, GoesOnStep
<1>4. ASSUME Relay(q, x), req[q].stream \/ req[q].phase \in {"cs", "cj"},
             Early(x) => req[q].phase = "cj"
      PROVE  StepOf(q)
  <2>1. /\ relayed.pc = "streaming" /\ relayed.phase = req[q].phase
        /\ relayed.n = req[q].n /\ relayed.out = What(x)
        /\ relayed.stream = req[q].stream
    BY <1>0 DEF RequestState
  <2>2. Move(q, relayed)
    BY <1>4 DEF Relay
  <2> HIDE DEF relayed
  <2>3. What(x) \in Blocks \cup {"clean"} /\ (What(x) = "early" => Early(x))
    BY <1>1 DEF What, Early
  <2>4. GoesOn(q, relayed)
    BY <1>0, <1>4, <2>1, <2>3 DEF GoesOn, Relays
  <2> QED BY <1>0, <2>2, <2>4, GoesOnStep
<1>5. ASSUME Deliver(q, x), ~Blocked(x) PROVE StepOf(q)
  <2>1. EndsWith(req[q], What(x))
    BY <1>1, <1>5 DEF EndsWith, What, Blocked, Blocks
  <2> QED BY <1>0, <1>5, <2>1, FinishStep DEF Deliver
<1>5a. ASSUME Truncated(q) PROVE StepOf(q)
  <2>1. EndsWith(req[q], "lost")
    BY DEF EndsWith
  <2> QED BY <1>0, <1>5a, <2>1, FinishStep DEF Truncated
<1>6. CASE Refused(q, x)
  <2> DEFINE h == Handler(req[q].phase, x.status)
             banned == [Enter(q, "h403") EXCEPT !.pc = "ban", !.aim = CurrentOf(rot)]
  <2>1. \/ Move(q, kept)
        \/ h \in {"h401", "h429"} /\ Move(q, Enter(q, h))
        \/ Move(q, banned)
        \/ Finish(q, "limited")
    BY <1>6 DEF Refused
  <2>2. banned.pc = "ban" /\ banned.phase = "h403" /\ banned.stream = req[q].stream
    <3>1. Enter(q, "h403") \in RequestState
      BY RecordTypes DEF Phases
    <3>2. Enter(q, "h403").phase = "h403" /\ Enter(q, "h403").stream = req[q].stream
      BY <1>0 DEF Enter, RequestState
    <3> QED BY <3>1, <3>2 DEF RequestState
  <2> HIDE DEF banned, h, kept
  <2>3. GoesOn(q, banned)
    BY <1>0, <2>2 DEF GoesOn, Enters
  <2>4. EndsWith(req[q], "limited")
    BY DEF EndsWith
  <2> QED BY <1>0, <1>2, <1>3, <2>1, <2>3, <2>4, GoesOnStep, FinishStep
<1> HIDE DEF kept, relayed
<1>7. CASE Answered(q, x)
  <2>1. CASE req[q].stream
    BY <1>3, <1>4, <1>5, <1>5a, <1>7, <2>1 DEF Answered, DeliverStream, BlameAnd
  <2>2. CASE ~req[q].stream
    BY <1>3, <1>5, <1>7, <2>2 DEF Answered, DeliverBody, BlameAnd
  <2> QED BY <2>1, <2>2
<1>8. CASE AnsweredCS(q, x)
  <2>1. ASSUME ~Early(x), Blocked(x), Finish(q, What(x)) PROVE StepOf(q)
    <3>1. EndsWith(req[q], What(x))
      BY <1>0, <1>8, <2>1 DEF EndsWith, What, Blocked, Early, AnsweredCS
    <3> QED BY <1>0, <2>1, <3>1, FinishStep
  <2> QED BY <1>2, <1>4, <1>5, <1>5a, <1>8, <2>1 DEF AnsweredCS, BlameAnd, kept
<1>9. CASE AnsweredCJ(q, x)
  BY <1>2, <1>4, <1>5, <1>9 DEF AnsweredCJ, BlameAnd
<1>10. CASE AnsweredCN(q, x)
  <2>1. x.block = "none" => ~Blocked(x)
    BY DEF Blocked
  <2> QED BY <1>2, <1>5, <1>10, <2>1 DEF AnsweredCN, BlameAnd
<1> QED BY <1>6, <1>7, <1>8, <1>9, <1>10

LEMMA RequestStep ==
    ASSUME TypeOK, NEW q \in Requests, Work(q) \/ Locked(q)
    PROVE  StepOf(q)
<1>1. CASE \E x \in Responses :
              \/ Refused(q, x) \/ Answered(q, x)
              \/ AnsweredCS(q, x) \/ AnsweredCJ(q, x) \/ AnsweredCN(q, x)
  BY <1>1, AnswerStep
<1>2. CASE \/ GetCached(q) \/ GetFetches(q) \/ Invalidate(q)
           \/ FetchOK(q) \/ FetchFails(q) \/ FetchBanned(q)
  BY <1>2, JWTStep
<1>3. CASE \/ JWTErrorFirst(q) \/ JWTErrorRetry(q) \/ JWTErrorCompliance(q)
           \/ Top401(q) \/ Top429(q) \/ TopCompliance(q)
           \/ Ban(q) \/ Rotate(q)
  BY <1>3, LoopStep
<1>4. CASE \/ Forward(q) \/ SendFailsFirst(q) \/ SendFailsRetry(q)
           \/ StreamEnds(q) \/ StreamWriteError(q)
  BY <1>4, SendStep
<1> QED BY <1>1, <1>2, <1>3, <1>4 DEF Work, Locked

(* The other steps leave the requests alone.                               *)
LEMMA BackgroundStep ==
    ASSUME \/ TokenExpires \/ HealthStep \/ RefreshStep
           \/ \E list \in Fetches : RefreshFetch(list)
           \/ UNCHANGED vars
    PROVE  req' = req /\ sem' = sem /\ (jwt' = jwt \/ TokenExpires)
BY DEF TokenExpires, HealthStep, HealthSnapshot, HealthReplace, HealthUpdate,
       RefreshStep, RefreshAdd, RefreshSnapshot, RefreshUpdate, RefreshFetch, vars

(* What a request that was turned away or accepted becomes.                *)
LEMMA ArriveEffect ==
    ASSUME TypeOK, NEW q \in Requests, Arrive(q)
    PROVE  /\ Idle(q) /\ jwt' = jwt
           /\ \A p \in Requests \ {q} : req'[p] = req[p]
           /\ req'[q].phase = "jwt"
           /\ \/ /\ req'[q].pc = "done" /\ sem' = sem
                 /\ req'[q].out \in {"rejected", "busy"}
              \/ req'[q].pc = "body" /\ sem < MaxConcurrent /\ sem' = sem + 1
<1>0. Fresh \in RequestState /\ Fresh.phase = "jwt"
  BY RecordTypes, Fields
<1>1. Idle(q) /\ jwt' = jwt
  BY DEF Arrive, RejectedByRateLimiter, RejectedBySemaphore, Accept, Turned
<1>2. ASSUME NEW what \in {"rejected", "busy"}, Turned(q, what)
      PROVE  /\ \A p \in Requests \ {q} : req'[p] = req[p]
             /\ req'[q].phase = "jwt" /\ req'[q].pc = "done"
             /\ req'[q].out = what /\ sem' = sem
  <2> DEFINE r == [Fresh EXCEPT !.pc = "done", !.out = what]
  <2>1. r.pc = "done" /\ r.out = what /\ r.phase = "jwt"
    BY <1>0 DEF RequestState
  <2>2. req' = [req EXCEPT ![q] = r] /\ sem' = sem
    BY <1>2 DEF Turned
  <2> HIDE DEF r
  <2> QED BY <2>1, <2>2 DEF TypeOK
<1>3. ASSUME Accept(q)
      PROVE  /\ \A p \in Requests \ {q} : req'[p] = req[p]
             /\ req'[q].phase = "jwt" /\ req'[q].pc = "body"
             /\ sem < MaxConcurrent /\ sem' = sem + 1
  <2> DEFINE r == [Fresh EXCEPT !.pc = "body"]
  <2>1. r.pc = "body" /\ r.phase = "jwt"
    BY <1>0 DEF RequestState
  <2>2. req' = [req EXCEPT ![q] = r] /\ sem < MaxConcurrent /\ sem' = sem + 1
    BY <1>3 DEF Accept
  <2> HIDE DEF r
  <2> QED BY <2>1, <2>2 DEF TypeOK
<1> QED
  BY <1>1, <1>2, <1>3
  DEF Arrive, RejectedByRateLimiter, RejectedBySemaphore

(* What is left of a handler that has returned.                            *)
LEMMA ReturnEffect ==
    ASSUME TypeOK, NEW q \in Requests, NEW what, Finish(q, what)
    PROVE  /\ \A p \in Requests \ {q} : req'[p] = req[p]
           /\ req'[q].pc = "done" /\ req'[q].out = what
           /\ req'[q].stream = req[q].stream
           /\ req'[q].phase = req[q].phase /\ req'[q].n = req[q].n
           /\ sem' = sem - 1
<1> DEFINE r == Returned(req[q], what)
<1>1. req[q] \in RequestState
  BY DEF TypeOK
<1>2. /\ r.pc = "done" /\ r.out = what /\ r.stream = req[q].stream
      /\ r.phase = req[q].phase /\ r.n = req[q].n
  BY <1>1 DEF RequestState, Returned
<1>3. req' = [req EXCEPT ![q] = r] /\ sem' = sem - 1
  BY DEF Finish
<1> HIDE DEF r
<1> QED BY <1>2, <1>3 DEF TypeOK

-----------------------------------------------------------------------------
(* Blocked answers.                                                        *)

(* The strengthening of BlockedDelivery that is inductive: a handler that  *)
(* is in one of the two compliance loops of a stream was asked for one,    *)
(* and the JSON loop is past its test only while it has retries left.      *)
DeliveryOK(r) ==
    /\ r.pc \notin Outside =>
          /\ r.phase \in {"cs", "cj"} => r.stream
          /\ r.phase = "cj" /\ r.pc # "top" => r.n < ComplianceRetries
    /\ r.pc \in {"streaming", "done"} /\ r.out \in {"early", "late", "original"} =>
          /\ r.stream
          /\ r.out = "early" => r.phase = "cj" /\ r.n < ComplianceRetries

DeliveryInv == \A q \in Requests : DeliveryOK(req[q])

LEMMA StepDelivery ==
    ASSUME TypeOK, DeliveryInv, NEW q \in Requests, StepOf(q)
    PROVE  DeliveryInv'
<1>0. DeliveryOK(req[q])
  BY DEF DeliveryInv
<1>1. ASSUME NEW s, Move(q, s), GoesOn(q, s) PROVE DeliveryInv'
  <2>1. DeliveryOK(s)
    <3> USE <1>0 DEF DeliveryOK, Outside
    <3>0. s.stream = req[q].stream
      BY <1>1 DEF GoesOn
    <3>1. CASE Walks(req[q], s)
      BY <3>0, <3>1 DEF Walks
    <3>2. CASE Begins(req[q], s)
      BY <3>0, <3>2 DEF Begins, Compliance
    <3>3. CASE Retries(req[q], s)
      BY <3>0, <3>3 DEF Retries
    <3>4. CASE Enters(req[q], s)
      BY <3>0, <3>4 DEF Enters
    <3>5. CASE Plain(req[q], s)
      BY <3>0, <3>5 DEF Plain
    <3>6. CASE Obtains(q, s)
      BY <3>0, <3>6 DEF Obtains
    <3>7. CASE Relays(req[q], s)
      BY <3>0, <3>7 DEF Relays, Blocks
    <3> QED BY <1>1, <3>1, <3>2, <3>3, <3>4, <3>5, <3>6, <3>7 DEF GoesOn
  <2> QED BY <1>1, <2>1, MoveEffect DEF DeliveryInv
<1>2. ASSUME NEW what, Finish(q, what), EndsWith(req[q], what) PROVE DeliveryInv'
  <2>1. DeliveryOK(req'[q])
    BY <1>0, <1>2, ReturnEffect DEF DeliveryOK, EndsWith, Outside
  <2> QED BY <1>2, <2>1, ReturnEffect DEF DeliveryInv
<1> QED BY <1>1, <1>2 DEF StepOf

LEMMA NextDelivery == TypeOK /\ DeliveryInv /\ [Next]_vars => DeliveryInv'
<1> SUFFICES ASSUME TypeOK, DeliveryInv, [Next]_vars PROVE DeliveryInv'
  OBVIOUS
<1>1. ASSUME NEW q \in Requests, Arrive(q) PROVE DeliveryInv'
  <2>1. DeliveryOK(req'[q])
    BY <1>1, ArriveEffect DEF DeliveryOK, Outside
  <2> QED BY <1>1, <2>1, ArriveEffect DEF DeliveryInv
<1>1a. ASSUME NEW q \in Requests, Body(q) PROVE DeliveryInv'
  <2>1. DeliveryOK(req'[q])
    BY <1>1a, BodyEffect DEF DeliveryOK, Outside
  <2> QED BY <1>1a, <2>1, BodyEffect DEF DeliveryInv
<1>2. ASSUME NEW q \in Requests, Work(q) \/ Locked(q) PROVE DeliveryInv'
  BY <1>2, RequestStep, StepDelivery
<1>3. CASE \/ TokenExpires \/ HealthStep \/ RefreshStep
           \/ \E list \in Fetches : RefreshFetch(list)
           \/ UNCHANGED vars
  BY <1>3, BackgroundStep DEF DeliveryInv
<1> QED BY <1>1, <1>1a, <1>2, <1>3 DEF Next

(* However the retries of handleChat go (server.go 562-1004), an answer    *)
(* with the compliance text reaches only a client that asked for a stream, *)
(* and with the text in its first lines only when a retry of the JSON loop *)
(* got an event stream, which is relayed unchecked.                        *)
THEOREM BlockedAnswersAreStopped == Spec => []BlockedDelivery
<1>1. Init => DeliveryInv
  BY DEF Init, DeliveryInv, DeliveryOK, Fresh, Outside
<1>2. TypeOK /\ DeliveryInv /\ [Next]_vars => DeliveryInv'
  BY NextDelivery
<1>3. DeliveryInv => BlockedDelivery
  BY DEF DeliveryInv, DeliveryOK, BlockedDelivery
<1> QED BY <1>1, <1>2, <1>3, ServerTypeCorrect, PTL DEF Spec

-----------------------------------------------------------------------------
(* Tokens of retries.                                                      *)

(* The strengthening of NewTokenOnRetry: Invalidate has emptied the cache  *)
(* when a retry calls Get, and whatever token is cached since then, this   *)
(* request never had.                                                      *)
TokenOK(q) ==
    req[q].phase \in Refreshing =>
        /\ req[q].pc = "get" => q \notin jwt.used
        /\ req[q].pc \in {"rotate", "fwd", "wait"} => ~req[q].again

TokenInv == \A q \in Requests : TokenOK(q)

(* A request adds nobody but itself to those who had the cached token, and *)
(* a step from Invalidate leaves no token.                                 *)
LEMMA UsedStep ==
    ASSUME TypeOK, NEW q \in Requests, Work(q) \/ Locked(q)
    PROVE  /\ jwt'.used \subseteq jwt.used \cup {q}
           /\ req[q].pc = "inval" => jwt'.used = {}
<1>0. JwtOK
  BY TypeSplit
<1>1. CASE GetCached(q)
  <2>1. jwt'.used = jwt.used \cup {q}
    BY <1>0, <1>1 DEF GetCached, JwtOK
  <2> QED BY <1>1, <2>1 DEF GetCached, At
<1>2. CASE FetchOK(q)
  BY <1>2 DEF FetchOK, At
<1>3. CASE GetFetches(q) \/ FetchFails(q) \/ FetchBanned(q)
  <2>1. jwt'.used = jwt.used
    BY <1>0, <1>3 DEF GetFetches, FetchFails, FetchBanned, JwtOK
  <2> QED BY <1>3, <2>1 DEF GetFetches, FetchFails, FetchBanned, At
<1>4. CASE Invalidate(q)
  BY <1>0, <1>4 DEF Invalidate, JwtOK
<1>5. CASE \/ JWTErrorFirst(q) \/ JWTErrorRetry(q) \/ JWTErrorCompliance(q)
           \/ Top401(q) \/ Top429(q) \/ TopCompliance(q)
           \/ Ban(q) \/ Rotate(q)
           \/ Forward(q) \/ SendFailsFirst(q) \/ SendFailsRetry(q)
           \/ StreamEnds(q) \/ StreamWriteError(q)
  BY <1>5
  DEF JWTErrorFirst, JWTErrorRetry, JWTErrorCompliance, Top401, Top429, TopCompliance,
      Ban, Rotate, Forward, SendFailsFirst, SendFailsRetry, StreamEnds,
      StreamWriteError, Rest, At
<1>6. CASE \E x \in Responses :
              \/ Refused(q, x) \/ Answered(q, x)
              \/ AnsweredCS(q, x) \/ AnsweredCJ(q, x) \/ AnsweredCN(q, x)
  BY <1>6 DEF Refused, Answered, AnsweredCS, AnsweredCJ, AnsweredCN, At, Rest
<1> QED BY <1>1, <1>2, <1>3, <1>4, <1>5, <1>6 DEF Work, Locked

LEMMA StepToken ==
    ASSUME TypeOK, TokenInv, NEW q \in Requests, Work(q) \/ Locked(q)
    PROVE  TokenInv'
<1>0. /\ jwt'.used \subseteq jwt.used \cup {q}
      /\ req[q].pc = "inval" => jwt'.used = {}
      /\ StepOf(q) /\ TokenOK(q)
  BY UsedStep, RequestStep DEF TokenInv
<1>1. ASSUME \A p \in Requests \ {q} : req'[p] = req[p], TokenOK(q)' PROVE TokenInv'
  BY <1>0, <1>1 DEF TokenInv, TokenOK
<1>2. ASSUME NEW s, Move(q, s), GoesOn(q, s) PROVE TokenInv'
  <2>0. req'[q] = s /\ \A p \in Requests \ {q} : req'[p] = req[p]
    BY <1>2, MoveEffect
  <2>1. s.phase \in Refreshing =>
          /\ s.pc = "get" => q \notin jwt'.used
          /\ s.pc \in {"rotate", "fwd", "wait"} => ~s.again
    <3>1. CASE Walks(req[q], s)
      BY <1>0, <3>1 DEF Walks, TokenOK
    <3>2. CASE Begins(req[q], s) \/ Retries(req[q], s) \/ Enters(req[q], s)
      BY <3>2 DEF Begins, Retries, Enters
    <3>3. CASE Plain(req[q], s)
      BY <3>3 DEF Plain, Refreshing, Loops
    <3>4. CASE Obtains(q, s)
      BY <1>0, <3>4 DEF Obtains, TokenOK, Refreshing, Loops
    <3>5. CASE Relays(req[q], s)
      BY <3>5 DEF Relays
    <3> QED BY <1>2, <3>1, <3>2, <3>3, <3>4, <3>5 DEF GoesOn
  <2>2. TokenOK(q)'
    BY <2>0, <2>1 DEF TokenOK
  <2> QED BY <1>1, <2>0, <2>2
<1>3. ASSUME NEW what, Finish(q, what) PROVE TokenInv'
  BY <1>1, <1>3, FinishEffect DEF TokenOK
<1> QED BY <1>0, <1>2, <1>3 DEF StepOf

LEMMA NextToken == TypeOK /\ TokenInv /\ [Next]_vars => TokenInv'
<1> SUFFICES ASSUME TypeOK, TokenInv, [Next]_vars PROVE TokenInv'
  OBVIOUS
<1>1. ASSUME NEW q \in Requests, Arrive(q) PROVE TokenInv'
  BY <1>1, ArriveEffect DEF TokenInv, TokenOK, Refreshing, Loops
<1>1a. ASSUME NEW q \in Requests, Body(q) PROVE TokenInv'
  BY <1>1a, BodyEffect DEF TokenInv, TokenOK, Refreshing, Loops
<1>2. ASSUME NEW q \in Requests, Work(q) \/ Locked(q) PROVE TokenInv'
  BY <1>2, StepToken
<1>3. CASE \/ TokenExpires \/ HealthStep \/ RefreshStep
           \/ \E list \in Fetches : RefreshFetch(list)
           \/ UNCHANGED vars
  <2>1. req' = req /\ jwt'.used \subseteq jwt.used
    <3>1. CASE TokenExpires
      BY <3>1, TypeSplit DEF TokenExpires, JwtOK
    <3> QED BY <1>3, <3>1, BackgroundStep
  <2> QED BY <2>1 DEF TokenInv, TokenOK
<1> QED BY <1>1, <1>1a, <1>2, <1>3 DEF Next

(* A retry that refreshes the JWT is never sent with a token this request  *)
(* already had, although other requests fetch, share and invalidate the    *)
(* cached token between its Invalidate and its Get (jwt.go 36-66).         *)
THEOREM RetriesHaveNewTokens == Spec => []NewTokenOnRetry
<1>1. Init => TokenInv
  BY DEF Init, TokenInv, TokenOK, Fresh
<1>2. TypeOK /\ TokenInv /\ [Next]_vars => TokenInv'
  BY NextToken
<1>3. TokenInv => NewTokenOnRetry
  BY DEF TokenInv, TokenOK, NewTokenOnRetry, Refreshing
<1> QED BY <1>1, <1>2, <1>3, ServerTypeCorrect, PTL DEF Spec

-----------------------------------------------------------------------------
(* The slots of the semaphore.                                             *)

(* SlotsExact with what makes its cardinality meaningful: the semaphore    *)
(* admits only finitely many handlers, however many clients there are.     *)
SlotInv == IsFiniteSet(Active) /\ SlotsExact

LEMMA NextSlots == TypeOK /\ SlotInv /\ [Next]_vars => SlotInv'
<1> SUFFICES ASSUME TypeOK, SlotInv, [Next]_vars PROVE SlotInv'
  OBVIOUS
<1>0. /\ IsFiniteSet(Active) /\ sem = Cardinality(Active) /\ sem <= MaxConcurrent
      /\ sem \in Int /\ MaxConcurrent \in Nat
  BY ChatAssumption DEF SlotInv, SlotsExact, TypeOK
<1>1. ASSUME Active' = Active, sem' = sem PROVE SlotInv'
  BY <1>0, <1>1 DEF SlotInv, SlotsExact
<1>2. ASSUME NEW q \in Requests, Arrive(q) PROVE SlotInv'
  <2>1. /\ q \notin Active /\ \A p \in Requests \ {q} : req'[p] = req[p]
        /\ \/ req'[q].pc = "done" /\ sem' = sem
           \/ req'[q].pc = "body" /\ sem < MaxConcurrent /\ sem' = sem + 1
    BY <1>2, ArriveEffect DEF Active
  <2>2. CASE req'[q].pc = "done" /\ sem' = sem
    <3>1. Active' = Active
      BY <2>1, <2>2 DEF Active, Idle
    <3> QED BY <1>1, <2>2, <3>1
  <2>3. CASE req'[q].pc = "body" /\ sem < MaxConcurrent /\ sem' = sem + 1
    <3>1. Active' = Active \cup {q}
      BY <2>1, <2>3 DEF Active, Idle
    <3>2. IsFiniteSet(Active') /\ Cardinality(Active') = Cardinality(Active) + 1
      BY <1>0, <2>1, <3>1, FS_AddElement
    <3> QED BY <1>0, <2>3, <3>2 DEF SlotInv, SlotsExact
  <2> QED BY <2>1, <2>2, <2>3
<1>2a. ASSUME NEW q \in Requests, q \in Active,
              req'[q].pc = "done", sem' = sem - 1,
              \A p \in Requests \ {q} : req'[p] = req[p]
       PROVE  SlotInv'
  <2>1. Active' = Active \ {q}
    BY <1>2a DEF Active, Idle
  <2>2. IsFiniteSet(Active') /\ Cardinality(Active') = Cardinality(Active) - 1
    BY <1>0, <1>2a, <2>1, FS_RemoveElement
  <2> QED BY <1>0, <1>2a, <2>2 DEF SlotInv, SlotsExact
<1>2b. ASSUME NEW q \in Requests, Body(q) PROVE SlotInv'
  <2>1. /\ q \in Active /\ \A p \in Requests \ {q} : req'[p] = req[p]
        /\ \/ req'[q].pc = "get" /\ sem' = sem
           \/ req'[q].pc = "done" /\ sem' = sem - 1
    BY <1>2b, BodyEffect DEF Active, Idle
  <2>2. CASE req'[q].pc = "get" /\ sem' = sem
    <3>1. Active' = Active
      BY <2>1, <2>2 DEF Active, Idle
    <3> QED BY <1>1, <2>2, <3>1
  <2> QED BY <1>2a, <2>1, <2>2
<1>3. ASSUME NEW q \in Requests, Work(q) \/ Locked(q) PROVE SlotInv'
  <2>0. StepOf(q) /\ q \in Active
    BY <1>3, RequestStep DEF StepOf, Active, Idle
  <2>1. ASSUME NEW s, Move(q, s), GoesOn(q, s) PROVE SlotInv'
    <3>1. s.pc \notin {"idle", "done"}
      BY <2>1 DEF GoesOn, Walks, Begins, Retries, Enters, Plain, Obtains, Relays
    <3>2. req'[q] = s /\ \A p \in Requests \ {q} : req'[p] = req[p]
      BY <2>1, MoveEffect
    <3>3. Active' = Active
      BY <2>0, <3>1, <3>2 DEF Active, Idle
    <3> QED BY <1>1, <2>1, <3>3 DEF Move
  <2>2. ASSUME NEW what, Finish(q, what) PROVE SlotInv'
    BY <1>2a, <2>0, <2>2, ReturnEffect
  <2> QED BY <2>0, <2>1, <2>2 DEF StepOf
<1>4. CASE \/ TokenExpires \/ HealthStep \/ RefreshStep
           \/ \E list \in Fetches : RefreshFetch(list)
           \/ UNCHANGED vars
  <2>1. req' = req /\ sem' = sem
    BY <1>4, BackgroundStep
  <2> QED BY <1>1, <2>1 DEF Active, Idle
<1> QED BY <1>2, <1>2b, <1>3, <1>4 DEF Next

(* The semaphore of handleChat (server.go) counts the handlers that run,   *)
(* on every path out of them, panics included: no slot leaks, none is      *)
(* given back twice, and at most MaxConcurrent handlers run, for any       *)
(* number of clients.                                                      *)
THEOREM SlotsAreExact == Spec => []SlotsExact
<1>1. Init => SlotInv
  <2> SUFFICES ASSUME Init PROVE SlotInv
    OBVIOUS
  <2>1. Active = {}
    BY DEF Init, Active, Idle, Fresh
  <2> QED BY <2>1, FS_EmptySet, ChatAssumption DEF Init, SlotInv, SlotsExact
<1>2. TypeOK /\ SlotInv /\ [Next]_vars => SlotInv'
  BY NextSlots
<1>3. SlotInv => SlotsExact
  BY DEF SlotInv
<1> QED BY <1>1, <1>2, <1>3, ServerTypeCorrect, PTL DEF Spec

-----------------------------------------------------------------------------
(* The rotator and the pool.                                               *)

(* Requests and expiring tokens take addresses out of the rotator and put  *)
(* none in, and they leave the pool and the goroutines that keep it alone. *)
LEMMA RotatorStep ==
    ASSUME TypeOK, NEW q \in Requests, Arrive(q) \/ Body(q) \/ Work(q) \/ Locked(q)
    PROVE  /\ servers' = servers /\ hc' = hc /\ rf' = rf
           /\ \/ rot' = rot \/ rot' = Advanced(rot) \/ rot' = RemovedCurrent(rot)
              \/ \E a : rot' = Removed(rot, a)
<1> USE DEF shared, background, Rest
<1>1. CASE Arrive(q) \/ Body(q)
  BY <1>1
  DEF Arrive, RejectedByRateLimiter, RejectedBySemaphore, Turned, Accept,
      Body, ReadBody, BadBody
<1>2. CASE \/ GetCached(q) \/ GetFetches(q) \/ Invalidate(q)
           \/ FetchOK(q) \/ FetchFails(q) \/ FetchBanned(q)
  BY <1>2 DEF GetCached, GetFetches, Invalidate, FetchOK, FetchFails, FetchBanned
<1>3. CASE \/ JWTErrorFirst(q) \/ JWTErrorRetry(q) \/ JWTErrorCompliance(q)
           \/ Top401(q) \/ Top429(q) \/ TopCompliance(q)
           \/ Ban(q) \/ Rotate(q)
  BY <1>3
  DEF JWTErrorFirst, JWTErrorRetry, JWTErrorCompliance, Top401, Top429, TopCompliance,
      Ban, Rotate
<1>4. CASE \/ Forward(q) \/ SendFailsFirst(q) \/ SendFailsRetry(q)
           \/ StreamEnds(q) \/ StreamWriteError(q)
  BY <1>4 DEF Forward, SendFailsFirst, SendFailsRetry, StreamEnds, StreamWriteError
<1>5. ASSUME NEW x \in Responses,
             \/ Refused(q, x) \/ Answered(q, x)
             \/ AnsweredCS(q, x) \/ AnsweredCJ(q, x) \/ AnsweredCN(q, x)
      PROVE  /\ servers' = servers /\ hc' = hc /\ rf' = rf
             /\ rot' = rot \/ rot' = RemovedCurrent(rot)
  BY <1>5
  DEF Refused, Answered, DeliverStream, DeliverBody, AnsweredCS, AnsweredCJ, AnsweredCN,
      BlameAnd, Blame, Relay, Deliver, Truncated
<1> QED BY <1>1, <1>2, <1>3, <1>4, <1>5 DEF Work, Locked

(* RotatorBacked with what the health check is about to publish: the list  *)
(* it holds between ReplaceAll and Update is the pool.                     *)
BackedInv ==
    /\ rf.pc = "idle"
    /\ hc.pc = "update" => servers = hc.list
    /\ RotatorBacked

LEMMA NextBacked ==
    ASSUME Fetches = {}, TypeOK, BackedInv, [Next]_vars
    PROVE  BackedInv'
<1>0. rot \in RotatorState(Addr) /\ InRange(rot) /\ servers \in Seq(Server)
  BY DEF TypeOK
<1>1. ASSUME NEW q \in Requests, Arrive(q) \/ Body(q) \/ Work(q) \/ Locked(q)
      PROVE  BackedInv'
  <2>1. /\ servers' = servers /\ hc' = hc /\ rf' = rf
        /\ \/ rot' = rot \/ rot' = Advanced(rot) \/ rot' = RemovedCurrent(rot)
           \/ \E a : rot' = Removed(rot, a)
    BY <1>1, RotatorStep
  <2>2. \A i \in DOMAIN rot'.pool : \E j \in DOMAIN rot.pool : rot'.pool[i] = rot.pool[j]
    <3>1. CASE rot' = rot
      BY <3>1
    <3> QED BY <1>0, <2>1, <3>1, RotatorShrinks
  <2> QED BY <2>1, <2>2 DEF BackedInv, RotatorBacked
<1>2. CASE TokenExpires
  BY <1>2 DEF TokenExpires, shared, background, BackedInv, RotatorBacked
<1>3. CASE HealthSnapshot
  <2>1. hc'.pc = "dial" /\ hc.pc = "idle" /\ servers' = servers /\ rot' = rot /\ rf' = rf
    BY <1>3 DEF HealthSnapshot, shared
  <2> QED BY <2>1 DEF BackedInv, RotatorBacked
<1>4. ASSUME NEW up, HealthReplace(up) PROVE BackedInv'
  <2>1. hc'.pc = "update" /\ servers' = hc'.list /\ rf' = rf
    BY <1>4 DEF HealthReplace
  <2> QED BY <2>1 DEF BackedInv, RotatorBacked
<1>5. CASE HealthUpdate
  <2>1. /\ hc.pc = "update" /\ hc'.pc = "idle" /\ rot'.pool = SSAddresses(hc.list)
        /\ servers' = servers /\ rf' = rf
    BY <1>5 DEF HealthUpdate, shared, Updated, NewRotator
  <2>2. rot'.pool = SSAddresses(servers)
    BY <2>1 DEF BackedInv
  <2>3. \A i \in DOMAIN rot'.pool : HasAddr(servers, rot'.pool[i])
    BY <1>0, <2>2, SSAddressesType
  <2> QED BY <2>1, <2>3 DEF BackedInv, RotatorBacked
<1>6. ~RefreshStep /\ ~ \E list \in Fetches : RefreshFetch(list)
  BY DEF BackedInv, RefreshStep, RefreshAdd, RefreshSnapshot, RefreshUpdate
<1>7. CASE UNCHANGED vars
  BY <1>7 DEF vars, shared, BackedInv, RotatorBacked
<1> QED BY <1>1, <1>2, <1>3, <1>4, <1>5, <1>6, <1>7 DEF Next, HealthStep

(* While no refresh runs, every address the rotator hands out has a        *)
(* configuration in the pool, except between ReplaceAll and Update of the  *)
(* health check (main.go): createSSDialer finds it and the request is      *)
(* tunnelled.  With a refresh this is PoolUpkeep's RotatorMatchesPool.     *)
THEOREM RotatorIsBacked == Fetches = {} => (Spec => []RotatorBacked)
<1> SUFFICES ASSUME Fetches = {} PROVE Spec => []RotatorBacked
  OBVIOUS
<1>1. Init => BackedInv
  <2> SUFFICES ASSUME Init PROVE BackedInv
    OBVIOUS
  <2>1. /\ rot.pool = SSAddresses(servers) /\ servers \in Seq(Server)
        /\ rf.pc = "idle" /\ hc.pc = "idle"
    BY ChatAssumption DEF Init, NewRotator
  <2>2. \A i \in DOMAIN rot.pool : HasAddr(servers, rot.pool[i])
    BY <2>1, SSAddressesType
  <2> QED BY <2>1, <2>2 DEF BackedInv, RotatorBacked
<1>2. TypeOK /\ BackedInv /\ [Next]_vars => BackedInv'
  BY NextBacked
<1>3. BackedInv => RotatorBacked
  BY DEF BackedInv
<1> QED BY <1>1, <1>2, <1>3, ServerTypeCorrect, PTL DEF Spec

=============================================================================
