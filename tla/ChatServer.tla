---------------------------- MODULE ChatServer ----------------------------
(***************************************************************************)
(* proxy/server.go with the goroutines of cmd/mimo-ss-proxy/main.go: chat  *)
(* requests that forward to the upstream API through a changing set of     *)
(* proxies, the JWT manager they share (proxy/jwt.go), the periodic health *)
(* check and the periodic refresh of the pool.                             *)
(*                                                                         *)
(* A request is in one phase of handleChat, the loop or block it runs:     *)
(*   jwt    the first JWT, with rotation        server.go 297-332          *)
(*   send   the first send, with timeouts       352-374                    *)
(*   h401   refresh loop after a 401            385-438                    *)
(*   h403   the 403 block                       441-479                    *)
(*   h429   retry loop after a 429, fb429 its fallback    482-556          *)
(*   cs     a stream whose first lines are blocked        595-744          *)
(*   cj     a stream answered with blocked JSON           773-871          *)
(*   cn     a blocked body, not streaming                 926-1004         *)
(* and at one place in it, where another goroutine may run: before a       *)
(* loop's test (top), at a lock of the JWT manager (inval, get), in a      *)
(* network call (fetch, wait), between the calls of the 403 block (ban,    *)
(* rotate), before a send (fwd), relaying (streaming); before all of them  *)
(* it reads the client's body (body).                                      *)
(***************************************************************************)
EXTENDS PoolOps

CONSTANTS
    Requests,            \* the chat requests clients make
    NoRequest,
    InitServers,         \* the pool after the health check at startup
    UserProxies,         \* the SmartRouter's proxies; << >>: no router
    Usable,              \* servers NewSSDialer accepts
    HasFallback,         \* fallback-proxy mode: a FallbackHandler is set
    RateLimiting,        \* a local RateLimiter is set
    MaxConcurrent,       \* capacity of the semaphore
    TimeoutRetries, JWTRefreshRetries, RateLimitRetries, ComplianceRetries,
    Responses,           \* what the upstream may answer
    HealthChecks,        \* does the health goroutine run in this instance?
    Fetches              \* server lists a refresh may load; {}: no refresh

Blocks == {"none", "early", "late", "cut"}
Kinds  == {"sse", "json", "mixed"}

(***************************************************************************)
(* A response: its status; where the compliance text is ("early": in the   *)
(* first complianceCheckLines lines, "late": after them, "cut": nowhere    *)
(* and the body cannot be read to its end); whether it is an event stream, *)
(* JSON, or JSON under the content type of an event stream; and whether it *)
(* has more than complianceCheckLines lines.                               *)
(***************************************************************************)
Response ==
    { x \in [status : {200, 401, 403, 429}, block : Blocks, kind : Kinds, long : BOOLEAN] :
        x.block = "late" => x.long }

ASSUME ChatAssumption ==
    /\ NoAddr \notin Addr /\ NoIP \notin IP /\ NoRequest \notin Requests
    /\ IPOf \in [Addr -> IP \cup {NoIP}]
    /\ InitServers \in Seq(Server) /\ UserProxies \in Seq(Addr)
    /\ \A i, j \in DOMAIN UserProxies : UserProxies[i] = UserProxies[j] => i = j
    /\ Usable \subseteq Server /\ Fetches \subseteq Seq(Server)
    /\ HasFallback \in BOOLEAN /\ RateLimiting \in BOOLEAN
    /\ HealthChecks \in BOOLEAN
    /\ MaxConcurrent \in Nat \ {0}
    /\ TimeoutRetries \in Nat /\ JWTRefreshRetries \in Nat \ {0}
    /\ RateLimitRetries \in Nat /\ ComplianceRetries \in Nat
    /\ Responses \subseteq Response

VARIABLES
    req,           \* the state of each request
    sem,           \* slots taken
    jwt,           \* cached: is there a valid token; holder: of its mutex;
                   \* used: the requests the cached token was handed to
    rot,           \* the rotator
    servers,       \* the pool
    dead,          \* its dead list
    blacklist,     \* IPs
    routerAlive,   \* addresses the router has not marked dead
    hc, rf,        \* the health and the refresh goroutine: pc and list
    guilty         \* IPs a blocked response came through (history)

shared == <<servers, dead, blacklist, routerAlive>>
vars == <<req, sem, jwt, rot, shared, hc, rf, guilty>>

Loops  == {"h401", "h429", "cs", "cj", "cn"}
Phases == {"jwt", "send", "h403", "fb429"} \cup Loops

Direct == [kind |-> "direct", addr |-> NoAddr]

Via == {Direct} \cup [kind : {"router", "ss"}, addr : Addr]

Fresh == [ pc |-> "idle", phase |-> "jwt", n |-> 0, stream |-> FALSE,
           via |-> Direct, nilresp |-> FALSE, again |-> FALSE,
           aim |-> NoAddr, sends |-> 0, out |-> "none" ]

Init ==
    /\ req = [q \in Requests |-> Fresh]
    /\ sem = 0
    /\ jwt = [cached |-> FALSE, holder |-> NoRequest, used |-> {}]
    /\ rot = NewRotator(SSAddresses(InitServers))
    /\ servers = InitServers
    /\ dead = {}
    /\ blacklist = {}
    /\ routerAlive = {UserProxies[i] : i \in DOMAIN UserProxies}
    /\ hc = [pc |-> "idle", list |-> << >>]
    /\ rf = [pc |-> "idle", list |-> << >>]
    /\ guilty = {}

-----------------------------------------------------------------------------
(* Building blocks of the handler's steps.                                 *)

At(q, place) == req[q].pc = place

Move(q, r) == req' = [req EXCEPT ![q] = r] /\ UNCHANGED sem

(* A handler that has returned: its local variables are gone, but for the  *)
(* ones the properties look back at.                                       *)
Returned(r, what) == [r EXCEPT !.pc = "done", !.out = what, !.via = Direct,
                               !.nilresp = FALSE, !.again = FALSE]

(* Mutant of Finish: the slot is released by hand, which a panic skips.    *)
FinishByHand(q, what) ==
    /\ req' = [req EXCEPT ![q] = Returned(@, what)]
    /\ sem' = IF what = "panic" THEN sem ELSE sem - 1

(* An exit of handleChat: the deferred receive gives the slot back, also   *)
(* when the handler panics (net/http recovers a panic of a handler).       *)
Finish(q, what) ==
    /\ req' = [req EXCEPT ![q] = Returned(@, what)]
    /\ sem' = sem - 1

(* Mutant of Again: the attempt is not counted.                            *)
AgainUncounted(q) == [req[q] EXCEPT !.pc = "top"]

(* `continue` of a retry loop.                                             *)
Again(q) == [req[q] EXCEPT !.pc = "top", !.n = @ + 1]

Enter(q, phase) ==
    [req[q] EXCEPT !.pc = "top", !.phase = phase, !.n = 0, !.nilresp = FALSE]

(* Mutant of MarkAddrDead: no check for the empty address.                 *)
MarkAnyDead(a) ==
    /\ dead' = dead \cup {a}
    /\ routerAlive' = routerAlive \ {a}

(* markAddrDead.                                                           *)
MarkAddrDead(a) ==
    /\ dead' = dead \cup ({a} \ {NoAddr})
    /\ routerAlive' = routerAlive \ {a}

(* RemoveCurrent and blacklistAddr: the rotator's current address is the   *)
(* one that is blamed, whichever way the response came.                    *)
Blame ==
    /\ rot' = RemovedCurrent(rot)
    /\ dead' = dead \cup ({CurrentOf(rot)} \ {NoAddr})
    /\ blacklist' = IF Empty(rot) THEN blacklist
                    ELSE Blacklisting(blacklist, CurrentOf(rot))
    /\ UNCHANGED <<servers, routerAlive>>

(* The history of who really blocked.                                      *)
Accuse(q) ==
    guilty' = IF req[q].via.kind = "direct" THEN guilty
              ELSE Blacklisting(guilty, req[q].via.addr)

(* Phases 1 to 3 of forwardRequest and of customDo: the router's best      *)
(* proxy, else a tunnel to the rotator's current server, else direct.      *)
Route ==
    LET best == SelectBest(UserProxies, routerAlive, blacklist)
        cur  == CurrentOf(rot)
    IN  IF best # NoAddr THEN [kind |-> "router", addr |-> best]
        ELSE IF ~Empty(rot) /\ CanTunnel(servers, Usable, cur)
             THEN [kind |-> "ss", addr |-> cur]
        ELSE Direct

background == <<hc, rf>>

-----------------------------------------------------------------------------
(* Arrival: rate limiter, semaphore, body.                                 *)

Idle(q) == req[q].pc \in {"idle", "done"}

Turned(q, what) ==
    /\ req' = [req EXCEPT ![q] = [Fresh EXCEPT !.pc = "done", !.out = what]]
    /\ UNCHANGED <<sem, jwt, rot, shared, background, guilty>>

RejectedByRateLimiter(q) ==
    /\ Idle(q)
    /\ RateLimiting
    /\ Turned(q, "rejected")

RejectedBySemaphore(q) ==
    /\ Idle(q)
    /\ sem = MaxConcurrent
    /\ Turned(q, "busy")

Accept(q) ==
    /\ Idle(q)
    /\ sem < MaxConcurrent
    /\ sem' = sem + 1
    /\ req' = [req EXCEPT ![q] = [Fresh EXCEPT !.pc = "body"]]
    /\ UNCHANGED <<jwt, rot, shared, background, guilty>>

(* io.ReadAll(r.Body) holds the slot for as long as the client takes.      *)
ReadBody(q, isStream) ==
    /\ At(q, "body")
    /\ Move(q, [Fresh EXCEPT !.pc = "get", !.stream = isStream])
    /\ UNCHANGED <<jwt, rot, shared, background, guilty>>

(* A body that cannot be read or parsed, or has no messages.               *)
BadBody(q) ==
    /\ At(q, "body")
    /\ Finish(q, "badrequest")
    /\ UNCHANGED <<jwt, rot, shared, background, guilty>>

-----------------------------------------------------------------------------
(* The JWT manager.  Get holds the mutex through the whole fetch.          *)

TokenFor(q, seen) ==
    LET r == [req[q] EXCEPT !.again = seen]
    IN  Move(q, CASE r.phase = "jwt"  -> [r EXCEPT !.pc = "fwd", !.phase = "send", !.n = 0]
                  [] r.phase = "h403" -> [r EXCEPT !.pc = "rotate"]
                  [] OTHER            -> [r EXCEPT !.pc = "fwd"])

GetCached(q) ==
    /\ At(q, "get")
    /\ jwt.holder = NoRequest
    /\ jwt.cached
    /\ TokenFor(q, q \in jwt.used)
    /\ jwt' = [jwt EXCEPT !.used = @ \cup {q}]
    /\ UNCHANGED <<rot, shared, background, guilty>>

GetFetches(q) ==
    /\ At(q, "get")
    /\ jwt.holder = NoRequest
    /\ ~jwt.cached
    /\ jwt' = [jwt EXCEPT !.holder = q]
    /\ Move(q, [req[q] EXCEPT !.pc = "fetch", !.via = Route])
    /\ UNCHANGED <<rot, shared, background, guilty>>

FetchOK(q) ==
    /\ At(q, "fetch")
    /\ jwt' = [cached |-> TRUE, holder |-> NoRequest, used |-> {q}]
    /\ TokenFor(q, FALSE)
    /\ UNCHANGED <<rot, shared, background, guilty>>

(* Mutant of FetchFails: the error return does not unlock.                 *)
FetchFailsLocked(q) ==
    /\ At(q, "fetch")
    /\ Move(q, [req[q] EXCEPT !.pc = "jwterr"])
    /\ UNCHANGED <<jwt, rot, shared, background, guilty>>

(* No answer, a bad status or no token in the answer.                      *)
FetchFails(q) ==
    /\ At(q, "fetch")
    /\ jwt' = [jwt EXCEPT !.holder = NoRequest]
    /\ Move(q, [req[q] EXCEPT !.pc = "jwterr"])
    /\ UNCHANGED <<rot, shared, background, guilty>>

(* A 403 of the bootstrap endpoint: customDo marks the proxy it used dead  *)
(* and takes it out of the rotator.                                        *)
FetchBanned(q) ==
    /\ At(q, "fetch")
    /\ req[q].via.kind # "direct"
    /\ jwt' = [jwt EXCEPT !.holder = NoRequest]
    /\ MarkAddrDead(req[q].via.addr)
    /\ rot' = IF req[q].via.kind = "ss" THEN Removed(rot, req[q].via.addr) ELSE rot
    /\ Move(q, [req[q] EXCEPT !.pc = "jwterr"])
    /\ UNCHANGED <<servers, blacklist, background, guilty>>

(* Invalidate takes the same mutex.  The first-JWT loop invalidates after  *)
(* its last attempt too, and then gives up.                                *)
Invalidate(q) ==
    /\ At(q, "inval")
    /\ jwt.holder = NoRequest
    /\ jwt' = [jwt EXCEPT !.cached = FALSE, !.used = {}]
    /\ IF req[q].phase = "jwt" /\ req[q].n >= JWTRefreshRetries
       THEN Finish(q, "unauthorized")
       ELSE Move(q, [req[q] EXCEPT !.pc = "get"])
    /\ UNCHANGED <<rot, shared, background, guilty>>

(* The token's exp passes (or was already past when it was fetched).       *)
TokenExpires ==
    /\ jwt.cached
    /\ jwt' = [jwt EXCEPT !.cached = FALSE, !.used = {}]
    /\ UNCHANGED <<req, sem, rot, shared, background, guilty>>

(* What each phase does when Get returns an error.                         *)
JWTErrorFirst(q) ==
    /\ At(q, "jwterr") /\ req[q].phase = "jwt"
    /\ \/ Empty(rot) /\ Finish(q, "unauthorized") /\ UNCHANGED rot
       \/ /\ ~Empty(rot)
          /\ rot' = Advanced(rot)
          /\ Move(q, [req[q] EXCEPT !.pc = "inval", !.n = @ + 1])
    /\ UNCHANGED <<jwt, shared, background, guilty>>

JWTErrorRetry(q) ==
    /\ At(q, "jwterr")
    /\ \/ req[q].phase \in {"h401", "h429"} /\ Move(q, Again(q))
       \/ req[q].phase = "h403"  /\ Finish(q, "unauthorized")
       \/ /\ req[q].phase = "fb429"   \* the error is ignored: the old token
          /\ Move(q, [req[q] EXCEPT !.pc = "fwd", !.again = TRUE])
    /\ UNCHANGED <<jwt, rot, shared, background, guilty>>

JWTErrorCompliance(q) ==
    /\ At(q, "jwterr") /\ req[q].phase \in {"cs", "cj", "cn"}
    /\ rot' = RemovedCurrent(rot)
    /\ MarkAddrDead(CurrentOf(rot))
    /\ Move(q, Again(q))
    /\ UNCHANGED <<jwt, servers, blacklist, background, guilty>>

-----------------------------------------------------------------------------
(* The tests at the top of the retry loops, and their exits.               *)

Rest == <<jwt, shared, background, guilty>>

Top401(q) ==
    /\ At(q, "top") /\ req[q].phase = "h401"
    /\ IF req[q].n < JWTRefreshRetries /\ ~Empty(rot)
       THEN rot' = Advanced(rot) /\ Move(q, [req[q] EXCEPT !.pc = "inval"])
       ELSE /\ Finish(q, IF req[q].nilresp THEN "panic" ELSE "unauthorized")
            /\ UNCHANGED rot
    /\ UNCHANGED Rest

(* Mutant of Top429: Get without Invalidate.                               *)
Top429KeepsToken(q) ==
    /\ At(q, "top") /\ req[q].phase = "h429"
    /\ IF req[q].n < RateLimitRetries
       THEN rot' = Advanced(rot) /\ Move(q, [req[q] EXCEPT !.pc = "get"])
       ELSE Finish(q, "limited") /\ UNCHANGED rot
    /\ UNCHANGED Rest

Top429(q) ==
    /\ At(q, "top") /\ req[q].phase = "h429"
    /\ \/ /\ req[q].n < RateLimitRetries
          /\ rot' = Advanced(rot)
          /\ Move(q, [req[q] EXCEPT !.pc = "inval"])
       \/ /\ req[q].n >= RateLimitRetries
          /\ UNCHANGED rot
          /\ IF req[q].nilresp THEN Finish(q, "panic")
             ELSE IF HasFallback
                  THEN Move(q, [req[q] EXCEPT !.pc = "inval", !.phase = "fb429"])
             ELSE Finish(q, "limited")
    /\ UNCHANGED Rest

(* After the last compliance retry: a 403 of our own, or for a stream that *)
(* was answered with JSON the original, blocked answer.                    *)
GiveUp(phase) == IF phase = "cj" THEN "original" ELSE "forbidden"

TopCompliance(q) ==
    /\ At(q, "top") /\ req[q].phase \in {"cs", "cj", "cn"}
    /\ IF req[q].n < ComplianceRetries /\ ~Empty(rot)
       THEN Move(q, [req[q] EXCEPT !.pc = "inval"])
       ELSE Finish(q, GiveUp(req[q].phase))
    /\ UNCHANGED <<rot, Rest>>

(* The 403 block: Remove and markAddrDead of the address Current returned  *)
(* before, then Invalidate and Get, then Next, then the send.              *)
Ban(q) ==
    /\ At(q, "ban")
    /\ rot' = Removed(rot, req[q].aim)
    /\ MarkAddrDead(req[q].aim)
    /\ Move(q, [req[q] EXCEPT !.pc = "inval", !.aim = NoAddr])
    /\ UNCHANGED <<jwt, servers, blacklist, background, guilty>>

Rotate(q) ==
    /\ At(q, "rotate")
    /\ rot' = Advanced(rot)
    /\ Move(q, [req[q] EXCEPT !.pc = "fwd"])
    /\ UNCHANGED Rest

-----------------------------------------------------------------------------
(* forwardRequest.  The retry loops but cj and cn first close the body of  *)
(* the response they hold, and panic when the last send left them none.    *)

ClosesBody == {"h401", "h403", "h429", "fb429", "cs"}

Forward(q) ==
    /\ At(q, "fwd")
    /\ IF req[q].nilresp /\ req[q].phase \in ClosesBody
       THEN Finish(q, "panic")
       ELSE Move(q, [req[q] EXCEPT !.pc = "wait", !.via = Route, !.sends = @ + 1])
    /\ UNCHANGED <<rot, Rest>>

(* client.Do returns an error: a dial that fails, a reset, a timeout.      *)
SendFailsFirst(q) ==
    /\ At(q, "wait") /\ req[q].phase = "send"
    /\ rot' = Advanced(rot)
    /\ IF req[q].n < TimeoutRetries
       THEN Move(q, [req[q] EXCEPT !.pc = "fwd", !.n = @ + 1])
       ELSE Finish(q, "badgateway")
    /\ UNCHANGED Rest

SendFailsRetry(q) ==
    /\ At(q, "wait")
    /\ \/ /\ req[q].phase \in {"h401", "h429", "cs"}
          /\ Move(q, [Again(q) EXCEPT !.nilresp = TRUE])
       \/ req[q].phase \in {"cj", "cn"} /\ Move(q, Again(q))
       \/ req[q].phase = "h403"  /\ Finish(q, "badgateway")
       \/ req[q].phase = "fb429" /\ Finish(q, "limited")
    /\ UNCHANGED <<rot, Rest>>

(* Mutant of Handler: a 401 is refreshed wherever it comes from.           *)
HandlerGoesBack(phase, status) ==
    CASE status = 401                 -> "h401"
      [] status = 403                 -> "h403"
      [] status = 429                 -> "h429"
      [] OTHER                        -> "deliver"

(* Which handler a status goes to: the if-blocks of handleChat come in the *)
(* order 401, 403, 429, and none is entered twice.                         *)
Handler(phase, status) ==
    CASE status = 401 /\ phase \in {"send", "h401"}                 -> "h401"
      [] status = 403 /\ phase \in {"send", "h401"}                 -> "h403"
      [] status = 429 /\ phase \in {"send", "h401", "h403", "h429"} -> "h429"
      [] status = 429 /\ phase = "fb429"                            -> "fb429"
      [] OTHER                                                      -> "deliver"

Statuses == {"send", "h401", "h403", "h429", "fb429"}

Refused(q, x) ==
    LET h == Handler(req[q].phase, x.status)
    IN  /\ At(q, "wait") /\ req[q].phase \in Statuses
        /\ \/ /\ h \in {"h401", "h429"}
              /\ Move(q, IF req[q].phase = h
                         THEN [Again(q) EXCEPT !.nilresp = FALSE]
                         ELSE Enter(q, h))
           \/ /\ h = "h403"
              /\ Move(q, [Enter(q, h) EXCEPT !.pc = "ban", !.aim = CurrentOf(rot)])
           \/ h = "fb429" /\ Finish(q, "limited")
        /\ UNCHANGED <<rot, Rest>>

-----------------------------------------------------------------------------
(* Looking at the body: the compliance checks and the delivery.            *)

Early(x)   == x.block = "early"
Blocked(x) == x.block \in {"early", "late"}

(* isSSE: the content type and isValidSSEBuffer.  The JSON retry loop only *)
(* looks at the content type.                                              *)
IsSSE(x)     == x.kind = "sse"
ClaimsSSE(x) == x.kind \in {"sse", "mixed"}

What(x) == IF x.block = "none" THEN "clean" ELSE x.block

(* Bytes start to flow to the client: a stream is relayed step by step.    *)
Deliver(q, x) ==
    /\ Finish(q, What(x))
    /\ UNCHANGED <<rot, shared, guilty>>

Relay(q, x) ==
    /\ Move(q, [req[q] EXCEPT !.pc = "streaming", !.out = What(x)])
    /\ UNCHANGED <<rot, shared, guilty>>

BlameAnd(q, r) == Blame /\ Accuse(q) /\ Move(q, r)

(* A body that is no event stream is read on with io.ReadAll, past the     *)
(* scanner that read its first lines: the line its last Scan took and all  *)
(* it had read ahead are in no buffer.  A late block in them is not seen,  *)
(* and the client gets the body without them.                              *)
Truncated(q) ==
    /\ Finish(q, "lost")
    /\ UNCHANGED <<rot, shared, guilty>>

(* The first look at an accepted answer.                                   *)
DeliverStream(q, x) ==
    \/ Early(x) /\ BlameAnd(q, Enter(q, "cs"))
    \/ ~Early(x) /\ IsSSE(x) /\ Relay(q, x)
    \/ ~Early(x) /\ ~IsSSE(x) /\ Blocked(x) /\ BlameAnd(q, Enter(q, "cj"))
    \/ ~Early(x) /\ ~IsSSE(x) /\ x.long /\ Truncated(q)
    \/ ~IsSSE(x) /\ ~Blocked(x) /\ ~x.long /\ Deliver(q, x)

DeliverBody(q, x) ==
    \/ Blocked(x) /\ BlameAnd(q, Enter(q, "cn"))
    \/ ~Blocked(x) /\ Deliver(q, x)

Answered(q, x) ==
    /\ At(q, "wait") /\ req[q].phase \in Statuses
    /\ Handler(req[q].phase, x.status) = "deliver"
    /\ IF req[q].stream THEN DeliverStream(q, x) ELSE DeliverBody(q, x)
    /\ UNCHANGED <<jwt, background>>

(* The answers to compliance retries, whatever their status.               *)
AnsweredCS(q, x) ==
    /\ At(q, "wait") /\ req[q].phase = "cs"
    /\ \/ Early(x) /\ BlameAnd(q, [Again(q) EXCEPT !.nilresp = FALSE])
       \/ ~Early(x) /\ IsSSE(x) /\ Relay(q, x)
       \/ /\ ~Early(x) /\ ~IsSSE(x) /\ Blocked(x)
          /\ Blame /\ Accuse(q) /\ Finish(q, What(x))
       \/ ~Early(x) /\ ~IsSSE(x) /\ x.long /\ Truncated(q)
       \/ ~IsSSE(x) /\ ~Blocked(x) /\ ~x.long /\ Deliver(q, x)
    /\ UNCHANGED <<jwt, background>>

AnsweredCJ(q, x) ==
    /\ At(q, "wait") /\ req[q].phase = "cj"
    /\ \/ ClaimsSSE(x) /\ Relay(q, x)
       \/ ~ClaimsSSE(x) /\ Blocked(x) /\ BlameAnd(q, Again(q))
       \/ ~ClaimsSSE(x) /\ ~Blocked(x) /\ Deliver(q, x)
    /\ UNCHANGED <<jwt, background>>

(* Mutant of AnsweredCN: the answer of a retry is not checked.             *)
AnsweredCNUnchecked(q, x) ==
    /\ At(q, "wait") /\ req[q].phase = "cn"
    /\ \/ x.block = "cut" /\ Move(q, Again(q)) /\ UNCHANGED <<rot, shared, guilty>>
       \/ x.block # "cut" /\ Deliver(q, x)
    /\ UNCHANGED <<jwt, background>>

AnsweredCN(q, x) ==
    /\ At(q, "wait") /\ req[q].phase = "cn"
    /\ \/ Blocked(x) /\ BlameAnd(q, Again(q))
       \/ x.block = "cut" /\ Move(q, Again(q)) /\ UNCHANGED <<rot, shared, guilty>>
       \/ x.block = "none" /\ Deliver(q, x)
    /\ UNCHANGED <<jwt, background>>

(* A relayed stream ends: [DONE] was sent, or the client went away; a      *)
(* write error marks the rotator's current proxy dead (markProxyDead).     *)
StreamEnds(q) ==
    /\ At(q, "streaming")
    /\ Finish(q, req[q].out)
    /\ UNCHANGED <<rot, Rest>>

StreamWriteError(q) ==
    /\ At(q, "streaming")
    /\ ~Empty(rot)
    /\ MarkAddrDead(CurrentOf(rot))
    /\ Finish(q, req[q].out)
    /\ UNCHANGED <<rot, jwt, servers, blacklist, background, guilty>>

-----------------------------------------------------------------------------
(* main.go: the health check, every 60 s.                                  *)

HealthSnapshot ==
    /\ HealthChecks
    /\ hc.pc = "idle"
    /\ hc' = [pc |-> "dial", list |-> SnapshotAlive(servers, dead)]
    /\ UNCHANGED <<req, sem, jwt, rot, shared, rf, guilty>>

(* Mutant of HealthReplace: the rotator will be given the snapshot, not    *)
(* the servers that answered.                                              *)
HealthReplaceKeeps(up) ==
    /\ hc.pc = "dial"
    /\ servers' = Reachable(hc.list, up)
    /\ hc' = [hc EXCEPT !.pc = "update"]
    /\ UNCHANGED <<req, sem, jwt, rot, dead, blacklist, routerAlive, rf, guilty>>

HealthReplace(up) ==
    /\ hc.pc = "dial"
    /\ servers' = Reachable(hc.list, up)
    /\ hc' = [pc |-> "update", list |-> Reachable(hc.list, up)]
    /\ UNCHANGED <<req, sem, jwt, rot, dead, blacklist, routerAlive, rf, guilty>>

HealthUpdate ==
    /\ hc.pc = "update"
    /\ rot' = Updated(rot, SSAddresses(hc.list))
    /\ hc' = [pc |-> "idle", list |-> << >>]
    /\ UNCHANGED <<req, sem, jwt, shared, rf, guilty>>

(* The refresh, every 300 s: what was fetched is added one by one, then    *)
(* the rotator gets the live servers.  An empty fetch changes nothing.     *)
RefreshFetch(list) ==
    /\ rf.pc = "idle"
    /\ list # << >>
    /\ rf' = [pc |-> "add", list |-> list]
    /\ UNCHANGED <<req, sem, jwt, rot, shared, hc, guilty>>

(* The test before Add fails only when the pool is emptied between its two *)
(* calls; PoolUpkeep takes them apart.                                     *)
RefreshAdd ==
    /\ rf.pc = "add"
    /\ servers' = PoolAdd(servers, blacklist, Head(rf.list))
    /\ rf' = [pc |-> IF Len(rf.list) = 1 THEN "snap" ELSE "add", list |-> Tail(rf.list)]
    /\ UNCHANGED <<req, sem, jwt, rot, dead, blacklist, routerAlive, hc, guilty>>

RefreshSnapshot ==
    /\ rf.pc = "snap"
    /\ rf' = [pc |-> "update", list |-> SnapshotAlive(servers, dead)]
    /\ UNCHANGED <<req, sem, jwt, rot, shared, hc, guilty>>

RefreshUpdate ==
    /\ rf.pc = "update"
    /\ rot' = Updated(rot, SSAddresses(rf.list))
    /\ rf' = [pc |-> "idle", list |-> << >>]
    /\ UNCHANGED <<req, sem, jwt, shared, hc, guilty>>

-----------------------------------------------------------------------------
Arrive(q) == RejectedByRateLimiter(q) \/ RejectedBySemaphore(q) \/ Accept(q)

Body(q) == BadBody(q) \/ \E isStream \in BOOLEAN : ReadBody(q, isStream)

(* What a request does without waiting for a lock.                         *)
Work(q) ==
    \/ FetchOK(q) \/ FetchFails(q) \/ FetchBanned(q)
    \/ JWTErrorFirst(q) \/ JWTErrorRetry(q) \/ JWTErrorCompliance(q)
    \/ Top401(q) \/ Top429(q) \/ TopCompliance(q)
    \/ Ban(q) \/ Rotate(q) \/ Forward(q)
    \/ SendFailsFirst(q) \/ SendFailsRetry(q)
    \/ \E x \in Responses :
          \/ Refused(q, x) \/ Answered(q, x)
          \/ AnsweredCS(q, x) \/ AnsweredCJ(q, x) \/ AnsweredCN(q, x)
    \/ StreamEnds(q) \/ StreamWriteError(q)

(* What it does under the JWT manager's mutex.                             *)
Locked(q) == GetCached(q) \/ GetFetches(q) \/ Invalidate(q)

HealthStep ==
    \/ HealthSnapshot
    \/ \E up \in SUBSET {hc.list[i] : i \in DOMAIN hc.list} : HealthReplace(up)
    \/ HealthUpdate

RefreshStep == RefreshAdd \/ RefreshSnapshot \/ RefreshUpdate

Next ==
    \/ \E q \in Requests : Arrive(q) \/ Body(q) \/ Work(q) \/ Locked(q)
    \/ TokenExpires
    \/ HealthStep
    \/ \E list \in Fetches : RefreshFetch(list)
    \/ RefreshStep

Spec == Init /\ [][Next]_vars

(***************************************************************************)
(* A goroutine that can run does, and its network calls end: direct and    *)
(* through a Shadowsocks tunnel, a dial, the wait for the headers and a    *)
(* relayed stream have deadlines (the upstream's streams are taken to be   *)
(* finite).  The handshake with a SOCKS5 or HTTP proxy of the router has   *)
(* none, so liveness is only checked without a router.  A Go mutex does    *)
(* not starve a waiter, so the lock steps are strongly fair.  The tickers  *)
(* keep ticking.  Nothing is assumed of clients, whose bodies have no      *)
(* deadline either, of the token's lifetime or of what a refresh finds.    *)
(***************************************************************************)
Fairness ==
    /\ \A q \in Requests : WF_vars(Work(q)) /\ SF_vars(Locked(q))
    /\ WF_vars(HealthStep)
    /\ WF_vars(RefreshStep)

FairSpec == Spec /\ Fairness

-----------------------------------------------------------------------------
Outcomes == {"none", "rejected", "busy", "badrequest", "unauthorized", "forbidden",
             "badgateway", "limited", "panic", "clean", "lost", "original"} \cup Blocks

RequestState ==
    [ pc : {"idle", "body", "get", "fetch", "jwterr", "inval", "top", "ban", "rotate",
            "fwd", "wait", "streaming", "done"},
      phase : Phases, n : Nat, stream : BOOLEAN, via : Via, nilresp : BOOLEAN,
      again : BOOLEAN, aim : Addr \cup {NoAddr}, sends : Nat, out : Outcomes ]

GoroutineState(places) == [pc : places, list : Seq(Server)]

(* Types, and the rotator's index in its pool after any interleaving of    *)
(* requests, health checks and refreshes.                                  *)
TypeOK ==
    /\ req \in [Requests -> RequestState]
    /\ sem \in Int
    /\ jwt \in [cached : BOOLEAN, holder : Requests \cup {NoRequest}, used : SUBSET Requests]
    /\ rot \in RotatorState(Addr) /\ InRange(rot)
    /\ servers \in Seq(Server)
    /\ dead \subseteq Addr /\ routerAlive \subseteq Addr
    /\ blacklist \subseteq IP /\ guilty \subseteq IP
    /\ hc \in GoroutineState({"idle", "dial", "update"})
    /\ rf \in GoroutineState({"idle", "add", "snap", "update"})
    /\ rf.pc = "add" => rf.list # << >>

Active == {q \in Requests : ~Idle(q)}

(* The semaphore of handleChat counts the handlers that run, on every      *)
(* path out of the handler, panics included: no slot leaks, and at most    *)
(* MaxConcurrent handlers run.                                             *)
SlotsExact == sem = Cardinality(Active) /\ sem <= MaxConcurrent

(* The mutex of the JWT manager is held by the request that is fetching,   *)
(* and by nobody else: every way out of a fetch unlocks it.                *)
LockExact == \A q \in Requests : At(q, "fetch") <=> jwt.holder = q

SendLimit == (TimeoutRetries + 1) + JWTRefreshRetries + 1
                + RateLimitRetries + 1 + ComplianceRetries

(* Whatever the upstream answers, one client request makes at most         *)
(* SendLimit upstream requests: the retry loops of handleChat follow each  *)
(* other, and no answer leads back into an earlier one.                    *)
SendBudget == \A q \in Requests : req[q].sends <= SendLimit

(* A retry that refreshes the JWT (after a 401, 403, 429 or a compliance   *)
(* block) is never sent with a token this request already had, whoever     *)
(* invalidated and refetched in between.                                   *)
NewTokenOnRetry ==
    \A q \in Requests :
        req[q].phase \in Loops \cup {"h403"} /\ req[q].pc \in {"rotate", "fwd", "wait"}
            => ~req[q].again

(* Whatever the retries go through, a blocked answer reaches the client    *)
(* only on three ways: its text comes after the lines that are checked; it *)
(* is the original answer a stream was given as JSON; or it is the event   *)
(* stream that a retry of the JSON loop got, which is relayed unchecked.   *)
(* A client that did not ask for a stream never gets one.                  *)
BlockedDelivery ==
    \A q \in Requests :
        req[q].pc \in {"streaming", "done"} /\ req[q].out \in {"early", "late", "original"}
            => /\ req[q].stream
               /\ req[q].out = "early" => req[q].phase = "cj" /\ req[q].n < ComplianceRetries

(* server.go:599 "Blacklist current proxy", 1216 "ONLY use when compliance *)
(* block pattern is detected in response": an IP is blacklisted only if a  *)
(* compliance block really came through a proxy at that IP.                *)
BlameIsFair == blacklist \subseteq guilty

(* Every address the rotator can hand out has a configuration in the pool, *)
(* so that createSSDialer finds it and the request is tunnelled, except    *)
(* while the health check is between ReplaceAll and Update.                *)
RotatorBacked ==
    hc.pc # "update" => \A i \in DOMAIN rot.pool : HasAddr(servers, rot.pool[i])

(* Every request whose body has arrived is answered in the end: no retry   *)
(* loop runs for ever and nobody waits for ever for the JWT manager's      *)
(* mutex, although clients that never send a body may hold other slots.    *)
EveryRequestEnds == \A q \in Requests : ~Idle(q) /\ ~At(q, "body") ~> Idle(q)

-----------------------------------------------------------------------------
(* What comments and documents say and the code does not do.               *)

(* server.go:431 "If still 401 after all retries, return error to client": *)
(* a handler ends with an answer, not with a nil pointer dereference.      *)
NoPanic == \A q \in Requests : req[q].out # "panic"

=============================================================================
