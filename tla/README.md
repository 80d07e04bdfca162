# A TLA+ model of mimo-ss-proxy

mimo-ss-proxy is a local OpenAI-compatible HTTP server. It forwards each chat
request to one upstream API through a changing set of proxies, fetches the JWT
the API wants, and retries with another proxy, another token, or both when the
upstream refuses or answers with a "compliance block". This directory holds
TLA+ modules translated from its source, the TLC configurations that check
them, and proofs for TLAPS.

## 1. The system

| Part | State | Operations | Talks to |
|---|---|---|---|
| Rotator (`rotator/rotator.go`) | `pool`, `index` under one mutex; `triggerCh` (capacity 1), `stopCh` | Current, Next, Remove, RemoveCurrent, Update, Trigger, Stop; a listener goroutine | used by every request, the health check, the refresh |
| Chat handler (`proxy/server.go`) | per request: the response it holds, its loop and attempt; shared: the semaphore | `handleChat`, `forwardRequest`, `customDo`, `markAddrDead`, `blacklistAddr`, `markProxyDead` | all the others |
| JWT manager (`proxy/jwt.go`) | token, expiry, one mutex | Get (holds the mutex through the fetch), Invalidate | calls back into the server (`customDo`) |
| Shadowsocks pool (`sspool/pool.go`) | servers, an index, dead addresses | Add, ReplaceAll, SnapshotAlive, GetByAddr, MarkDead; Len, Get, Next | blacklist as a filter |
| Blacklist (`proxy/blacklist.go`) | set of IPs, a file and a temporary file | Add, IsBlacklisted, Save, load | |
| SmartRouter (`proxy/router.go`) | the user's proxies, alive or not | SelectBest, MarkDead | blacklist as a filter |
| Health check (`sspool/health.go`, `main.go`) | its snapshot, 20 tokens for dials | every 60 s: SnapshotAlive, dial, ReplaceAll, Update | pool, rotator |
| Refresh (`main.go`, `sspool/fetcher.go`) | the fetched list | every 300 s: fetch, Add each, SnapshotAlive, Update, savePoolToFile | pool, rotator |
| Dialers (`sspool/*dialer.go`) | one connection | the SOCKS5, HTTP CONNECT and Shadowsocks handshakes | a proxy |
| Startup and shutdown (`main.go`, `Server.Start`, `Server.Shutdown`) | mode, signal goroutine, the listener | load, serve, signal, Save, exit | all of the above |
| Rate limiter (`proxy/ratelimit.go`) | times of allowed requests | Allow | |
| Stream relay (`proxy/stream.go`, the buffer and `deadlineConn` in `server.go`) | buffered lines, `hasContent`, two clocks | buffer, hand over, relay, `[DONE]` | upstream body, client |
| Fallback handler, compliance patterns, configuration, HTTP helpers | | see section 5 | |

What is hard here: requests run concurrently and share the rotator, the token,
the pool and the blacklist through many small critical sections; the address a
request went through is not remembered, so what it does to "the current proxy"
later hits whatever is current then; health check and refresh publish results
computed from old snapshots; five retry loops in a row each reassign `resp`;
a panic, a full semaphore or a client that leaves can happen on any path; the
process can die at any point, in the middle of a Save too; and a proxy can
answer anything, in any pieces, or nothing.
`PROJECT.json` lists each of these hazards at its line with the properties
aimed at it.

What makes each part correct:

- rotator: the index stays in the pool; nobody loses or gains a turn by a
  removal; Stop ends the listener; a trigger is served;
- handler: exact slots, a bounded number of upstream requests, every request
  ends, no panic, nothing blocked is delivered, only guilty proxies are blamed;
- JWT manager: the mutex is free when nobody fetches; a retry has a new token;
- pool, health, refresh: the rotator only offers addresses the pool knows; a
  dead address leaves the rotator; no new port of a blacklisted IP comes in;
  every check ends; a saved pool is complete;
- blacklist and process: what was saved stays, a signal ends the program;
- dialers: a connection that is returned is at the first byte of the tunnel and
  was confirmed; one that is not is closed;
- limiter: the window, the interval, and no denial without a reason;
- stream: lines in order, none lost, one final `[DONE]`, bounded silence.

## 2. The modules

| Module | Models |
|---|---|
| `RotatorOps` | what each critical section of the rotator does to `[pool, index]`, as operators |
| `RoundRobin` | the abstract rotator: a queue |
| `Rotator` | the rotator with its listener, `triggerCh` and `stopCh`; implements `RoundRobin` |
| `Upstreams` | blacklist and router as operators on their contents |
| `PoolOps` | the Shadowsocks pool as operators on its contents |
| `ChatServer` | the composition: requests, JWT manager, rotator, pool, blacklist, router, health check, refresh |
| `RateLimiter` | `Allow` and its clock |
| `Stream` | one event stream from the compliance buffer to the client |
| `StreamTimed` | `Stream` on a connection with a read deadline |
| `PoolUpkeep` | the pool with its index, the health check with its dials, the refresh, `savePoolToFile` |
| `Process` | the program over starts, shutdowns and crashes, with the blacklist's file |
| `Dialer` | one `DialContext` of each dialer, with the proxy |
| `MC...` | values for the constants of the runs |
| `...Proofs` | theorems and lemmas about the module of that name; `UpstreamsProofs` has those about `RotatorOps` and `PoolOps` too |

`Rotator`, `ChatServer` and `PoolUpkeep` use the same operators of `RotatorOps`
(the pool's index moves like the rotator's), `ChatServer` and `PoolUpkeep` the
same operators of `PoolOps`, and both and `Process` those of `Upstreams`, so
what is proved of them serves all. The three cut the system differently:
`ChatServer` has every step of a request and the two goroutines in few steps;
`PoolUpkeep` every step of the goroutines, and of a request the calls with which
it gives up an address; `Process` only what outlives or ends a process.

A server is a whole configuration, which is what `Key()` (config.go:21) tells
apart when the pool looks for duplicates; `AddrOf` is its `host:port`. Several
servers may share one (pool_test.go:92). The rotator, the dead list and the
blacklist know addresses only, so the rotator may hold copies of one, and
`GetByAddr` finds the first server there.

### Rotator

`rot` is the pool with its index; each method is one critical section. The
listener's select is three actions of which any that is ready may be taken.
`epoch` flips with every Update and `mover` says whether a caller or the
listener acted on the pool last; both are history. `NoRotationAfterStop` says
that once Stop has returned every change of pool or index is a caller's: no
tick, and no trigger that was still pending, moves the turn.

### ChatServer

`req[q]` is the control state of a request's goroutine: `phase` is the loop or
block of `handleChat` it is in (the module's header gives the lines), `pc` the
point in it where another goroutine may run, `n` the attempt counter, `nilresp`
that the last send left `resp` nil, `aim` the address the 403 block read with
Current, `via` the route of the last send, `sends` and `out` what it did and
what the client got. `again` (was the token it holds handed to it before?) and
`guilty` (IPs a blocked answer came through) are history variables.

Steps and atomicity. One action runs from one point where another goroutine can
interfere to the next: a lock of the JWT manager, a network call, a rotator
call whose result is used later. Three pairs of adjacent critical sections are
one step here, because no action can tell the difference for the properties
checked (`PoolUpkeep` has the calls one by one):
RemoveCurrent with blacklistAddr or markAddrDead of its result; Remove with
markAddrDead in the 403 block (the address was fixed before); and Len, Current
and GetByAddr when a route is chosen. The Current of the 403 block is *not*
merged with its Remove, Invalidate not with Get, ReplaceAll not with Update,
SnapshotAlive not with what it is for. An answer and the reading of its body
are one step; a relayed stream is its own state (`streaming`). The slot is
taken before the client's body is read (`body`), which may never end.

Data. A response is a status, where a compliance text is (`early`: in the
buffered lines, `late`: after them, `cut`: nowhere and the body breaks off) and
what it looks like (`sse`, `json`, `mixed`: JSON labelled as an event stream),
and whether it is longer than the lines that are held back (`long`). What the
scanner of those lines read ahead is lost when the rest is read from the body
itself (`Truncated`): a block there is not seen and the client does not get it.
A token is fresh or not: the bootstrap endpoint is taken to issue a new one at
each fetch; it may expire at any time (jwt.go:40). `Usable` are the servers
whose cipher `NewSSDialer` accepts. The user's proxies are taken to be distinct. The
refresh's test `pool.Len() == 0 || pool.Get() != nil` and `SSPool.index` are in
`PoolUpkeep`. `TimeoutRetries`, `JWTRefreshRetries`,
`RateLimitRetries` and `ComplianceRetries` are the code's constants (5 or 20)
as parameters. Sleeps between attempts are left out: a step may take any time.

A dead mark is never taken back (nothing calls `UnmarkDead`), although
`server.go:1252` says "The proxy may recover later".

### PoolUpkeep

`pool` is the pool with its index, `rot` the sequence of the rotator's addresses
(its index is `Rotator`'s matter), `hc` the health goroutine with one
entry per dial and the tokens in use, `rf` the refresh, `sv` the save. Every
call of a goroutine is a step: the refresh's `Len` and `Get` are two, so are
`SnapshotAlive` and `Update`, and the save's test, `Get` and `Next`. `SSPool.Add`
with its question to the filter is one step. A save whose `os.Create` fails is
over at once. `job` has the calls a request that gives up an address has still
to make, each a step: RemoveCurrent first and then blacklist and dead list of
what it returned (a compliance block, a JWT that could not be had), or an
address seen with Current first, and then Remove and MarkDead (a 403), MarkDead
and Remove (the bootstrap's 403 through a tunnel) or MarkDead alone (a write
error of a stream, the bootstrap's 403 through the router). Remove takes out the
first copy and finds nothing if another goroutine was faster; so addresses that
are marked dead stay in the rotator, and only a later snapshot takes them out.
`stale`, `late` and `disturbed` are history: they say when
a `ReplaceAll` came between two steps that belong together.

### Process

A file is a set of IPs, missing, or torn; a rename is atomic (that is what the
code relies on). A start reads the file or fails to (`blind`). `used` are the
servers that came into the pool in this life. `promised` collects what was
blacklisted when a signal came and the shutdown met no disk error; `wiped` says
that a process that was blind saved its own, smaller blacklist over it. A crash
is one of the process: the machine stays up and what was written is there. The
code has no `fsync` (blacklist.go 105-113), so nothing is said about a loss of
power.

### Dialer

What the proxy sends is a sequence of bytes; `need` and `got` are readFull's
loop. A read returns any number of the bytes that are there. Bytes whose value
nothing looks at are `Filler`; `TunnelByte` marks the target's. An HTTP response
is its status, the length of its body and the body, which the deferred Close of
http_dialer.go:76 reads, of a 200 too, before the connection is handed out. The
proxy may answer any version, method, status, reply and address type; it may
stop at any byte of an answer, and then stay connected (`silent`) or hang up.

### Stream

Lines are numbered; a line has content or not. `BufferFull` is the step in
which the loop's condition scans one line more and drops it. `checked = FALSE`
is the stream of the JSON retry loop, relayed by `streamSSE` without a buffer.
`WriteError` needs a client that is gone; a write to a client that is gone may
also succeed (it is buffered). `elapsed` restarts when the relay starts.
`StreamTimed` adds the time since the Read in progress began: time passes only
up to the deadline, after which the Read has failed and `StreamEOF` is all that
is left. A part of a line starts a new Read; an upstream that drips bytes and
never ends a line is bounded only by the scanner's 1 MB, which is why
`SilenceIsBounded` speaks of streams that are not in the middle of a line.

### RateLimiter

Time is a counter; Allow reads it under the mutex, so times never go back.
`granted` is the history of all allowed requests. The assumption
`MinInterval <= Window` is main.go's (0 or 2 s against 60 s); without it the
minimum interval would be forgotten together with an expired entry.

## 3. The runs

| Run | Instance | Shows |
|---|---|---|
| `rotator` | 3 addresses, pools up to 3 with repetitions; the ticker may tick or not, so main.go's rotator without one is included | index in range, refinement of `RoundRobin`, triggers are served, Stop returns and nothing rotates afterwards |
| `chat_one` | 1 request, 3 addresses (one a host name, the router's), a fetched second configuration of the first that SS cannot use, router, fallback, limiter; all responses | types, bounded sends, the only ways a blocked answer reaches a client |
| `chat_two` | 3 clients, 2 slots, 1 address | exact semaphore, at its limit too, and mutex; new token on retry |
| `chat_live` | 2 requests, 429s, the health check | every request ends; the rotator's addresses are in the pool outside of the update window |
| `limiter` | 3 per window of 7, interval 2, clock to 16 | window, spacing, denials; the clock passes two windows |
| `stream` | 2 lines held back, up to 5 lines, thinking timeout 1, read deadline 2, clock to 5 | order, completeness but one line, `[DONE]`, no abort after content, silence ends the stream |
| `upkeep` | two configurations of one `host:port`; a server on another port of its IP is fetched; a request that gives up addresses; 1 token for dials; a save at the start and after each refresh | the rotator matches the pool but in two windows; no new port of a blacklisted IP; complete saves; the pool's index |
| `upkeep_live` | the same without saves, a server with a host name is fetched, fair goroutines, an address the router has too | checks end; rotator and pool agree again and again; blamed addresses leave |
| `process` | 3 starts, 4 modes, 4 addresses of which two share an IP and one has a host name, 1 request in flight | saved bans survive and are obeyed; a signal ends the process |
| `dialer` | SOCKS5, HTTP and SS; domain names of 0, 1 and 3 bytes, HTTP bodies of 0 and 2; 2 bytes of the target | the tunnel starts where it should, is confirmed, is never leaked; the dial returns unless a proxy that stays connected owes it bytes for ever |

Two runs expect a violation. Each states what a comment says and finds an
execution of the code that differs (`findings` in `PROJECT.json` quotes the
lines):

| Run | What happens |
|---|---|
| `chat_panic` | a failed send in a retry loop leaves `resp` nil, which is dereferenced |
| `chat_blame_race` | two requests in flight: the second block blacklists an innocent proxy |

Other places where a text and the code differ, which the models reproduce and
no run states:

- `rotator.go:53` "Next advances to the next upstream and returns it", and
  main.go:116 logs "switched to": Next returns and reports the address it
  leaves (`rotate()` reports the new one);
- `server.go:594` "Check for compliance block before sending anything to
  client": the JSON retry loop relays an event stream unchecked (813-838; the
  third way of `BlockedDelivery`);
- `blacklist.go:26` "if 1.2.3.4:5600 is blacklisted, 1.2.3.4:8080 is also
  skipped": not when it is already in circulation (`server.go:1069`), which is
  why `NoNewPorts` speaks of ports that are not;
- `blacklist.go:26` "Blacklist is permanent": not when a start cannot read the
  file (`blacklist.go:124`), the exception in `PromisesKept`; and what a process
  added is lost when it crashes;
- `server.go:1053` "when a rotator with SS upstream is available, the request is
  tunneled through SS": in the two windows `RotatorMatchesPool` names (the first
  is `main.go:180`) the address has no configuration and the request goes out
  directly;
- `server.go:893` "reuse to avoid data loss": the loop at 572 scans one line more
  than it keeps, so the 11th line of a stream is never sent (the exception in
  `RelayedInOrder`);
- `server.go:694` "check for compliance block, then forward as-is" and 873
  "Forward original JSON error as-is to client": `io.ReadAll(resp.Body)` (696, 759)
  goes on behind a `bufio.Scanner`, so what the scanner had read ahead of a JSON
  body longer than the lines held back is neither checked nor forwarded
  (`Truncated`);
- README.md:22 "Graceful shutdown": `main` returns when the listener is closed,
  without waiting for `Shutdown`, and the context is nil (`main.go:246`);
- README.md:18 "401 (refresh JWT)": not when the pool is empty
  (`server.go:392` breaks first);
- `stream.go:86` "If no content appears within thinkingTimeout": content among
  the lines held back for the check does not count (`stream.go:23`), so
  `AbortOnlyWhileThinking` speaks of the relayed lines only;
- a refresh whose snapshot is older than a health check's result puts addresses
  into the rotator that the pool no longer has: `RotatorBacked` is checked
  without the refresh, `RotatorMatchesPool` with it and with the exception.

Bounds. Retry limits of 0 to 2 reach every exit of every loop: none, the last,
and one that is neither. Two requests are enough for a race on the token and
on the rotator, a third client for a full semaphore meanwhile; three addresses for a removal before, at and
after the index. The streams of `stream` end before, at and after the buffer's
limit, and the clock passes both timeouts together. In the `upkeep` runs
there are more servers than tokens, and every window between two calls of one
goroutine can be hit by the others; copies of one address in the rotator come
from two configurations of one `host:port`. Three starts in `process` are one that saves, one
that is killed while it saves, and one that must still know. Requests run again
after they are done, so most runs have no last state; a stream, a dial and the
last start end, which is why their configurations switch the deadlock check
off. `Symmetric` permutes requests, which differ in nothing; it is only used
for invariants.

Fairness. `Rotator`: strong fairness of the listener's trigger and stop cases,
because Go's select chooses uniformly among ready cases. `ChatServer`: weak
fairness of a request's own steps (direct and through a Shadowsocks tunnel every
network call has a timeout, a relayed stream an idle deadline, and the
upstream's streams are taken to be finite; the handshake with a SOCKS5 or HTTP
proxy of the router has no deadline, so `chat_live` has no router), strong
fairness of its lock steps (a Go mutex does not starve a waiter), weak
fairness of health check and refresh. Nothing is assumed of clients, whose
bodies have no deadline either (`EveryRequestEnds` begins when the body has been
read), of token lifetimes or of what a refresh finds. `PoolUpkeep`: weak fairness of each
goroutine and of the dials, which have a timeout; none of a fetch, which has
none, and none of requests. `Process`: weak fairness of the goroutine that handles the signal and of
main's end; none of the start. `Dialer`: weak fairness of the client and nothing
of the proxy: the code has no deadline for a SOCKS5 or HTTP handshake, so
`DialEnds` says that a dial returns unless from some time on the proxy stays
connected and owes bytes it waits for.

## 4. The proofs

All theorems hold for every value of the constants that satisfies the module's
ASSUME.

- `UpstreamsProofs`: lemmas about the operators the components share. Those of
  `RotatorOps` keep the type and the range of the index, and what each does to
  the cyclic view is known (rotate the head to the back, drop one element,
  nothing); the view's equalities are proved pointwise by cases on where the
  removed position lies relative to the index. `Kept`, `PoolAdd`, `SelectBest`
  and `Blacklisting` return what their types say, and `Kept` and `PoolAdd` never
  make a duplicate. A fact about every length of a list is proved from a least
  counterexample (`LeastNat`), since the induction theorems are out of reach.
- `RotatorProofs`: `TypeCorrect`, `IndexAlwaysInRange`, and
  `ImplementsRoundRobin`, that the rotator refines `RoundRobin` with
  `queue <- CyclicView(rot)`. The invariant is `TypeOK /\ IndexInRange`: without
  the range the view is not a permutation of the pool. The history variable
  `epoch` flips with every Update, in both specifications, so that only an
  Update of the rotator can map to the abstract replacement of the queue.
  `StopIsFinal` (`NoRotationAfterStop`: after Stop every step that changes pool or
  index, or acts on them at all, is a caller's) needs `StopInv`: Stop returns only
  after the listener has, and a listener that has returned never runs again.
- `ChatServerProofs`: `ServerTypeCorrect`, one lemma per group of actions. The
  type invariant contains the rotator's range, and that the refresh's list is
  not empty while it adds. `MutexIsExact`, and `SendsAreBounded`: the bound on
  sends is not inductive. `BudgetInv` says for each phase how many sends the
  phases before it can have made, plus `n` for the loop it is in, plus one when
  an answer is awaited; the step from phase to phase uses that `Handler` only
  goes forward. The other four theorems rest on one classification of a
  request's steps (`RequestStep`: it walks on, begins a phase, retries, enters
  the wait, relays or ends), so that each is an argument about a handful of
  kinds of step and not about every action:
  - `BlockedAnswersAreStopped` (`BlockedDelivery`). `DeliveryInv` adds that
    a handler in a compliance loop of a stream was asked for a stream, and that
    the JSON loop is past its test only while it has retries left;
  - `RetriesHaveNewTokens` (`NewTokenOnRetry`). `TokenInv` adds that a request
    about to call Get in a refreshing phase is not among those that had the
    cached token: its own Invalidate emptied that set and nobody but the request
    itself can put it back;
  - `SlotsAreExact` (`SlotsExact`), for any number of clients: `SlotInv` adds
    that the running handlers are finitely many, which the limit gives;
  - `RotatorIsBacked` (`RotatorBacked`) has the hypothesis `Fetches = {}`, like
    the run: with servers to fetch, the refresh's snapshot can be overtaken by
    the health check and the property is false. What then holds is
    `PoolUpkeep`'s `RotatorMatchesPool`, proved below without it. `BackedInv`
    adds that what the health check is about to publish is the pool.
- `PoolUpkeepProofs`: `TypeCorrect` (the tokens of the dials are exactly the
  dials under way, by cardinality; `RequestEffect` says once of all a request's
  calls that the rotator's addresses only become fewer and the pool stays),
  `RotatorIsBacked` (`RotatorMatchesPool`; the
  invariant says of each list on its way to the rotator that it is of servers
  in the pool, unless ReplaceAll has overtaken it), `BlockedHostsStayOut`
  (`NoNewPorts`) and `SavesAreComplete` (`SaveIsComplete`). For the last,
  `ListsInv` says that no list holds a server twice and that the pool does not
  grow during a save, and `Written` that an undisturbed save has written the
  servers met in `i` steps round the pool from the index it began at; a walk of
  `Len` steps then meets every position once (`StepsFromMeets`).
- `DialerProofs`: `TypeCorrect`, `NothingLeaks` (`NoLeak`),
  `ConnectionsAreConfirmed` (`TunnelConfirmed`) and `TunnelsAreIntact`
  (`TunnelIntact`). The invariant `HandshakeInv` says of each place of
  DialContext which message is being read: `Shape(R)` is that the bytes read and
  the bytes on the way are the message `R` and then the tunnel's, complete
  unless the proxy stopped or went away. Reads, the target's bytes and a close keep
  `Shape` for every `R`; only the places where the client goes on change `R`.
  `HandshakeInv` was first checked with TLC on the run's instance.
- `RateLimiterProofs`: `LimiterTypeCorrect`, `NeverMoreThanMax`, `IntervalKept`,
  `DenialsHaveAReason`. The invariant ties the limiter's list to the history:
  it is the end of it, and what is missing is older than the window.
- `StreamProofs`: `StreamTypeCorrect`, `LinesAreRelayed`, `DoneIsAlwaysSent`,
  `ContentStopsTheTimeout`.
  The invariant says that the buffer holds the lines 1 to `Len(buf)`, that what
  the client has is increasing and bounded by what was read, and where the one
  gap can be. For the thinking timeout, `ThinkInv` ties `hasContent` to the
  lines relayed since the hand-over. `TimedIsAStream` shows that `StreamTimed`
  implements `Stream`; `SilentStreamsEnd` rests on `ClockInv`, by which
  `elapsed` is ahead of the last look at the thinking timeout by at most `idle`.
- `ProcessProofs`: `ProcessTypeCorrect`, `BlacklistIsDurable`,
  `BannedNeverReturns`. `PromisesKept` alone is not inductive: a Save replaces
  the file, so what it writes must hold the promises. `Remembered` says that the
  memory of a process that could read the file does, `SaveSteps` that the
  temporary file is the memory when it is renamed and that what is due is in
  the file when the process may end, `Fresh` that a process that is down has no
  shutdown under way.

Every safety invariant and action property of the passing runs is a theorem.
Only model-checked is liveness (`TriggerServed`, `StopTerminates`,
`EveryRequestEnds`, `ChecksEnd`, `RotatorRealigns`, `BlamedLeave`, `ShutdownEnds`, `DialEnds`): it
rests on fairness, and so on ENABLED, which this prover does not reach.

## 5. Not modelled

- `FallbackHandler` beyond its presence, `SmartRouter.SelectNext`, `MarkAlive`,
  `MeasureAll` and `RecordLatency`: nothing the program reaches calls them, so
  their state never changes. (Whoever calls SelectNext: with no live proxy it
  loops for ever with the router locked, and with one it may return nil.)
- Parsing of configurations and flags, the bytes of requests and headers, the
  text patterns of compliance blocks, JSON decoding in the fetcher: functions
  of strings without state; the models take their outcomes as inputs.
- Constant HTTP answers, logging, the banner.
- Encryption and the HTTP and TLS libraries: external.
- A client that stops reading: `Write` has no timeout, so nothing bounds it. Nor
  one that never ends its body (server.go:252), which keeps its slot; the model
  has it (`body`), and no property can exclude it.
- A loss of power: see Process.

## 6. Plan

Done: the rotator and its refinement, the server with its goroutines, the
limiter, the stream with its deadline, the pool's upkeep, the process with the
blacklist's file, the dialers; and the proofs of all their safety properties.
Next:

1. an abstract specification of the JWT manager (one token at a time, handed
   out until it is invalidated or expires), shown by TLC and then proved to be
   implemented by `ChatServer`;
2. the same for the semaphore of handleChat.
