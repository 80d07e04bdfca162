---------------------------- MODULE RateLimiter ----------------------------
(***************************************************************************)
(* proxy/ratelimit.go: the sliding window that Allow keeps.  Allow runs    *)
(* under the limiter's mutex and reads the clock there, so its callers are *)
(* served one after the other at times that never go back; a call is one   *)
(* step, and time passes between calls.                                    *)
(***************************************************************************)
EXTENDS Integers, Sequences

CONSTANTS
    MaxRequests,   \* requests allowed in a window
    Window,        \* its length
    MinInterval,   \* the minimum time between two requests; 0: none
    MaxTime        \* bound on the clock

(* main.go uses 8 requests in 60 s, and 0 or 2 s between two of them.      *)
ASSUME LimiterAssumption ==
    /\ MaxRequests \in Nat \ {0} /\ Window \in Nat \ {0}
    /\ MinInterval \in Nat /\ MinInterval <= Window
    /\ MaxTime \in Nat

VARIABLES
    now,           \* the clock
    requests,      \* the limiter's list: when it allowed requests
    granted        \* when it ever did (history)

vars == <<now, requests, granted>>

Init ==
    /\ now = 0
    /\ requests = << >>
    /\ granted = << >>

Tick ==
    /\ now < MaxTime
    /\ now' = now + 1
    /\ UNCHANGED <<requests, granted>>

(* Mutant of Expired: an entry expires one unit early.                     *)
ExpiredEarly(t) == t <= now - Window

(* Before(cutoff): an entry exactly as old as the window still counts.     *)
Expired(t) == t < now - Window

(* The loop of Allow stops at the first entry that is not expired.         *)
Outdated ==
    CHOOSE i \in 0 .. Len(requests) :
        /\ \A j \in 1 .. i : Expired(requests[j])
        /\ i < Len(requests) => ~Expired(requests[i + 1])

Live == SubSeq(requests, Outdated + 1, Len(requests))

(* Mutant of TooSoon: the oldest entry instead of the newest.              *)
TooSoonAfterFirst(list) == list # << >> /\ now - list[1] < MinInterval

TooSoon(list) == list # << >> /\ now - list[Len(list)] < MinInterval

Allowed(list) == Len(list) < MaxRequests /\ ~TooSoon(list)

(* Allow returns true.                                                     *)
Allow ==
    /\ Allowed(Live)
    /\ requests' = Append(Live, now)
    /\ granted' = Append(granted, now)
    /\ UNCHANGED now

(* Mutant of Deny: a request that is denied is recorded as well.           *)
DenyRecords ==
    /\ ~Allowed(Live)
    /\ requests' = Append(Live, now)
    /\ UNCHANGED <<now, granted>>

(* Allow returns false: expired entries are gone all the same.             *)
Deny ==
    /\ ~Allowed(Live)
    /\ requests' = Live
    /\ UNCHANGED <<now, granted>>

Next == Tick \/ Allow \/ Deny

Spec == Init /\ [][Next]_vars

-----------------------------------------------------------------------------
(* Types, and the limiter's list does not grow past MaxRequests, however   *)
(* many requests it turns down.                                            *)
TypeOK ==
    /\ now \in Nat
    /\ requests \in Seq(Nat) /\ Len(requests) <= MaxRequests
    /\ granted \in Seq(Nat)

(* README:16 "sliding window: 8 req/60s": any MaxRequests + 1 requests     *)
(* that were ever allowed span more than a window, wherever it is laid.    *)
WindowLimit ==
    \A i, j \in DOMAIN granted :
        j >= i + MaxRequests => granted[j] - granted[i] > Window

(* README:16 "min 2s interval": two requests that were allowed are         *)
(* MinInterval apart, although Allow only looks at entries that did not    *)
(* expire.                                                                 *)
Spacing ==
    \A i, j \in DOMAIN granted : i < j => granted[j] - granted[i] >= MinInterval

(* Allow denies only for a reason that the requests it allowed give: a     *)
(* full window, or one less than MinInterval ago; a denied request never   *)
(* counts against later ones.                                              *)
DenialsAreDue ==
    LET n == Len(granted)
    IN  ~Allowed(Live) =>
            \/ n >= MaxRequests /\ now - granted[n - MaxRequests + 1] <= Window
            \/ n >= 1 /\ now - granted[n] < MinInterval

=============================================================================
