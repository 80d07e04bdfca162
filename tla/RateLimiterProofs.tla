------------------------- MODULE RateLimiterProofs -------------------------
(***************************************************************************)
(* The sliding window of ratelimit.go keeps its promises for every number  *)
(* of requests, every window and every interval that is not longer than    *)
(* the window.                                                             *)
(***************************************************************************)
EXTENDS RateLimiter, TLAPS, WellFoundedInduction

(* The loop of Allow has a place to stop: the least position whose entry   *)
(* is not expired, or the end of the list.                                 *)
LEMMA OutdatedExists ==
    ASSUME TypeOK
    PROVE  /\ Outdated \in 0 .. Len(requests)
           /\ \A j \in 1 .. Outdated : Expired(requests[j])
           /\ Outdated < Len(requests) => ~Expired(requests[Outdated + 1])
<1> DEFINE S == {i \in 0 .. Len(requests) :
                     i < Len(requests) => ~Expired(requests[i + 1])}
<1>1. Len(requests) \in Nat
  BY DEF TypeOK
<1>2. S \in SUBSET Nat /\ Len(requests) \in S
  BY <1>1
<1>3. PICK m \in S : \A k \in S : ~(<<k, m>> \in OpToRel(<, Nat))
  BY <1>2, WFMin, NatLessThanWellFounded
<1>4. m \in 0 .. Len(requests)
  OBVIOUS
<1>5. ASSUME NEW j \in 1 .. m, ~Expired(requests[j]) PROVE FALSE
  <2>1. (j - 1) \in S /\ j - 1 < m /\ (j - 1) \in Nat /\ m \in Nat
    BY <1>1, <1>4, <1>5
  <2>2. <<j - 1, m>> \in OpToRel(<, Nat)
    BY <2>1 DEF OpToRel
  <2> QED BY <1>3, <2>1, <2>2
<1>6. /\ \A j \in 1 .. m : Expired(requests[j])
      /\ m < Len(requests) => ~Expired(requests[m + 1])
  BY <1>5
<1> HIDE DEF S
<1> QED BY <1>4, <1>6 DEF Outdated

(* What Allow keeps of its list.                                           *)
LEMMA LiveIs ==
    ASSUME TypeOK
    PROVE  /\ Live \in Seq(Nat)
           /\ Len(Live) = Len(requests) - Outdated
           /\ \A k \in 1 .. Len(Live) : Live[k] = requests[Outdated + k]
<1> DEFINE c == Outdated
<1>1. c \in 0 .. Len(requests) /\ requests \in Seq(Nat) /\ Len(requests) \in Nat
  BY OutdatedExists DEF TypeOK
<1> HIDE DEF c
<1>2. /\ SubSeq(requests, c + 1, Len(requests)) \in Seq(Nat)
      /\ Len(SubSeq(requests, c + 1, Len(requests))) = Len(requests) - c
      /\ \A k \in 1 .. (Len(requests) - c) :
            SubSeq(requests, c + 1, Len(requests))[k] = requests[c + k]
  BY <1>1
<1> QED BY <1>2 DEF Live, c

-----------------------------------------------------------------------------
(* The inductive invariant: the limiter's list is the end of the history,  *)
(* and what is missing from it is older than the window.                   *)
Dropped == Len(granted) - Len(requests)

Remembers ==
    /\ Len(requests) <= Len(granted)
    /\ \A k \in 1 .. Len(requests) : requests[k] = granted[Dropped + k]
    /\ \A i \in 1 .. Dropped : granted[i] < now - Window

Ordered ==
    /\ \A i \in DOMAIN granted : granted[i] <= now
    /\ \A i, j \in DOMAIN granted : i <= j => granted[i] <= granted[j]

Inv == TypeOK /\ Remembers /\ Ordered /\ WindowLimit /\ Spacing

(* The list after the loop of Allow is still the end of the history.       *)
LEMMA LiveRemembers ==
    ASSUME Inv
    PROVE  LET d == Len(granted) - Len(Live)
           IN  /\ Live \in Seq(Nat) /\ Len(Live) <= Len(requests)
               /\ Len(Live) <= Len(granted)
               /\ \A k \in 1 .. Len(Live) : Live[k] = granted[d + k]
               /\ \A i \in 1 .. d : granted[i] < now - Window
<1> DEFINE c == Outdated
           d == Len(granted) - Len(Live)
<1>1. /\ c \in 0 .. Len(requests)
      /\ \A j \in 1 .. c : requests[j] < now - Window
  BY OutdatedExists DEF Expired, Inv
<1>2. /\ Live \in Seq(Nat)
      /\ Len(Live) = Len(requests) - c
      /\ \A k \in 1 .. Len(Live) : Live[k] = requests[c + k]
  BY LiveIs DEF Inv
<1>3. /\ Len(requests) \in Nat /\ Len(granted) \in Nat /\ now \in Nat
      /\ Len(requests) <= Len(granted)
      /\ \A k \in 1 .. Len(requests) : requests[k] = granted[Dropped + k]
      /\ \A i \in 1 .. Dropped : granted[i] < now - Window
  BY DEF Inv, TypeOK, Remembers
<1> HIDE DEF c
<1>4. d = Dropped + c /\ Dropped \in Nat /\ d \in Nat
  BY <1>1, <1>2, <1>3 DEF Dropped
<1> HIDE DEF d
<1>5. ASSUME NEW k \in 1 .. Len(Live) PROVE Live[k] = granted[d + k]
  <2>1. c + k \in 1 .. Len(requests) /\ d + k = Dropped + (c + k)
    <3>1. k \in Nat /\ k >= 1 /\ k <= Len(requests) - c /\ c \in Nat
      BY <1>1, <1>2, <1>3
    <3> QED BY <1>3, <1>4, <3>1
  <2> QED BY <1>2, <1>3, <2>1
<1>6. ASSUME NEW i \in 1 .. d PROVE granted[i] < now - Window
  <2>1. CASE i <= Dropped
    BY <1>3, <1>4, <2>1
  <2>2. CASE i > Dropped
    <3>1. (i - Dropped) \in 1 .. c /\ i = Dropped + (i - Dropped)
      BY <1>1, <1>4, <2>2
    <3>2. requests[i - Dropped] = granted[i]
      <4>1. (i - Dropped) \in 1 .. Len(requests)
        BY <1>1, <1>3, <3>1
      <4> QED BY <1>3, <3>1, <4>1
    <3> QED BY <1>1, <3>1, <3>2
  <2> QED BY <1>4, <2>1, <2>2
<1>7. Len(Live) <= Len(requests) /\ Len(Live) <= Len(granted) /\ Len(Live) \in Nat
  BY <1>1, <1>2, <1>3
<1> QED BY <1>2, <1>5, <1>6, <1>7 DEF d

-----------------------------------------------------------------------------
LEMMA InitInv == Init => Inv
BY LimiterAssumption
DEF Init, Inv, TypeOK, Remembers, Dropped, Ordered, WindowLimit, Spacing

LEMMA TickInv == Inv /\ Tick => Inv'
<1> SUFFICES ASSUME Inv, Tick PROVE Inv'
  OBVIOUS
<1>1. /\ now \in Nat /\ now' = now + 1 /\ requests' = requests /\ granted' = granted
      /\ granted \in Seq(Nat)
  BY DEF Inv, TypeOK, Tick
<1>2. TypeOK'
  BY <1>1 DEF Inv, TypeOK
<1>3. Remembers'
  <2>1. \A i \in 1 .. Dropped : granted[i] < (now + 1) - Window
    <3>1. ASSUME NEW i \in 1 .. Dropped PROVE granted[i] < (now + 1) - Window
      <4>1. granted[i] < now - Window /\ granted[i] \in Nat
        BY <1>1 DEF Inv, Remembers, Dropped, TypeOK
      <4> QED BY <1>1, <4>1, LimiterAssumption
    <3> QED BY <3>1
  <2> QED BY <1>1, <2>1 DEF Inv, Remembers, Dropped
<1>4. Ordered'
  BY <1>1 DEF Inv, Ordered
<1> QED BY <1>1, <1>2, <1>3, <1>4 DEF Inv, WindowLimit, Spacing

LEMMA DenyInv == Inv /\ Deny => Inv'
<1> SUFFICES ASSUME Inv, Deny PROVE Inv'
  OBVIOUS
<1>1. requests' = Live /\ now' = now /\ granted' = granted
  BY DEF Deny
<1>2. TypeOK'
  <2>1. Live \in Seq(Nat) /\ Len(Live) <= Len(requests) /\ Len(Live) \in Nat
    BY LiveRemembers
  <2>2. Len(requests) <= MaxRequests /\ Len(requests) \in Nat
    BY DEF Inv, TypeOK
  <2>3. Len(Live) <= MaxRequests
    BY <2>1, <2>2, LimiterAssumption
  <2> QED BY <1>1, <2>1, <2>3 DEF Inv, TypeOK
<1>3. Remembers'
  BY <1>1, LiveRemembers DEF Remembers, Dropped
<1> QED BY <1>1, <1>2, <1>3 DEF Inv, Ordered, WindowLimit, Spacing

(* An allowed request: at most MaxRequests - 1 of the history are within   *)
(* the window, and the newest of them is MinInterval old.                  *)
LEMMA AllowInv == Inv /\ Allow => Inv'
<1> SUFFICES ASSUME Inv, Allow PROVE Inv'
  OBVIOUS
<1> DEFINE n == Len(granted)
           l == Len(Live)
           d == n - l
<1>1. /\ Live \in Seq(Nat) /\ l \in Nat /\ l <= n
      /\ \A k \in 1 .. l : Live[k] = granted[d + k]
      /\ \A i \in 1 .. d : granted[i] < now - Window
  BY LiveRemembers
<1>2. /\ now \in Nat /\ granted \in Seq(Nat) /\ n \in Nat /\ DOMAIN granted = 1 .. n
      /\ \A i \in 1 .. n : granted[i] \in Nat /\ granted[i] <= now
      /\ \A i, j \in 1 .. n : i <= j => granted[i] <= granted[j]
  BY DEF Inv, TypeOK, Ordered
<1>3. /\ l < MaxRequests
      /\ Live # << >> => now - Live[l] >= MinInterval
  BY <1>1, <1>2, LimiterAssumption DEF Allow, Allowed, TooSoon
<1>4. /\ requests' = Append(Live, now) /\ granted' = Append(granted, now) /\ now' = now
  BY DEF Allow
<1>5. /\ granted' \in Seq(Nat) /\ Len(granted') = n + 1 /\ DOMAIN granted' = 1 .. (n + 1)
      /\ granted'[n + 1] = now
      /\ \A i \in 1 .. n : granted'[i] = granted[i]
  BY <1>2, <1>4
<1>6. /\ requests' \in Seq(Nat) /\ Len(requests') = l + 1
      /\ requests'[l + 1] = now
      /\ \A k \in 1 .. l : requests'[k] = Live[k]
  BY <1>1, <1>2, <1>4
<1> HIDE DEF n, l
<1>7. TypeOK'
  BY <1>1, <1>2, <1>3, <1>4, <1>5, <1>6, LimiterAssumption DEF TypeOK
<1>8. Remembers'
  <2>1. Dropped' = d /\ d \in Nat
    BY <1>1, <1>2, <1>5, <1>6 DEF Dropped
  <2>2. ASSUME NEW k \in 1 .. (l + 1) PROVE requests'[k] = granted'[d + k]
    <3>1. CASE k = l + 1
      BY <1>1, <1>2, <1>5, <1>6, <3>1
    <3>2. CASE k # l + 1
      <4>1. k \in 1 .. l /\ d + k \in 1 .. n
        BY <1>1, <1>2, <3>2
      <4> QED BY <1>1, <1>5, <1>6, <4>1
    <3> QED BY <3>1, <3>2
  <2>3. ASSUME NEW i \in 1 .. d PROVE granted'[i] < now' - Window
    <3>1. i \in 1 .. n
      BY <1>1, <1>2
    <3> QED BY <1>1, <1>4, <1>5, <3>1
  <2> QED BY <1>1, <1>2, <1>5, <1>6, <2>1, <2>2, <2>3 DEF Remembers
<1>9. Ordered'
  <2>1. ASSUME NEW i \in 1 .. (n + 1) PROVE granted'[i] <= now'
    BY <1>2, <1>4, <1>5
  <2>2. ASSUME NEW i \in 1 .. (n + 1), NEW j \in 1 .. (n + 1), i <= j
        PROVE  granted'[i] <= granted'[j]
    <3>1. CASE j = n + 1
      BY <1>4, <1>5, <2>1, <3>1
    <3>2. CASE j # n + 1
      <4>1. i \in 1 .. n /\ j \in 1 .. n
        BY <1>2, <2>2, <3>2
      <4> QED BY <1>2, <1>5, <2>2, <4>1
    <3> QED BY <3>1, <3>2
  <2> QED BY <1>5, <2>1, <2>2 DEF Ordered
<1>10. WindowLimit'
  <2>1. ASSUME NEW i \in 1 .. (n + 1), NEW j \in 1 .. (n + 1), j >= i + MaxRequests
        PROVE  granted'[j] - granted'[i] > Window
    <3>1. CASE j = n + 1
      <4>1. i \in 1 .. d /\ i \in 1 .. n
        BY <1>1, <1>2, <1>3, <2>1, <3>1, LimiterAssumption
      <4>2. granted[i] < now - Window /\ granted[i] \in Nat
        BY <1>1, <1>2, <4>1
      <4>3. granted'[j] = now /\ granted'[i] = granted[i]
        BY <1>5, <3>1, <4>1
      <4> QED BY <1>2, <4>2, <4>3, LimiterAssumption
    <3>2. CASE j # n + 1
      <4>1. i \in 1 .. n /\ j \in 1 .. n
        BY <1>2, <2>1, <3>2, LimiterAssumption
      <4> QED BY <1>2, <1>5, <2>1, <4>1 DEF Inv, WindowLimit
    <3> QED BY <3>1, <3>2
  <2> QED BY <1>5, <2>1 DEF WindowLimit
<1>11. Spacing'
  <2>0. ASSUME NEW i \in 1 .. n PROVE now - granted[i] >= MinInterval
    <3>1. CASE i <= d
      <4>1. granted[i] < now - Window /\ granted[i] \in Nat
        BY <1>1, <1>2, <3>1
      <4> QED BY <1>2, <4>1, LimiterAssumption
    <3>2. CASE i > d
      <4>1. l >= 1 /\ n \in 1 .. n /\ i <= n /\ l \in 1 .. l /\ d + l = n
        BY <1>1, <1>2, <3>2
      <4>2. Live # << >>
        BY <1>1, <4>1 DEF l
      <4>3. Live[l] = granted[n]
        BY <1>1, <4>1
      <4>4. granted[i] <= granted[n] /\ granted[i] \in Nat /\ granted[n] \in Nat
        BY <1>2, <4>1
      <4> QED BY <1>2, <1>3, <4>2, <4>3, <4>4, LimiterAssumption
    <3> QED BY <1>1, <1>2, <3>1, <3>2
  <2>1. ASSUME NEW i \in 1 .. (n + 1), NEW j \in 1 .. (n + 1), i < j
        PROVE  granted'[j] - granted'[i] >= MinInterval
    <3>1. i \in 1 .. n
      BY <1>2, <2>1
    <3>2. CASE j = n + 1
      BY <1>5, <2>0, <3>1, <3>2
    <3>3. CASE j # n + 1
      <4>1. j \in 1 .. n
        BY <1>2, <3>3
      <4> QED BY <1>2, <1>5, <2>1, <3>1, <4>1 DEF Inv, Spacing
    <3> QED BY <3>2, <3>3
  <2> QED BY <1>5, <2>1 DEF Spacing
<1> QED BY <1>7, <1>8, <1>9, <1>10, <1>11 DEF Inv

LEMMA NextInv == Inv /\ [Next]_vars => Inv'
<1> SUFFICES ASSUME Inv, [Next]_vars PROVE Inv'
  OBVIOUS
<1>1. CASE UNCHANGED vars
  BY <1>1
  DEF vars, Inv, TypeOK, Remembers, Dropped, Ordered, WindowLimit, Spacing
<1> QED BY <1>1, TickInv, AllowInv, DenyInv DEF Next

(* The limiter's list stays well-formed and never holds more than          *)
(* MaxRequests entries.                                                    *)
THEOREM LimiterTypeCorrect == Spec => []TypeOK
<1>1. Inv => TypeOK
  BY DEF Inv
<1> QED BY <1>1, InitInv, NextInv, PTL DEF Spec

(* The limiter is a sliding window: no MaxRequests + 1 requests that Allow *)
(* let through fit into any Window (ratelimit.go 30-59).                   *)
THEOREM NeverMoreThanMax == Spec => []WindowLimit
<1>1. Inv => WindowLimit
  BY DEF Inv
<1> QED BY <1>1, InitInv, NextInv, PTL DEF Spec

(* The minimum interval holds between all allowed requests, also when the  *)
(* list was emptied in between.                                            *)
THEOREM IntervalKept == Spec => []Spacing
<1>1. Inv => Spacing
  BY DEF Inv
<1> QED BY <1>1, InitInv, NextInv, PTL DEF Spec

(* A denial: the loop stopped at an entry within the window, and the list  *)
(* is full from there on; or the newest entry is too young.                *)
LEMMA DenyIsDue ==
    ASSUME Inv, ~Allowed(Live)
    PROVE  LET n == Len(granted)
           IN  \/ n >= MaxRequests /\ now - granted[n - MaxRequests + 1] <= Window
               \/ n >= 1 /\ now - granted[n] < MinInterval
<1> DEFINE n == Len(granted)
           l == Len(Live)
           d == n - l
<1>1. /\ Live \in Seq(Nat) /\ l \in Nat /\ l <= n
      /\ \A k \in 1 .. l : Live[k] = granted[d + k]
  BY LiveRemembers
<1>2. /\ now \in Nat /\ n \in Nat /\ DOMAIN granted = 1 .. n
      /\ \A i \in 1 .. n : granted[i] \in Nat
      /\ \A i, j \in 1 .. n : i <= j => granted[i] <= granted[j]
  BY DEF Inv, TypeOK, Ordered
<1>3. \/ l >= MaxRequests
      \/ Live # << >> /\ now - Live[l] < MinInterval
  BY <1>1, LimiterAssumption DEF Allowed, TooSoon
<1>4. l >= 1 => ~Expired(Live[1])
  <2>1. l = Len(requests) - Outdated /\ (l >= 1 => Live[1] = requests[Outdated + 1])
    BY <1>1, LiveIs DEF Inv
  <2>2. Outdated \in Nat /\ Len(requests) \in Nat
    BY OutdatedExists DEF Inv, TypeOK
  <2> QED BY <2>1, <2>2, OutdatedExists DEF Inv
<1>5. Live # << >> => l >= 1
  BY <1>1
<1> HIDE DEF n, l
<1>6. CASE l >= MaxRequests
  <2>1. /\ n >= MaxRequests /\ l >= 1 /\ d + 1 \in 1 .. n
        /\ (n - MaxRequests + 1) \in 1 .. n /\ d + 1 <= n - MaxRequests + 1
    BY <1>1, <1>2, <1>6, LimiterAssumption
  <2>2. Live[1] = granted[d + 1] /\ granted[d + 1] \in Nat
    <3>1. 1 \in 1 .. l
      BY <1>1, <2>1
    <3> QED BY <1>1, <1>2, <2>1, <3>1
  <2>3. ~(granted[d + 1] < now - Window)
    BY <1>4, <2>1, <2>2 DEF Expired
  <2>4. granted[d + 1] <= granted[n - MaxRequests + 1] /\ granted[n - MaxRequests + 1] \in Nat
    BY <1>2, <2>1
  <2>5. now - granted[n - MaxRequests + 1] <= Window
    BY <1>2, <2>2, <2>3, <2>4, LimiterAssumption
  <2> QED BY <2>1, <2>5 DEF n
<1>7. CASE Live # << >> /\ now - Live[l] < MinInterval
  <2>1. l \in 1 .. l /\ n >= 1 /\ d + l = n
    BY <1>1, <1>2, <1>5, <1>7
  <2>2. Live[l] = granted[n]
    BY <1>1, <2>1
  <2> QED BY <1>7, <2>1, <2>2 DEF n
<1> QED BY <1>3, <1>6, <1>7

(* Allow never denies without one of its two reasons.                      *)
THEOREM DenialsHaveAReason == Spec => []DenialsAreDue
<1>1. Inv => DenialsAreDue
  BY DenyIsDue DEF DenialsAreDue
<1> QED BY <1>1, InitInv, NextInv, PTL DEF Spec

=============================================================================
