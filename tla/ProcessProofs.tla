---------------------------- MODULE ProcessProofs ----------------------------
(***************************************************************************)
(* The blacklist over crashes and restarts, for every number of starts,    *)
(* every mode and every set of addresses.                                  *)
(***************************************************************************)
EXTENDS Process, TLAPS

(* A process that is down has nothing in memory and no shutdown under way; *)
(* a shutdown begins after the pool was loaded.                            *)
Fresh ==
    /\ phase = "down" => /\ entries = {} /\ used = {} /\ sig = "wait" /\ ~blind
    /\ phase = "load" => used = {} /\ sig = "wait"
    /\ sig = "wait" => due = {}
    /\ closing => sig = "drain"

(* What the shutdown still has to save is in memory, what it has saved is  *)
(* in the file, and the temporary file is complete before it is renamed.   *)
SaveSteps ==
    /\ due \subseteq entries
    /\ sig = "rename" => tmp = entries
    /\ sig \in {"http", "drain"} => due \subseteq OnDisk(file)

(* A process that could read the file knows all that was promised, so what *)
(* it saves keeps the promises.                                            *)
Remembered == ~wiped /\ ~blind /\ phase # "down" => promised \subseteq entries

Inv == TypeOK /\ Fresh /\ SaveSteps /\ Remembered /\ PromisesKept /\ BannedStaysOut

(* A set of IPs is not mistaken for a missing or a torn file.              *)
LEMMA OnDiskIs ==
    /\ \A S \in SUBSET IP : OnDisk(S) = S
    /\ OnDisk(NoFile) = {} /\ OnDisk(Torn) = {}
BY ProcessAssumption DEF OnDisk

LEMMA AddedIs ==
    ASSUME NEW S \in SUBSET Addr
    PROVE  /\ Added(S) \subseteq Addr
           /\ \A a \in Added(S) : IPOf[a] # NoIP => IPOf[a] \notin entries
BY DEF Added, IsBlacklisted

LEMMA LoadedIs ==
    ASSUME NEW S \in SUBSET Addr
    PROVE  /\ Loaded(S) \subseteq Addr
           /\ \A a \in Loaded(S) : IPOf[a] # NoIP => IPOf[a] \notin entries
<1>1. UserServers \in SUBSET Addr
  BY ProcessAssumption DEF UserServers
<1> QED BY <1>1, AddedIs DEF Loaded

(* Servers that are not on the blacklist have no promised IP.              *)
LEMMA NewServers ==
    ASSUME Inv, phase # "down", NEW S \in SUBSET Addr,
           \A a \in S : IPOf[a] # NoIP => IPOf[a] \notin entries
    PROVE  ~wiped /\ ~blind => \A a \in S : IPOf[a] \notin promised
BY ProcessAssumption DEF Inv, Remembered, TypeOK

LEMMA InitInv == Init => Inv
<1> SUFFICES ASSUME Init PROVE Inv
  OBVIOUS
<1>1. TypeOK
  <2>1. closing \in BOOLEAN /\ blind \in BOOLEAN /\ wiped \in BOOLEAN
    BY Zenon DEF Init
  <2>2. starts \in 0 .. MaxStarts /\ active \in 0 .. MaxActive
    BY ProcessAssumption DEF Init
  <2> QED BY <2>1, <2>2 DEF Init, TypeOK
<1>2. Fresh /\ SaveSteps /\ Remembered /\ PromisesKept /\ BannedStaysOut
  BY DEF Init, Fresh, SaveSteps, Remembered, PromisesKept, BannedStaysOut
<1> QED BY <1>1, <1>2 DEF Inv

-----------------------------------------------------------------------------
LEMMA LaunchInv ==
    ASSUME Inv, NEW m \in Modes, NEW readable \in BOOLEAN, Launch(m, readable)
    PROVE  Inv'
<1>1. /\ phase = "down" /\ phase' = "load" /\ starts < MaxStarts /\ starts' = starts + 1
      /\ mode' = m /\ entries' = (IF readable THEN OnDisk(file) ELSE {})
      /\ blind' = ~readable
      /\ file' = file /\ tmp' = tmp /\ used' = used /\ active' = active /\ sig' = sig
      /\ closing' = closing /\ due' = due /\ promised' = promised /\ wiped' = wiped
  BY DEF Launch, shutdown
<1>2. used = {} /\ sig = "wait" /\ due = {} /\ ~closing
  BY <1>1 DEF Inv, Fresh
<1>3. TypeOK'
  <2>1. OnDisk(file) \subseteq IP
    BY DEF OnDisk, Inv, TypeOK
  <2>2. blind' \in BOOLEAN
    BY <1>1, Zenon
  <2>3. starts' \in 0 .. MaxStarts
    BY <1>1, ProcessAssumption DEF Inv, TypeOK
  <2> QED BY <1>1, <2>1, <2>2, <2>3 DEF Inv, TypeOK
<1>4. Fresh' /\ SaveSteps'
  BY <1>1, <1>2 DEF Fresh, SaveSteps
<1>5. Remembered'
  BY <1>1 DEF Inv, PromisesKept, Remembered
<1>6. PromisesKept' /\ BannedStaysOut'
  BY <1>1, <1>2 DEF Inv, PromisesKept, BannedStaysOut, OnDisk
<1> QED BY <1>3, <1>4, <1>5, <1>6 DEF Inv

LEMMA LoadInv ==
    ASSUME Inv, NEW S \in SUBSET Addr, Load(S)
    PROVE  Inv'
<1>1. /\ phase = "load" /\ phase' = "ready" /\ used' = Loaded(S)
      /\ file' = file /\ tmp' = tmp /\ starts' = starts /\ mode' = mode
      /\ entries' = entries /\ active' = active /\ sig' = sig /\ closing' = closing
      /\ due' = due /\ promised' = promised /\ blind' = blind /\ wiped' = wiped
  BY DEF Load, shutdown, history
<1>2. used' \subseteq Addr /\ (~wiped /\ ~blind => \A a \in used' : IPOf[a] \notin promised)
  BY <1>1, LoadedIs, NewServers
<1>3. TypeOK'
  BY <1>1, <1>2 DEF Inv, TypeOK
<1>4. Fresh' /\ SaveSteps'
  BY <1>1 DEF Inv, Fresh, SaveSteps, OnDisk
<1>5. Remembered' /\ PromisesKept' /\ BannedStaysOut'
  BY <1>1, <1>2 DEF Inv, Remembered, PromisesKept, BannedStaysOut, OnDisk
<1> QED BY <1>3, <1>4, <1>5 DEF Inv

LEMMA RefreshInv ==
    ASSUME Inv, NEW S \in SUBSET Addr, Refresh(S)
    PROVE  Inv'
<1>1. /\ phase \in {"ready", "serve"} /\ phase' = phase /\ used' = used \cup Added(S)
      /\ file' = file /\ tmp' = tmp /\ starts' = starts /\ mode' = mode
      /\ entries' = entries /\ active' = active /\ sig' = sig /\ closing' = closing
      /\ due' = due /\ promised' = promised /\ blind' = blind /\ wiped' = wiped
  BY DEF Refresh, main, shutdown, history
<1>2. /\ Added(S) \subseteq Addr
      /\ ~wiped /\ ~blind => \A a \in Added(S) : IPOf[a] \notin promised
  BY <1>1, AddedIs, NewServers
<1>3. TypeOK'
  BY <1>1, <1>2 DEF Inv, TypeOK
<1>4. Fresh' /\ SaveSteps'
  BY <1>1 DEF Inv, Fresh, SaveSteps, OnDisk
<1>5. Remembered' /\ PromisesKept' /\ BannedStaysOut'
  BY <1>1, <1>2 DEF Inv, Remembered, PromisesKept, BannedStaysOut, OnDisk
<1> QED BY <1>3, <1>4, <1>5 DEF Inv

(* A request may come and go at any time: only the counter changes.        *)
LEMMA CounterInv ==
    ASSUME Inv, active' \in 0 .. MaxActive, phase' \in {"serve", phase},
           phase # "down" \/ phase' = phase, phase # "load" \/ phase' = phase,
           UNCHANGED <<file, tmp, starts, mode, entries, used, shutdown, history>>
    PROVE  Inv'
<1>1. TypeOK'
  BY DEF Inv, TypeOK, shutdown, history
<1>2. Fresh' /\ SaveSteps'
  BY DEF Inv, Fresh, SaveSteps, OnDisk, shutdown, history
<1>3. Remembered' /\ PromisesKept' /\ BannedStaysOut'
  BY DEF Inv, Remembered, PromisesKept, BannedStaysOut, OnDisk, shutdown, history
<1> QED BY <1>1, <1>2, <1>3 DEF Inv

LEMMA RequestBlacklistsInv ==
    ASSUME Inv, NEW a \in Addr, RequestBlacklists(a)
    PROVE  Inv'
<1>1. /\ a \in used /\ sig \notin {"write", "rename"}
      /\ entries' = Blacklisting(entries, a)
      /\ file' = file /\ tmp' = tmp /\ starts' = starts /\ phase' = phase /\ mode' = mode
      /\ used' = used /\ active' = active /\ sig' = sig /\ closing' = closing
      /\ due' = due /\ promised' = promised /\ blind' = blind /\ wiped' = wiped
  BY DEF RequestBlacklists, main, shutdown, history
<1>2. entries \subseteq entries' /\ entries' \subseteq IP /\ phase # "down"
  BY <1>1, ProcessAssumption DEF Blacklisting, Inv, TypeOK, Fresh
<1>3. TypeOK'
  BY <1>1, <1>2 DEF Inv, TypeOK
<1>4. Fresh' /\ SaveSteps'
  BY <1>1, <1>2 DEF Inv, Fresh, SaveSteps, OnDisk
<1>5. Remembered' /\ PromisesKept' /\ BannedStaysOut'
  BY <1>1, <1>2 DEF Inv, Remembered, PromisesKept, BannedStaysOut, OnDisk
<1> QED BY <1>3, <1>4, <1>5 DEF Inv

-----------------------------------------------------------------------------
LEMMA SignalInv == ASSUME Inv, Signal PROVE Inv'
<1>1. /\ phase \in {"ready", "serve"} /\ sig = "wait" /\ sig' = "save" /\ due' = entries
      /\ file' = file /\ tmp' = tmp /\ starts' = starts /\ phase' = phase /\ mode' = mode
      /\ entries' = entries /\ used' = used /\ active' = active /\ closing' = closing
      /\ promised' = promised /\ blind' = blind /\ wiped' = wiped
  BY DEF Signal, main, memory, history
<1>2. TypeOK'
  BY <1>1 DEF Inv, TypeOK
<1>3. Fresh' /\ SaveSteps'
  BY <1>1 DEF Inv, Fresh, SaveSteps
<1>4. Remembered' /\ PromisesKept' /\ BannedStaysOut'
  BY <1>1 DEF Inv, Remembered, PromisesKept, BannedStaysOut, OnDisk
<1> QED BY <1>2, <1>3, <1>4 DEF Inv

(* The temporary file is written: the blacklist's file is not touched.     *)
LEMMA WriteInv == ASSUME Inv, SaveBegin \/ SaveWritten PROVE Inv'
<1>1. /\ file' = file /\ starts' = starts /\ phase' = phase /\ mode' = mode
      /\ entries' = entries /\ used' = used /\ active' = active /\ closing' = closing
      /\ due' = due /\ promised' = promised /\ blind' = blind /\ wiped' = wiped
      /\ \/ sig = "save" /\ sig' = "write" /\ tmp' = Torn
         \/ sig = "write" /\ sig' = "rename" /\ tmp' = entries
  BY DEF SaveBegin, SaveWritten, main, memory, history
<1>2. TypeOK'
  BY <1>1 DEF Inv, TypeOK
<1>3. Fresh' /\ SaveSteps'
  BY <1>1 DEF Inv, Fresh, SaveSteps
<1>4. Remembered' /\ PromisesKept' /\ BannedStaysOut'
  BY <1>1 DEF Inv, Remembered, PromisesKept, BannedStaysOut, OnDisk
<1> QED BY <1>2, <1>3, <1>4 DEF Inv

(* The rename replaces the file by all of the memory.                      *)
LEMMA SaveRenamedInv == ASSUME Inv, SaveRenamed PROVE Inv'
<1>1. /\ sig = "rename" /\ sig' = "http" /\ file' = tmp /\ tmp' = NoFile
      /\ wiped' = (wiped \/ blind)
      /\ starts' = starts /\ phase' = phase /\ mode' = mode
      /\ entries' = entries /\ used' = used /\ active' = active /\ closing' = closing
      /\ due' = due /\ promised' = promised /\ blind' = blind
  BY DEF SaveRenamed, main, memory
<1>2. phase # "down" /\ tmp = entries /\ entries \subseteq IP /\ due \subseteq entries
  BY <1>1 DEF Inv, TypeOK, Fresh, SaveSteps
<1>3. OnDisk(file') = entries
  BY <1>1, <1>2, OnDiskIs
<1>4. TypeOK'
  <2>1. wiped' \in BOOLEAN
    BY <1>1, Zenon DEF Inv, TypeOK
  <2> QED BY <1>1, <1>2, <2>1 DEF Inv, TypeOK
<1>5. Fresh' /\ SaveSteps'
  BY <1>1, <1>2, <1>3 DEF Inv, Fresh, SaveSteps
<1>6. Remembered' /\ BannedStaysOut'
  BY <1>1 DEF Inv, Remembered, BannedStaysOut
<1>7. PromisesKept'
  BY <1>1, <1>2, <1>3 DEF Inv, Remembered, PromisesKept
<1> QED BY <1>4, <1>5, <1>6, <1>7 DEF Inv

LEMMA SaveFailsInv == ASSUME Inv, SaveFails PROVE Inv'
<1>1. /\ sig \in {"save", "write", "rename"} /\ sig' = "http" /\ due' = {}
      /\ file' = file /\ tmp' = tmp /\ starts' = starts /\ phase' = phase /\ mode' = mode
      /\ entries' = entries /\ used' = used /\ active' = active /\ closing' = closing
      /\ promised' = promised /\ blind' = blind /\ wiped' = wiped
  BY DEF SaveFails, main, memory, history
<1>2. TypeOK'
  BY <1>1 DEF Inv, TypeOK
<1>3. Fresh' /\ SaveSteps'
  BY <1>1 DEF Inv, Fresh, SaveSteps
<1>4. Remembered' /\ PromisesKept' /\ BannedStaysOut'
  BY <1>1 DEF Inv, Remembered, PromisesKept, BannedStaysOut, OnDisk
<1> QED BY <1>2, <1>3, <1>4 DEF Inv

LEMMA HTTPShutdownInv == ASSUME Inv, HTTPShutdown PROVE Inv'
<1>1. /\ sig = "http" /\ sig' = "drain" /\ closing' = TRUE
      /\ file' = file /\ tmp' = tmp /\ starts' = starts /\ phase' = phase /\ mode' = mode
      /\ entries' = entries /\ used' = used /\ active' = active /\ due' = due
      /\ promised' = promised /\ blind' = blind /\ wiped' = wiped
  BY DEF HTTPShutdown, main, memory, history
<1>2. TypeOK'
  <2>1. closing' \in BOOLEAN
    BY <1>1, Zenon
  <2> QED BY <1>1, <2>1 DEF Inv, TypeOK
<1>3. Fresh' /\ SaveSteps'
  BY <1>1 DEF Inv, Fresh, SaveSteps, OnDisk
<1>4. Remembered' /\ PromisesKept' /\ BannedStaysOut'
  BY <1>1 DEF Inv, Remembered, PromisesKept, BannedStaysOut, OnDisk
<1> QED BY <1>2, <1>3, <1>4 DEF Inv

(* At the end of a process, wherever it stops, the memory is lost; what an *)
(* Exit promises is in the file.                                           *)
LEMMA GoneInv == ASSUME Inv, Exit \/ Crash PROVE Inv'
<1>1. /\ phase' = "down" /\ entries' = {} /\ used' = {} /\ active' = 0
      /\ sig' = "wait" /\ closing' = FALSE /\ due' = {} /\ blind' = FALSE
      /\ file' = file /\ tmp' = tmp /\ starts' = starts /\ mode' = mode /\ wiped' = wiped
      /\ \/ closing /\ promised' = promised \cup due
         \/ promised' = promised
  BY DEF Exit, Crash, Gone
<1>2. promised' \subseteq IP /\ (~wiped => promised' \subseteq OnDisk(file))
  BY <1>1 DEF Inv, TypeOK, Fresh, SaveSteps, PromisesKept
<1>3. TypeOK'
  <2>1. closing' \in BOOLEAN /\ blind' \in BOOLEAN
    BY <1>1, Zenon
  <2>2. active' \in 0 .. MaxActive
    BY <1>1, ProcessAssumption
  <2> QED BY <1>1, <1>2, <2>1, <2>2 DEF Inv, TypeOK
<1>4. Fresh' /\ SaveSteps'
  BY <1>1 DEF Fresh, SaveSteps
<1>5. Remembered' /\ PromisesKept' /\ BannedStaysOut'
  BY <1>1, <1>2 DEF Remembered, PromisesKept, BannedStaysOut, OnDisk
<1> QED BY <1>3, <1>4, <1>5 DEF Inv

-----------------------------------------------------------------------------
LEMMA NextInv == Inv /\ [Next]_vars => Inv'
<1> SUFFICES ASSUME Inv, [Next]_vars PROVE Inv'
  OBVIOUS
<1>1. ASSUME NEW m \in Modes, NEW readable \in BOOLEAN, Launch(m, readable) PROVE Inv'
  BY <1>1, LaunchInv
<1>2. ASSUME NEW S \in Fetches \cup {{}}, Load(S) PROVE Inv'
  <2>1. S \in SUBSET Addr
    BY ProcessAssumption
  <2> QED BY <1>2, <2>1, LoadInv
<1>3. ASSUME NEW S \in Fetches, Refresh(S) PROVE Inv'
  <2>1. S \in SUBSET Addr
    BY ProcessAssumption
  <2> QED BY <1>3, <2>1, RefreshInv
<1>4. CASE Serve
  BY <1>4, CounterInv DEF Serve, memory, Inv, TypeOK
<1>5. CASE RequestArrives \/ RequestEnds
  <2>1. active' \in 0 .. MaxActive
    BY <1>5, ProcessAssumption DEF RequestArrives, RequestEnds, Inv, TypeOK
  <2> QED BY <1>5, <2>1, CounterInv DEF RequestArrives, RequestEnds, main
<1>6. ASSUME NEW a \in Addr, RequestBlacklists(a) PROVE Inv'
  BY <1>6, RequestBlacklistsInv
<1>7. CASE Signal
  BY <1>7, SignalInv
<1>8. CASE Shutdown
  BY <1>8, WriteInv, SaveRenamedInv, SaveFailsInv, HTTPShutdownInv DEF Shutdown
<1>9. CASE Exit \/ Crash
  BY <1>9, GoneInv
<1>10. CASE UNCHANGED vars
  BY <1>10, CounterInv DEF vars, main, memory, Inv, TypeOK
<1> QED
  BY <1>1, <1>2, <1>3, <1>4, <1>5, <1>6, <1>7, <1>8, <1>9, <1>10 DEF Next

(* The types of the process, its files and its memory.                     *)
THEOREM ProcessTypeCorrect == Spec => []TypeOK
<1>1. Inv => TypeOK
  BY DEF Inv
<1> QED BY <1>1, InitInv, NextInv, PTL DEF Spec

(* blacklist.go:26: what an orderly shutdown saved is on the disk for ever *)
(* after, however often the process is started, stopped and killed, unless *)
(* a process that failed to read it (blacklist.go 118-122) saved its own.  *)
THEOREM BlacklistIsDurable == Spec => []PromisesKept
<1>1. Inv => PromisesKept
  BY DEF Inv
<1> QED BY <1>1, InitInv, NextInv, PTL DEF Spec

(* And a process that could read it lets no such IP into its pool, under   *)
(* any port, from the API or from the user (pool.go 40-56).                *)
THEOREM BannedNeverReturns == Spec => []BannedStaysOut
<1>1. Inv => BannedStaysOut
  BY DEF Inv
<1> QED BY <1>1, InitInv, NextInv, PTL DEF Spec

=============================================================================
