------------------------------- MODULE Process -------------------------------
(***************************************************************************)
(* The life of the program over crashes and restarts: main from its flags  *)
(* to its end, the blacklist and its file (proxy/blacklist.go), and the    *)
(* shutdown (Server.Shutdown).                                             *)
(*                                                                         *)
(* ChatServer has the steps of a request and PoolUpkeep those of the       *)
(* goroutines that keep the pool; here a request blames an address that    *)
(* came into the pool in this life, and the pool and the rotator hold no   *)
(* others.                                                                 *)
(***************************************************************************)
EXTENDS Upstreams, Integers

CONSTANTS
    Modes,             \* the values of --mode a start may have
    UserProxies,       \* the lines of --proxy and --proxy-file
    Fetches,           \* what the shadowmere API may answer
    MaxStarts,         \* bound on the starts of the process
    MaxActive,         \* bound on the requests in flight
    NoFile, Torn       \* a file that is missing, one that is half written

ASSUME ProcessAssumption ==
    /\ Modes \subseteq {"direct", "auto", "custom", "fallback", "fallback-proxy"}
    /\ UserProxies \subseteq [type : {"ss", "socks5", "http", "invalid"}, addr : Addr]
    /\ Fetches \subseteq SUBSET Addr
    /\ MaxStarts \in Nat /\ MaxActive \in Nat
    /\ \A S \in SUBSET IP : S # NoFile /\ S # Torn
    /\ NoFile # Torn
    /\ NoIP \notin IP
    /\ IPOf \in [Addr -> IP \cup {NoIP}]

VARIABLES
    file, tmp,     \* blacklist.json and blacklist.json.tmp: a set of IPs
    starts,        \* how often the process was started
    phase,         \* of main: down, load, ready or serve
    mode,
    entries,       \* BlacklistManager.entries
    used,          \* the servers that came into the pool in this life
    active,        \* requests in flight
    sig,           \* the goroutine that waits for a signal
    closing,       \* http.Server.inShutdown
    due,           \* history: what was blacklisted when the signal came
    promised,      \* history: what a shutdown without a disk error saved
    blind,         \* history: this start failed to read the blacklist
    wiped          \* history: a process that was blind saved its own

main == <<starts, phase, mode>>
memory == <<entries, used, active>>
shutdown == <<sig, closing, due>>
history == <<promised, blind, wiped>>
vars == <<file, tmp, main, memory, shutdown, history>>

Init ==
    /\ file = NoFile /\ tmp = NoFile
    /\ starts = 0 /\ phase = "down" /\ mode \in Modes
    /\ entries = {} /\ used = {} /\ active = 0
    /\ sig = "wait" /\ closing = FALSE /\ due = {}
    /\ promised = {} /\ blind = FALSE /\ wiped = FALSE

-----------------------------------------------------------------------------
(* The start.                                                              *)

OnDisk(f) == IF f \in {NoFile, Torn} THEN {} ELSE f

(* NewBlacklistManager with load: a file that is missing, that cannot be   *)
(* read or that does not parse leaves the blacklist empty, and the program *)
(* goes on.                                                                *)
Launch(m, readable) ==
    /\ phase = "down" /\ starts < MaxStarts
    /\ readable \/ file # NoFile
    /\ starts' = starts + 1
    /\ mode' = m
    /\ phase' = "load"
    /\ entries' = IF readable THEN OnDisk(file) ELSE {}
    /\ blind' = ~readable
    /\ UNCHANGED <<file, tmp, used, active, shutdown, promised, wiped>>

(* loadMixedProxies and addMixedProxy: a line that does not parse, or has  *)
(* no dialer, is skipped; Shadowsocks servers go into the pool too, all    *)
(* others only to the router.                                              *)
UserServers == {u.addr : u \in {v \in UserProxies : v.type = "ss"}}

Fetching == mode \in {"auto", "fallback", "fallback-proxy"}
GivenByUser == mode \in {"custom", "fallback-proxy"}

(* The servers of S that SSPool.Add takes.                                 *)
Added(S) == {a \in S : ~IsBlacklisted(entries, a)}

(* Mutant of Loaded: the pool has no filter yet.                           *)
LoadedUnfiltered(S) ==
    (IF Fetching THEN S ELSE {}) \cup (IF GivenByUser THEN UserServers ELSE {})

(* What the switch over the mode puts into the pool: fetchServers, whose   *)
(* error is an empty answer, and loadMixedProxies.                         *)
Loaded(S) ==
    Added((IF Fetching THEN S ELSE {}) \cup (IF GivenByUser THEN UserServers ELSE {}))

(* Up to the signal handler; the health check only takes servers away.     *)
Load(S) ==
    /\ phase = "load"
    /\ used' = Loaded(S)
    /\ phase' = "ready"
    /\ UNCHANGED <<file, tmp, starts, mode, entries, active, shutdown, history>>

(* ListenAndServe returns at once when the server was shut down already.   *)
Serve ==
    /\ phase = "ready" /\ ~closing
    /\ phase' = "serve"
    /\ UNCHANGED <<file, tmp, starts, mode, memory, shutdown, history>>

-----------------------------------------------------------------------------
(* While it serves.                                                        *)

(* The refresh, in the modes that have it.                                 *)
Refresh(S) ==
    /\ phase \in {"ready", "serve"} /\ Fetching
    /\ used' = used \cup Added(S)
    /\ UNCHANGED <<file, tmp, main, entries, active, shutdown, history>>

RequestArrives ==
    /\ phase = "serve" /\ ~closing /\ active < MaxActive
    /\ active' = active + 1
    /\ UNCHANGED <<file, tmp, main, entries, used, shutdown, history>>

RequestEnds ==
    /\ active > 0
    /\ active' = active - 1
    /\ UNCHANGED <<file, tmp, main, entries, used, shutdown, history>>

(* blacklistAddr.  BlacklistManager.Add waits for the lock Save holds.     *)
RequestBlacklists(a) ==
    /\ active > 0 /\ a \in used
    /\ sig \notin {"write", "rename"}
    /\ entries' = Blacklisting(entries, a)
    /\ UNCHANGED <<file, tmp, main, used, active, shutdown, history>>

-----------------------------------------------------------------------------
(* The shutdown.                                                           *)

(* SIGINT or SIGTERM; r.Stop() returns (Rotator).  A second signal is not  *)
(* read.                                                                   *)
Signal ==
    /\ phase \in {"ready", "serve"} /\ sig = "wait"
    /\ sig' = "save"
    /\ due' = entries
    /\ UNCHANGED <<file, tmp, main, memory, closing, history>>

(* Mutant of SaveBegin: the blacklist itself is written.                   *)
SaveBeginInPlace ==
    /\ sig = "save"
    /\ file' = Torn
    /\ sig' = "write"
    /\ UNCHANGED <<tmp, main, memory, closing, due, history>>

(* BlacklistManager.Save: os.WriteFile creates and fills the temporary     *)
(* file, os.Rename replaces the blacklist by it.                           *)
SaveBegin ==
    /\ sig = "save"
    /\ tmp' = Torn
    /\ sig' = "write"
    /\ UNCHANGED <<file, main, memory, closing, due, history>>

SaveWritten ==
    /\ sig = "write"
    /\ tmp' = entries
    /\ sig' = "rename"
    /\ UNCHANGED <<file, main, memory, closing, due, history>>

SaveRenamed ==
    /\ sig = "rename"
    /\ file' = tmp
    /\ tmp' = NoFile
    /\ sig' = "http"
    /\ wiped' = (wiped \/ blind)
    /\ UNCHANGED <<main, memory, closing, due, promised, blind>>

(* Each of its calls may fail; the error is logged and nothing is due.     *)
SaveFails ==
    /\ sig \in {"save", "write", "rename"}
    /\ sig' = "http"
    /\ due' = {}
    /\ UNCHANGED <<file, tmp, main, memory, closing, history>>

(* Mutant of HTTPShutdown: the http.Server is only made when it starts.    *)
HTTPShutdownNone ==
    /\ sig = "http"
    /\ closing' = (phase = "serve")
    /\ sig' = "drain"
    /\ UNCHANGED <<file, tmp, main, memory, due, history>>

(* httpServer.Shutdown(nil) closes the listener.                           *)
HTTPShutdown ==
    /\ sig = "http"
    /\ closing' = TRUE
    /\ sig' = "drain"
    /\ UNCHANGED <<file, tmp, main, memory, due, history>>

(* The process is gone, with all it had in memory.                         *)
Gone ==
    /\ phase' = "down"
    /\ entries' = {} /\ used' = {} /\ active' = 0
    /\ sig' = "wait" /\ closing' = FALSE /\ due' = {}
    /\ blind' = FALSE
    /\ UNCHANGED <<file, tmp, starts, mode, wiped>>

(* ListenAndServe returns as soon as the listener is closed, and main does *)
(* not wait for Shutdown: requests in flight are cut off.  (Or Shutdown    *)
(* finds a busy connection first, and panics on the nil context.)          *)
Exit ==
    /\ closing
    /\ promised' = promised \cup due
    /\ Gone

(* A crash of the program, kill -9, a signal before the handler is         *)
(* installed, a port that cannot be listened on (log.Fatalf).  The machine *)
(* stays up: Save does not sync, so a loss of power could undo a rename.   *)
Crash ==
    /\ phase # "down"
    /\ Gone
    /\ UNCHANGED promised

-----------------------------------------------------------------------------
Shutdown == SaveBegin \/ SaveWritten \/ SaveRenamed \/ SaveFails \/ HTTPShutdown

Next ==
    \/ \E m \in Modes, readable \in BOOLEAN : Launch(m, readable)
    \/ \E S \in Fetches \cup {{}} : Load(S)
    \/ Serve
    \/ \E S \in Fetches : Refresh(S)
    \/ RequestArrives \/ RequestEnds
    \/ \E a \in Addr : RequestBlacklists(a)
    \/ Signal \/ Shutdown \/ Exit \/ Crash

Spec == Init /\ [][Next]_vars

(***************************************************************************)
(* The goroutine that handles the signal runs, and so does main after      *)
(* ListenAndServe returned.  Nothing is assumed of the start (its fetch    *)
(* has no timeout), of requests, crashes or the disk.                      *)
(***************************************************************************)
FairSpec == Spec /\ WF_vars(Shutdown) /\ WF_vars(Exit)

-----------------------------------------------------------------------------
TypeOK ==
    /\ {file, tmp} \subseteq (SUBSET IP) \cup {NoFile, Torn}
    /\ starts \in 0 .. MaxStarts
    /\ phase \in {"down", "load", "ready", "serve"} /\ mode \in Modes
    /\ entries \subseteq IP /\ used \subseteq Addr /\ active \in 0 .. MaxActive
    /\ sig \in {"wait", "save", "write", "rename", "http", "drain"}
    /\ closing \in BOOLEAN /\ blind \in BOOLEAN /\ wiped \in BOOLEAN
    /\ due \subseteq IP /\ promised \subseteq IP

(* blacklist.go:26 "Blacklist is permanent": what was blacklisted before a *)
(* shutdown that met no disk error stays in the file, whatever crashes and *)
(* restarts follow and wherever they interrupt a Save.  One thing undoes   *)
(* it: a process that could not read the file and then saved its own.      *)
PromisesKept == ~wiped => promised \subseteq OnDisk(file)

(* And no later process that could read the file gets an address with such *)
(* an IP into its pool, whatever the port and wherever it comes from.      *)
BannedStaysOut == ~wiped /\ ~blind => \A a \in used : IPOf[a] \notin promised

(* server.go:108 "Initialize httpServer here so the field is set before    *)
(* any goroutine reads it": a signal ends the process, also one that       *)
(* arrives before the server listens.                                      *)
ShutdownEnds == sig # "wait" ~> phase = "down"

=============================================================================
