----------------------------- MODULE StreamTimed -----------------------------
(***************************************************************************)
(* The stream of Stream on a connection with a read deadline (deadlineConn *)
(* in server.go): every Read sets it anew, so a read fails once nothing    *)
(* has come for IdleReadTimeout.  The thinking timeout is only looked at   *)
(* after a line, and this deadline is what ends the wait for one.          *)
(***************************************************************************)
EXTENDS Stream

CONSTANT IdleReadTimeout       \* StreamIdleReadTimeout

ASSUME IdleAssumption == IdleReadTimeout \in Nat

VARIABLES
    idle,          \* since the Read in progress began
    dripping       \* bytes have come since the last line, but no line

timedVars == <<vars, idle, dripping>>

TimedInit == Init /\ idle = 0 /\ dripping = FALSE

(* A line is complete; the next Read gets a new deadline.                  *)
LineArrives ==
    /\ \E content \in BOOLEAN :
          \/ BufferLine(content) \/ BufferFull(content)
          \/ RelayLine(content) \/ WriteError(content)
    /\ idle' = 0
    /\ dripping' = FALSE

(* Read returns a part of a line: Scan reads on.                           *)
PartOfALine ==
    /\ pc # "ended" /\ ~eof
    /\ idle' = 0
    /\ dripping' = TRUE
    /\ UNCHANGED vars

(* Mutant of TimePasses: the connection has no deadline.                   *)
TimePassesForEver ==
    /\ Tick
    /\ idle' = idle + 1
    /\ UNCHANGED dripping

(* Once the deadline has come the Read does not wait any longer: the       *)
(* stream is at its end.                                                   *)
TimePasses ==
    /\ idle < IdleReadTimeout
    /\ Tick
    /\ idle' = idle + 1
    /\ UNCHANGED dripping

TimedNext ==
    \/ LineArrives \/ PartOfALine \/ TimePasses
    \/ /\ BufferEOF \/ StreamEOF \/ ClientLeaves
       /\ UNCHANGED <<idle, dripping>>

TimedSpec == TimedInit /\ [][TimedNext]_timedVars

-----------------------------------------------------------------------------
TimedTypeOK == TypeOK /\ idle \in Nat /\ dripping \in BOOLEAN

(* server.go:1144 "This prevents goroutine hangs when upstream goes silent *)
(* without closing the connection": a relay that has no content, and whose *)
(* upstream is not in the middle of a line, is over after the two timeouts *)
(* together; the thinking timeout alone does not end it.                   *)
SilenceIsBounded ==
    pc = "relay" /\ ~hasContent /\ ~dripping => elapsed <= ThinkingTimeout + IdleReadTimeout

=============================================================================
