------------------------------- MODULE Stream -------------------------------
(***************************************************************************)
(* One event stream on its way to the client: the first lines are held     *)
(* back for the compliance check (server.go 564-577), written once they    *)
(* are found clean (874-898), and the rest is relayed line by line         *)
(* (streamSSEFromScanner).  The stream that answers a retry of the JSON    *)
(* loop is relayed from its first line on (streamSSE).                     *)
(*                                                                         *)
(* A line is its position in the upstream's stream; whether it carries     *)
(* content (not reasoning_content, not empty, not null) is all that        *)
(* matters of it.  The stream is one isValidSSEBuffer accepts.             *)
(***************************************************************************)
EXTENDS Integers, Sequences

CONSTANTS
    CheckLines,        \* complianceCheckLines
    ThinkingTimeout,
    MaxLines, MaxTime  \* bounds on the stream and on the clock

ASSUME StreamAssumption ==
    /\ CheckLines \in Nat \ {0} /\ ThinkingTimeout \in Nat
    /\ MaxLines \in Nat /\ MaxTime \in Nat

VARIABLES
    pc,            \* buffer, relay or ended
    checked,       \* are the first lines held back?
    eof,           \* Scan has returned false: at the end or on a read error
    read,          \* for each line that was scanned: does it have content?
    buf,           \* the lines held back
    out,           \* what the client received: lines, and Done for [DONE]
    here,          \* is the client still connected?
    hasContent,
    elapsed        \* since thinkingStart

vars == <<pc, checked, eof, read, buf, out, here, hasContent, elapsed>>

Done == 0

Init ==
    /\ checked \in BOOLEAN
    /\ pc = IF checked THEN "buffer" ELSE "relay"
    /\ eof = FALSE
    /\ read = << >> /\ buf = << >> /\ out = << >>
    /\ here = TRUE
    /\ hasContent = FALSE
    /\ elapsed = 0

-----------------------------------------------------------------------------
(* The next line the scanner yields.                                       *)
Scan(content) ==
    /\ ~eof
    /\ Len(read) < MaxLines
    /\ read' = Append(read, content)

(* ResponseWriter.Write: what a client that went away is sent is lost.     *)
Written(sofar, lines) == IF here THEN sofar \o lines ELSE sofar

BufferLine(content) ==
    /\ pc = "buffer"
    /\ Len(buf) < CheckLines
    /\ Scan(content)
    /\ buf' = Append(buf, Len(read) + 1)
    /\ UNCHANGED <<pc, checked, eof, out, here, hasContent, elapsed>>

(* Mutant of Resume: only the scanner is handed on.                        *)
ResumeWithoutBuffer ==
    /\ pc' = "relay"
    /\ elapsed' = 0
    /\ UNCHANGED <<checked, buf, out, here, hasContent>>

(* The check is over and found nothing: the lines held back are written    *)
(* and streamSSEFromScanner starts its clock.                              *)
Resume ==
    /\ pc' = "relay"
    /\ out' = Written(out, buf)
    /\ elapsed' = 0
    /\ UNCHANGED <<checked, buf, here, hasContent>>

(* The loop's condition calls Scan before it counts: when CheckLines lines *)
(* are held back, one more has been scanned.                               *)
BufferFull(content) ==
    /\ pc = "buffer"
    /\ Len(buf) = CheckLines
    /\ Scan(content)
    /\ Resume
    /\ UNCHANGED eof

BufferEOF ==
    /\ pc = "buffer"
    /\ buf # << >>
    /\ eof' = TRUE
    /\ Resume
    /\ UNCHANGED read

-----------------------------------------------------------------------------
(* Mutant of ThinkingTooLong: the stream is given up in silence.           *)
ThinkingTooLongSilent(line) ==
    /\ elapsed > ThinkingTimeout
    /\ out' = Written(out, <<line>>)
    /\ pc' = "ended"

(* The thinking timeout: no content line so far.                           *)
ThinkingTooLong(line) ==
    /\ elapsed > ThinkingTimeout
    /\ out' = Written(Written(out, <<line>>), <<Done>>)
    /\ pc' = "ended"

(* Mutant of RelayLine: content is only looked for in the last line.       *)
RelayLineForgetful(content) ==
    /\ pc = "relay"
    /\ Scan(content)
    /\ hasContent' = content
    /\ \/ ~hasContent' /\ ThinkingTooLong(Len(read) + 1)
       \/ /\ hasContent' \/ elapsed <= ThinkingTimeout
          /\ out' = Written(out, <<Len(read) + 1>>)
          /\ UNCHANGED pc
    /\ UNCHANGED <<checked, eof, buf, here, elapsed>>

(* A line is written, and then the thinking timeout is looked at.          *)
RelayLine(content) ==
    /\ pc = "relay"
    /\ Scan(content)
    /\ hasContent' = (hasContent \/ content)
    /\ \/ ~hasContent' /\ ThinkingTooLong(Len(read) + 1)
       \/ /\ hasContent' \/ elapsed <= ThinkingTimeout
          /\ out' = Written(out, <<Len(read) + 1>>)
          /\ UNCHANGED pc
    /\ UNCHANGED <<checked, eof, buf, here, elapsed>>

(* A write to a client that went away may fail: there is no [DONE].        *)
WriteError(content) ==
    /\ pc = "relay"
    /\ ~here
    /\ Scan(content)
    /\ hasContent' = (hasContent \/ content)
    /\ pc' = "ended"
    /\ UNCHANGED <<checked, eof, buf, out, here, elapsed>>

(* The end of the stream, or a read error.                                 *)
StreamEOF ==
    /\ pc = "relay"
    /\ eof' = TRUE
    /\ out' = Written(out, <<Done>>)
    /\ pc' = "ended"
    /\ UNCHANGED <<checked, read, buf, here, hasContent, elapsed>>

-----------------------------------------------------------------------------
ClientLeaves ==
    /\ here
    /\ here' = FALSE
    /\ UNCHANGED <<pc, checked, eof, read, buf, out, hasContent, elapsed>>

Tick ==
    /\ pc # "ended" /\ elapsed < MaxTime
    /\ elapsed' = elapsed + 1
    /\ UNCHANGED <<pc, checked, eof, read, buf, out, here, hasContent>>

Next ==
    \/ \E content \in BOOLEAN :
          \/ BufferLine(content) \/ BufferFull(content)
          \/ RelayLine(content) \/ WriteError(content)
    \/ BufferEOF \/ StreamEOF
    \/ ClientLeaves \/ Tick

Spec == Init /\ [][Next]_vars

-----------------------------------------------------------------------------
TypeOK ==
    /\ pc \in {"buffer", "relay", "ended"}
    /\ checked \in BOOLEAN /\ eof \in BOOLEAN /\ here \in BOOLEAN
    /\ hasContent \in BOOLEAN
    /\ read \in Seq(BOOLEAN)
    /\ buf \in Seq(Nat) /\ out \in Seq(Nat)
    /\ elapsed \in Nat

Received(line) == \E i \in DOMAIN out : out[i] = line

(* A client that stays gets the upstream's lines in their order, none of   *)
(* them twice, and all of them but one at most: the line after the ones    *)
(* that were held back for the compliance check.                           *)
RelayedInOrder ==
    /\ \A i, j \in DOMAIN out : i < j => out[i] < out[j] \/ out[j] = Done
    /\ here /\ pc # "buffer" =>
          \A n \in DOMAIN read : Received(n) \/ (checked /\ n = CheckLines + 1)

(* stream.go:87 "ALWAYS sends [DONE] on ANY stream end (EOF, error,        *)
(* timeout) so the client never hangs": a client that stays gets one       *)
(* [DONE] of the proxy's, it is the last thing it gets, and it is not sent *)
(* before the stream ends.                                                 *)
DoneEndsTheStream ==
    /\ \A i \in DOMAIN out : out[i] = Done => i = Len(out) /\ pc = "ended"
    /\ pc = "ended" /\ here => Received(Done)

(* stream.go:86 "If no content appears within thinkingTimeout, the stream  *)
(* is aborted with [DONE]": a stream that is not at its end is ended only  *)
(* when no line that was relayed had content, and never within the         *)
(* timeout.  The lines that were held back are not looked at.              *)
AbortOnlyWhileThinking ==
    pc = "ended" /\ here /\ ~eof =>
        /\ elapsed > ThinkingTimeout
        /\ ~ \E n \in DOMAIN read : (checked => n > CheckLines + 1) /\ read[n]

=============================================================================
