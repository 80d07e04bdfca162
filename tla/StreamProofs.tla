---------------------------- MODULE StreamProofs ----------------------------
(***************************************************************************)
(* What a client gets of a stream, for every number of lines that are held *)
(* back, every stream and every timing.                                    *)
(***************************************************************************)
EXTENDS StreamTimed, TLAPS

(* While lines are held back they are exactly the lines that were scanned. *)
HeldBack ==
    pc = "buffer" =>
        /\ checked /\ out = << >>
        /\ Len(buf) = Len(read) /\ Len(buf) <= CheckLines
        /\ \A i \in 1 .. Len(buf) : buf[i] = i

(* Nothing is written that was not scanned.                                *)
OnlyScanned == \A i \in DOMAIN out : out[i] <= Len(read)

Inv == TypeOK /\ HeldBack /\ OnlyScanned /\ RelayedInOrder /\ DoneEndsTheStream

LEMMA InitInv == Init => Inv
<1> SUFFICES ASSUME Init PROVE Inv
  OBVIOUS
<1>1. TypeOK
  <2>1. pc \in {"buffer", "relay", "ended"}
    BY DEF Init
  <2>2. << >> \in Seq(BOOLEAN) /\ << >> \in Seq(Nat)
    OBVIOUS
  <2>3. /\ checked \in BOOLEAN /\ eof \in BOOLEAN /\ here \in BOOLEAN
        /\ hasContent \in BOOLEAN
    BY Zenon DEF Init
  <2> QED BY <2>1, <2>2, <2>3 DEF Init, TypeOK
<1>2. HeldBack /\ OnlyScanned
  BY StreamAssumption DEF Init, HeldBack, OnlyScanned
<1>3. RelayedInOrder /\ DoneEndsTheStream
  BY DEF Init, RelayedInOrder, DoneEndsTheStream
<1> QED BY <1>1, <1>2, <1>3 DEF Inv

(* The effect of a scan.                                                   *)
LEMMA ScanIs ==
    ASSUME TypeOK, NEW content \in BOOLEAN, Scan(content)
    PROVE  /\ read' \in Seq(BOOLEAN) /\ Len(read) \in Nat
           /\ Len(read') = Len(read) + 1 /\ DOMAIN read' = 1 .. (Len(read) + 1)
           /\ DOMAIN read = 1 .. Len(read)
<1>1. read \in Seq(BOOLEAN) /\ read' = Append(read, content)
  BY DEF TypeOK, Scan
<1> QED BY <1>1

LEMMA BufferLineInv ==
    ASSUME Inv, NEW content \in BOOLEAN, BufferLine(content)
    PROVE  Inv'
<1>1. /\ pc = "buffer" /\ Len(buf) < CheckLines /\ Scan(content)
      /\ buf' = Append(buf, Len(read) + 1)
      /\ pc' = pc /\ checked' = checked /\ eof' = eof /\ out' = out /\ here' = here
      /\ hasContent' = hasContent /\ elapsed' = elapsed
  BY DEF BufferLine
<1>2. /\ read' \in Seq(BOOLEAN) /\ Len(read) \in Nat /\ Len(read') = Len(read) + 1
  BY <1>1, ScanIs DEF Inv
<1>3. /\ checked /\ out = << >> /\ buf \in Seq(Nat) /\ Len(buf) = Len(read)
      /\ \A i \in 1 .. Len(buf) : buf[i] = i
  BY <1>1 DEF Inv, HeldBack, TypeOK
<1>4. /\ buf' \in Seq(Nat) /\ Len(buf') = Len(buf) + 1
      /\ \A i \in 1 .. Len(buf') : buf'[i] = i
  BY <1>1, <1>2, <1>3
<1>5. TypeOK'
  BY <1>1, <1>2, <1>4 DEF Inv, TypeOK
<1>6. HeldBack'
  BY <1>1, <1>2, <1>3, <1>4, StreamAssumption DEF HeldBack
<1>7. OnlyScanned' /\ RelayedInOrder' /\ DoneEndsTheStream'
  BY <1>1, <1>3 DEF OnlyScanned, RelayedInOrder, DoneEndsTheStream
<1> QED BY <1>5, <1>6, <1>7 DEF Inv

(* The lines held back are written, after the last scan that the loop made. *)
LEMMA ResumeInv ==
    ASSUME Inv, pc = "buffer", Resume, eof' \in BOOLEAN,
           \/ read' = read
           \/ Len(buf) = CheckLines /\ \E content \in BOOLEAN : Scan(content)
    PROVE  Inv'
<1>1. /\ checked /\ out = << >> /\ buf \in Seq(Nat) /\ Len(buf) = Len(read)
      /\ read \in Seq(BOOLEAN) /\ Len(read) \in Nat
      /\ \A i \in 1 .. Len(buf) : buf[i] = i
  BY DEF Inv, HeldBack, TypeOK
<1>2. /\ pc' = "relay" /\ elapsed' = 0 /\ checked' = checked /\ buf' = buf
      /\ here' = here /\ hasContent' = hasContent
      /\ out' = IF here THEN out \o buf ELSE out
  BY DEF Resume, Written
<1>3. /\ out' \in Seq(Nat)
      /\ here => Len(out') = Len(buf) /\ \A i \in 1 .. Len(buf) : out'[i] = i
      /\ ~here => out' = << >>
  <2>1. << >> \o buf = buf /\ << >> \in Seq(Nat)
    BY <1>1
  <2>2. CASE here
    BY <1>1, <1>2, <2>1, <2>2
  <2>3. CASE ~here
    BY <1>1, <1>2, <2>1, <2>3
  <2> QED BY <2>2, <2>3
<1>4. /\ read' \in Seq(BOOLEAN)
      /\ \/ read' = read
         \/ Len(read) = CheckLines /\ Len(read') = Len(read) + 1
  BY <1>1, ScanIs DEF Inv
<1>5. /\ Len(read') \in Nat /\ DOMAIN read' = 1 .. Len(read') /\ Len(read) <= Len(read')
      /\ \A n \in DOMAIN read' : n \in 1 .. Len(buf) \/ n = CheckLines + 1
  BY <1>1, <1>4, StreamAssumption
<1>6. DOMAIN out' = 1 .. Len(out') /\ Len(out') \in Nat
  BY <1>3
<1>7. TypeOK'
  BY <1>2, <1>3, <1>4 DEF Inv, TypeOK
<1>8. HeldBack'
  BY <1>2 DEF HeldBack
<1>9. \A i \in DOMAIN out' : here /\ i \in 1 .. Len(buf) /\ out'[i] = i /\ i # Done
  BY <1>1, <1>3, <1>6 DEF Done
<1>10. OnlyScanned'
  BY <1>1, <1>5, <1>9 DEF OnlyScanned
<1>11. RelayedInOrder'
  <2>1. \A i, j \in DOMAIN out' : i < j => out'[i] < out'[j]
    BY <1>9
  <2>2. ASSUME here, NEW n \in 1 .. Len(buf) PROVE Received(n)'
    BY <1>3, <1>6, <2>2 DEF Received
  <2> QED BY <1>1, <1>2, <1>5, <2>1, <2>2 DEF RelayedInOrder
<1>12. DoneEndsTheStream'
  BY <1>2, <1>9 DEF DoneEndsTheStream
<1> QED BY <1>7, <1>8, <1>10, <1>11, <1>12 DEF Inv

-----------------------------------------------------------------------------
(* Writing to a client that has got no [DONE] yet.                         *)
LEMMA WriteIs ==
    ASSUME NEW s \in Seq(Nat), NEW n \in Nat
    PROVE  /\ s \o <<n>> \in Seq(Nat) /\ Len(s \o <<n>>) = Len(s) + 1
           /\ (s \o <<n>>)[Len(s) + 1] = n
           /\ \A i \in 1 .. Len(s) : (s \o <<n>>)[i] = s[i]
OBVIOUS

(* One more line for a client that has got every line it should have.      *)
LEMMA LineIs ==
    ASSUME Inv, pc = "relay", NEW content \in BOOLEAN, Scan(content),
           NEW o \in Seq(Nat), o = IF here THEN out \o <<Len(read) + 1>> ELSE out
    PROVE  /\ \A i \in 1 .. Len(o) : o[i] <= Len(read) + 1 /\ o[i] # Done
           /\ \A i, j \in 1 .. Len(o) : i < j => o[i] < o[j]
           /\ here => \A n \in 1 .. (Len(read) + 1) :
                          (\E i \in 1 .. Len(o) : o[i] = n) \/ (checked /\ n = CheckLines + 1)
<1>1. /\ out \in Seq(Nat) /\ Len(out) \in Nat /\ DOMAIN out = 1 .. Len(out)
      /\ Len(read) \in Nat /\ DOMAIN read = 1 .. Len(read)
      /\ \A i \in 1 .. Len(out) : out[i] \in Nat
  BY DEF Inv, TypeOK
<1>2. \A i \in 1 .. Len(out) : out[i] <= Len(read) /\ out[i] # Done
  BY <1>1 DEF Inv, OnlyScanned, DoneEndsTheStream
<1>3. \A i, j \in 1 .. Len(out) : i < j => out[i] < out[j]
  BY <1>1, <1>2 DEF Inv, RelayedInOrder
<1>4. here => \A n \in 1 .. Len(read) :
                 (\E i \in 1 .. Len(out) : out[i] = n) \/ (checked /\ n = CheckLines + 1)
  BY <1>1 DEF Inv, RelayedInOrder, Received
<1>5. CASE ~here
  BY <1>1, <1>2, <1>3, <1>5
<1>6. CASE here
  <2>1. /\ Len(o) = Len(out) + 1 /\ o[Len(out) + 1] = Len(read) + 1
        /\ \A i \in 1 .. Len(out) : o[i] = out[i]
    BY <1>1, <1>6, WriteIs
  <2>2. \A i \in 1 .. Len(o) : o[i] <= Len(read) + 1 /\ o[i] # Done
    BY <1>1, <1>2, <2>1 DEF Done
  <2>3. \A i, j \in 1 .. Len(o) : i < j => o[i] < o[j]
    BY <1>1, <1>2, <1>3, <2>1
  <2>4. ASSUME NEW n \in 1 .. (Len(read) + 1)
        PROVE  (\E i \in 1 .. Len(o) : o[i] = n) \/ (checked /\ n = CheckLines + 1)
    <3>1. CASE n = Len(read) + 1
      <4>1. Len(out) + 1 \in 1 .. Len(o)
        BY <1>1, <2>1
      <4> QED BY <2>1, <3>1, <4>1
    <3>2. CASE n # Len(read) + 1
      <4>1. n \in 1 .. Len(read)
        BY <1>1, <3>2
      <4>2. ASSUME NEW i \in 1 .. Len(out), out[i] = n
            PROVE  \E k \in 1 .. Len(o) : o[k] = n
        <5>1. i \in 1 .. Len(o) /\ o[i] = n
          BY <1>1, <2>1, <4>2
        <5> QED BY <5>1
      <4> QED BY <1>4, <1>6, <4>1, <4>2
    <3> QED BY <3>1, <3>2
  <2> QED BY <2>2, <2>3, <2>4
<1> QED BY <1>5, <1>6

(* A line is relayed and the stream goes on.                               *)
LEMMA RelayInv ==
    ASSUME Inv, NEW content \in BOOLEAN, pc = "relay", Scan(content),
           hasContent' = (hasContent \/ content),
           out' = Written(out, <<Len(read) + 1>>),
           UNCHANGED <<pc, checked, eof, buf, here, elapsed>>
    PROVE  Inv'
<1>1. out' = (IF here THEN out \o <<Len(read) + 1>> ELSE out) /\ out' \in Seq(Nat)
  <2>1. out \in Seq(Nat) /\ Len(read) + 1 \in Nat
    BY DEF Inv, TypeOK
  <2> QED BY <2>1, WriteIs DEF Written
<1>2. /\ read' \in Seq(BOOLEAN) /\ Len(read) \in Nat
      /\ Len(read') = Len(read) + 1 /\ DOMAIN read' = 1 .. (Len(read) + 1)
  BY ScanIs DEF Inv
<1>3. /\ \A i \in 1 .. Len(out') : out'[i] <= Len(read) + 1 /\ out'[i] # Done
      /\ \A i, j \in 1 .. Len(out') : i < j => out'[i] < out'[j]
      /\ here => \A n \in 1 .. (Len(read) + 1) :
                     (\E i \in 1 .. Len(out') : out'[i] = n) \/ (checked /\ n = CheckLines + 1)
  BY <1>1, LineIs
<1>4. DOMAIN out' = 1 .. Len(out')
  BY <1>1
<1>5. TypeOK'
  <2>1. hasContent' \in BOOLEAN
    BY Zenon DEF Inv, TypeOK
  <2> QED BY <1>1, <1>2, <2>1 DEF Inv, TypeOK
<1>6. HeldBack' /\ OnlyScanned'
  BY <1>2, <1>3, <1>4 DEF HeldBack, OnlyScanned
<1>7. RelayedInOrder'
  BY <1>2, <1>3, <1>4 DEF RelayedInOrder, Received
<1>8. DoneEndsTheStream'
  BY <1>3, <1>4 DEF DoneEndsTheStream
<1> QED BY <1>5, <1>6, <1>7, <1>8 DEF Inv

(* [DONE] after a good sequence of lines.                                  *)
LEMMA DoneIs ==
    ASSUME NEW o \in Seq(Nat), NEW e, e = o \o <<Done>>,
           NEW k \in Nat, \A i \in 1 .. Len(o) : o[i] <= k /\ o[i] # Done,
           \A i, j \in 1 .. Len(o) : i < j => o[i] < o[j]
    PROVE  /\ e \in Seq(Nat) /\ Len(e) = Len(o) + 1 /\ DOMAIN e = 1 .. Len(e)
           /\ \A i \in 1 .. Len(o) : e[i] = o[i]
           /\ \A i \in DOMAIN e : e[i] <= k /\ (e[i] = Done => i = Len(e))
           /\ \A i, j \in DOMAIN e : i < j => e[i] < e[j] \/ e[j] = Done
           /\ e[Len(e)] = Done /\ Len(e) \in DOMAIN e
<1>1. Done \in Nat /\ Len(o) \in Nat /\ \A i \in 1 .. Len(o) : o[i] \in Nat
  BY DEF Done
<1>2. /\ e \in Seq(Nat) /\ Len(e) = Len(o) + 1 /\ DOMAIN e = 1 .. Len(e)
      /\ \A i \in 1 .. Len(o) : e[i] = o[i]
      /\ e[Len(o) + 1] = Done
  BY <1>1, WriteIs
<1>3. \A i \in DOMAIN e : i = Len(e) \/ i \in 1 .. Len(o)
  BY <1>1, <1>2
<1>4. \A i \in DOMAIN e : e[i] <= k /\ (e[i] = Done => i = Len(e))
  BY <1>1, <1>2, <1>3 DEF Done
<1>5. \A i, j \in DOMAIN e : i < j => e[i] < e[j] \/ e[j] = Done
  BY <1>1, <1>2, <1>3
<1>6. e[Len(e)] = Done /\ Len(e) \in DOMAIN e
  BY <1>1, <1>2
<1> QED BY <1>2, <1>4, <1>5, <1>6

(* The stream ends with [DONE], after the lines o of which k were scanned. *)
LEMMA EndInv ==
    ASSUME Inv, TypeOK', pc' = "ended", checked' = checked, here' = here,
           NEW o \in Seq(Nat), out' = IF here THEN o \o <<Done>> ELSE o,
           \A i \in 1 .. Len(o) : o[i] <= Len(read') /\ o[i] # Done,
           \A i, j \in 1 .. Len(o) : i < j => o[i] < o[j],
           here => \A n \in 1 .. Len(read') :
                      (\E i \in 1 .. Len(o) : o[i] = n) \/ (checked /\ n = CheckLines + 1)
    PROVE  Inv'
<1>1. Len(read') \in Nat /\ DOMAIN read' = 1 .. Len(read') /\ DOMAIN o = 1 .. Len(o)
  BY DEF TypeOK
<1>2. HeldBack'
  BY DEF HeldBack
<1>3. CASE ~here
  BY <1>1, <1>2, <1>3 DEF Inv, OnlyScanned, RelayedInOrder, DoneEndsTheStream
<1>4. CASE here
  <2>1. /\ Len(out') = Len(o) + 1 /\ DOMAIN out' = 1 .. Len(out')
        /\ \A i \in 1 .. Len(o) : out'[i] = o[i]
        /\ \A i \in DOMAIN out' : out'[i] <= Len(read') /\ (out'[i] = Done => i = Len(out'))
        /\ \A i, j \in DOMAIN out' : i < j => out'[i] < out'[j] \/ out'[j] = Done
        /\ out'[Len(out')] = Done /\ Len(out') \in DOMAIN out'
    BY <1>1, <1>4, DoneIs
  <2>2. OnlyScanned'
    BY <2>1 DEF OnlyScanned
  <2>3. ASSUME NEW n, NEW i \in 1 .. Len(o), o[i] = n PROVE Received(n)'
    <3>1. i \in DOMAIN out' /\ out'[i] = n
      BY <2>1, <2>3
    <3> QED BY <3>1 DEF Received
  <2>4. RelayedInOrder'
    BY <1>1, <1>4, <2>1, <2>3 DEF RelayedInOrder
  <2>5. DoneEndsTheStream'
    BY <2>1 DEF DoneEndsTheStream, Received
  <2> QED BY <1>2, <2>2, <2>4, <2>5 DEF Inv
<1> QED BY <1>3, <1>4

LEMMA TimeoutInv ==
    ASSUME Inv, NEW content \in BOOLEAN, pc = "relay", Scan(content),
           hasContent' = (hasContent \/ content), ThinkingTooLong(Len(read) + 1),
           UNCHANGED <<checked, eof, buf, here, elapsed>>
    PROVE  Inv'
<1> DEFINE o == IF here THEN out \o <<Len(read) + 1>> ELSE out
<1>1. o \in Seq(Nat) /\ out' = IF here THEN o \o <<Done>> ELSE o
  <2>1. out \in Seq(Nat) /\ Len(read) + 1 \in Nat
    BY DEF Inv, TypeOK
  <2> QED BY <2>1, WriteIs DEF ThinkingTooLong, Written
<1>2. /\ read' \in Seq(BOOLEAN) /\ Len(read') = Len(read) + 1
  BY ScanIs DEF Inv
<1>3. /\ \A i \in 1 .. Len(o) : o[i] <= Len(read) + 1 /\ o[i] # Done
      /\ \A i, j \in 1 .. Len(o) : i < j => o[i] < o[j]
      /\ here => \A n \in 1 .. (Len(read) + 1) :
                     (\E i \in 1 .. Len(o) : o[i] = n) \/ (checked /\ n = CheckLines + 1)
  BY <1>1, LineIs
<1> HIDE DEF o
<1>4. TypeOK'
  <2>1. hasContent' \in BOOLEAN
    BY Zenon DEF Inv, TypeOK
  <2>2. out' \in Seq(Nat) /\ pc' = "ended"
    BY <1>1, WriteIs DEF ThinkingTooLong, Done
  <2> QED BY <1>2, <2>1, <2>2 DEF Inv, TypeOK
<1>5. pc' = "ended"
  BY DEF ThinkingTooLong
<1> QED BY <1>1, <1>2, <1>3, <1>4, <1>5, EndInv

LEMMA StreamEOFInv == ASSUME Inv, StreamEOF PROVE Inv'
<1>1. /\ out' = (IF here THEN out \o <<Done>> ELSE out) /\ out \in Seq(Nat)
      /\ pc = "relay" /\ pc' = "ended" /\ read' = read /\ checked' = checked
      /\ here' = here /\ eof' = TRUE /\ buf' = buf /\ hasContent' = hasContent
      /\ elapsed' = elapsed
  BY DEF StreamEOF, Written, Inv, TypeOK
<1>2. /\ Len(out) \in Nat /\ DOMAIN out = 1 .. Len(out) /\ DOMAIN read = 1 .. Len(read)
      /\ \A i \in 1 .. Len(out) : out[i] \in Nat
  BY DEF Inv, TypeOK
<1>3. /\ \A i \in 1 .. Len(out) : out[i] <= Len(read) /\ out[i] # Done
      /\ here => \A n \in 1 .. Len(read) :
                     (\E i \in 1 .. Len(out) : out[i] = n) \/ (checked /\ n = CheckLines + 1)
  BY <1>1, <1>2 DEF Inv, OnlyScanned, DoneEndsTheStream, RelayedInOrder, Received
<1>4. \A i, j \in 1 .. Len(out) : i < j => out[i] < out[j]
  BY <1>2, <1>3 DEF Inv, RelayedInOrder
<1>5. TypeOK'
  <2>1. out' \in Seq(Nat)
    BY <1>1, WriteIs DEF Done
  <2> QED BY <1>1, <2>1 DEF Inv, TypeOK
<1> QED BY <1>1, <1>3, <1>4, <1>5, EndInv

LEMMA WriteErrorInv ==
    ASSUME Inv, NEW content \in BOOLEAN, WriteError(content)
    PROVE  Inv'
<1>1. /\ pc = "relay" /\ pc' = "ended" /\ ~here /\ here' = here /\ out' = out
      /\ checked' = checked /\ eof' = eof /\ buf' = buf /\ elapsed' = elapsed
      /\ Scan(content) /\ hasContent' = (hasContent \/ content)
  BY DEF WriteError
<1>2. read' \in Seq(BOOLEAN) /\ Len(read) \in Nat /\ Len(read') = Len(read) + 1
  BY <1>1, ScanIs DEF Inv
<1>3. TypeOK'
  <2>1. hasContent' \in BOOLEAN
    BY <1>1, Zenon DEF Inv, TypeOK
  <2> QED BY <1>1, <1>2, <2>1 DEF Inv, TypeOK
<1>4. OnlyScanned'
  <2>1. ASSUME NEW i \in DOMAIN out PROVE out[i] <= Len(read) + 1
    <3>1. out[i] \in Nat /\ out[i] <= Len(read)
      BY DEF Inv, OnlyScanned, TypeOK
    <3> QED BY <1>2, <3>1
  <2> QED BY <1>1, <1>2, <2>1 DEF OnlyScanned
<1> QED
  BY <1>1, <1>3, <1>4 DEF Inv, HeldBack, RelayedInOrder, DoneEndsTheStream

LEMMA NextInv == Inv /\ [Next]_vars => Inv'
<1> SUFFICES ASSUME Inv, [Next]_vars PROVE Inv'
  OBVIOUS
<1>1. ASSUME NEW content \in BOOLEAN, BufferLine(content) PROVE Inv'
  BY <1>1, BufferLineInv
<1>2. ASSUME NEW content \in BOOLEAN, BufferFull(content) PROVE Inv'
  <2>1. eof' \in BOOLEAN
    BY <1>2 DEF BufferFull, Inv, TypeOK
  <2> QED BY <1>2, <2>1, ResumeInv DEF BufferFull
<1>3. CASE BufferEOF
  BY <1>3, ResumeInv DEF BufferEOF
<1>4. ASSUME NEW content \in BOOLEAN, RelayLine(content) PROVE Inv'
  BY <1>4, RelayInv, TimeoutInv DEF RelayLine
<1>5. ASSUME NEW content \in BOOLEAN, WriteError(content) PROVE Inv'
  BY <1>5, WriteErrorInv
<1>6. CASE StreamEOF
  BY <1>6, StreamEOFInv
<1>7. CASE ClientLeaves
  BY <1>7
  DEF ClientLeaves, Inv, TypeOK, HeldBack, OnlyScanned, RelayedInOrder, DoneEndsTheStream,
      Received
<1>8. CASE Tick
  BY <1>8
  DEF Tick, Inv, TypeOK, HeldBack, OnlyScanned, RelayedInOrder, DoneEndsTheStream, Received
<1>9. CASE UNCHANGED vars
  BY <1>9
  DEF vars, Inv, TypeOK, HeldBack, OnlyScanned, RelayedInOrder, DoneEndsTheStream, Received
<1> QED BY <1>1, <1>2, <1>3, <1>4, <1>5, <1>6, <1>7, <1>8, <1>9 DEF Next

(* The types of the relay's state.                                         *)
THEOREM StreamTypeCorrect == Spec => []TypeOK
<1>1. Inv => TypeOK
  BY DEF Inv
<1> QED BY <1>1, InitInv, NextInv, PTL DEF Spec

(* Relaying (server.go 564-577 and 882-898, stream.go 21-164) keeps the    *)
(* order, repeats nothing and loses at most the one line that the          *)
(* buffering loop scans and does not count.                                *)
THEOREM LinesAreRelayed == Spec => []RelayedInOrder
<1>1. Inv => RelayedInOrder
  BY DEF Inv
<1> QED BY <1>1, InitInv, NextInv, PTL DEF Spec

(* stream.go:87: whatever ends the stream, a client that is there gets one *)
(* [DONE], and gets it last.                                               *)
THEOREM DoneIsAlwaysSent == Spec => []DoneEndsTheStream
<1>1. Inv => DoneEndsTheStream
  BY DEF Inv
<1> QED BY <1>1, InitInv, NextInv, PTL DEF Spec

-----------------------------------------------------------------------------
(* hasContent sums up the lines that were relayed, and only the thinking   *)
(* timeout ends a stream that goes on for a client that is there.          *)
ContentSeen ==
    pc # "buffer" /\ ~hasContent =>
        \A n \in DOMAIN read : (checked => n > CheckLines + 1) => ~read[n]

EndedWhileThinking ==
    pc = "ended" => eof \/ ~here \/ (elapsed > ThinkingTimeout /\ ~hasContent)

ThinkInv == ContentSeen /\ EndedWhileThinking

(* A line that is relayed, or that could not be written, is looked at.     *)
LEMMA ScanContent ==
    ASSUME Inv, ContentSeen, NEW content \in BOOLEAN, Scan(content), pc # "buffer",
           hasContent' = (hasContent \/ content), checked' = checked
    PROVE  ContentSeen'
<1> SUFFICES ASSUME ~hasContent', NEW n \in DOMAIN read', checked' => n > CheckLines + 1
             PROVE  ~read'[n]
  BY Zenon DEF ContentSeen
<1>1. ~hasContent /\ ~content
  BY Zenon
<1>2. read \in Seq(BOOLEAN) /\ read' = Append(read, content)
  BY DEF Inv, TypeOK, Scan
<1>3. CASE n = Len(read) + 1
  <2>1. read'[n] = content
    BY <1>2, <1>3
  <2> QED BY <1>1, <2>1, Zenon
<1>4. CASE n # Len(read) + 1
  <2>1. n \in DOMAIN read /\ read'[n] = read[n]
    BY <1>2, <1>4
  <2> QED BY <1>1, <2>1, Zenon DEF ContentSeen
<1> QED BY <1>3, <1>4

LEMMA ThinkInvNext ==
    ASSUME Inv, ThinkInv, [Next]_vars
    PROVE  ThinkInv'
<1>1. ASSUME NEW content \in BOOLEAN, BufferLine(content) PROVE ThinkInv'
  BY <1>1 DEF BufferLine, ThinkInv, ContentSeen, EndedWhileThinking
<1>2. ASSUME pc = "buffer", Resume,
             \/ read' = read
             \/ Len(buf) = CheckLines /\ \E content \in BOOLEAN : Scan(content)
      PROVE  ThinkInv'
  <2>1. /\ checked' /\ pc' = "relay" /\ read \in Seq(BOOLEAN)
        /\ Len(read) \in Nat /\ Len(read) <= CheckLines
    BY <1>2 DEF Inv, HeldBack, TypeOK, Resume
  <2>2. \A n \in DOMAIN read' : ~(n > CheckLines + 1)
    <3>1. CASE read' = read
      BY <2>1, <3>1, StreamAssumption
    <3>2. ASSUME NEW content \in BOOLEAN, Scan(content)
          PROVE  \A n \in DOMAIN read' : ~(n > CheckLines + 1)
      <4>1. DOMAIN read' = 1 .. (Len(read) + 1)
        BY <3>2, ScanIs DEF Inv
      <4> QED BY <2>1, <4>1, StreamAssumption
    <3> QED BY <1>2, <3>1, <3>2
  <2> QED BY <2>1, <2>2 DEF ThinkInv, ContentSeen, EndedWhileThinking
<1>3. ASSUME NEW content \in BOOLEAN, BufferFull(content) PROVE ThinkInv'
  BY <1>2, <1>3 DEF BufferFull
<1>4. CASE BufferEOF
  BY <1>2, <1>4 DEF BufferEOF
<1>5. ASSUME NEW content \in BOOLEAN, RelayLine(content) PROVE ThinkInv'
  <2>1. ContentSeen'
    BY <1>5, ScanContent DEF RelayLine, ThinkInv
  <2>2. EndedWhileThinking'
    BY <1>5 DEF RelayLine, ThinkingTooLong, EndedWhileThinking
  <2> QED BY <2>1, <2>2 DEF ThinkInv
<1>6. ASSUME NEW content \in BOOLEAN, WriteError(content) PROVE ThinkInv'
  <2>1. ContentSeen'
    BY <1>6, ScanContent DEF WriteError, ThinkInv
  <2>2. EndedWhileThinking'
    BY <1>6 DEF WriteError, EndedWhileThinking
  <2> QED BY <2>1, <2>2 DEF ThinkInv
<1>7. CASE StreamEOF
  BY <1>7 DEF StreamEOF, ThinkInv, ContentSeen, EndedWhileThinking
<1>8. CASE ClientLeaves
  BY <1>8 DEF ClientLeaves, ThinkInv, ContentSeen, EndedWhileThinking
<1>9. CASE Tick
  BY <1>9 DEF Tick, ThinkInv, ContentSeen, EndedWhileThinking
<1>10. CASE UNCHANGED vars
  BY <1>10 DEF vars, ThinkInv, ContentSeen, EndedWhileThinking
<1> QED BY <1>1, <1>3, <1>4, <1>5, <1>6, <1>7, <1>8, <1>9, <1>10 DEF Next

(* stream.go 60 and 138: the thinking timeout never cuts off a relay that  *)
(* has passed on a line with content, and never fires early.               *)
THEOREM ContentStopsTheTimeout == Spec => []AbortOnlyWhileThinking
<1>1. Init => ThinkInv
  BY DEF Init, ThinkInv, ContentSeen, EndedWhileThinking
<1>2. ThinkInv => AbortOnlyWhileThinking
  BY DEF ThinkInv, ContentSeen, EndedWhileThinking, AbortOnlyWhileThinking
<1>3. Inv /\ ThinkInv /\ [Next]_vars => ThinkInv'
  BY ThinkInvNext
<1> QED BY <1>1, <1>2, <1>3, InitInv, NextInv, PTL DEF Spec

-----------------------------------------------------------------------------
(* With the deadline of the connection.  The clock of the thinking timeout *)
(* is at most the wait for the next line ahead of the last time it was     *)
(* looked at.                                                              *)
ClockInv ==
    /\ idle \in Nat /\ idle <= IdleReadTimeout
    /\ pc = "relay" /\ ~hasContent /\ ~dripping => elapsed <= ThinkingTimeout + idle

LEMMA TimedStep == [TimedNext]_timedVars => [Next]_vars
<1> SUFFICES ASSUME [TimedNext]_timedVars PROVE [Next]_vars
  OBVIOUS
<1>1. CASE LineArrives
  BY <1>1 DEF LineArrives, Next
<1>2. CASE PartOfALine
  BY <1>2 DEF PartOfALine
<1>3. CASE TimePasses
  BY <1>3 DEF TimePasses, Next
<1>4. CASE BufferEOF \/ StreamEOF \/ ClientLeaves
  BY <1>4 DEF Next
<1>5. CASE UNCHANGED timedVars
  BY <1>5 DEF timedVars
<1> QED BY <1>1, <1>2, <1>3, <1>4, <1>5 DEF TimedNext

LEMMA ClockInvNext ==
    ASSUME Inv, ClockInv, [TimedNext]_timedVars
    PROVE  ClockInv'
<1>1. /\ elapsed \in Nat /\ ThinkingTimeout \in Nat /\ IdleReadTimeout \in Nat
      /\ idle \in Nat /\ idle <= IdleReadTimeout
  BY StreamAssumption, IdleAssumption DEF Inv, TypeOK, ClockInv
<1>2. CASE LineArrives
  <2>1. idle' = 0 /\ dripping' = FALSE
    BY <1>2 DEF LineArrives
  <2>2. pc' = "relay" /\ ~hasContent' => elapsed' <= ThinkingTimeout
    <3>1. PICK content \in BOOLEAN : \/ BufferLine(content) \/ BufferFull(content)
                                     \/ RelayLine(content) \/ WriteError(content)
      BY <1>2 DEF LineArrives
    <3>2. CASE BufferLine(content)
      BY <3>2 DEF BufferLine
    <3>3. CASE BufferFull(content)
      BY <1>1, <3>3 DEF BufferFull, Resume
    <3>4. CASE RelayLine(content)
      BY <3>4 DEF RelayLine, ThinkingTooLong
    <3>5. CASE WriteError(content)
      BY <3>5 DEF WriteError
    <3> QED BY <3>1, <3>2, <3>3, <3>4, <3>5
  <2> QED BY <1>1, <2>1, <2>2 DEF ClockInv
<1>3. CASE PartOfALine
  BY <1>1, <1>3 DEF PartOfALine, ClockInv
<1>4. CASE TimePasses
  BY <1>1, <1>4 DEF TimePasses, Tick, ClockInv
<1>5. CASE BufferEOF /\ UNCHANGED <<idle, dripping>>
  BY <1>1, <1>5 DEF BufferEOF, Resume, ClockInv
<1>6. CASE StreamEOF /\ UNCHANGED <<idle, dripping>>
  BY <1>1, <1>6 DEF StreamEOF, ClockInv
<1>7. CASE ClientLeaves /\ UNCHANGED <<idle, dripping>>
  BY <1>1, <1>7 DEF ClientLeaves, ClockInv
<1>8. CASE UNCHANGED timedVars
  BY <1>1, <1>8 DEF timedVars, vars, ClockInv
<1> QED BY <1>2, <1>3, <1>4, <1>5, <1>6, <1>7, <1>8 DEF TimedNext

(* A stream with a read deadline is one of the streams above: all that is  *)
(* proved of Spec holds of it.                                             *)
THEOREM TimedIsAStream == TimedSpec => Spec
<1>1. TimedInit => Init
  BY DEF TimedInit
<1> QED BY <1>1, TimedStep, PTL DEF TimedSpec, Spec

(* server.go:1150 and stream.go:32: the read deadline and the thinking     *)
(* timeout together bound how long an upstream that goes silent is waited  *)
(* for, for every choice of the two.                                       *)
THEOREM SilentStreamsEnd == TimedSpec => []SilenceIsBounded
<1>1. TimedInit => Inv /\ ClockInv
  BY InitInv, StreamAssumption, IdleAssumption DEF TimedInit, Init, ClockInv
<1>2. Inv /\ ClockInv /\ [TimedNext]_timedVars => Inv' /\ ClockInv'
  BY ClockInvNext, TimedStep, NextInv
<1>3. Inv /\ ClockInv => SilenceIsBounded
  BY StreamAssumption, IdleAssumption DEF Inv, TypeOK, ClockInv, SilenceIsBounded
<1> QED BY <1>1, <1>2, <1>3, PTL DEF TimedSpec

=============================================================================
