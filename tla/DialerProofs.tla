---------------------------- MODULE DialerProofs ----------------------------
(***************************************************************************)
(* Theorems about module Dialer, for every proxy, every way the network    *)
(* cuts the bytes, every domain name and every amount of tunnel data.      *)
(***************************************************************************)
EXTENDS Dialer, TLAPS

(* How many bytes the readFull of a place is for; that of the bound        *)
(* address varies.                                                         *)
GotInv ==
    /\ pc \in {"method", "status"} => Len(got) + need = 2
    /\ pc = "header" => Len(got) + need = 4
    /\ pc = "length" => Len(got) + need = 1

(* The places of one dialer are not those of another.                      *)
KindInv ==
    /\ pc \in {"greeting", "method", "auth", "status", "header", "length", "bound"}
          => kind = "socks5"
    /\ pc = "response" => kind = "http"

Booleans == {eof, silent, accepted, connected, early} \subseteq BOOLEAN

(* TypeOK but for the Boolean variables, which need another prover.        *)
TypesOK ==
    /\ kind \in Kinds /\ creds \in {"none", "fit", "long"}
    /\ pc \in {"dial", "greeting", "method", "auth", "status", "connect", "header",
               "length", "bound", "response", "returned", "failed"}
    /\ conn \in {"none", "open", "closed"}
    /\ in \in Seq(Nat) /\ got \in Seq(Nat)
    /\ need \in Nat /\ tunnel \in 0 .. MaxTunnel
    /\ asked \in {"none", "greeting", "auth", "connect"}

ShapeInv == TypesOK /\ GotInv /\ KindInv

LEMMA BytesType ==
    ASSUME NEW n \in Nat
    PROVE  Bytes(n) \in Seq(Nat) /\ Len(Bytes(n)) = n /\ \A i \in 1 .. n : Bytes(n)[i] = Filler
BY DEF Bytes, Filler

(* The bytes of an answer.                                                 *)
LEMMA BoundAddressType ==
    ASSUME NEW t, NEW n \in DomainLens
    PROVE  BoundAddress(t, n) \in Seq(Nat)
<1>1. n \in Nat
  BY DialerAssumption
<1>2. <<n>> \in Seq(Nat) /\ Bytes(n + 2) \in Seq(Nat) /\ << >> \in Seq(Nat)
      /\ Bytes(4 + 2) \in Seq(Nat) /\ Bytes(16 + 2) \in Seq(Nat)
  BY <1>1, BytesType
<1>3. <<n>> \o Bytes(n + 2) \in Seq(Nat)
  BY <1>2
<1>4. CASE t = 1
  BY <1>2, <1>4 DEF BoundAddress
<1>5. CASE t = 3
  BY <1>3, <1>5 DEF BoundAddress
<1>6. CASE t = 4
  BY <1>2, <1>6 DEF BoundAddress
<1>7. CASE t \notin {1, 3, 4}
  BY <1>2, <1>7 DEF BoundAddress
<1> QED BY <1>4, <1>5, <1>6, <1>7

(* An HTTP response with its body.                                         *)
LEMMA ResponseType ==
    ASSUME NEW status \in Nat, NEW n \in BodyLens
    PROVE  LET R == <<status, n>> \o Bytes(n)
           IN  R \in Seq(Nat) /\ Len(R) = 2 + n /\ R[1] = status /\ R[2] = n
<1> DEFINE b == Bytes(n)
<1>1. n \in Nat
  BY DialerAssumption
<1>2. b \in Seq(Nat) /\ Len(b) = n
  BY <1>1, BytesType
<1> HIDE DEF b
<1>3. <<status, n>> \in Seq(Nat)
  BY <1>1
<1>4. LET R == <<status, n>> \o b
      IN  R \in Seq(Nat) /\ Len(R) = 2 + n /\ R[1] = status /\ R[2] = n
  BY <1>1, <1>2, <1>3
<1> QED BY <1>4 DEF b

LEMMA InitTypes == Init => ShapeInv
BY DialerAssumption DEF Init, ShapeInv, TypesOK, GotInv, KindInv

(* A read takes bytes from the front of the stream.                        *)
LEMMA Taken ==
    ASSUME NEW s \in Seq(Nat), NEW g \in Seq(Nat), NEW n \in 1 .. Len(s)
    PROVE  /\ g \o SubSeq(s, 1, n) \in Seq(Nat)
           /\ Len(g \o SubSeq(s, 1, n)) = Len(g) + n
           /\ \A i \in 1 .. (Len(g) + n) :
                 (g \o SubSeq(s, 1, n))[i] = IF i <= Len(g) THEN g[i] ELSE s[i - Len(g)]
           /\ SubSeq(s, n + 1, Len(s)) \in Seq(Nat)
           /\ Len(SubSeq(s, n + 1, Len(s))) = Len(s) - n
           /\ \A i \in 1 .. (Len(s) - n) : SubSeq(s, n + 1, Len(s))[i] = s[n + i]
<1>1. /\ SubSeq(s, 1, n) \in Seq(Nat) /\ Len(SubSeq(s, 1, n)) = n
      /\ \A i \in 1 .. n : SubSeq(s, 1, n)[i] = s[i]
  OBVIOUS
<1>2. /\ SubSeq(s, n + 1, Len(s)) \in Seq(Nat)
      /\ Len(SubSeq(s, n + 1, Len(s))) = Len(s) - n
      /\ \A i \in 1 .. (Len(s) - n) : SubSeq(s, n + 1, Len(s))[i] = s[n + i]
  <2>1. Len(s) \in Nat /\ n \in Nat /\ n >= 1 /\ n <= Len(s)
    OBVIOUS
  <2>2. SubSeq(s, n + 1, Len(s)) \in Seq(Nat)
    BY <2>1
  <2>3. Len(SubSeq(s, n + 1, Len(s))) = Len(s) - n
    BY <2>1
  <2>4. ASSUME NEW i \in 1 .. (Len(s) - n)
        PROVE  SubSeq(s, n + 1, Len(s))[i] = s[n + i]
    BY <2>1
  <2> QED BY <2>2, <2>3, <2>4
<1> DEFINE f == SubSeq(s, 1, n)
<1> HIDE DEF f
<1>3. /\ g \o f \in Seq(Nat) /\ Len(g \o f) = Len(g) + n
      /\ \A i \in 1 .. (Len(g) + n) :
            (g \o f)[i] = IF i <= Len(g) THEN g[i] ELSE s[i - Len(g)]
  BY <1>1 DEF f
<1> QED BY <1>2, <1>3 DEF f

LEMMA ByteType ==
    ASSUME NEW s \in Seq(Nat), NEW i \in 1 .. Len(s)
    PROVE  s[i] \in Nat
OBVIOUS

(* What an answer of the proxy changes, but for what it lets the client do.*)
Answers(bytes) ==
    /\ in' = in \o bytes /\ asked' = "none"
    /\ UNCHANGED <<kind, creds, pc, conn, eof, need, got, tunnel, early>>

LEMMA ReplyTypes ==
    ASSUME ShapeInv, NEW bytes \in Seq(Nat), Answers(bytes)
    PROVE  ShapeInv'
<1>1. in \o bytes \in Seq(Nat)
  BY DEF ShapeInv, TypesOK
<1> QED BY <1>1 DEF ShapeInv, TypesOK, GotInv, KindInv, Answers

LEMMA FailTypes ==
    ASSUME ShapeInv, Fail
    PROVE  ShapeInv'
BY DEF ShapeInv, TypesOK, GotInv, KindInv, Fail, proxy

LEMMA ReadTypes ==
    ASSUME ShapeInv, NEW n \in 1 .. Len(in), Read(n) \/ HTTPRead(n)
    PROVE  ShapeInv'
<1>0. in \in Seq(Nat) /\ got \in Seq(Nat) /\ need \in Nat
  BY DEF ShapeInv, TypesOK
<1>1. /\ got \o SubSeq(in, 1, n) \in Seq(Nat)
      /\ Len(got \o SubSeq(in, 1, n)) = Len(got) + n
      /\ SubSeq(in, n + 1, Len(in)) \in Seq(Nat)
  BY <1>0, Taken
<1>2. in' \in Seq(Nat) /\ got' \in Seq(Nat) /\ Len(got') = Len(got) + n
  BY <1>1 DEF Read, HTTPRead
<1>3. Len(got) \in Nat /\ n \in Nat /\ n >= 1
  BY <1>0
<1>4. CASE Read(n)
  BY <1>2, <1>3, <1>4 DEF Read, proxy, ShapeInv, TypesOK, GotInv, KindInv
<1>5. CASE HTTPRead(n)
  BY <1>2, <1>5 DEF HTTPRead, proxy, ShapeInv, TypesOK, GotInv, KindInv
<1> QED BY <1>4, <1>5

LEMMA ExpectTypes ==
    ASSUME ShapeInv, NEW next, NEW n \in Nat, Expect(next, n), kind = "socks5" \/ kind = "http",
           \/ next \in {"auth", "bound"} /\ kind = "socks5"
           \/ next = "length" /\ n = 1 /\ kind = "socks5"
           \/ next \in {"connect", "returned"}
    PROVE  ShapeInv'
<1>1. got' = << >> /\ << >> \in Seq(Nat) /\ Len(<< >>) = 0
  BY DEF Expect
<1>2. pc' = next /\ need' = n /\ UNCHANGED <<kind, creds, conn, in, eof, asked, tunnel>>
  BY DEF Expect, proxy
<1>3. TypesOK'
  BY <1>1, <1>2 DEF ShapeInv, TypesOK
<1>4. GotInv' /\ KindInv'
  BY <1>1, <1>2 DEF GotInv, KindInv
<1> QED BY <1>3, <1>4 DEF ShapeInv

LEMMA WriteTypes ==
    ASSUME ShapeInv, NEW m, NEW next, NEW n \in Nat, Write(m, next, n),
           \/ next = "method" /\ m = "greeting" /\ n = 2 /\ kind = "socks5"
           \/ next = "status" /\ m = "auth" /\ n = 2 /\ kind = "socks5"
           \/ next = "header" /\ m = "connect" /\ n = 4 /\ kind = "socks5"
           \/ next = "response" /\ m = "connect" /\ kind = "http"
           \/ next = "returned" /\ m = "connect"
    PROVE  ShapeInv'
<1>1. got' = << >> /\ << >> \in Seq(Nat) /\ Len(<< >>) = 0
  BY DEF Write
<1>2. pc' = next /\ need' = n /\ asked' = m /\ UNCHANGED <<kind, creds, conn, in, eof, tunnel>>
  BY DEF Write
<1>3. TypesOK'
  BY <1>1, <1>2 DEF ShapeInv, TypesOK
<1>4. GotInv' /\ KindInv'
  BY <1>1, <1>2 DEF GotInv, KindInv
<1> QED BY <1>3, <1>4 DEF ShapeInv

LEMMA NextTypes == ShapeInv /\ [Next]_vars => ShapeInv'
<1> SUFFICES ASSUME ShapeInv, [Next]_vars
             PROVE  ShapeInv'
  OBVIOUS
<1>0. /\ pc \in {"greeting", "method", "auth", "status", "header", "length", "bound"}
            => kind = "socks5"
      /\ pc = "response" => kind = "http"
  BY DEF ShapeInv, KindInv
<1>1. CASE UNCHANGED vars
  BY <1>1 DEF vars, proxy, ShapeInv, TypesOK, GotInv, KindInv
<1>2. CASE DialOK
  BY <1>2, DialerAssumption DEF DialOK, proxy, ShapeInv, TypesOK, GotInv, KindInv
<1>3. CASE DialFails
  BY <1>3 DEF DialFails, proxy, ShapeInv, TypesOK, GotInv, KindInv
<1>4. CASE SendGreeting \/ SendAuth \/ SendConnect \/ SendHTTPConnect \/ SendTarget
  BY <1>0, <1>4, WriteTypes DEF SendGreeting, SendAuth, SendConnect, SendHTTPConnect, SendTarget
<1>5. CASE WriteFails \/ ReadFails \/ HTTPReadFails
  BY <1>5, FailTypes DEF WriteFails, ReadFails, HTTPReadFails
<1>6. CASE \E n \in 1 .. Len(in) : Read(n) \/ HTTPRead(n)
  BY <1>6, ReadTypes
<1>7. CASE ReadMethod
  BY <1>0, <1>7, FailTypes, ExpectTypes DEF ReadMethod
<1>8. CASE ReadStatus
  BY <1>0, <1>8, FailTypes, ExpectTypes DEF ReadStatus
<1>9. CASE ReadHeader
  BY <1>0, <1>9, FailTypes, ExpectTypes DEF ReadHeader
<1>10. CASE ReadLength
  <2>1. got \in Seq(Nat)
    BY DEF ShapeInv, TypesOK
  <2>4. Len(got) = 1
    <3>1. Len(got) + need = 1 /\ need = 0
      BY <1>10 DEF ReadLength, ShapeInv, GotInv
    <3>2. Len(got) \in Nat
      BY <2>1
    <3> QED BY <3>1, <3>2
  <2>2. got[1] \in Nat
    BY <2>1, <2>4, ByteType
  <2>3. got[1] + 2 \in Nat
    BY <2>2
  <2> QED BY <1>0, <1>10, <2>3, ExpectTypes DEF ReadLength
<1>11. CASE ReadBound
  BY <1>0, <1>11, ExpectTypes DEF ReadBound
<1>12. CASE HTTPStatus
  BY <1>0, <1>12, FailTypes, ExpectTypes DEF HTTPStatus
<1>13. CASE ProxyAnswers
  <2>1. CASE \E v \in {5, 4}, m \in {0, 1, 2, 255} : ProxyMethod(v, m)
    <3>1. PICK v \in {5, 4}, m \in {0, 1, 2, 255} : ProxyMethod(v, m)
      BY <2>1
    <3>2. <<v, m>> \in Seq(Nat)
      OBVIOUS
    <3>3. Answers(<<v, m>>)
      BY <3>1 DEF ProxyMethod, Reply, Answers
    <3> QED BY <3>2, <3>3, ReplyTypes
  <2>2. CASE \E v \in {1, 5}, s \in {0, 1} : ProxyStatus(v, s)
    <3>1. PICK v \in {1, 5}, s \in {0, 1} : ProxyStatus(v, s)
      BY <2>2
    <3>2. <<v, s>> \in Seq(Nat)
      OBVIOUS
    <3>3. Answers(<<v, s>>)
      BY <3>1 DEF ProxyStatus, Reply, Answers
    <3> QED BY <3>2, <3>3, ReplyTypes
  <2>3. CASE \E v \in {5, 4}, r \in {0, 1}, t \in {1, 3, 4, 0}, n \in DomainLens :
                ProxyConnect(v, r, t, n)
    <3>1. PICK v \in {5, 4}, r \in {0, 1}, t \in {1, 3, 4, 0}, n \in DomainLens :
                ProxyConnect(v, r, t, n)
      BY <2>3
    <3> DEFINE b == BoundAddress(t, n)
    <3>2. b \in Seq(Nat)
      BY BoundAddressType
    <3> HIDE DEF b
    <3>3. <<v, r, 0, t>> \o b \in Seq(Nat)
      BY <3>2
    <3>4. Answers(<<v, r, 0, t>> \o b)
      BY <3>1 DEF ProxyConnect, Reply, Answers, b
    <3> QED BY <3>3, <3>4, ReplyTypes
  <2>4. CASE \E status \in {200, 407}, n \in BodyLens : ProxyHTTP(status, n)
    <3>1. PICK status \in {200, 407}, n \in BodyLens : ProxyHTTP(status, n)
      BY <2>4
    <3>2. <<status, n>> \o Bytes(n) \in Seq(Nat)
      BY ResponseType
    <3>3. Answers(<<status, n>> \o Bytes(n))
      BY <3>1 DEF ProxyHTTP, Reply, Answers
    <3> QED BY <3>2, <3>3, ReplyTypes
  <2> QED BY <1>13, <2>1, <2>2, <2>3, <2>4 DEF ProxyAnswers
<1>14. CASE TargetSpeaks
  <2>1. Append(in, TunnelByte) \in Seq(Nat)
    BY DEF TunnelByte, ShapeInv, TypesOK
  <2>2. tunnel + 1 \in 0 .. MaxTunnel
    BY <1>14, DialerAssumption DEF TargetSpeaks, ShapeInv, TypesOK
  <2> QED BY <1>14, <2>1, <2>2 DEF TargetSpeaks, ShapeInv, TypesOK, GotInv, KindInv
<1>15. CASE Close
  <2>1. CASE ProxyHangsUp
    BY <2>1 DEF ProxyHangsUp, ShapeInv, TypesOK, GotInv, KindInv
  <2>2. ASSUME NEW k \in 0 .. Len(in), NEW hangsUp \in BOOLEAN, ProxyStops(k, hangsUp)
        PROVE  ShapeInv'
    <3>1. SubSeq(in, 1, k) \in Seq(Nat)
      BY DEF ShapeInv, TypesOK
    <3> QED BY <2>2, <3>1 DEF ProxyStops, ShapeInv, TypesOK, GotInv, KindInv
  <2> QED BY <1>15, <2>1, <2>2 DEF Close
<1> QED BY <1>1, <1>2, <1>3, <1>4, <1>5, <1>6, <1>7, <1>8, <1>9, <1>10, <1>11, <1>12,
           <1>13, <1>14, <1>15 DEF Next, Client

LEMMA NextBooleans == Booleans /\ [Next]_vars => Booleans'
<1> SUFFICES ASSUME Booleans, [Next]_vars
             PROVE  Booleans'
  OBVIOUS
<1> USE Zenon DEF Booleans
<1> DEFINE Same == UNCHANGED <<eof, silent, accepted, connected, early>>
<1>1. CASE Same
  BY <1>1
<1>2. CASE ProxyAnswers
  <2>1. UNCHANGED <<eof, silent, early>> /\ accepted' \in BOOLEAN /\ connected' \in BOOLEAN
    BY <1>2 DEF ProxyAnswers, ProxyMethod, ProxyStatus, ProxyConnect, ProxyHTTP, Reply
  <2> QED BY <2>1
<1>3. CASE TargetSpeaks
  <2>1. UNCHANGED <<eof, silent, accepted, connected>> /\ early' \in BOOLEAN
    BY <1>3 DEF TargetSpeaks
  <2> QED BY <2>1
<1>4. CASE Close
  <2>1. UNCHANGED <<early, accepted, connected>> /\ eof' \in BOOLEAN /\ silent' \in BOOLEAN
    BY <1>4 DEF Close, ProxyStops, ProxyHangsUp
  <2> QED BY <2>1
<1>5. CASE Client
  <2>1. Same
    BY <1>5 DEF Client, DialOK, DialFails, SendGreeting, SendAuth, SendConnect,
          SendHTTPConnect, SendTarget, Write, WriteFails, Fail, Read, HTTPRead, ReadMethod,
          ReadStatus, ReadHeader, ReadLength, ReadBound, Expect, ReadFails, HTTPStatus,
          HTTPReadFails, proxy
  <2> QED BY <1>1, <2>1
<1>6. CASE UNCHANGED vars
  <2>1. Same
    BY <1>6 DEF vars, proxy
  <2> QED BY <1>1, <2>1
<1> QED BY <1>2, <1>3, <1>4, <1>5, <1>6 DEF Next

(* Every state of DialContext and of the stream is well formed.            *)
THEOREM TypeCorrect == Spec => []TypeOK
<1>1. Init => ShapeInv /\ Booleans
  <2>1. Init => Booleans
    BY Zenon DEF Init, Booleans
  <2> QED BY InitTypes, <2>1
<1>2. ShapeInv /\ Booleans => TypeOK
  BY DEF ShapeInv, TypesOK, Booleans, TypeOK
<1> QED BY <1>1, <1>2, NextTypes, NextBooleans, PTL DEF Spec

(* The connection is open from the dial to the return.                     *)
ConnInv ==
    /\ pc = "dial" => conn = "none"
    /\ pc \notin {"dial", "failed"} => conn = "open"
    /\ pc = "failed" => conn # "open"

(* No error path leaks the connection, and a connection that is returned   *)
(* is open.                                                                *)
THEOREM NothingLeaks == Spec => []NoLeak
<1>1. Init => ConnInv
  BY DEF Init, ConnInv
<1>2. ShapeInv /\ ConnInv /\ [Next]_vars => ConnInv'
  <2> SUFFICES ASSUME ShapeInv, ConnInv, [Next]_vars
               PROVE  ConnInv'
    OBVIOUS
  <2>1. CASE UNCHANGED <<pc, conn>>
    BY <2>1 DEF ConnInv
  <2>2. CASE pc # "dial" /\ Fail
    BY <2>2 DEF Fail, ConnInv
  <2>3. CASE pc \notin {"dial", "failed"} /\ pc' \notin {"dial", "failed"} /\ UNCHANGED conn
    BY <2>3 DEF ConnInv
  <2>4. CASE DialOK \/ DialFails
    BY <2>4, DialerAssumption DEF DialOK, DialFails, ConnInv, ShapeInv, TypesOK
  <2>5. CASE SendGreeting \/ SendAuth \/ SendConnect \/ SendHTTPConnect \/ SendTarget
    BY <2>5, <2>3 DEF SendGreeting, SendAuth, SendConnect, SendHTTPConnect, SendTarget, Write
  <2>6. CASE WriteFails \/ ReadFails \/ HTTPReadFails
    BY <2>6, <2>2 DEF WriteFails, ReadFails, HTTPReadFails
  <2>7. CASE ReadMethod \/ ReadStatus \/ ReadHeader \/ ReadLength \/ ReadBound \/ HTTPStatus
    BY <2>7, <2>2, <2>3 DEF ReadMethod, ReadStatus, ReadHeader, ReadLength, ReadBound,
          HTTPStatus, Expect
  <2>8. CASE \E n \in 1 .. Len(in) : Read(n) \/ HTTPRead(n)
    BY <2>8, <2>1 DEF Read, HTTPRead
  <2>9. CASE ProxyAnswers
    BY <2>9, <2>1 DEF ProxyAnswers, ProxyMethod, ProxyStatus, ProxyConnect, ProxyHTTP, Reply
  <2>10. CASE TargetSpeaks \/ Close
    BY <2>10, <2>1 DEF TargetSpeaks, Close, ProxyStops, ProxyHangsUp
  <2>11. CASE UNCHANGED vars
    BY <2>11, <2>1 DEF vars
  <2> QED BY <2>4, <2>5, <2>6, <2>7, <2>8, <2>9, <2>10, <2>11 DEF Next, Client
<1>3. ConnInv => NoLeak
  BY DEF ConnInv, NoLeak
<1> QED BY <1>1, <1>2, <1>3, InitTypes, NextTypes, PTL DEF Spec

-----------------------------------------------------------------------------
(* The stream, seen from the message R the client is reading: what it has  *)
(* read of it and what is on the way are R and then bytes of the tunnel,   *)
(* and all of it is there unless the proxy went away.                      *)
ByteAt(R, i) == IF i <= Len(R) THEN R[i] ELSE TunnelByte

Shape(R) ==
    /\ \A i \in 1 .. Len(got) : got[i] = ByteAt(R, i)
    /\ \A i \in 1 .. Len(in) : in[i] = ByteAt(R, Len(got) + i)
    /\ Len(got) + Len(in) <= Len(R) + tunnel
    /\ ~eof => Len(got) + Len(in) = Len(R) + tunnel

(* Nothing was sent since the last message.                                *)
Quiet == in = << >> /\ got = << >> /\ tunnel = 0 /\ ~connected

MethodAnswered ==
    /\ tunnel = 0 /\ ~connected
    /\ \E v, m \in Nat : Shape(<<v, m>>) /\ (v = 5 /\ m = 0 => accepted)

StatusAnswered ==
    /\ tunnel = 0 /\ ~connected
    /\ \E v, s \in Nat : Shape(<<v, s>>) /\ (v = 1 /\ s = 0 => accepted)

ConnectAnswered ==
    \E v, r, t \in Nat, n \in DomainLens :
        Shape(<<v, r, 0, t>> \o BoundAddress(t, n)) /\ (v = 5 /\ r = 0 => connected)

LengthComes == \E n \in DomainLens : Shape(<<n>> \o Bytes(n + 2))

HTTPAnswered ==
    \E status \in Nat, n \in BodyLens :
        Shape(<<status, n>> \o Bytes(n)) /\ (status = 200 => accepted /\ connected)

(* The message the proxy has to answer, or its answer.                     *)
Exchange(m, Answered) ==
    \/ asked = m /\ Quiet
    \/ asked = "none" /\ Answered

(* Where the handshake stands at each place of DialContext.                *)
HandshakeInv ==
    /\ pc \in {"dial", "greeting", "auth", "connect"} => asked = "none" /\ Quiet
    /\ pc = "connect" /\ kind = "socks5" => accepted
    /\ pc = "method" => Exchange("greeting", MethodAnswered)
    /\ pc = "status" => Exchange("auth", StatusAnswered)
    /\ pc = "header" => accepted /\ Exchange("connect", ConnectAnswered)
    /\ pc = "length" => accepted /\ connected /\ asked = "none" /\ LengthComes
    /\ pc = "bound" => accepted /\ connected /\ asked = "none" /\ Shape(Bytes(Len(got) + need))
    /\ pc = "response" => Exchange("connect", HTTPAnswered) /\ (~early => tunnel = 0)
    /\ pc = "returned" =>
          /\ kind = "ss" => asked = "connect" /\ Quiet
          /\ kind # "ss" => asked = "none" /\ accepted /\ connected
          /\ (kind = "http" /\ early) \/ (got = << >> /\ Shape(<< >>))

-----------------------------------------------------------------------------
(* A read moves bytes from one side to the other.                          *)
LEMMA ShapeRead ==
    ASSUME ShapeInv, NEW R \in Seq(Nat), Shape(R), NEW n \in 1 .. Len(in),
           got' = got \o SubSeq(in, 1, n), in' = SubSeq(in, n + 1, Len(in)),
           UNCHANGED <<eof, tunnel>>
    PROVE  Shape(R)'
<1>0. in \in Seq(Nat) /\ got \in Seq(Nat) /\ tunnel \in Nat
  BY DEF ShapeInv, TypesOK
<1>1. /\ Len(got') = Len(got) + n /\ Len(in') = Len(in) - n
      /\ \A i \in 1 .. (Len(got) + n) : got'[i] = IF i <= Len(got) THEN got[i] ELSE in[i - Len(got)]
      /\ \A i \in 1 .. (Len(in) - n) : in'[i] = in[n + i]
  <2> DEFINE g == got \o SubSeq(in, 1, n)
             t == SubSeq(in, n + 1, Len(in))
  <2>1. Len(g) = Len(got) + n
    BY <1>0, Taken
  <2>3. Len(t) = Len(in) - n
    BY <1>0, Taken
  <2>4. \A i \in 1 .. (Len(got) + n) : g[i] = IF i <= Len(got) THEN got[i] ELSE in[i - Len(got)]
    BY <1>0, Taken
  <2>5. \A i \in 1 .. (Len(in) - n) : t[i] = in[n + i]
    BY <1>0, Taken
  <2>2. got' = g /\ in' = t
    OBVIOUS
  <2> HIDE DEF g, t
  <2> QED BY <2>1, <2>2, <2>3, <2>4, <2>5
<1>2. Len(got) \in Nat /\ Len(in) \in Nat /\ Len(R) \in Nat
  BY <1>0
<1>3. ASSUME NEW i \in 1 .. Len(got')
      PROVE  got'[i] = ByteAt(R, i)
  <2>1. CASE i <= Len(got)
    BY <1>1, <1>2, <2>1 DEF Shape
  <2>2. CASE i > Len(got)
    <3>1. i - Len(got) \in 1 .. Len(in) /\ Len(got) + (i - Len(got)) = i
      BY <1>1, <1>2, <2>2
    <3>2. in[i - Len(got)] = ByteAt(R, i)
      BY <3>1 DEF Shape
    <3> QED BY <1>1, <1>2, <2>2, <3>2
  <2> QED BY <1>1, <1>2, <2>1, <2>2
<1>4. ASSUME NEW i \in 1 .. Len(in')
      PROVE  in'[i] = ByteAt(R, Len(got') + i)
  <2>1. n + i \in 1 .. Len(in) /\ Len(got) + (n + i) = Len(got') + i
    BY <1>1, <1>2
  <2>2. in[n + i] = ByteAt(R, Len(got') + i)
    BY <2>1 DEF Shape
  <2> QED BY <1>1, <1>2, <2>2
<1>5. Len(got') + Len(in') = Len(got) + Len(in)
  <2>1. Len(got') = Len(got) + n /\ Len(in') = Len(in) - n
    BY <1>1
  <2>2. n \in Nat
    BY <1>2
  <2>3. (Len(got) + n) + (Len(in) - n) = Len(got) + Len(in)
    BY <1>2, <2>2
  <2> QED BY <2>1, <2>3
<1> QED BY <1>3, <1>4, <1>5 DEF Shape

(* The target's byte follows all others.                                   *)
LEMMA ShapeSpeaks ==
    ASSUME ShapeInv, NEW R \in Seq(Nat), Shape(R), TargetSpeaks
    PROVE  Shape(R)'
<1>0. in \in Seq(Nat) /\ got \in Seq(Nat) /\ tunnel \in Nat
  BY DEF ShapeInv, TypesOK
<1>1. in' = Append(in, TunnelByte) /\ tunnel' = tunnel + 1 /\ got' = got /\ eof' = eof /\ ~eof
  BY DEF TargetSpeaks
<1>2. /\ Len(in') = Len(in) + 1 /\ in'[Len(in) + 1] = TunnelByte
      /\ \A i \in 1 .. Len(in) : in'[i] = in[i]
  BY <1>0, <1>1 DEF TunnelByte
<1>3. Len(got) \in Nat /\ Len(in) \in Nat /\ Len(R) \in Nat
  BY <1>0
<1>4. Len(got) + Len(in) = Len(R) + tunnel
  BY <1>1 DEF Shape
<1>5. ASSUME NEW i \in 1 .. Len(in')
      PROVE  in'[i] = ByteAt(R, Len(got') + i)
  <2>1. CASE i <= Len(in)
    <3>1. i \in 1 .. Len(in)
      BY <1>2, <1>3, <2>1
    <3> QED BY <1>1, <1>2, <3>1 DEF Shape
  <2>2. CASE i = Len(in) + 1
    <3>1. Len(got) + i > Len(R)
      BY <1>0, <1>3, <1>4, <2>2
    <3>2. ByteAt(R, Len(got) + i) = TunnelByte
      BY <1>0, <1>3, <2>2, <3>1 DEF ByteAt
    <3> QED BY <1>1, <1>2, <2>2, <3>2
  <2> QED BY <1>2, <1>3, <2>1, <2>2
<1>6. Len(got') + Len(in') = Len(R) + tunnel'
  <2>1. Len(in') = Len(in) + 1 /\ Len(got') = Len(got) /\ tunnel' = tunnel + 1
    BY <1>1, <1>2
  <2> QED BY <1>0, <1>3, <1>4, <2>1
<1>7. \A i \in 1 .. Len(got') : got'[i] = ByteAt(R, i)
  BY <1>1 DEF Shape
<1>8. Len(got') + Len(in') <= Len(R) + tunnel'
  BY <1>0, <1>1, <1>2, <1>3, <1>6
<1> QED BY <1>5, <1>6, <1>7, <1>8 DEF Shape

(* What arrives of the stream when the proxy goes away is a prefix.        *)
LEMMA ShapeCloses ==
    ASSUME ShapeInv, NEW R \in Seq(Nat), Shape(R), NEW k \in 0 .. Len(in), NEW hangsUp,
           ProxyStops(k, hangsUp)
    PROVE  Shape(R)'
<1>0. in \in Seq(Nat) /\ got \in Seq(Nat) /\ tunnel \in Nat
  BY DEF ShapeInv, TypesOK
<1>1. in' = SubSeq(in, 1, k) /\ tunnel' = tunnel /\ got' = got /\ eof'
  BY DEF ProxyStops
<1>2. /\ Len(in') = k
      /\ \A i \in 1 .. k : in'[i] = in[i]
  BY <1>0, <1>1
<1>3. Len(got) \in Nat /\ Len(in) \in Nat /\ Len(R) \in Nat
  BY <1>0
<1>4. ASSUME NEW i \in 1 .. Len(in')
      PROVE  in'[i] = ByteAt(R, Len(got') + i)
  <2>1. i \in 1 .. k /\ i \in 1 .. Len(in)
    BY <1>2, <1>3
  <2> QED BY <1>1, <1>2, <2>1 DEF Shape
<1>5. Len(got') + Len(in') <= Len(R) + tunnel'
  BY <1>0, <1>1, <1>2, <1>3 DEF Shape
<1> QED BY <1>1, <1>4, <1>5 DEF Shape

(* An answer that comes when nothing else is on the way.                   *)
LEMMA ShapeReply ==
    ASSUME Quiet, NEW R \in Seq(Nat), Answers(R)
    PROVE  Shape(R)'
<1>1. got' = << >> /\ tunnel' = 0 /\ in' = R
  BY DEF Quiet, Answers
<1>2. Len(<< >>) = 0 /\ Len(R) \in Nat /\ DOMAIN R = 1 .. Len(R)
  OBVIOUS
<1>3. \A i \in 1 .. Len(R) : R[i] = ByteAt(R, 0 + i)
  BY <1>2 DEF ByteAt
<1> QED BY <1>1, <1>2, <1>3 DEF Shape

(* The message has been read to its m-th byte; S is the rest of it.        *)
LEMMA ShapeShift ==
    ASSUME ShapeInv, NEW R \in Seq(Nat), NEW S \in Seq(Nat), Shape(R),
           Len(R) = Len(got) + Len(S), \A i \in 1 .. Len(S) : S[i] = R[Len(got) + i],
           got' = << >>, UNCHANGED <<in, eof, tunnel>>
    PROVE  Shape(S)'
<1>0. in \in Seq(Nat) /\ got \in Seq(Nat) /\ tunnel \in Nat /\ Len(<< >>) = 0
  BY DEF ShapeInv, TypesOK
<1>1. Len(got) \in Nat /\ Len(in) \in Nat /\ Len(R) \in Nat /\ Len(S) \in Nat
  BY <1>0
<1>2. ASSUME NEW i \in 1 .. Len(in)
      PROVE  in[i] = ByteAt(S, 0 + i)
  <2>1. in[i] = ByteAt(R, Len(got) + i)
    BY DEF Shape
  <2>2. CASE i <= Len(S)
    BY <1>1, <2>1, <2>2 DEF ByteAt
  <2>3. CASE i > Len(S)
    BY <1>1, <2>1, <2>3 DEF ByteAt
  <2> QED BY <1>1, <2>2, <2>3
<1>3. Len(in) <= Len(S) + tunnel /\ (~eof => Len(in) = Len(S) + tunnel)
  BY <1>0, <1>1 DEF Shape
<1> QED BY <1>0, <1>1, <1>2, <1>3 DEF Shape

LEMMA ConnectAnswerType ==
    ASSUME NEW v \in Nat, NEW r \in Nat, NEW t \in Nat, NEW n \in DomainLens
    PROVE  <<v, r, 0, t>> \o BoundAddress(t, n) \in Seq(Nat)
<1> DEFINE b == BoundAddress(t, n)
<1>1. b \in Seq(Nat)
  BY BoundAddressType
<1> HIDE DEF b
<1>2. <<v, r, 0, t>> \o b \in Seq(Nat)
  BY <1>1
<1> QED BY <1>2 DEF b

LEMMA LengthAnswerType ==
    ASSUME NEW n \in DomainLens
    PROVE  n \in Nat /\ <<n>> \o Bytes(n + 2) \in Seq(Nat) /\ Bytes(n + 2) \in Seq(Nat)
<1>1. n \in Nat
  BY DialerAssumption
<1>2. Bytes(n + 2) \in Seq(Nat)
  BY <1>1, BytesType
<1> DEFINE b == Bytes(n + 2)
<1> HIDE DEF b
<1>3. <<n>> \o b \in Seq(Nat)
  BY <1>1, <1>2 DEF b
<1> QED BY <1>1, <1>2, <1>3 DEF b

(* A step that only cuts the stream elsewhere, or makes it longer or       *)
(* shorter at its end, leaves the handshake where it is.                   *)
StreamStep ==
    /\ UNCHANGED <<pc, kind, asked, accepted, connected>>
    /\ \A R \in Seq(Nat) : Shape(R) => Shape(R)'
    /\ Quiet => Quiet'
    /\ connected \/ tunnel' = tunnel
    /\ pc = "bound" => Len(got') + need' = Len(got) + need
    /\ pc = "response" => (~early' => ~early /\ tunnel' = tunnel)
    /\ pc = "returned" => (early => early') /\ (got = << >> => got' = << >>)

LEMMA StreamKeeps ==
    ASSUME ShapeInv, HandshakeInv, StreamStep
    PROVE  HandshakeInv'
<1>1. MethodAnswered => MethodAnswered'
  <2> SUFFICES ASSUME MethodAnswered PROVE MethodAnswered'
    OBVIOUS
  <2>1. PICK v, m \in Nat : Shape(<<v, m>>) /\ (v = 5 /\ m = 0 => accepted)
    BY DEF MethodAnswered
  <2>2. <<v, m>> \in Seq(Nat)
    OBVIOUS
  <2>3. Shape(<<v, m>>)'
    BY <2>1, <2>2 DEF StreamStep
  <2> QED BY <2>1, <2>3 DEF MethodAnswered, StreamStep
<1>2. StatusAnswered => StatusAnswered'
  <2> SUFFICES ASSUME StatusAnswered PROVE StatusAnswered'
    OBVIOUS
  <2>1. PICK v, s \in Nat : Shape(<<v, s>>) /\ (v = 1 /\ s = 0 => accepted)
    BY DEF StatusAnswered
  <2>2. <<v, s>> \in Seq(Nat)
    OBVIOUS
  <2>3. Shape(<<v, s>>)'
    BY <2>1, <2>2 DEF StreamStep
  <2> QED BY <2>1, <2>3 DEF StatusAnswered, StreamStep
<1>3. ConnectAnswered => ConnectAnswered'
  <2> SUFFICES ASSUME ConnectAnswered PROVE ConnectAnswered'
    OBVIOUS
  <2>1. PICK v, r, t \in Nat, n \in DomainLens :
            Shape(<<v, r, 0, t>> \o BoundAddress(t, n)) /\ (v = 5 /\ r = 0 => connected)
    BY DEF ConnectAnswered
  <2>2. Shape(<<v, r, 0, t>> \o BoundAddress(t, n))'
    BY <2>1, ConnectAnswerType DEF StreamStep
  <2> QED BY <2>1, <2>2 DEF ConnectAnswered, StreamStep
<1>4. LengthComes => LengthComes'
  BY LengthAnswerType DEF LengthComes, StreamStep
<1>5. HTTPAnswered => HTTPAnswered'
  <2> SUFFICES ASSUME HTTPAnswered PROVE HTTPAnswered'
    OBVIOUS
  <2>1. PICK status \in Nat, n \in BodyLens :
            Shape(<<status, n>> \o Bytes(n)) /\ (status = 200 => accepted /\ connected)
    BY DEF HTTPAnswered
  <2>2. <<status, n>> \o Bytes(n) \in Seq(Nat)
    BY ResponseType
  <2>3. Shape(<<status, n>> \o Bytes(n))'
    BY <2>1, <2>2 DEF StreamStep
  <2> QED BY <2>1, <2>3 DEF HTTPAnswered, StreamStep
<1>6. pc = "bound" /\ Shape(Bytes(Len(got) + need)) => Shape(Bytes(Len(got) + need))'
  <2> SUFFICES ASSUME pc = "bound", Shape(Bytes(Len(got) + need))
               PROVE  Shape(Bytes(Len(got) + need))'
    OBVIOUS
  <2>1. Len(got) + need \in Nat
    BY DEF ShapeInv, TypesOK
  <2>2. PICK k \in Nat : k = Len(got) + need
    BY <2>1
  <2>3. Shape(Bytes(k))'
    BY <2>2, BytesType DEF StreamStep
  <2>4. k = Len(got') + need'
    BY <2>2 DEF StreamStep
  <2> QED BY <2>3, <2>4
<1>7. Shape(<< >>) => Shape(<< >>)'
  <2>1. << >> \in Seq(Nat)
    OBVIOUS
  <2> QED BY <2>1 DEF StreamStep
<1>8. (pc = "method" => Exchange("greeting", MethodAnswered))'
  BY <1>1 DEF HandshakeInv, Exchange, StreamStep
<1>9. (pc = "status" => Exchange("auth", StatusAnswered))'
  BY <1>2 DEF HandshakeInv, Exchange, StreamStep
<1>10. (pc = "header" => accepted /\ Exchange("connect", ConnectAnswered))'
  BY <1>3 DEF HandshakeInv, Exchange, StreamStep
<1>11. (pc = "response" => Exchange("connect", HTTPAnswered) /\ (~early => tunnel = 0))'
  BY <1>5 DEF HandshakeInv, Exchange, StreamStep
<1>12. /\ (pc \in {"dial", "greeting", "auth", "connect"} => asked = "none" /\ Quiet)'
       /\ (pc = "connect" /\ kind = "socks5" => accepted)'
  BY DEF HandshakeInv, StreamStep
<1>13. /\ (pc = "length" => accepted /\ connected /\ asked = "none" /\ LengthComes)'
       /\ (pc = "bound" => accepted /\ connected /\ asked = "none"
                             /\ Shape(Bytes(Len(got) + need)))'
  BY <1>4, <1>6 DEF HandshakeInv, StreamStep
<1>14. (pc = "returned" =>
          /\ kind = "ss" => asked = "connect" /\ Quiet
          /\ kind # "ss" => asked = "none" /\ accepted /\ connected
          /\ (kind = "http" /\ early) \/ (got = << >> /\ Shape(<< >>)))'
  BY <1>7 DEF HandshakeInv, StreamStep
<1> QED BY <1>8, <1>9, <1>10, <1>11, <1>12, <1>13, <1>14 DEF HandshakeInv

LEMMA StreamSteps ==
    ASSUME ShapeInv,
           \/ \E n \in 1 .. Len(in) : Read(n) \/ HTTPRead(n)
           \/ TargetSpeaks \/ Close \/ UNCHANGED vars
    PROVE  StreamStep
<1>0. in \in Seq(Nat) /\ got \in Seq(Nat) /\ need \in Nat
  BY DEF ShapeInv, TypesOK
<1>1. ASSUME NEW n \in 1 .. Len(in), Read(n) \/ HTTPRead(n)
      PROVE  StreamStep
  <2>1. \A R \in Seq(Nat) : Shape(R) => Shape(R)'
    BY <1>1, ShapeRead DEF Read, HTTPRead, proxy
  <2>2. ~Quiet
    BY <1>0 DEF Quiet
  <2>3. pc = "bound" => Len(got') + need' = Len(got) + need
    <3>1. ASSUME pc = "bound" PROVE need' = need - n
      BY <1>1, <3>1 DEF Read, HTTPRead
    <3>2. Len(got') = Len(got) + n
      BY <1>0, <1>1, Taken DEF Read, HTTPRead
    <3>3. (Len(got) + n) + (need - n) = Len(got) + need
      BY <1>0
    <3> QED BY <3>1, <3>2, <3>3
  <2> QED BY <1>1, <2>1, <2>2, <2>3 DEF Read, HTTPRead, proxy, StreamStep
<1>2. CASE TargetSpeaks
  <2>1. \A R \in Seq(Nat) : Shape(R) => Shape(R)'
    BY <1>2, ShapeSpeaks
  <2>2. ~Quiet
    BY <1>2 DEF Quiet, TargetSpeaks
  <2> QED BY <1>2, <2>1, <2>2 DEF TargetSpeaks, StreamStep
<1>3. CASE Close
  <2>0. CASE ProxyHangsUp
    BY <2>0 DEF ProxyHangsUp, StreamStep, Shape, Quiet
  <2> SUFFICES ASSUME ~ProxyHangsUp
               PROVE  StreamStep
    BY <2>0
  <2>1. PICK k \in 0 .. Len(in), hangsUp \in BOOLEAN : ProxyStops(k, hangsUp)
    BY <1>3 DEF Close
  <2>2. \A R \in Seq(Nat) : Shape(R) => Shape(R)'
    BY <2>1, ShapeCloses
  <2>3. Quiet => Quiet'
    <3> SUFFICES ASSUME Quiet PROVE Quiet'
      OBVIOUS
    <3>1. SubSeq(in, 1, k) = << >>
      BY <1>0 DEF Quiet
    <3> QED BY <2>1, <3>1 DEF ProxyStops, Quiet
  <2> QED BY <2>1, <2>2, <2>3 DEF ProxyStops, StreamStep
<1>4. CASE UNCHANGED vars
  BY <1>4 DEF vars, proxy, StreamStep, Shape, Quiet
<1> QED BY <1>1, <1>2, <1>3, <1>4

(* The proxy answers only what it was asked, so nothing was on the way.    *)
LEMMA AskedAt ==
    ASSUME ShapeInv, HandshakeInv, asked # "none", pc # "failed"
    PROVE  /\ Quiet
           /\ asked = "greeting" => pc = "method"
           /\ asked = "auth" => pc = "status"
           /\ asked = "connect" /\ kind = "socks5" => pc = "header"
           /\ asked = "connect" /\ kind = "http" => pc = "response"
BY DEF ShapeInv, TypesOK, KindInv, HandshakeInv, Exchange

LEMMA AnswersKeep ==
    ASSUME ShapeInv, HandshakeInv, ProxyAnswers
    PROVE  HandshakeInv'
<1>1. CASE pc = "failed"
  <2>1. pc' = pc
    BY DEF ProxyAnswers, ProxyMethod, ProxyStatus, ProxyConnect, ProxyHTTP, Reply
  <2> QED BY <1>1, <2>1 DEF HandshakeInv
<1> SUFFICES ASSUME pc # "failed"
             PROVE  HandshakeInv'
  BY <1>1
<1>2. ASSUME NEW v \in {5, 4}, NEW m \in {0, 1, 2, 255}, ProxyMethod(v, m)
      PROVE  HandshakeInv'
  <2>1. Quiet /\ pc = "method"
    BY <1>2, AskedAt DEF ProxyMethod, Reply
  <2>2. Answers(<<v, m>>) /\ (v = 5 /\ m = 0 => accepted') /\ (connected' => connected)
    BY <1>2 DEF ProxyMethod, Reply, Answers
  <2>3. v \in Nat /\ m \in Nat /\ <<v, m>> \in Seq(Nat)
    OBVIOUS
  <2>4. Shape(<<v, m>>)'
    BY <2>1, <2>2, <2>3, ShapeReply
  <2>5. MethodAnswered'
    BY <2>1, <2>2, <2>3, <2>4 DEF MethodAnswered, Quiet, Answers
  <2> QED BY <2>1, <2>2, <2>5 DEF HandshakeInv, Exchange, Answers
<1>3. ASSUME NEW v \in {1, 5}, NEW s \in {0, 1}, ProxyStatus(v, s)
      PROVE  HandshakeInv'
  <2>1. Quiet /\ pc = "status"
    BY <1>3, AskedAt DEF ProxyStatus, Reply
  <2>2. Answers(<<v, s>>) /\ (v = 1 /\ s = 0 => accepted') /\ (connected' => connected)
    BY <1>3 DEF ProxyStatus, Reply, Answers
  <2>3. v \in Nat /\ s \in Nat /\ <<v, s>> \in Seq(Nat)
    OBVIOUS
  <2>4. Shape(<<v, s>>)'
    BY <2>1, <2>2, <2>3, ShapeReply
  <2>5. StatusAnswered'
    BY <2>1, <2>2, <2>3, <2>4 DEF StatusAnswered, Quiet, Answers
  <2> QED BY <2>1, <2>2, <2>5 DEF HandshakeInv, Exchange, Answers
<1>4. ASSUME NEW v \in {5, 4}, NEW r \in {0, 1}, NEW t \in {1, 3, 4, 0}, NEW n \in DomainLens,
             ProxyConnect(v, r, t, n)
      PROVE  HandshakeInv'
  <2>1. Quiet /\ pc = "header"
    BY <1>4, AskedAt DEF ProxyConnect, Reply
  <2> DEFINE R == <<v, r, 0, t>> \o BoundAddress(t, n)
  <2>2. Answers(R) /\ (accepted => accepted') /\ (v = 5 /\ r = 0 => connected')
    BY <1>4 DEF ProxyConnect, Reply, Answers
  <2>3. v \in Nat /\ r \in Nat /\ t \in Nat /\ R \in Seq(Nat)
    BY ConnectAnswerType
  <2>4. Shape(R)'
    <3> HIDE DEF R
    <3> QED BY <2>1, <2>2, <2>3, ShapeReply
  <2>5. ConnectAnswered'
    BY <2>2, <2>3, <2>4 DEF ConnectAnswered
  <2> HIDE DEF R
  <2> QED BY <2>1, <2>2, <2>5 DEF HandshakeInv, Exchange, Answers
<1>5. ASSUME NEW status \in {200, 407}, NEW n \in BodyLens, ProxyHTTP(status, n)
      PROVE  HandshakeInv'
  <2>1. Quiet /\ pc = "response"
    BY <1>5, AskedAt DEF ProxyHTTP, Reply
  <2> DEFINE R == <<status, n>> \o Bytes(n)
  <2>2. Answers(R) /\ (status = 200 => accepted' /\ connected')
    BY <1>5 DEF ProxyHTTP, Reply, Answers
  <2>3. status \in Nat /\ R \in Seq(Nat)
    BY ResponseType
  <2>4. Shape(R)'
    <3> HIDE DEF R
    <3> QED BY <2>1, <2>2, <2>3, ShapeReply
  <2>5. HTTPAnswered'
    BY <2>2, <2>3, <2>4 DEF HTTPAnswered
  <2> HIDE DEF R
  <2> QED BY <2>1, <2>2, <2>5 DEF HandshakeInv, Exchange, Answers
<1> QED BY <1>2, <1>3, <1>4, <1>5 DEF ProxyAnswers

-----------------------------------------------------------------------------
(* A message that was read to its end: its bytes are known, and without a  *)
(* byte of the tunnel nothing follows it.                                  *)
LEMMA ReadAll ==
    ASSUME ShapeInv, NEW R \in Seq(Nat), Shape(R)
    PROVE  /\ \A i \in 1 .. Len(got) : i <= Len(R) => got[i] = R[i]
           /\ Len(got) >= Len(R) /\ tunnel = 0 => in = << >> /\ Len(got) = Len(R)
<1>0. in \in Seq(Nat) /\ got \in Seq(Nat) /\ tunnel \in Nat
  BY DEF ShapeInv, TypesOK
<1>1. Len(got) \in Nat /\ Len(in) \in Nat /\ Len(R) \in Nat
  BY <1>0
<1>2. \A i \in 1 .. Len(got) : i <= Len(R) => got[i] = R[i]
  BY DEF Shape, ByteAt
<1>3. ASSUME Len(got) >= Len(R), tunnel = 0
      PROVE  Len(in) = 0 /\ Len(got) = Len(R)
  BY <1>1, <1>3 DEF Shape
<1> QED BY <1>0, <1>2, <1>3

LEMMA MethodKeeps ==
    ASSUME ShapeInv, HandshakeInv, ReadMethod
    PROVE  HandshakeInv'
<1>1. pc = "method" /\ need = 0 /\ Exchange("greeting", MethodAnswered)
  BY DEF ReadMethod, HandshakeInv
<1>2. got \in Seq(Nat) /\ Len(got) = 2
  BY <1>1 DEF ShapeInv, TypesOK, GotInv
<1>3. asked = "none" /\ MethodAnswered
  BY <1>1, <1>2 DEF Exchange, Quiet
<1>4. PICK v, m \in Nat : Shape(<<v, m>>) /\ (v = 5 /\ m = 0 => accepted)
  BY <1>3 DEF MethodAnswered
<1>5. <<v, m>> \in Seq(Nat) /\ Len(<<v, m>>) = 2 /\ <<v, m>>[1] = v /\ <<v, m>>[2] = m
  OBVIOUS
<1>6. got[1] = v /\ got[2] = m /\ in = << >> /\ tunnel = 0 /\ ~connected
  <2>1. tunnel = 0 /\ ~connected
    BY <1>3 DEF MethodAnswered
  <2>2. \A i \in 1 .. 2 : i <= 2 => got[i] = <<v, m>>[i]
    BY <1>2, <1>4, <1>5, ReadAll
  <2>3. in = << >>
    <3>1. Len(got) >= Len(<<v, m>>)
      BY <1>2, <1>5
    <3> QED BY <1>4, <1>5, <2>1, <3>1, ReadAll
  <2> QED BY <1>5, <2>1, <2>2, <2>3
<1>7. CASE Fail
  BY <1>7 DEF Fail, HandshakeInv
<1>8. CASE got = <<5, 0>> /\ Expect("connect", 0)
  <2>1. accepted
    BY <1>4, <1>6, <1>8
  <2>2. /\ pc' = "connect" /\ accepted' /\ asked' = "none" /\ Quiet'
    BY <1>3, <1>6, <1>8, <2>1 DEF Expect, proxy, Quiet
  <2> QED BY <2>2 DEF HandshakeInv
<1>9. CASE Expect("auth", 0)
  <2>1. /\ pc' = "auth" /\ asked' = "none" /\ Quiet'
    BY <1>3, <1>6, <1>9 DEF Expect, proxy, Quiet
  <2> QED BY <2>1 DEF HandshakeInv
<1> QED BY <1>7, <1>8, <1>9 DEF ReadMethod

LEMMA StatusKeeps ==
    ASSUME ShapeInv, HandshakeInv, ReadStatus
    PROVE  HandshakeInv'
<1>1. pc = "status" /\ need = 0 /\ Exchange("auth", StatusAnswered)
  BY DEF ReadStatus, HandshakeInv
<1>2. got \in Seq(Nat) /\ Len(got) = 2
  BY <1>1 DEF ShapeInv, TypesOK, GotInv
<1>3. asked = "none" /\ StatusAnswered
  BY <1>1, <1>2 DEF Exchange, Quiet
<1>4. PICK v, s \in Nat : Shape(<<v, s>>) /\ (v = 1 /\ s = 0 => accepted)
  BY <1>3 DEF StatusAnswered
<1>5. <<v, s>> \in Seq(Nat) /\ Len(<<v, s>>) = 2 /\ <<v, s>>[1] = v /\ <<v, s>>[2] = s
  OBVIOUS
<1>6. got[1] = v /\ got[2] = s /\ in = << >> /\ tunnel = 0 /\ ~connected
  <2>1. tunnel = 0 /\ ~connected
    BY <1>3 DEF StatusAnswered
  <2>2. \A i \in 1 .. 2 : i <= 2 => got[i] = <<v, s>>[i]
    BY <1>2, <1>4, <1>5, ReadAll
  <2>3. in = << >>
    <3>1. Len(got) >= Len(<<v, s>>)
      BY <1>2, <1>5
    <3> QED BY <1>4, <1>5, <2>1, <3>1, ReadAll
  <2> QED BY <1>5, <2>1, <2>2, <2>3
<1>7. CASE Fail
  BY <1>7 DEF Fail, HandshakeInv
<1>8. CASE got = <<1, 0>> /\ Expect("connect", 0)
  <2>1. accepted
    BY <1>4, <1>6, <1>8
  <2>2. /\ pc' = "connect" /\ accepted' /\ asked' = "none" /\ Quiet'
    BY <1>3, <1>6, <1>8, <2>1 DEF Expect, proxy, Quiet
  <2> QED BY <2>2 DEF HandshakeInv
<1> QED BY <1>7, <1>8 DEF ReadStatus

(* The bytes of the bound address, by its type.                            *)
LEMMA AddressAt ==
    ASSUME NEW v \in Nat, NEW r \in Nat, NEW t \in Nat, NEW B \in Seq(Nat)
    PROVE  LET R == <<v, r, 0, t>> \o B
           IN  /\ R \in Seq(Nat) /\ Len(R) = 4 + Len(B)
               /\ R[1] = v /\ R[2] = r /\ R[4] = t
               /\ \A i \in 1 .. Len(B) : B[i] = R[4 + i]
OBVIOUS

LEMMA HeaderKeeps ==
    ASSUME ShapeInv, HandshakeInv, ReadHeader
    PROVE  HandshakeInv'
<1>1. pc = "header" /\ need = 0 /\ accepted /\ Exchange("connect", ConnectAnswered)
  BY DEF ReadHeader, HandshakeInv
<1>2. got \in Seq(Nat) /\ Len(got) = 4
  BY <1>1 DEF ShapeInv, TypesOK, GotInv
<1>3. asked = "none" /\ ConnectAnswered
  <2>1. got # << >>
    <3>1. Len(<< >>) = 0
      OBVIOUS
    <3>2. Len(got) = 4
      BY <1>2
    <3> QED BY <3>1, <3>2
  <2> QED BY <1>1, <2>1 DEF Exchange, Quiet
<1>4. PICK v, r, t \in Nat, n \in DomainLens :
          Shape(<<v, r, 0, t>> \o BoundAddress(t, n)) /\ (v = 5 /\ r = 0 => connected)
  BY <1>3 DEF ConnectAnswered
<1> DEFINE B == BoundAddress(t, n)
           R == <<v, r, 0, t>> \o B
<1>5. B \in Seq(Nat)
  BY BoundAddressType
<1>6. /\ R \in Seq(Nat) /\ Len(R) = 4 + Len(B)
      /\ R[1] = v /\ R[2] = r /\ R[4] = t
      /\ \A i \in 1 .. Len(B) : B[i] = R[4 + i]
  <2> HIDE DEF B
  <2> QED BY <1>5, AddressAt
<1>7. Shape(R)
  BY <1>4
<1>8. CASE Fail
  BY <1>8 DEF Fail, HandshakeInv
<1> HIDE DEF R
<1>9. got[1] = v /\ got[2] = r /\ got[4] = t
  <2> HIDE DEF B
  <2>1. Len(B) \in Nat
    BY <1>5
  <2>2. 1 <= Len(R) /\ 2 <= Len(R) /\ 4 <= Len(R)
    BY <1>6, <2>1
  <2>3. \A i \in 1 .. 4 : i <= Len(R) => got[i] = R[i]
    BY <1>2, <1>6, <1>7, ReadAll
  <2> QED BY <1>6, <2>2, <2>3
<1>10. ASSUME NEW next, NEW k \in Nat, Expect(next, k)
       PROVE  Shape(B)' /\ pc' = next /\ need' = k /\ got' = << >> /\ Len(got') = 0
                /\ asked' = "none" /\ accepted' /\ connected' = connected
  <2>1. /\ got' = << >> /\ Len(got') = 0 /\ UNCHANGED <<in, eof, tunnel>>
        /\ pc' = next /\ need' = k /\ asked' = "none" /\ accepted' /\ connected' = connected
    BY <1>1, <1>3, <1>10 DEF Expect, proxy
  <2> HIDE DEF B
  <2>2. Shape(B)'
    BY <1>2, <1>5, <1>6, <1>7, <2>1, ShapeShift
  <2> QED BY <2>1, <2>2
<1>11. ASSUME got[1] = 5, got[2] = 0, got[4] = 1, Expect("bound", 4 + 2)
       PROVE  HandshakeInv'
  <2>1. connected
    BY <1>4, <1>9, <1>11
  <2>2. B = Bytes(6)
    BY <1>9, <1>11 DEF BoundAddress
  <2>3. Shape(Bytes(6))' /\ pc' = "bound" /\ need' = 6 /\ Len(got') = 0 /\ asked' = "none"
          /\ accepted' /\ connected'
    <3>1. Expect("bound", 6)
      BY <1>11
    <3>2. Shape(B)' /\ pc' = "bound" /\ need' = 6 /\ Len(got') = 0 /\ asked' = "none"
            /\ accepted' /\ connected' = connected
      <4> HIDE DEF B
      <4> QED BY <1>10, <3>1
    <3> QED BY <2>1, <2>2, <3>2
  <2>4. Len(got') + need' = 6
    BY <2>3
  <2> QED BY <2>3, <2>4 DEF HandshakeInv
<1>12. ASSUME got[1] = 5, got[2] = 0, got[4] = 4, Expect("bound", 16 + 2)
       PROVE  HandshakeInv'
  <2>1. connected
    BY <1>4, <1>9, <1>12
  <2>2. B = Bytes(18)
    BY <1>9, <1>12 DEF BoundAddress
  <2>3. Shape(Bytes(18))' /\ pc' = "bound" /\ need' = 18 /\ Len(got') = 0 /\ asked' = "none"
          /\ accepted' /\ connected'
    <3>1. Expect("bound", 18)
      BY <1>12
    <3>2. Shape(B)' /\ pc' = "bound" /\ need' = 18 /\ Len(got') = 0 /\ asked' = "none"
            /\ accepted' /\ connected' = connected
      <4> HIDE DEF B
      <4> QED BY <1>10, <3>1
    <3> QED BY <2>1, <2>2, <3>2
  <2>4. Len(got') + need' = 18
    BY <2>3
  <2> QED BY <2>3, <2>4 DEF HandshakeInv
<1>13. ASSUME got[1] = 5, got[2] = 0, got[4] = 3, Expect("length", 1)
       PROVE  HandshakeInv'
  <2>1. connected
    BY <1>4, <1>9, <1>13
  <2>2. B = <<n>> \o Bytes(n + 2)
    BY <1>9, <1>13 DEF BoundAddress
  <2>3. Shape(<<n>> \o Bytes(n + 2))' /\ pc' = "length" /\ asked' = "none"
          /\ accepted' /\ connected'
    BY <1>10, <1>13, <2>1, <2>2
  <2>4. LengthComes'
    BY <2>3 DEF LengthComes
  <2> QED BY <2>3, <2>4 DEF HandshakeInv
<1> QED BY <1>8, <1>11, <1>12, <1>13 DEF ReadHeader

LEMMA LengthKeeps ==
    ASSUME ShapeInv, HandshakeInv, ReadLength
    PROVE  HandshakeInv'
<1>1. pc = "length" /\ need = 0 /\ accepted /\ connected /\ asked = "none" /\ LengthComes
  BY DEF ReadLength, HandshakeInv
<1>2. got \in Seq(Nat)
  BY DEF ShapeInv, TypesOK
<1>3. Len(got) = 1
  <2>1. Len(got) + need = 1 /\ Len(got) \in Nat
    BY <1>1, <1>2 DEF ShapeInv, GotInv
  <2> QED BY <1>1, <2>1
<1>4. PICK n \in DomainLens : Shape(<<n>> \o Bytes(n + 2))
  BY <1>1 DEF LengthComes
<1> DEFINE B == Bytes(n + 2)
<1>5. n \in Nat /\ n + 2 \in Nat /\ B \in Seq(Nat) /\ Len(B) = n + 2
  <2>1. n \in Nat
    BY LengthAnswerType
  <2>2. n + 2 \in Nat
    BY <2>1
  <2> QED BY <2>1, <2>2, BytesType
<1> HIDE DEF B
<1>6. /\ <<n>> \o B \in Seq(Nat) /\ Len(<<n>> \o B) = 1 + Len(B) /\ (<<n>> \o B)[1] = n
      /\ \A i \in 1 .. Len(B) : B[i] = (<<n>> \o B)[1 + i]
  BY <1>5
<1>7. got[1] = n
  <2>1. 1 <= Len(<<n>> \o B)
    BY <1>5, <1>6
  <2>2. \A i \in 1 .. 1 : i <= Len(<<n>> \o B) => got[i] = (<<n>> \o B)[i]
    BY <1>3, <1>4, <1>6, ReadAll DEF B
  <2> QED BY <1>6, <2>1, <2>2
<1>8. /\ pc' = "bound" /\ need' = n + 2 /\ got' = << >> /\ Len(got') = 0 /\ asked' = "none"
      /\ accepted' /\ connected' /\ UNCHANGED <<in, eof, tunnel>>
  BY <1>1, <1>7 DEF ReadLength, Expect, proxy
<1>9. Shape(B)'
  BY <1>3, <1>4, <1>5, <1>6, <1>8, ShapeShift DEF B
<1>10. Len(got') + need' = n + 2
  BY <1>5, <1>8
<1> QED BY <1>8, <1>9, <1>10 DEF HandshakeInv, B

LEMMA BoundKeeps ==
    ASSUME ShapeInv, HandshakeInv, ReadBound
    PROVE  HandshakeInv'
<1>1. pc = "bound" /\ need = 0 /\ accepted /\ connected /\ asked = "none"
        /\ Shape(Bytes(Len(got) + need)) /\ kind = "socks5"
  BY DEF ReadBound, HandshakeInv, ShapeInv, KindInv
<1>2. got \in Seq(Nat) /\ Len(got) \in Nat /\ Len(got) + need = Len(got)
  BY <1>1 DEF ShapeInv, TypesOK
<1> DEFINE R == Bytes(Len(got))
<1>3. R \in Seq(Nat) /\ Len(R) = Len(got) + 0 /\ Shape(R)
  BY <1>1, <1>2, BytesType
<1> HIDE DEF R
<1>4. << >> \in Seq(Nat) /\ Len(<< >>) = 0
  OBVIOUS
<1>5. pc' = "returned" /\ got' = << >> /\ asked' = "none" /\ accepted' /\ connected'
        /\ kind' = "socks5" /\ UNCHANGED <<in, eof, tunnel>>
  BY <1>1 DEF ReadBound, Expect, proxy
<1>6. Shape(<< >>)'
  <2>1. Len(R) = Len(got) + Len(<< >>) /\ \A i \in 1 .. Len(<< >>) : << >>[i] = R[Len(got) + i]
    BY <1>3, <1>4
  <2> QED BY <1>3, <1>4, <1>5, <2>1, ShapeShift
<1> QED BY <1>5, <1>6 DEF HandshakeInv

LEMMA HTTPStatusKeeps ==
    ASSUME ShapeInv, HandshakeInv, HTTPStatus
    PROVE  HandshakeInv'
<1>1. pc = "response" /\ kind = "http" /\ Exchange("connect", HTTPAnswered)
        /\ (~early => tunnel = 0)
  BY DEF HTTPStatus, HandshakeInv, ShapeInv, KindInv
<1>2. in \in Seq(Nat) /\ got \in Seq(Nat) /\ Len(got) \in Nat
  BY DEF ShapeInv, TypesOK
<1>3. Len(got) >= 2 /\ got # << >>
  BY <1>2 DEF HTTPStatus
<1>5. asked = "none" /\ HTTPAnswered
  BY <1>1, <1>3 DEF Exchange, Quiet
<1>6. PICK status \in Nat, n \in BodyLens :
          Shape(<<status, n>> \o Bytes(n)) /\ (status = 200 => accepted /\ connected)
  BY <1>5 DEF HTTPAnswered
<1> DEFINE R == <<status, n>> \o Bytes(n)
<1>7. R \in Seq(Nat) /\ Len(R) = 2 + n /\ R[1] = status /\ R[2] = n /\ n \in Nat
  BY ResponseType, DialerAssumption
<1>8. Shape(R)
  BY <1>6
<1> HIDE DEF R
<1>9. got[1] = status /\ got[2] = n
  <2>1. 1 \in 1 .. Len(got) /\ 1 <= Len(R) /\ 2 \in 1 .. Len(got) /\ 2 <= Len(R)
    BY <1>2, <1>3, <1>7
  <2> QED BY <1>7, <1>8, <2>1, ReadAll
<1>10. CASE Fail
  BY <1>10 DEF Fail, HandshakeInv
<1>11. CASE got[1] = 200 /\ (Len(got) >= 2 + got[2] \/ AtEnd) /\ Expect("returned", 0)
  <2>1. accepted /\ connected
    BY <1>6, <1>9, <1>11
  <2>2. pc' = "returned" /\ got' = << >> /\ asked' = "none" /\ accepted' /\ connected'
          /\ kind' = "http" /\ UNCHANGED <<in, eof, tunnel, early>>
    BY <1>1, <1>5, <1>11, <2>1 DEF Expect, proxy
  <2>3. CASE early
    BY <2>2, <2>3 DEF HandshakeInv
  <2>4. CASE ~early
    <3>1. tunnel = 0
      BY <1>1, <2>4
    <3>2. in = << >>
      <4>1. CASE AtEnd
        BY <4>1 DEF AtEnd
      <4>2. CASE Len(got) >= 2 + got[2]
        <5>1. Len(got) >= Len(R)
          BY <1>7, <1>9, <4>2
        <5> QED BY <1>7, <1>8, <3>1, <5>1, ReadAll
      <4> QED BY <1>11, <4>1, <4>2
    <3>3. Shape(<< >>)'
      BY <2>2, <3>1, <3>2 DEF Shape
    <3> QED BY <2>2, <3>3 DEF HandshakeInv
  <2> QED BY <2>3, <2>4
<1> QED BY <1>10, <1>11 DEF HTTPStatus

LEMMA WriteKeeps ==
    ASSUME ShapeInv, HandshakeInv, NEW m, NEW next, NEW n, Write(m, next, n),
           pc \in {"greeting", "auth", "connect"},
           \/ next = "method" /\ m = "greeting"
           \/ next = "status" /\ m = "auth"
           \/ next = "header" /\ m = "connect" /\ pc = "connect" /\ kind = "socks5"
           \/ next = "response" /\ m = "connect"
           \/ next = "returned" /\ m = "connect" /\ kind = "ss"
    PROVE  HandshakeInv'
<1>1. Quiet /\ (pc = "connect" /\ kind = "socks5" => accepted)
  BY DEF HandshakeInv
<1>2. /\ pc' = next /\ asked' = m /\ got' = << >>
      /\ UNCHANGED <<kind, in, eof, accepted, connected, tunnel, early>>
  BY DEF Write
<1>3. Quiet'
  BY <1>1, <1>2 DEF Quiet
<1>4. in' = << >> /\ tunnel' = 0
  BY <1>1, <1>2 DEF Quiet
<1>5. Shape(<< >>)'
  BY <1>2, <1>4 DEF Shape
<1> QED BY <1>1, <1>2, <1>3, <1>4, <1>5 DEF HandshakeInv, Exchange

LEMMA HandshakeHolds == Spec => []HandshakeInv
<1>1. Init => HandshakeInv
  BY DEF Init, HandshakeInv, Quiet
<1>2. ShapeInv /\ HandshakeInv /\ [Next]_vars => HandshakeInv'
  <2> SUFFICES ASSUME ShapeInv, HandshakeInv, [Next]_vars
               PROVE  HandshakeInv'
    OBVIOUS
  <2>1. CASE UNCHANGED vars
    BY <2>1, StreamSteps, StreamKeeps
  <2>2. CASE DialOK
    <3>1. pc' \in {"greeting", "connect"} /\ (pc' = "connect" => kind # "socks5")
      BY <2>2, DialerAssumption DEF DialOK, ShapeInv, TypesOK
    <3>2. Quiet' /\ asked' = "none" /\ kind' = kind
      BY <2>2 DEF DialOK, HandshakeInv, Quiet, proxy
    <3> QED BY <3>1, <3>2 DEF HandshakeInv
  <2>3. CASE DialFails
    BY <2>3 DEF DialFails, HandshakeInv
  <2>4. CASE SendGreeting \/ SendAuth \/ SendConnect \/ SendHTTPConnect \/ SendTarget
    BY <2>4, WriteKeeps DEF SendGreeting, SendAuth, SendConnect, SendHTTPConnect, SendTarget
  <2>5. CASE WriteFails \/ ReadFails \/ HTTPReadFails
    BY <2>5 DEF WriteFails, ReadFails, HTTPReadFails, Fail, HandshakeInv
  <2>6. CASE \E n \in 1 .. Len(in) : Read(n) \/ HTTPRead(n)
    BY <2>6, StreamSteps, StreamKeeps
  <2>7. CASE TargetSpeaks \/ Close
    BY <2>7, StreamSteps, StreamKeeps
  <2> QED BY <2>1, <2>2, <2>3, <2>4, <2>5, <2>6, <2>7, AnswersKeep, MethodKeeps, StatusKeeps,
             HeaderKeeps, LengthKeeps, BoundKeeps, HTTPStatusKeeps DEF Next, Client
<1> QED BY <1>1, <1>2, InitTypes, NextTypes, PTL DEF Spec

(* A SOCKS5 or HTTP proxy through which DialContext returned a connection  *)
(* let the client in and confirmed the connection to the target: the       *)
(* checks of socks5Handshake, authenticate, readConnectResponse and the    *)
(* HTTP dialer leave no way round them, whatever the proxy sends and       *)
(* however its bytes arrive.                                               *)
THEOREM ConnectionsAreConfirmed == Spec => []TunnelConfirmed
<1>1. HandshakeInv => TunnelConfirmed
  BY DEF HandshakeInv, TunnelConfirmed
<1> QED BY <1>1, HandshakeHolds, PTL

(* When DialContext returns a connection, the handshake has been read from *)
(* it to its last byte and nothing of the tunnel with it, for a domain     *)
(* name of any length and however the reads were cut.                      *)
THEOREM TunnelsAreIntact == Spec => []TunnelIntact
<1>1. Spec => []ShapeInv
  BY InitTypes, NextTypes, PTL DEF Spec
<1>2. ShapeInv /\ HandshakeInv => TunnelIntact
  <2> SUFFICES ASSUME ShapeInv, HandshakeInv, pc = "returned", ~(kind = "http" /\ early)
               PROVE  /\ \A i \in DOMAIN in : in[i] = TunnelByte
                      /\ Len(in) = tunnel \/ eof
    BY DEF TunnelIntact
  <2>1. in \in Seq(Nat) /\ tunnel \in Nat /\ Len(in) \in Nat /\ DOMAIN in = 1 .. Len(in)
    BY DEF ShapeInv, TypesOK
  <2>2. got = << >> /\ Shape(<< >>) /\ Len(<< >>) = 0
    BY DEF HandshakeInv
  <2>3. ASSUME NEW i \in 1 .. Len(in)
        PROVE  in[i] = TunnelByte
    <3>1. i \in Nat /\ i > 0
      BY <2>1
    <3>2. in[i] = ByteAt(<< >>, 0 + i)
      BY <2>2 DEF Shape
    <3>3. ~(0 + i <= 0)
      BY <3>1
    <3> QED BY <2>2, <3>2, <3>3 DEF ByteAt
  <2>4. ~eof => Len(in) = tunnel
    <3>1. ~eof => 0 + Len(in) = 0 + tunnel
      BY <2>2 DEF Shape
    <3>2. 0 + Len(in) = Len(in) /\ 0 + tunnel = tunnel
      BY <2>1
    <3> QED BY <3>1, <3>2
  <2> QED BY <2>1, <2>3, <2>4
<1> QED BY <1>1, <1>2, HandshakeHolds, PTL

=============================================================================
