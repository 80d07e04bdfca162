------------------------------- MODULE Dialer -------------------------------
(***************************************************************************)
(* One DialContext call of a SOCKSDialer, an HTTPDialer or an SSDialer     *)
(* (sspool/socks5_dialer.go, http_dialer.go, dialer.go) and the proxy at   *)
(* the other end.  The stream from the proxy is a sequence of bytes; a     *)
(* byte of the tunnel is told apart from the proxy's own, and a read may   *)
(* return fewer bytes than were asked for.                                 *)
(*                                                                         *)
(* The proxy is external: it answers what it likes, and may stop at any    *)
(* time, with bytes on the way lost, whether or not it hangs up.           *)
(***************************************************************************)
EXTENDS Integers, Sequences

CONSTANTS
    Kinds,             \* the dialers of this instance: socks5, http, ss
    DomainLens,        \* lengths of a domain name as bound address
    BodyLens,          \* lengths of the body of an HTTP response
    MaxTunnel          \* bound on the bytes of the tunnel

ASSUME DialerAssumption ==
    /\ Kinds \subseteq {"socks5", "http", "ss"}
    /\ DomainLens \subseteq 0 .. 255
    /\ BodyLens \subseteq Nat
    /\ MaxTunnel \in Nat

VARIABLES
    kind,
    creds,         \* username and password: none, fit or long (over 255)
    pc,            \* of DialContext
    conn,          \* none, open or closed
    in, eof,       \* what the proxy sent and was not read; it sends no more
    silent,        \* and has not hung up
    need, got,     \* of readFull: bytes to come, bytes read
    asked,         \* the message the proxy has to answer, or none
    accepted,      \* the proxy lets the client in
    connected,     \* the proxy has confirmed the connection
    tunnel,        \* bytes the target sent
    early          \* history: the target spoke before DialContext returned

proxy == <<silent, asked, accepted, connected, tunnel, early>>
vars == <<kind, creds, pc, conn, in, eof, need, got, proxy>>

TunnelByte == 256
Filler == 0
Bytes(n) == [i \in 1 .. n |-> Filler]

Init ==
    /\ kind \in Kinds
    /\ creds \in {"none", "fit", "long"}
    /\ pc = "dial" /\ conn = "none"
    /\ in = << >> /\ eof = FALSE /\ silent = FALSE
    /\ need = 0 /\ got = << >>
    /\ asked = "none" /\ accepted = FALSE /\ connected = FALSE
    /\ tunnel = 0 /\ early = FALSE

-----------------------------------------------------------------------------
(* DialContext returns an error; the connection is closed.                 *)
Fail ==
    /\ pc' = "failed"
    /\ conn' = "closed"
    /\ UNCHANGED <<kind, creds, in, eof, need, got, proxy>>

DialFails ==
    /\ pc = "dial"
    /\ pc' = "failed"
    /\ UNCHANGED <<kind, creds, conn, in, eof, need, got, proxy>>

DialOK ==
    /\ pc = "dial"
    /\ conn' = "open"
    /\ pc' = [socks5 |-> "greeting", http |-> "connect", ss |-> "connect"][kind]
    /\ UNCHANGED <<kind, creds, in, eof, need, got, proxy>>

(* The client writes m and then wants n bytes.                             *)
Write(m, next, n) ==
    /\ asked' = m
    /\ pc' = next
    /\ need' = n /\ got' = << >>
    /\ UNCHANGED <<kind, creds, conn, in, eof, silent, accepted, connected, tunnel, early>>

(* A write that fails, a target address that cannot be sent (invalid, or a *)
(* domain name over 255 bytes), a username or password over 255 bytes.     *)
WriteFails ==
    /\ pc \in {"greeting", "auth", "connect"}
    /\ Fail

SendGreeting ==
    /\ pc = "greeting"
    /\ Write("greeting", "method", 2)

SendAuth ==
    /\ pc = "auth" /\ creds # "long"
    /\ Write("auth", "status", 2)

SendConnect ==
    /\ pc = "connect" /\ kind = "socks5"
    /\ Write("connect", "header", 4)

(* The HTTP dialer reads through a buffer, so it does not say how much.    *)
SendHTTPConnect ==
    /\ pc = "connect" /\ kind = "http"
    /\ Write("connect", "response", 0)

(* Shadowsocks: the address is written, no answer is awaited.              *)
SendTarget ==
    /\ pc = "connect" /\ kind = "ss"
    /\ Write("connect", "returned", 0)

-----------------------------------------------------------------------------
(* Mutant of Read: the buffer is not cut to what is still to come.         *)
ReadTooMuch(n) ==
    /\ pc \in {"method", "status", "header", "length", "bound"}
    /\ need > 0 /\ n <= Len(in)
    /\ got' = got \o SubSeq(in, 1, n)
    /\ in' = SubSeq(in, n + 1, Len(in))
    /\ need' = need - n
    /\ UNCHANGED <<kind, creds, pc, conn, eof, proxy>>

(* readFull: conn.Read returns n of the bytes that are there.              *)
Read(n) ==
    /\ pc \in {"method", "status", "header", "length", "bound"}
    /\ need > 0 /\ n <= need /\ n <= Len(in)
    /\ got' = got \o SubSeq(in, 1, n)
    /\ in' = SubSeq(in, n + 1, Len(in))
    /\ need' = need - n
    /\ UNCHANGED <<kind, creds, pc, conn, eof, proxy>>

(* The next readFull.                                                      *)
Expect(next, n) ==
    /\ pc' = next
    /\ need' = n /\ got' = << >>
    /\ UNCHANGED <<kind, creds, conn, in, eof, proxy>>

(* The method the proxy chose; it may choose a password that was not       *)
(* offered, and gets an empty one.                                         *)
ReadMethod ==
    /\ pc = "method" /\ need = 0
    /\ \/ got = <<5, 0>> /\ Expect("connect", 0)
       \/ got = <<5, 2>> /\ Expect("auth", 0)
       \/ got \notin {<<5, 0>>, <<5, 2>>} /\ Fail

(* Mutant of ReadStatus: only the version is looked at.                    *)
ReadStatusUnchecked ==
    /\ pc = "status" /\ need = 0
    /\ \/ got[1] = 1 /\ Expect("connect", 0)
       \/ got[1] # 1 /\ Fail

ReadStatus ==
    /\ pc = "status" /\ need = 0
    /\ \/ got = <<1, 0>> /\ Expect("connect", 0)
       \/ got # <<1, 0>> /\ Fail

(* Version, reply, reserved, type of the bound address.                    *)
ReadHeader ==
    /\ pc = "header" /\ need = 0
    /\ \/ got[1] = 5 /\ got[2] = 0 /\ got[4] = 1 /\ Expect("bound", 4 + 2)
       \/ got[1] = 5 /\ got[2] = 0 /\ got[4] = 3 /\ Expect("length", 1)
       \/ got[1] = 5 /\ got[2] = 0 /\ got[4] = 4 /\ Expect("bound", 16 + 2)
       \/ (got[1] # 5 \/ got[2] # 0 \/ got[4] \notin {1, 3, 4}) /\ Fail

(* Mutant of ReadLength: the port is forgotten.                            *)
ReadLengthNoPort ==
    /\ pc = "length" /\ need = 0
    /\ Expect("bound", got[1])

ReadLength ==
    /\ pc = "length" /\ need = 0
    /\ Expect("bound", got[1] + 2)

ReadBound ==
    /\ pc = "bound" /\ need = 0
    /\ Expect("returned", 0)

(* A read gets the end of the connection, not only no bytes.               *)
AtEnd == eof /\ ~silent /\ in = << >>

(* Mutant of ReadFails: the loop only counts bytes.                        *)
ReadFailsSpins ==
    /\ pc \in {"method", "status", "header", "length", "bound"}
    /\ need > 0 /\ AtEnd
    /\ UNCHANGED vars

(* The connection is at its end before the message is.                     *)
ReadFails ==
    /\ pc \in {"method", "status", "header", "length", "bound"}
    /\ need > 0 /\ AtEnd
    /\ Fail

-----------------------------------------------------------------------------
(* http.ReadResponse through a bufio.Reader, which takes whatever is       *)
(* there.  A response is its status, the length it gives for its body, and *)
(* the body; the deferred resp.Body.Close() reads that of a 200 to its     *)
(* end, while an error closes the connection first.                        *)
HTTPRead(n) ==
    /\ pc = "response"
    /\ n <= Len(in)
    /\ Len(got) >= 2 => got[1] = 200 /\ Len(got) < 2 + got[2]
    /\ got' = got \o SubSeq(in, 1, n)
    /\ in' = SubSeq(in, n + 1, Len(in))
    /\ UNCHANGED <<kind, creds, pc, conn, eof, need, proxy>>

(* Mutant of HTTPStatus: an error leaves the connection open.              *)
HTTPStatusLeaks ==
    /\ pc = "response" /\ Len(got) >= 2
    /\ \/ got[1] = 200 /\ (Len(got) >= 2 + got[2] \/ AtEnd) /\ Expect("returned", 0)
       \/ got[1] # 200 /\ Expect("failed", 0)

(* What Body.Close() returns is not looked at.                             *)
HTTPStatus ==
    /\ pc = "response" /\ Len(got) >= 2
    /\ \/ got[1] = 200 /\ (Len(got) >= 2 + got[2] \/ AtEnd) /\ Expect("returned", 0)
       \/ got[1] # 200 /\ Fail

HTTPReadFails ==
    /\ pc = "response" /\ Len(got) < 2 /\ AtEnd
    /\ Fail

-----------------------------------------------------------------------------
(* The proxy.                                                              *)

Reply(m, bytes, lets, connects) ==
    /\ asked = m /\ ~eof
    /\ asked' = "none"
    /\ in' = in \o bytes
    /\ accepted' = (accepted \/ lets)
    /\ connected' = (connected \/ connects)
    /\ UNCHANGED <<kind, creds, pc, conn, eof, silent, need, got, tunnel, early>>

ProxyMethod(v, m) == Reply("greeting", <<v, m>>, v = 5 /\ m = 0, FALSE)

ProxyStatus(v, s) == Reply("auth", <<v, s>>, v = 1 /\ s = 0, FALSE)

(* A bound address of type t; n is the length of a domain name.            *)
BoundAddress(t, n) ==
    CASE t = 1 -> Bytes(4 + 2)
      [] t = 3 -> <<n>> \o Bytes(n + 2)
      [] t = 4 -> Bytes(16 + 2)
      [] OTHER -> << >>

ProxyConnect(v, r, t, n) ==
    /\ kind = "socks5"
    /\ Reply("connect", <<v, r, 0, t>> \o BoundAddress(t, n), FALSE, v = 5 /\ r = 0)

ProxyHTTP(status, n) ==
    /\ kind = "http"
    /\ Reply("connect", <<status, n>> \o Bytes(n), status = 200, status = 200)

(* The target, once it is reached, may speak at any time.                  *)
TargetSpeaks ==
    /\ connected /\ ~eof /\ tunnel < MaxTunnel
    /\ in' = Append(in, TunnelByte)
    /\ tunnel' = tunnel + 1
    /\ early' = (early \/ pc # "returned")
    /\ UNCHANGED <<kind, creds, pc, conn, eof, silent, need, got, asked, accepted, connected>>

(* The proxy sends no more, in the middle of an answer perhaps: only the   *)
(* first k bytes on the way arrive.  It hangs up or it stays.              *)
ProxyStops(k, hangsUp) ==
    /\ conn # "none" /\ ~eof
    /\ eof' = TRUE /\ silent' = ~hangsUp
    /\ in' = SubSeq(in, 1, k)
    /\ UNCHANGED <<kind, creds, pc, conn, need, got, asked, accepted, connected, tunnel, early>>

ProxyHangsUp ==
    /\ silent
    /\ silent' = FALSE
    /\ UNCHANGED <<kind, creds, pc, conn, in, eof, need, got, asked, accepted, connected, tunnel,
                   early>>

-----------------------------------------------------------------------------
ProxyAnswers ==
    \/ \E v \in {5, 4}, m \in {0, 1, 2, 255} : ProxyMethod(v, m)
    \/ \E v \in {1, 5}, s \in {0, 1} : ProxyStatus(v, s)
    \/ \E v \in {5, 4}, r \in {0, 1}, t \in {1, 3, 4, 0}, n \in DomainLens :
          ProxyConnect(v, r, t, n)
    \/ \E status \in {200, 407}, n \in BodyLens : ProxyHTTP(status, n)

Close == ProxyHangsUp \/ \E k \in 0 .. Len(in), hangsUp \in BOOLEAN : ProxyStops(k, hangsUp)

Client ==
    \/ DialOK \/ DialFails
    \/ SendGreeting \/ SendAuth \/ SendConnect \/ SendHTTPConnect \/ SendTarget
    \/ WriteFails
    \/ \E n \in 1 .. Len(in) : Read(n) \/ HTTPRead(n)
    \/ ReadMethod \/ ReadStatus \/ ReadHeader \/ ReadLength \/ ReadBound
    \/ ReadFails \/ HTTPStatus \/ HTTPReadFails

Next == Client \/ ProxyAnswers \/ TargetSpeaks \/ Close

Spec == Init /\ [][Next]_vars

(***************************************************************************)
(* DialContext runs.  Nothing is assumed of the proxy.                     *)
(***************************************************************************)
FairSpec == Spec /\ WF_vars(Client)

-----------------------------------------------------------------------------
TypeOK ==
    /\ kind \in Kinds /\ creds \in {"none", "fit", "long"}
    /\ pc \in {"dial", "greeting", "method", "auth", "status", "connect", "header",
               "length", "bound", "response", "returned", "failed"}
    /\ conn \in {"none", "open", "closed"}
    /\ in \in Seq(Nat) /\ got \in Seq(Nat)
    /\ need \in Nat /\ tunnel \in 0 .. MaxTunnel
    /\ asked \in {"none", "greeting", "auth", "connect"}
    /\ {eof, silent, accepted, connected, early} \subseteq BOOLEAN

(* readFull and the lengths of readConnectResponse: when DialContext       *)
(* returns a connection, the proxy's bytes have been read from it to the   *)
(* last one and none of the tunnel's, however the reads were cut.  With an *)
(* HTTP proxy this takes a target that waits for the client (TLS does):    *)
(* http_dialer.go:86 "The buffered reader may have consumed some data, but *)
(* since we're doing a CONNECT, there shouldn't be any body data".         *)
TunnelIntact ==
    pc = "returned" /\ ~(kind = "http" /\ early) =>
        /\ \A i \in DOMAIN in : in[i] = TunnelByte
        /\ Len(in) = tunnel \/ eof

(* A SOCKS5 or HTTP proxy that returned a connection has let the client in *)
(* and has confirmed the connection to the target.                         *)
TunnelConfirmed ==
    pc = "returned" /\ kind # "ss" => accepted /\ connected

(* No error path leaks the connection, and a connection that is returned   *)
(* is open.                                                                *)
NoLeak ==
    /\ pc = "failed" => conn # "open"
    /\ pc = "returned" => conn = "open"

(* The proxy owes the client bytes: it has not answered yet, or stopped in *)
(* its answer, and is still connected.                                     *)
Owing == silent \/ (asked # "none" /\ ~eof)

(* Nothing but a proxy that stays connected and owes bytes for ever keeps  *)
(* DialContext from returning (no deadline is set for the handshake): not  *)
(* a malformed answer, and not a short one once the proxy hangs up.        *)
DialEnds == <>(pc \in {"returned", "failed"}) \/ <>[]Owing

=============================================================================
