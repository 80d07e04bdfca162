--------------------------- MODULE MCChatServer ---------------------------
(* Instances of ChatServer: values for the constants the runs choose from. *)
EXTENDS ChatServer, TLC

CONSTANTS q1, q2, q3, a, b, c, ip1, ip2, ip3, sa, sa2, sb

OneRequest == {q1}
TwoRequests == {q1, q2}
ThreeRequests == {q1, q2, q3}
Symmetric == Permutations(ThreeRequests)

TwoAddr == {a, b}
ThreeAddr == {a, b, c}
IPs == {ip1, ip2, ip3}

(* One IP each; c has a host name.                                         *)
TwoIPs == a :> ip1 @@ b :> ip2
NamedHost == a :> ip1 @@ b :> ip2 @@ c :> NoIP

(* sa and sa2 are two configurations of one host:port.                     *)
Servers == {sa, sa2, sb}
Ports == sa :> a @@ sa2 :> a @@ sb :> b
Supported == {sa, sb}

Nothing == << >>
PoolA == <<sa>>
PoolAB == <<sa, sb>>
RouterC == <<c>>

NoFetches == {}
FetchA2 == {<<sa2>>, << >>}

R(s, bl, k) == [status |-> s, block |-> bl, kind |-> k, long |-> bl = "late"]

OK == R(200, "none", "sse")
Refusals == {R(401, "none", "json"), R(403, "early", "json"), R(429, "none", "json")}

(* Every status, every place of the block, every kind of body.             *)
AllResponses ==
    Refusals \cup {R(200, bl, k) : bl \in Blocks, k \in Kinds}
             \cup {[R(200, "none", k) EXCEPT !.long = TRUE] : k \in Kinds}

Unauthorized == {R(401, "none", "json"), OK}
RateLimited == {R(429, "none", "json"), OK}
BlockedEarly == {R(200, "early", "json"), OK}
Mixed == {R(200, "early", "json"), R(429, "none", "json"), R(403, "none", "json"), OK}

=============================================================================
