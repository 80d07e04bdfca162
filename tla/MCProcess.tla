----------------------------- MODULE MCProcess -----------------------------
(* An instance of Process: a1 and a2 are two ports of one host, c has a    *)
(* host name.                                                              *)
EXTENDS Process, TLC

CONSTANTS a1, a2, b, c, ip1, ip2

MCAddr == {a1, a2, b, c}
MCIP == {ip1, ip2}
MCIPOf == a1 :> ip1 @@ a2 :> ip1 @@ b :> ip2 @@ c :> NoIP

MCModes == {"auto", "custom", "fallback-proxy", "direct"}
MCUser == {[type |-> "ss", addr |-> a2], [type |-> "socks5", addr |-> c],
           [type |-> "ss", addr |-> c], [type |-> "invalid", addr |-> b]}
MCFetches == {{a1, b}}

=============================================================================
