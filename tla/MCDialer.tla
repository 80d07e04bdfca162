------------------------------ MODULE MCDialer ------------------------------
(* All three dialers; the shortest domain names and one that is longer;   *)
(* a response with a body and one without.                                 *)
EXTENDS Dialer

MCKinds == {"socks5", "http", "ss"}
MCLens == {0, 1, 3}
MCBodies == {0, 2}

=============================================================================
