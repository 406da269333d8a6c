--------------------------- MODULE MCUdpTransport ---------------------------
(* A small instance of UdpTransport: a player a at home, behind a router,  *)
(* a relay host r, and a player b on the relay host's LAN.                 *)
EXTENDS UdpTransport, TLC

CONSTANTS a, b, r, ea, eb, er, ea2, key

MCNodes == {a, b, r}
MCEndpoints == {ea, eb, er, ea2}
MCHome == (a :> ea) @@ (b :> eb) @@ (r :> er)
MCRemote == (a :> {}) @@ (b :> {}) @@ (r :> {})
MCSecret == (a :> None) @@ (b :> key) @@ (r :> None)
MCPassword == (b :> None) @@ (r :> key)
=============================================================================
