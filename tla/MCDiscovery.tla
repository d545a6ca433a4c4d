----------------------------- MODULE MCDiscovery -----------------------------
(***************************************************************************)
(* A gateway behind NATs that keep its port or do not, on two sockets.     *)
(***************************************************************************)
EXTENDS Discovery

CONSTANTS lan, ip1, ip2, p1, p2

MCHost == {lan, ip1, ip2}
MCPort == {p1, p2}
MCHostClass == (lan :> "private") @@ [h \in {ip1, ip2} |-> "public"]
MCSeen == {<<ip1, p1>>, <<ip1, p2>>, <<ip2, p1>>}
=============================================================================
