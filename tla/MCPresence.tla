----------------------------- MODULE MCPresence -----------------------------
(* Presence on small sets, with relay-only gateways. *)
EXTENDS Presence

CONSTANTS lan, port

MCHost == {lan}
MCPort == {port}
MCHostClass == (lan :> "private")

RelayProfiles == {gateway_reachability(lan, port, "relay_only", None)}
=============================================================================
