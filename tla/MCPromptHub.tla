---------------------------- MODULE MCPromptHub ----------------------------
(* PromptHub on small sets, with relay-only peers. *)
EXTENDS PromptHub

CONSTANTS lan, port

MCHost == {lan}
MCPort == {port}
MCHostClass == (lan :> "private")

RelayProfiles == {gateway_reachability(lan, port, "relay_only", None)}
=============================================================================
