------------------------------- MODULE MCHub -------------------------------
(***************************************************************************)
(* Hub on small sets.  A peer registers as relay-only or with a public     *)
(* address, so that connect finds a direct path for some pairs only.       *)
(***************************************************************************)
EXTENDS Hub

CONSTANTS lan, public, port

MCHost == {lan, public}
MCPort == {port}
MCHostClass == (lan :> "private") @@ (public :> "public")

RelayOnlyProfile == gateway_reachability(lan, port, "relay_only", None)
PublicProfile == gateway_reachability(public, port, "auto", None)

MixedProfiles == {RelayOnlyProfile, PublicProfile}
SeenPublic == {public}

ClientSymmetry == Permutations(Peer) \cup Permutations(Message)
                    \cup Permutations(Session)
=============================================================================
