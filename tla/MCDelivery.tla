----------------------------- MODULE MCDelivery -----------------------------
(***************************************************************************)
(* Gateways of each communication mode send one message each to one more   *)
(* gateway, which offers an address that the auto gateway answers at too.  *)
(***************************************************************************)
EXTENDS Delivery, TLC

CONSTANTS auto, direct, relay, receiver, m1, m2, m3

MCSender == [m \in Message |-> CASE m = m1 -> auto [] m = m2 -> direct [] OTHER -> relay]
MCTarget == [p \in Peer |-> IF p = receiver THEN auto ELSE receiver]
MCMode == [p \in Peer |-> CASE p = direct -> "direct" [] p = relay -> "relay_only"
                            [] OTHER -> "auto"]

MCListeners == [p \in Peer |-> {p, auto}]

SessionSymmetry == Permutations(Session)
=============================================================================
