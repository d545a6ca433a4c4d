------------------------------ MODULE Decision ------------------------------
(***************************************************************************)
(* The decision ServerStateModel::connect takes for two peers that are     *)
(* online: a direct path, with the addresses to try, or a relay session,   *)
(* with the reason.  A peer is what it registered and where the hub saw    *)
(* the registration come from.  Gateways register what gateway.rs makes of *)
(* their configuration; other clients of the HTTP API whatever they like.  *)
(***************************************************************************)
EXTENDS Reachability, FiniteSets

CONSTANTS
    Source,     \* the peers that ask to be connected
    Target      \* the peers they ask for

Gateway(host, port, mode, probes, seen) ==
    [kind |-> "gateway", seen |-> seen,
     registered |-> gateway_reachability(host, port, mode, probes)]

Observation == Host \X Port

\* What any gateway can be, and what another client can have registered.
Gateways ==
    {Gateway(host, port, mode, probes, seen) :
        host \in Host, port \in Port, mode \in {"auto", "direct", "relay_only"},
        probes \in {None} \cup (Observation \X Observation), seen \in Host}
Others == [kind : {"other"}, seen : Host, registered : PeerReachability]

ASSUME DecisionAssumption ==
    /\ Source \cup Target \subseteq Gateways \cup Others
    /\ None \notin Seq(Address)

VARIABLES source, target, prefer_direct, decision

decisionVars == <<source, target, prefer_direct, decision>>

Online(peer) == apply_observed_reachability(peer.registered, peer.seen)

connect(s, t, direct) ==
    LET chosen == IF direct THEN select_direct_candidates(s, t) ELSE None
    IN  IF chosen # None
        THEN [candidates |-> chosen, reason |-> None]
        ELSE [candidates |-> None, reason |-> relay_decision_reason(s, t, direct)]

Undecided == [candidates |-> None, reason |-> None]

DecisionInit ==
    /\ source \in Source /\ target \in Target
    /\ prefer_direct \in BOOLEAN
    /\ decision = Undecided

Decide ==
    /\ decision = Undecided
    /\ decision' = connect(Online(source), Online(target), prefer_direct)
    /\ UNCHANGED <<source, target, prefer_direct>>

DecisionSpec == DecisionInit /\ [][Decide]_decisionVars
-----------------------------------------------------------------------------
(* Properties.                                                             *)

Direct == decision # Undecided /\ decision.candidates # None
Relayed == decision # Undecided /\ decision.candidates = None

\* What may be offered of the target, written without the code's passes: its
\* advertised TCP addresses of one scope, LAN ones only if the source shares
\* the hint.
Offerable(s, t, scope) ==
    {i \in DOMAIN t.advertised_addresses :
        LET a == t.advertised_addresses[i]
            own == ToSet(s.advertised_addresses) \cup ToSet(s.observed_addresses)
        IN /\ a.transport_protocol = "direct_tcp" /\ a.scope = scope
           /\ scope = "lan" => \E b \in own : b.address_hint = a.address_hint}

\* The candidates returned are the offerable addresses of the best scope that
\* has any, one for each base_url, in the order the target listed them: no
\* usable address is lost on the way through the two filters and the
\* de-duplication, none is offered twice, and there is one.
CandidatesAreTheUsableOnes ==
    Direct =>
        LET s == Online(source)
            t == Online(target)
            scope == IF Offerable(s, t, "public") # {} THEN "public" ELSE "lan"
            first == {i \in Offerable(s, t, scope) : \A j \in Offerable(s, t, scope) :
                        t.advertised_addresses[j].base_url
                            = t.advertised_addresses[i].base_url => i <= j}
        IN /\ Len(decision.candidates) = Cardinality(first) /\ first # {}
           /\ \A k \in DOMAIN decision.candidates :
                \E i \in first : /\ decision.candidates[k] = t.advertised_addresses[i]
                                 /\ Cardinality({j \in first : j < i}) = k - 1

\* A relay decision is never taken while a direct one was asked for and
\* possible, and the reason shown to the operator is one that holds: nobody is
\* told "no candidate" for a pair that a symmetric NAT keeps apart.
ReasonExplainsRelay ==
    Relayed =>
        LET s == Online(source)
            t == Online(target)
            open == Offerable(s, t, "public") \cup Offerable(s, t, "lan") # {}
        IN CASE decision.reason = "not_requested" -> ~prefer_direct
             [] decision.reason = "source_relay_only" -> s.mode = "relay_only"
             [] decision.reason = "target_relay_only" -> t.mode = "relay_only"
             [] decision.reason = "source_symmetric" -> s.nat_behavior = "symmetric"
             [] decision.reason = "target_symmetric" -> t.nat_behavior = "symmetric"
             [] decision.reason = "no_message_endpoint" -> ~t.message_endpoint
             [] decision.reason = "no_candidate" ->
                  /\ prefer_direct /\ ~open /\ t.message_endpoint
                  /\ {"relay_only"} \cap {s.mode, t.mode} = {}
                  /\ {"symmetric"} \cap {s.nat_behavior, t.nat_behavior} = {}

\* The address the hub saw the target's registration come from is evidence for
\* the hint comparison only.  It is the far end of a TCP connection, so it
\* opens no direct path to the target: the decision is the one the hub would
\* have taken had it not looked.
ObservedTargetAddressChangesNothing ==
    Direct => decision.candidates
                = select_direct_candidates(Online(source), target.registered)

\* A peer that can only be reached from its own machine is never offered to
\* another: a gateway bound to a loopback address that kept its direct mode
\* (a forced "direct" mode, or 127.0.0.2) advertises it, and the hub must not
\* hand it out.  (Another client may call its loopback address public.)
LoopbackIsNeverOffered ==
    Direct /\ target.kind = "gateway" =>
        \A k \in DOMAIN decision.candidates :
                HostClass[decision.candidates[k].base_url[2]]
                    \notin {"loopback_name", "loopback_ip"}

-----------------------------------------------------------------------------
(* The inductive invariant: there is one decision for each pair.           *)

DecisionInvariant ==
    /\ source \in Source /\ target \in Target /\ prefer_direct \in BOOLEAN
    /\ decision \in {Undecided, connect(Online(source), Online(target), prefer_direct)}
=============================================================================
