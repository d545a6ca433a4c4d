---------------------------- MODULE Reachability ----------------------------
(***************************************************************************)
(* How peers describe where they can be reached, and how the hub decides   *)
(* between a direct path and a relay session.  The descriptions are built  *)
(* by the gateway (gateway.rs), completed by the hub with the address it   *)
(* saw the registration come from, and compared by the hub when one peer   *)
(* asks to be connected to another (hub/model/server_state_model.rs).      *)
(*                                                                         *)
(* All of it is pure: this module has no variables.  A host is a model     *)
(* value with a class, a port is a model value, and a base_url is the      *)
(* triple scheme, host, port.  The fields no decision looks at (source,    *)
(* confidence, the text of message_endpoint) are left out.                 *)
(***************************************************************************)
EXTENDS Naturals, Sequences, SequencesExt, Selection

CONSTANTS
    Host,       \* names and addresses a peer may bind or be seen at
    Port,       \* TCP and UDP port numbers
    HostClass,  \* what the standard library says of each host, see below
    None        \* Option::None, for addresses, candidate lists and ports

\* loopback_name: 127.0.0.1, ::1 and localhost; loopback_ip: the rest of
\* 127.0.0.0/8; any: 0.0.0.0; private: RFC 1918, link local, unique local;
\* public: every other address, and every name that is not an IP address.
Classes == {"loopback_name", "loopback_ip", "any", "private", "public"}

ASSUME HostClassAssumption == HostClass \in [Host -> Classes]

Modes == {"relay_only", "local_only", "unknown_external", "public_direct"}
Natures == {"unknown", "predictable", "symmetric"}
Scopes == {"loopback", "lan", "public"}
Transports == {"direct_tcp", "direct_udp"}

Address == [base_url: {"http", "udp"} \X Host \X (Port \cup {None}),
            scope: Scopes, transport_protocol: Transports, address_hint: Host]

PeerReachability ==
    [mode: Modes, nat_behavior: Natures, message_endpoint: BOOLEAN,
     bind_address: Address \cup {None},
     advertised_addresses: Seq(Address), observed_addresses: Seq(Address)]

-----------------------------------------------------------------------------
(***************************************************************************)
(* The gateway's half.                                                     *)
(***************************************************************************)

is_loopback_host(host) == HostClass[host] = "loopback_name"

should_advertise_direct_endpoint(host) == ~is_loopback_host(host)

\* GatewayRuntimeConfig::normalized: Auto on a loopback name gives up direct
\* delivery.  A forced "direct" mode is left alone.
normalized_mode(mode, host) ==
    IF mode = "auto" /\ ~should_advertise_direct_endpoint(host)
    THEN "relay_only" ELSE mode

supports_direct_advertisement(mode) == mode # "relay_only"

\* Variant: loopback is recognised by name, as is_loopback_host does it.
scope_by_loopback_name(host) ==
    CASE is_loopback_host(host) -> "loopback"
      [] HostClass[host] \in {"any", "private"} -> "lan"
      [] OTHER -> "public"

reachability_scope_for_host(host) ==
    CASE HostClass[host] \in {"loopback_name", "loopback_ip"} -> "loopback"
      [] HostClass[host] \in {"any", "private"} -> "lan"
      [] OTHER -> "public"

\* The same question asked of an address seen in a probe answer: 0.0.0.0 is
\* not singled out there.
reachability_scope_for_ip(ip) ==
    CASE HostClass[ip] \in {"loopback_name", "loopback_ip"} -> "loopback"
      [] HostClass[ip] = "private" -> "lan"
      [] OTHER -> "public"

direct_bind_candidates(host, ephemeral, any) ==
    IF ephemeral /\ ~is_loopback_host(host) /\ HostClass[host] # "any"
    THEN <<host, any>> ELSE <<host>>

\* Each observation is a pair <<ip, port>>.  The two probes go to two ports of
\* the hub: the same port seen twice is a NAT that can be predicted.
nat_behavior_from_probes(first, second) ==
    IF first[2] = second[2] THEN "predictable" ELSE "symmetric"

\* Variant: no de-duplication.
keep_candidates(candidates) == candidates

\* Keeps the first candidate of each base_url, in order.
dedupe_candidates(candidates) ==
    Selection(candidates,
              {i \in DOMAIN candidates :
                  \A j \in 1..i - 1 : candidates[j].base_url # candidates[i].base_url})

\* What discover_udp_reachability makes of the two observed <<ip, port>> pairs.
discovered_addresses(first, second) ==
    LET candidate(seen) ==
            [base_url |-> <<"udp", seen[1], seen[2]>>,
             scope |-> reachability_scope_for_ip(seen[1]),
             transport_protocol |-> "direct_udp", address_hint |-> seen[1]]
    IN dedupe_candidates(<<candidate(first), candidate(second)>>)

peer_reachability_for(host, port, supports_direct, nat, observed) ==
    LET scope == reachability_scope_for_host(host)
        bound == [base_url |-> <<"http", host, port>>, scope |-> scope,
                  transport_protocol |-> "direct_tcp", address_hint |-> host]
    IN [mode |-> IF ~supports_direct THEN "relay_only"
                 ELSE CASE scope = "public" -> "public_direct"
                        [] scope = "lan" -> "unknown_external"
                        [] OTHER -> "local_only",
        nat_behavior |-> IF supports_direct THEN nat ELSE "unknown",
        message_endpoint |-> TRUE,
        bind_address |-> bound,
        advertised_addresses |-> IF supports_direct THEN <<bound>> ELSE <<>>,
        observed_addresses |-> observed]

\* What a gateway that starts on this configuration registers.  probes is the
\* pair of addresses the hub saw its UDP probes come from, or None when the
\* discovery failed: that leaves the NAT unknown, it does not stop the start.
\* The advertised host is the configured one, also when the listener had to
\* fall back to another of direct_bind_candidates.
gateway_reachability(host, port, mode, probes) ==
    LET direct == supports_direct_advertisement(normalized_mode(mode, host))
        found == direct /\ probes # None
    IN peer_reachability_for(host, port, direct,
           IF found THEN nat_behavior_from_probes(probes[1], probes[2]) ELSE "unknown",
           IF found THEN discovered_addresses(probes[1], probes[2]) ELSE <<>>)

-----------------------------------------------------------------------------
(***************************************************************************)
(* The hub's half.                                                         *)
(***************************************************************************)

\* The hub files loopback addresses under "lan".
observed_scope(ip) ==
    IF HostClass[ip] \in {"private", "loopback_name", "loopback_ip"}
    THEN "lan" ELSE "public"

\* The address a peer was seen at, with the port it says it listens on: None
\* for a relay-only peer and for one whose bind address has no port.
observed_address_candidate(reachability, ip) ==
    IF \/ reachability.mode = "relay_only"
       \/ reachability.bind_address = None
       \/ reachability.bind_address.base_url[3] = None
    THEN None
    ELSE [base_url |-> <<"http", ip, reachability.bind_address.base_url[3]>>,
          scope |-> observed_scope(ip),
          transport_protocol |-> "direct_tcp", address_hint |-> ip]

\* Variant: the observed address is filed as an advertised one.
advertise_observed_address(reachability, ip) ==
    LET observed == IF ip = None THEN None
                    ELSE observed_address_candidate(reachability, ip)
    IN IF observed = None THEN reachability
       ELSE [reachability EXCEPT !.advertised_addresses = Append(@, observed)]

apply_observed_reachability(reachability, ip) ==
    LET observed == IF ip = None THEN None
                    ELSE observed_address_candidate(reachability, ip)
        known == {reachability.observed_addresses[i].base_url :
                    i \in DOMAIN reachability.observed_addresses}
    IN IF observed = None \/ observed.base_url \in known
       THEN reachability
       ELSE [reachability EXCEPT !.observed_addresses = Append(@, observed)]

\* Variant: what the hub saw of the source is not used.
source_advertised_hints(source) ==
    {a.address_hint : a \in ToSet(source.advertised_addresses)}

\* The hints of every address the source gave or was seen at, LAN ones
\* included: the name is the source's.
source_public_hints(source) ==
    {a.address_hint : a \in ToSet(source.advertised_addresses)
                             \cup ToSet(source.observed_addresses)}

\* The candidates a sender may try, or None: then the hub opens a relay session.
select_direct_candidates(source, target) ==
    LET listed == target.advertised_addresses
        tcp == {i \in DOMAIN listed : listed[i].transport_protocol = "direct_tcp"}
        public_candidates == Selection(listed, {i \in tcp : listed[i].scope = "public"})
        same_network_candidates ==
            Selection(listed, {i \in tcp : /\ listed[i].scope = "lan"
                                           /\ listed[i].address_hint
                                                \in source_public_hints(source)})
        best == IF public_candidates # <<>> THEN public_candidates
                ELSE same_network_candidates
    IN  IF \/ "relay_only" \in {source.mode, target.mode}
           \/ "symmetric" \in {source.nat_behavior, target.nat_behavior}
           \/ ~target.message_endpoint
           \/ best = <<>>
        THEN None ELSE dedupe_candidates(best)

\* Why the hub chose a relay session: the first of these that applies.
relay_decision_reason(source, target, prefer_direct) ==
    LET reasons == << <<~prefer_direct, "not_requested">>,
                      <<source.mode = "relay_only", "source_relay_only">>,
                      <<target.mode = "relay_only", "target_relay_only">>,
                      <<source.nat_behavior = "symmetric", "source_symmetric">>,
                      <<target.nat_behavior = "symmetric", "target_symmetric">>,
                      <<~target.message_endpoint, "no_message_endpoint">>,
                      <<TRUE, "no_candidate">> >>
    IN reasons[SelectInSeq(reasons, LAMBDA entry : entry[1])][2]
=============================================================================
