--------------------------- MODULE MCReachability ---------------------------
(***************************************************************************)
(* Decision for pairs of peers built from the inputs below: gateways of    *)
(* every mode, and peers that registered through the HTTP API with         *)
(* addresses of their own choice.                                          *)
(***************************************************************************)
EXTENDS Decision

CONSTANTS lo, lo2, any, lan1, lan2, pub, p1, p2

MCHost == {lo, lo2, any, lan1, lan2, pub}
MCPort == {p1, p2}
MCHostClass == (lo :> "loopback_name") @@ (lo2 :> "loopback_ip") @@ (any :> "any")
                 @@ [h \in {lan1, lan2} |-> "private"] @@ (pub :> "public")

Probes == {None, << <<pub, p1>>, <<pub, p1>> >>, << <<lan1, p1>>, <<lan1, p2>> >>}

SomeGateways ==
    {Gateway(host, p1, mode, probes, seen) :
        host \in Host, mode \in {"auto", "direct", "relay_only"}, probes \in Probes,
        seen \in {lan1, pub}}

\* Two advertised addresses that may share a base_url and differ in scope or
\* transport, as only a registration made by hand can have them.
Lists ==
    LET a(h, s, t) == [base_url |-> <<"http", h, p1>>, scope |-> s,
                       transport_protocol |-> t, address_hint |-> h]
    IN {<<a(h, s, t), a(g, r, "direct_tcp")>> :
            h \in {lan1, pub}, s \in {"lan", "public"},
            t \in {"direct_tcp", "direct_udp"}, g \in {lan1, pub},
            r \in {"lan", "public"}}

SomeOthers ==
    {[kind |-> "other", seen |-> lan1,
      registered |->
        [mode |-> mode, nat_behavior |-> nat, message_endpoint |-> endpoint,
         bind_address |-> [base_url |-> <<"http", lan2, port>>, scope |-> "lan",
                           transport_protocol |-> "direct_tcp", address_hint |-> lan2],
         advertised_addresses |-> list, observed_addresses |-> <<>>]] :
        mode \in {"unknown_external", "relay_only"}, nat \in {"predictable", "symmetric"},
        endpoint \in BOOLEAN, port \in {p2, None}, list \in Lists}

MCSource ==
    SomeGateways \cup {peer \in SomeOthers :
                         /\ peer.registered.message_endpoint
                         /\ peer.registered.bind_address.base_url[3] = p2}
MCTarget == SomeGateways \cup SomeOthers
=============================================================================
