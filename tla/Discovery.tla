------------------------------ MODULE Discovery ------------------------------
(***************************************************************************)
(* The UDP discovery a gateway makes when it starts (gateway.rs): from one *)
(* socket it asks two ports of the hub, one after the other, which address *)
(* they see it come from, and from the two answers it describes itself to  *)
(* the hub (Reachability).  The hub echoes (hub/mod.rs) and keeps nothing. *)
(*                                                                         *)
(* Datagrams may be lost, duplicated, delayed and reordered: sent holds    *)
(* all that ever were, and any of them may arrive at any time, or never.   *)
(* A gateway that starts again may get the socket address it had before,   *)
(* in another network, and then answers to its earlier life reach it too.  *)
(***************************************************************************)
EXTENDS Reachability

CONSTANTS
    Seen,       \* the <<ip, port>> pairs a NAT may map a socket to
    Socket,     \* local socket addresses
    MaxStarts   \* bound on the starts of the gateway

ASSUME DiscoveryAssumption ==
    /\ Seen \subseteq Host \X Port
    /\ MaxStarts \in Nat
    /\ \E h \in Host : HostClass[h] = "private"   \* the one the gateway binds
    /\ Port # {} /\ None \notin PeerReachability

VARIABLES
    starts,     \* the starts so far
    mode,       \* the communication_mode of this start
    nat,        \* where this start is seen by each discovery port of the hub
    socket,     \* the socket of the discovery
    at,         \* where start is in its code
    observed,   \* the addresses the probes of this start have brought so far
    described,  \* what it registers: PeerReachability, or None before
    sent,       \* every probe that was ever sent
    answered    \* every answer the hub ever sent

vars == <<starts, mode, nat, socket, at, observed, described, sent, answered>>

Probe == {1, 2}   \* the two discovery ports, in the order they are asked

\* transaction_id is a new UUID for each probe.
Transaction == (1..MaxStarts) \X Probe
Requests == [transaction_id : Transaction, to : Probe, from : Seen, socket : Socket]
Responses == [transaction_id : Transaction, observed_addr : Seen, socket : Socket]

bindHost == CHOOSE h \in Host : HostClass[h] = "private"
bindPort == CHOOSE p \in Port : TRUE

Init ==
    /\ starts = 0 /\ mode = "relay_only"
    /\ nat \in [Probe -> Seen]
    /\ socket \in Socket
    /\ at = "down"
    /\ observed = <<>>
    /\ described = None
    /\ sent = {} /\ answered = {}

-----------------------------------------------------------------------------
\* A start in some mode and some network; it has bound the direct listener.  A
\* relay-only gateway sends no probe.
Start ==
    /\ at = "down" /\ starts < MaxStarts
    /\ starts' = starts + 1
    /\ mode' \in {"auto", "relay_only"}
    /\ nat' \in [Probe -> Seen]
    /\ socket' \in Socket
    /\ at' = IF supports_direct_advertisement(mode') THEN "probing" ELSE "described"
    /\ observed' = <<>>
    /\ described' = IF at' = "described"
                    THEN gateway_reachability(bindHost, bindPort, mode', None) ELSE None
    /\ UNCHANGED <<sent, answered>>

Current == <<starts, Len(observed) + 1>>   \* the transaction id of the probe at hand

\* send_to, and then it waits.
SendProbe ==
    /\ at = "probing"
    /\ at' = "waiting"
    /\ sent' = sent \cup {[transaction_id |-> Current, to |-> Current[2],
                           from |-> nat[Current[2]], socket |-> socket]}
    /\ UNCHANGED <<starts, mode, nat, socket, observed, described, answered>>

\* discovery_udp_task: one of the hub's two sockets answers what arrives.
Echo ==
    \E request \in sent :
        /\ answered' = answered \cup {[transaction_id |-> request.transaction_id,
                                       observed_addr |-> request.from,
                                       socket |-> request.socket]}
        /\ UNCHANGED <<starts, mode, nat, socket, at, observed, described, sent>>

\* Two addresses are enough; start goes on with them, or without.
Describe(probes) ==
    /\ at' = "described"
    /\ described' = gateway_reachability(bindHost, bindPort, mode, probes)

\* Variant: a probe too many.
AcceptTooMany(answer) ==
    /\ observed' = Append(observed, answer.observed_addr)
    /\ IF Len(observed) = 2 THEN Describe(observed)
                            ELSE at' = "probing" /\ UNCHANGED described
    /\ UNCHANGED <<starts, mode, nat, socket, sent, answered>>

Accept(answer) ==
    /\ observed' = Append(observed, answer.observed_addr)
    /\ IF Len(observed') = 2 THEN Describe(observed')
                             ELSE at' = "probing" /\ UNCHANGED described
    /\ UNCHANGED <<starts, mode, nat, socket, sent, answered>>

Fail ==
    /\ Describe(None)
    /\ UNCHANGED <<starts, mode, nat, socket, observed, sent, answered>>

\* Variant: an answer is taken as it comes.
TakeAnyAnswer ==
    /\ at = "waiting"
    /\ \E answer \in answered : answer.socket = socket /\ Accept(answer)

\* probe_udp_observed_address takes the first datagram that comes.  One that belongs
\* to another probe ends the discovery.
Receive ==
    /\ at = "waiting"
    /\ \E answer \in answered :
          /\ answer.socket = socket
          /\ IF answer.transaction_id = Current THEN Accept(answer) ELSE Fail

\* The hub's name is not resolved, or nothing can be bound or sent.
GiveUpUnsent == at = "probing" /\ Fail

\* Nothing comes within 1.5 seconds, or something that is no answer at all.  (With
\* GiveUpUnsent in its place the socket is waited on without a time-out.)
GiveUp == at = "waiting" /\ Fail

\* The gateway stops, or is killed, at any time.
Down ==
    /\ at # "down"
    /\ at' = "down"
    /\ described' = None
    /\ UNCHANGED <<starts, mode, nat, socket, observed, sent, answered>>

Next == Start \/ SendProbe \/ Echo \/ Receive \/ GiveUpUnsent \/ GiveUp \/ Down

Spec == Init /\ [][Next]_vars

\* The gateway gets on and the timer runs; nothing of the network or the hub.
FairSpec == Spec /\ WF_vars(SendProbe) /\ WF_vars(GiveUp)

-----------------------------------------------------------------------------
(* Properties.                                                             *)

\* The types; and no more than one answer for each of the two probes is used.
TypeOK ==
    /\ starts \in 0..MaxStarts
    /\ mode \in {"auto", "relay_only"}
    /\ nat \in [Probe -> Seen]
    /\ socket \in Socket
    /\ at \in {"down", "probing", "waiting", "described"}
    /\ observed \in Seq(Seen) /\ Len(observed) <= 2
    /\ at \in {"probing", "waiting"} => Len(observed) < 2
    /\ described \in PeerReachability \cup {None}
    /\ described = None <=> at # "described"
    /\ sent \subseteq Requests
    /\ answered \subseteq Responses

\* What a gateway registers of its NAT is true of the network it is in: both observed
\* addresses are its own of this start, as seen by the two ports of the hub, and it
\* calls its NAT predictable exactly when they have the same port.  Answers that come
\* twice, late, or from an earlier start and another network do not get in.  If the
\* discovery fails, it claims nothing.
DescriptionIsTrue ==
    at = "described" =>
        \/ described.nat_behavior = "unknown" /\ described.observed_addresses = <<>>
        \/ /\ {described.observed_addresses[i].base_url :
                   i \in DOMAIN described.observed_addresses}
                 = {<<"udp", nat[p][1], nat[p][2]>> : p \in Probe}
           /\ described.nat_behavior = "predictable" <=> nat[1][2] = nat[2][2]
           /\ described.nat_behavior \in {"predictable", "symmetric"}

\* A start does not hang on its discovery, whether or not anything is answered.
DiscoveryEnds == at \in {"probing", "waiting"} ~> at \in {"described", "down"}
-----------------------------------------------------------------------------
(***************************************************************************)
(* The inductive invariant behind the safety properties above.             *)
(***************************************************************************)

\* A probe of this start, and any answer to one, tells where this start is seen; those
\* of earlier starts have other transaction ids, and those of later ones do not exist.
ProbesTellTheNetwork ==
    /\ \A r \in sent :
          /\ r.transaction_id[1] <= starts
          /\ r.transaction_id[1] = starts => r.from = nat[r.transaction_id[2]]
    /\ \A a \in answered :
          /\ a.transaction_id[1] <= starts
          /\ a.transaction_id[1] = starts => a.observed_addr = nat[a.transaction_id[2]]

ObservedInOrder == \A i \in DOMAIN observed : observed[i] = nat[i]

DiscoveryInvariant ==
    /\ TypeOK /\ ProbesTellTheNetwork /\ ObservedInOrder /\ DescriptionIsTrue
    /\ at # "down" => starts > 0
=============================================================================
