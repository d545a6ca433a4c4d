-------------------------------- MODULE Hub --------------------------------
(***************************************************************************)
(* The state the OpenHanse hub keeps (ServerStateModel): which peers are   *)
(* online, and the relay sessions that carry messages between peers that   *)
(* cannot reach each other directly.                                       *)
(*                                                                         *)
(* Every HTTP handler of the hub takes the one write lock of AppStateModel *)
(* for all it does, so a handler is one action here; so is a pass of the   *)
(* cleanup task.  Nothing expires by itself: an entry whose time has run   *)
(* out stays in its map until some handler, or the cleanup task, prunes.   *)
(* Which handlers prune first and which do not is part of each action.     *)
(*                                                                         *)
(* Time.  expires_at - now is kept as the countdown expires_in, 0 once the *)
(* instant has passed; Tick lets one unit of time go by.                   *)
(*                                                                         *)
(* An operator marked "Variant" is the one below it with a mistake in it:  *)
(* nothing uses it, it is there to be put in its place, to see that the    *)
(* properties tell the two apart.                                          *)
(*                                                                         *)
(* Below the two maps there are history variables.  The code has no such   *)
(* state: they record what the hub has answered, and no action reads them  *)
(* except to keep session ids and messages apart.                          *)
(***************************************************************************)
EXTENDS Reachability

CONSTANTS
    Peer,                 \* peer_id values
    Session,              \* relay_session_id values (random UUIDs, never reused)
    Message,              \* message payloads, one for each send a client makes
    Profile,              \* reachability descriptions peers may register with
    ObservedIp,           \* addresses a registration may be seen to come from
    PresenceLease,        \* HubServerConfig.presence_lease
    RelaySessionTimeout   \* HubServerConfig.relay_session_timeout

ASSUME LeaseAssumption == PresenceLease \in Nat \ {0}
ASSUME TimeoutAssumption == RelaySessionTimeout \in Nat \ {0}

VARIABLES
    peers,           \* HashMap<String, PeerPresenceModel>
    relay_sessions,  \* HashMap<Uuid, RelaySessionModel>
    issued,          \* history: the session ids connect has handed out
    sent,            \* history: the messages relay_send has taken
    accepted,        \* history: for each recipient and session, the envelopes
                     \*   relay_send answered "accepted" for, in that order
    handed,          \* history: the envelopes poll has answered with, likewise
    told_offline     \* history: peers some answer called offline since their
                     \*   last registration

state == <<peers, relay_sessions>>
history == <<issued, sent, accepted, handed, told_offline>>
vars == <<state, history>>

Role == {"source", "target"}
Counterpart(role) == IF role = "source" THEN "target" ELSE "source"

\* RelayMessageEnvelopeModel: its source and target repeat those of its payload.
Envelope == [relay_session_id : Session, from_peer_id : Peer, to_peer_id : Peer,
             message : Message]

Presence == [reachability : {apply_observed_reachability(r, ip) :
                               r \in Profile, ip \in ObservedIp},
             expires_in : 0..PresenceLease]

\* RelaySessionModel.  party: source_peer_id and target_peer_id; attached: the
\* roles whose *_attached flag is set; pending: pending_for_source and _target.
RelaySession == [party : [Role -> Peer], expires_in : 0..RelaySessionTimeout,
                 attached : SUBSET Role, pending : [Role -> Seq(Envelope)]]

TypeOK ==
    /\ DOMAIN peers \subseteq Peer
    /\ peers \in [DOMAIN peers -> Presence]
    /\ issued \subseteq Session
    /\ DOMAIN relay_sessions \subseteq issued
    /\ relay_sessions \in [DOMAIN relay_sessions -> RelaySession]
    /\ sent \subseteq Message
    /\ accepted \in [Peer -> [Session -> Seq(Envelope)]]
    /\ handed \in [Peer -> [Session -> Seq(Envelope)]]
    /\ told_offline \subseteq Peer

Init ==
    /\ peers = <<>>
    /\ relay_sessions = <<>>
    /\ issued = {}
    /\ sent = {}
    /\ accepted = [p \in Peer |-> [s \in Session |-> <<>>]]
    /\ handed = [p \in Peer |-> [s \in Session |-> <<>>]]
    /\ told_offline = {}

-----------------------------------------------------------------------------
Online(p) == p \in DOMAIN peers /\ peers[p].expires_in > 0
Open(s) == s \in DOMAIN relay_sessions /\ relay_sessions[s].expires_in > 0

live_peers == [p \in {q \in DOMAIN peers : Online(q)} |-> peers[p]]
live_sessions == [s \in {t \in DOMAIN relay_sessions : Open(t)} |-> relay_sessions[s]]

prune_peers == peers' = live_peers
prune_sessions == relay_sessions' = live_sessions
prune_expired == prune_peers /\ prune_sessions

\* The map f with f[k] = v, whether or not k was a key.
With(f, k, v) == [x \in DOMAIN f \cup {k} |-> IF x = k THEN v ELSE f[x]]

InSession(session, p) == \E role \in Role : session.party[role] = p

\* Source first, as every handler asks.
RoleOf(session, p) == IF session.party["source"] = p THEN "source" ELSE "target"

\* Variant: the sweep forgets the queue towards the source.
target_queue_is_finished(session) ==
    session.attached = Role /\ session.pending["target"] = <<>>

relay_session_is_finished(session) ==
    session.attached = Role /\ \A role \in Role : session.pending[role] = <<>>

-----------------------------------------------------------------------------
(***************************************************************************)
(* Presence.  register_peer and heartbeat do not prune.                    *)
(***************************************************************************)

Register(p, profile, ip) ==
    /\ peers' = With(peers, p,
                  [reachability |-> apply_observed_reachability(profile, ip),
                   expires_in |-> PresenceLease])
    /\ told_offline' = told_offline \ {p}
    /\ UNCHANGED <<relay_sessions, issued, sent, accepted, handed>>

\* Variant: each heartbeat adds a lease to what is left.
HeartbeatTopsUp(p) ==
    /\ p \in DOMAIN peers
    /\ peers' = [peers EXCEPT ![p].expires_in = @ + PresenceLease]
    /\ UNCHANGED <<relay_sessions, history>>

\* Variant: the record is answered but not renewed.
HeartbeatUnrenewed(p) ==
    /\ p \in DOMAIN peers
    /\ UNCHANGED <<state, history>>

\* A heartbeat finds every peer still in the map, also one whose lease is over.
Heartbeat(p) ==
    /\ p \in DOMAIN peers
    /\ peers' = [peers EXCEPT ![p].expires_in = PresenceLease]
    /\ UNCHANGED <<relay_sessions, history>>

HeartbeatRefused(p) ==
    /\ p \notin DOMAIN peers
    /\ told_offline' = told_offline \cup {p}
    /\ UNCHANGED <<state, issued, sent, accepted, handed>>

\* Variant: expired peers are hidden from the answer but stay in the map.
lookup_without_prune(p) ==
    /\ told_offline' = IF Online(p) THEN told_offline ELSE told_offline \cup {p}
    /\ UNCHANGED <<state, issued, sent, accepted, handed>>

lookup_peer(p) ==
    /\ prune_expired
    /\ told_offline' = IF Online(p) THEN told_offline ELSE told_offline \cup {p}
    /\ UNCHANGED <<issued, sent, accepted, handed>>

-----------------------------------------------------------------------------
(***************************************************************************)
(* connect.                                                                *)
(***************************************************************************)

ConnectOffline(a, b) ==
    /\ ~(Online(a) /\ Online(b))
    /\ prune_expired
    /\ told_offline' = told_offline \cup {IF Online(a) THEN b ELSE a}
    /\ UNCHANGED <<issued, sent, accepted, handed>>

ConnectToSelf(a) ==
    /\ Online(a)
    /\ prune_expired
    /\ UNCHANGED history

DirectPossible(a, b) ==
    select_direct_candidates(peers[a].reachability, peers[b].reachability) # None

ConnectDirect(a, b) ==
    /\ a # b /\ Online(a) /\ Online(b)
    /\ DirectPossible(a, b)
    /\ prune_expired
    /\ UNCHANGED history

ConnectRelay(a, b, prefer_direct, s) ==
    /\ a # b /\ Online(a) /\ Online(b)
    /\ prefer_direct => ~DirectPossible(a, b)
    /\ s \notin issued
    /\ prune_peers
    /\ relay_sessions' = With(live_sessions, s,
                           [party |-> [role \in Role |-> IF role = "source" THEN a ELSE b],
                            expires_in |-> RelaySessionTimeout,
                            attached |-> {},
                            pending |-> [role \in Role |-> <<>>]])
    /\ issued' = issued \cup {s}
    /\ UNCHANGED <<sent, accepted, handed, told_offline>>

-----------------------------------------------------------------------------
(***************************************************************************)
(* Relay.  Presence is not consulted: a peer whose lease is over may still *)
(* attach, send and poll.                                                  *)
(***************************************************************************)

\* Variant: each attach adds a whole timeout to what is left.
attach_prolongs(s, p) ==
    /\ Open(s) /\ InSession(relay_sessions[s], p)
    /\ prune_peers
    /\ relay_sessions' = [live_sessions EXCEPT ![s].expires_in = @ + RelaySessionTimeout]
    /\ UNCHANGED history

attach_relay_peer(s, p) ==
    /\ Open(s) /\ InSession(relay_sessions[s], p)
    /\ prune_peers
    /\ relay_sessions' = [live_sessions EXCEPT
                            ![s].attached = @ \cup {RoleOf(relay_sessions[s], p)},
                            ![s].expires_in = RelaySessionTimeout]
    /\ UNCHANGED history

AttachRefused(s, p) ==
    /\ ~(Open(s) /\ InSession(relay_sessions[s], p))
    /\ prune_expired
    /\ UNCHANGED history

\* Variant: the payload is not compared with the session.
SendAllowedToMembers(s, p, from, to) ==
    Open(s) /\ InSession(relay_sessions[s], p)

\* The request names the sender twice, in peer_id and in its payload.
SendAllowed(s, p, from, to) ==
    /\ Open(s) /\ InSession(relay_sessions[s], p)
    /\ LET session == relay_sessions[s]
           role == RoleOf(session, p)
       IN from = session.party[role] /\ to = session.party[Counterpart(role)]

relay_send(s, p, from, to, m) ==
    /\ SendAllowed(s, p, from, to)
    /\ m \notin sent
    /\ LET recipient == Counterpart(RoleOf(relay_sessions[s], p))
           envelope == [relay_session_id |-> s, from_peer_id |-> from,
                        to_peer_id |-> to, message |-> m]
       IN /\ relay_sessions' = [live_sessions EXCEPT
                                  ![s].pending[recipient] = Append(@, envelope),
                                  ![s].expires_in = RelaySessionTimeout]
          /\ accepted' = [accepted EXCEPT
                            ![relay_sessions[s].party[recipient]][s] = Append(@, envelope)]
    /\ prune_peers
    /\ sent' = sent \cup {m}
    /\ UNCHANGED <<issued, handed, told_offline>>

SendRefused(s, p, from, to) ==
    /\ ~SendAllowed(s, p, from, to)
    /\ prune_expired
    /\ UNCHANGED history

\* Variant: expired sessions are drained before they are pruned.
DrainedLate(s, p) ==
    IF s \in DOMAIN relay_sessions /\ InSession(relay_sessions[s], p)
    THEN relay_sessions[s].pending[RoleOf(relay_sessions[s], p)] ELSE <<>>

\* Variant: only a peer that has attached is given its messages.
DrainedIfAttached(s, p) ==
    IF /\ Open(s) /\ InSession(relay_sessions[s], p)
       /\ RoleOf(relay_sessions[s], p) \in relay_sessions[s].attached
    THEN relay_sessions[s].pending[RoleOf(relay_sessions[s], p)] ELSE <<>>

\* What a poll by p takes out of session s.
Drained(s, p) ==
    IF Open(s) /\ InSession(relay_sessions[s], p)
    THEN relay_sessions[s].pending[RoleOf(relay_sessions[s], p)] ELSE <<>>

\* Variant: the queue is copied into the answer and not emptied.
PolledSessionKept(s, p) ==
    IF Drained(s, p) = <<>> THEN relay_sessions[s]
    ELSE [relay_sessions[s] EXCEPT !.attached = @ \cup {RoleOf(relay_sessions[s], p)},
                                   !.expires_in = RelaySessionTimeout]

\* Emptying a queue attaches the poller and renews the session; a poll that
\* finds nothing does neither.
PolledSession(s, p) ==
    IF Drained(s, p) = <<>> THEN relay_sessions[s]
    ELSE LET role == RoleOf(relay_sessions[s], p)
         IN [relay_sessions[s] EXCEPT !.pending[role] = <<>>,
                                      !.attached = @ \cup {role},
                                      !.expires_in = RelaySessionTimeout]

\* The sweep for finished sessions covers all sessions, not only the poller's.
\* The answer lists the sessions in the order of a HashMap, which says nothing:
\* handed keeps the order within each session only.
poll_relay_messages(p) ==
    /\ prune_peers
    /\ relay_sessions' =
         [s \in {t \in DOMAIN relay_sessions :
                   Open(t) /\ ~relay_session_is_finished(PolledSession(t, p))}
            |-> PolledSession(s, p)]
    /\ handed' = [handed EXCEPT ![p] = [s \in Session |-> @[s] \o Drained(s, p)]]
    /\ UNCHANGED <<issued, sent, accepted, told_offline>>

-----------------------------------------------------------------------------
\* Variant: the task looks after the sessions and leaves peers to the handlers.
CleanupSessions ==
    /\ prune_sessions
    /\ UNCHANGED <<peers, history>>

\* One pass of cleanup_task.
Cleanup ==
    /\ prune_expired
    /\ UNCHANGED history

Less(t) == IF t > 0 THEN t - 1 ELSE 0

Tick ==
    /\ peers' = [p \in DOMAIN peers |->
                   [peers[p] EXCEPT !.expires_in = Less(@)]]
    /\ relay_sessions' = [s \in DOMAIN relay_sessions |->
                            [relay_sessions[s] EXCEPT !.expires_in = Less(@)]]
    /\ UNCHANGED history

PresenceRequest ==
    \E p \in Peer :
        \/ \E profile \in Profile, ip \in ObservedIp : Register(p, profile, ip)
        \/ Heartbeat(p)
        \/ HeartbeatRefused(p)
        \/ lookup_peer(p)

ConnectRequest ==
    \E a \in Peer :
        \/ ConnectToSelf(a)
        \/ \E b \in Peer :
              \/ ConnectOffline(a, b)
              \/ ConnectDirect(a, b)
              \/ \E prefer_direct \in BOOLEAN, s \in Session :
                    ConnectRelay(a, b, prefer_direct, s)

RelayRequest ==
    \E p \in Peer :
        \/ poll_relay_messages(p)
        \/ \E s \in Session :
              \/ attach_relay_peer(s, p)
              \/ AttachRefused(s, p)
              \/ \E from, to \in Peer :
                    \/ SendRefused(s, p, from, to)
                    \/ \E m \in Message : relay_send(s, p, from, to, m)

Next == PresenceRequest \/ ConnectRequest \/ RelayRequest \/ Cleanup \/ Tick

Spec == Init /\ [][Next]_vars
-----------------------------------------------------------------------------
\* The queue of session s that p will be answered from, <<>> if there is none.
\* Unlike Drained it looks at the map as it is, entries out of time included.
Waiting(s, p) ==
    IF s \in DOMAIN relay_sessions /\ InSession(relay_sessions[s], p)
    THEN relay_sessions[s].pending[RoleOf(relay_sessions[s], p)] ELSE <<>>

\* While a session is in the map, what its recipients were handed followed by
\* what waits for them is exactly what relay_send accepted for them: nothing is
\* lost, duplicated or reordered by any interleaving of sends, polls of both
\* ends, attaches and prunes.
LiveSessionsConserve ==
    \A s \in DOMAIN relay_sessions, p \in Peer :
        accepted[p][s] = handed[p][s] \o Waiting(s, p)

\* And once it is gone, what was handed out is a prefix of it: the hub drops
\* the tail of a session, never its middle.
DeadSessionsKeepPrefix ==
    \A s \in Session, p \in Peer : IsPrefix(handed[p][s], accepted[p][s])

RelayFifo == LiveSessionsConserve /\ DeadSessionsKeepPrefix

\* An envelope is only ever handed to the peer it is addressed to, it names a
\* peer other than that one as its sender, and it carries the id of the session
\* it was sent on, whichever of the two roles sender and recipient have.
OnlyTheAddressee ==
    \A p \in Peer, s \in Session : \A i \in DOMAIN handed[p][s] :
        /\ handed[p][s][i].to_peer_id = p
        /\ handed[p][s][i].from_peer_id # p
        /\ handed[p][s][i].relay_session_id = s

\* Once an answer of the hub (to a lookup, a connect or a heartbeat) has called
\* a peer offline, it stays offline until it registers again: a heartbeat that
\* arrives late revives a lapsed peer only as long as nobody has noticed.
OfflineIsFinal == told_offline \cap DOMAIN peers = {}

\* What may take sessions out of the map in one step.
EndForCause ==
    \A s \in DOMAIN relay_sessions \ DOMAIN relay_sessions' :
        \/ ~Open(s)
        \/ \A p \in Peer : handed'[p][s] = accepted'[p][s]

\* A relay session leaves the map because its time has run out or because all
\* it took has been handed over.  The sweep at the end of a poll runs over the
\* sessions of every peer, and must not take one whose message waits at either
\* end.
SessionsEndForCause == [][EndForCause]_vars

Renewed(s) ==
    /\ s \in DOMAIN relay_sessions /\ s \in DOMAIN relay_sessions'
    /\ relay_sessions'[s].expires_in > relay_sessions[s].expires_in

Refreshed(p) ==
    /\ p \in DOMAIN peers'
    /\ p \in DOMAIN peers => peers'[p].expires_in > peers[p].expires_in

\* No entry lingers: a session nobody renews and a peer that stopped beating
\* leave the maps even if no client ever calls the hub again, because the
\* cleanup task prunes both.  Presence checks it, where the hub is restarted.
NothingLingers ==
    /\ \A s \in Session :
          []<>(s \notin DOMAIN relay_sessions) \/ []<><<Renewed(s)>>_vars
    /\ \A p \in Peer : []<>(p \notin DOMAIN peers) \/ []<><<Refreshed(p)>>_vars

-----------------------------------------------------------------------------
(***************************************************************************)
(* The inductive invariant behind the four above.  RelayFifo alone is not  *)
(* inductive: a new session must find empty logs, the two ends must be     *)
(* different peers for a poll to empty one queue only, and what is handed  *)
(* over is right because what was accepted is.                             *)
(***************************************************************************)
PartiesDiffer ==
    \A s \in DOMAIN relay_sessions :
        relay_sessions[s].party["source"] # relay_sessions[s].party["target"]

NewSessionsAreEmpty ==
    \A s \in Session \ issued, p \in Peer :
        accepted[p][s] = <<>> /\ handed[p][s] = <<>>

AcceptedIsAddressed ==
    \A p \in Peer, s \in Session : \A i \in DOMAIN accepted[p][s] :
        /\ accepted[p][s][i].to_peer_id = p
        /\ accepted[p][s][i].from_peer_id # p
        /\ accepted[p][s][i].relay_session_id = s

HubInvariant ==
    /\ TypeOK
    /\ PartiesDiffer
    /\ NewSessionsAreEmpty
    /\ AcceptedIsAddressed
    /\ RelayFifo
    /\ OfflineIsFinal

-----------------------------------------------------------------------------
(***************************************************************************)
(* What the relay promises its users, see Mailbox.                         *)
(***************************************************************************)
status == [s \in Session |-> IF s \in DOMAIN relay_sessions THEN "open"
                             ELSE IF s \in issued THEN "closed" ELSE "unused"]

Mail == INSTANCE Mailbox WITH status <- status, accepted <- accepted, handed <- handed

\* The hub is a Mailbox: its queues, flags and countdowns behave like one log
\* for each recipient and session that is handed out whole and at most once.
ImplementsMailbox == Mail!Spec
=============================================================================
