-------------------------- MODULE PromptHubProofs --------------------------
(***************************************************************************)
(* Theorems about PromptHub: if every gateway's heartbeat interval is      *)
(* shorter than the presence lease and its poll interval shorter than the  *)
(* relay session timeout, nobody who keeps calling is ever offline and no  *)
(* accepted message is ever dropped.  The argument is one invariant: what  *)
(* a countdown has lost is at most the time since the loop last called.    *)
(***************************************************************************)
EXTENDS PromptHub, HubProofs

-----------------------------------------------------------------------------
(***************************************************************************)
(* Every step is a step of the hub, so what HubProofs shows holds here.    *)
(***************************************************************************)

LEMMA PromptStepIsHubStep == [PromptNext]_promptVars => [Next]_vars
<1>1. ASSUME NEW p \in Peer, GatewayRegisters(p) \/ GatewayBeats(p) \/ GatewayPolls(p)
      PROVE  Next
  BY <1>1 DEF GatewayRegisters, GatewayBeats, GatewayPolls, Next, PresenceRequest, RelayRequest
<1>2. OtherRequest => Next
  BY DEF OtherRequest, Next, PresenceRequest, RelayRequest
<1>3. PromptTick => Next
  BY DEF PromptTick, Next
<1>4. UNCHANGED promptVars => UNCHANGED vars
  BY DEF promptVars
<1> QED
  BY <1>1, <1>2, <1>3, <1>4 DEF PromptNext

\* The gateways' loops only restrict when time may pass: every behaviour is one
\* of the hub.
THEOREM PromptRefinesHub == PromptSpec => Spec
<1>1. PromptInit => Init
  BY DEF PromptInit
<1> QED
  BY <1>1, PromptStepIsHubStep, PTL DEF PromptSpec, Spec

-----------------------------------------------------------------------------
(***************************************************************************)
(* What the invariant says of the maps.                                    *)
(***************************************************************************)

LEMMA EverybodyOnline ==
    ASSUME PromptInvariant
    PROVE  /\ \A p \in DOMAIN peers : Online(p)
           /\ live_peers = peers
<1>1. ASSUME NEW p \in DOMAIN peers
      PROVE  Online(p)
  <2>1. /\ peers[p].expires_in \in 0..PresenceLease /\ p \in Peer
        /\ beat_age[p] \in 0..HeartbeatInterval
        /\ peers[p].expires_in + beat_age[p] >= PresenceLease
    BY DEF PromptInvariant, PromptTypeOK, TypeOK, Presence, BeatsCoverLeases
  <2> QED
    BY <2>1, IntervalAssumption, LeaseAssumption DEF Online
<1>2. live_peers = peers
  BY <1>1 DEF live_peers, PromptInvariant, PromptTypeOK, TypeOK
<1> QED
  BY <1>1, <1>2

LEMMA WaitingIsOpen ==
    ASSUME PromptInvariant
    PROVE  WaitingSessionsStayOpen
<1> SUFFICES ASSUME NEW s \in DOMAIN relay_sessions, NEW p \in Peer, Waiting(s, p) # <<>>
             PROVE  Open(s)
  BY DEF WaitingSessionsStayOpen
<1>1. /\ relay_sessions[s].expires_in \in 0..RelaySessionTimeout
      /\ poll_age[p] \in 0..PollInterval
      /\ relay_sessions[s].expires_in + poll_age[p] >= RelaySessionTimeout
  BY DEF PromptInvariant, PromptTypeOK, TypeOK, RelaySession, PollsCoverWaiting
<1> QED
  BY <1>1, IntervalAssumption, TimeoutAssumption DEF Open

-----------------------------------------------------------------------------
(***************************************************************************)
(* What one step of the hub does to entries and logs.                      *)
(***************************************************************************)

\* Time apart, a session in the map after a step is as it was or has its full
\* time before it.
SessionsUntouchedOrRenewed ==
    \A s \in DOMAIN relay_sessions' :
        \/ relay_sessions'[s].expires_in = RelaySessionTimeout
        \/ s \in DOMAIN relay_sessions /\ relay_sessions'[s] = relay_sessions[s]

LEMMA PruneRenewsNothing == prune_sessions => SessionsUntouchedOrRenewed
BY DEF prune_sessions, live_sessions, SessionsUntouchedOrRenewed

LEMMA ConnectRenews == ConnectRequest => SessionsUntouchedOrRenewed
<1>1. ASSUME NEW a \in Peer, NEW b \in Peer, NEW prefer_direct \in BOOLEAN,
             NEW s \in Session, ConnectRelay(a, b, prefer_direct, s)
      PROVE  SessionsUntouchedOrRenewed
  BY <1>1 DEF ConnectRelay, With, live_sessions, SessionsUntouchedOrRenewed
<1> QED
  BY <1>1, PruneRenewsNothing
     DEF ConnectRequest, ConnectToSelf, ConnectOffline, ConnectDirect, prune_expired

LEMMA PollRenews ==
    ASSUME TypeOK, NEW p, poll_relay_messages(p)
    PROVE  SessionsUntouchedOrRenewed
<1> SUFFICES ASSUME NEW s \in DOMAIN relay_sessions'
             PROVE  \/ relay_sessions'[s].expires_in = RelaySessionTimeout
                    \/ s \in DOMAIN relay_sessions /\ relay_sessions'[s] = relay_sessions[s]
  BY DEF SessionsUntouchedOrRenewed
<1>1. s \in DOMAIN relay_sessions /\ relay_sessions'[s] = PolledSession(s, p)
  BY DEF poll_relay_messages
<1>2. relay_sessions[s] \in RelaySession
  BY <1>1 DEF TypeOK
<1>3. \/ PolledSession(s, p) = relay_sessions[s]
      \/ PolledSession(s, p).expires_in = RelaySessionTimeout
  BY <1>2 DEF PolledSession, RelaySession
<1> QED
  BY <1>1, <1>3

LEMMA AttachRenews ==
    ASSUME TypeOK, NEW s, NEW p, attach_relay_peer(s, p)
    PROVE  SessionsUntouchedOrRenewed
<1>1. relay_sessions' = [live_sessions EXCEPT
                           ![s].attached = @ \cup {RoleOf(relay_sessions[s], p)},
                           ![s].expires_in = RelaySessionTimeout]
  BY DEF attach_relay_peer
<1>2. \A t \in DOMAIN live_sessions : /\ t \in DOMAIN relay_sessions
                                      /\ live_sessions[t] = relay_sessions[t]
                                      /\ live_sessions[t] \in RelaySession
  BY DEF live_sessions, TypeOK
<1> QED
  BY <1>1, <1>2 DEF RelaySession, SessionsUntouchedOrRenewed

LEMMA SendRenews ==
    ASSUME TypeOK, NEW s, NEW p, NEW from, NEW to, NEW m, relay_send(s, p, from, to, m)
    PROVE  SessionsUntouchedOrRenewed
<1> DEFINE recipient == Counterpart(RoleOf(relay_sessions[s], p))
           envelope == [relay_session_id |-> s, from_peer_id |-> from,
                        to_peer_id |-> to, message |-> m]
<1>1. relay_sessions' = [live_sessions EXCEPT
                           ![s].pending[recipient] = Append(@, envelope),
                           ![s].expires_in = RelaySessionTimeout]
  BY DEF relay_send
<1>2. \A t \in DOMAIN live_sessions : /\ t \in DOMAIN relay_sessions
                                      /\ live_sessions[t] = relay_sessions[t]
                                      /\ live_sessions[t] \in RelaySession
  BY DEF live_sessions, TypeOK
<1> HIDE DEF recipient, envelope
<1> QED
  BY <1>1, <1>2 DEF RelaySession, SessionsUntouchedOrRenewed

LEMMA OtherRenews == TypeOK /\ OtherRequest => SessionsUntouchedOrRenewed
<1>1. \/ prune_sessions
      \/ ConnectRequest
      \/ \E s \in Session, p \in Peer : attach_relay_peer(s, p)
      \/ ~OtherRequest
      \/ \E s \in Session, p, from, to \in Peer, m \in Message :
            relay_send(s, p, from, to, m)
  BY DEF OtherRequest, Cleanup, lookup_peer, AttachRefused, SendRefused, prune_expired
<1> QED
  BY <1>1, PruneRenewsNothing, ConnectRenews, AttachRenews, SendRenews

\* Nothing is added to the logs of a session that is not open.
LEMMA LapsedLogsStay ==
    ASSUME TypeOK, PartiesDiffer, [Next]_vars, NEW s \in Session, ~Open(s), NEW q \in Peer
    PROVE  handed'[q][s] = handed[q][s] /\ accepted'[q][s] = accepted[q][s]
<1>1. CASE Quiet
  BY <1>1 DEF Quiet
<1>2. ASSUME NEW a \in Peer, NEW b \in Peer, NEW prefer_direct \in BOOLEAN,
             NEW t \in Session, ConnectRelay(a, b, prefer_direct, t)
      PROVE  UNCHANGED <<handed, accepted>>
  BY <1>2 DEF ConnectRelay
<1>3. ASSUME NEW t \in Session, NEW p \in Peer, NEW from \in Peer, NEW to \in Peer,
             NEW m \in Message, relay_send(t, p, from, to, m)
      PROVE  handed'[q][s] = handed[q][s] /\ accepted'[q][s] = accepted[q][s]
  <2>1. /\ t # s /\ handed' = handed
        /\ accepted' = [accepted EXCEPT ![to][t] = Append(@,
                          [relay_session_id |-> t, from_peer_id |-> from,
                           to_peer_id |-> to, message |-> m])]
    BY <1>3 DEF relay_send, SendAllowed
  <2> QED
    BY <2>1 DEF TypeOK
<1>4. ASSUME NEW p \in Peer, poll_relay_messages(p)
      PROVE  handed'[q][s] = handed[q][s] /\ accepted'[q][s] = accepted[q][s]
  <2>1. /\ accepted' = accepted
        /\ q # p => handed'[q][s] = handed[q][s]
        /\ q = p => handed'[q][s] = handed[q][s] \o Drained(s, p)
    BY <1>4 DEF poll_relay_messages, TypeOK
  <2>2. Drained(s, p) = <<>>
    BY DrainedIsWaiting
  <2>3. handed[q][s] \in Seq(Envelope)
    BY DEF TypeOK
  <2>4. handed[q][s] \o <<>> = handed[q][s]
    BY <2>3
  <2> QED
    BY <2>1, <2>2, <2>4
<1> QED
  BY <1>1, <1>2, <1>3, <1>4, StepKinds

-----------------------------------------------------------------------------
(***************************************************************************)
(* The invariant is inductive, given that of the hub.                      *)
(***************************************************************************)

\* A session that goes takes nothing with it: swept, it has been handed over;
\* out of time, it had nothing waiting.
LEMMA NothingIsDroppedNext ==
    ASSUME HubInvariant, PromptInvariant, [Next]_vars
    PROVE  NothingIsDropped'
<1> SUFFICES ASSUME NEW s \in Session, NEW q \in Peer, s \notin DOMAIN relay_sessions'
             PROVE  handed'[q][s] = accepted'[q][s]
  BY DEF NothingIsDropped
<1>0. TypeOK /\ RelayInvariant /\ PartiesDiffer
  BY DEF HubInvariant, RelayInvariant
<1>1. CASE Open(s)
  <2>1. PICK p \in Peer : /\ poll_relay_messages(p)
                         /\ relay_session_is_finished(PolledSession(s, p))
    BY <1>0, <1>1, OpenSessionsStay
  <2>2. handed'[q][s] = accepted[q][s]
    BY <1>0, <1>1, <2>1, FinishedIsHandedOver
  <2> QED
    BY <2>1, <2>2 DEF poll_relay_messages
<1>2. CASE ~Open(s) /\ s \in DOMAIN relay_sessions
  <2>1. Waiting(s, q) = <<>>
    BY <1>2, WaitingIsOpen DEF WaitingSessionsStayOpen
  <2>2. accepted[q][s] = handed[q][s] \o Waiting(s, q)
    BY <1>2 DEF HubInvariant, RelayFifo, LiveSessionsConserve
  <2>3. handed[q][s] \in Seq(Envelope)
    BY <1>0 DEF TypeOK
  <2>4. handed[q][s] \o <<>> = handed[q][s]
    BY <2>3
  <2> QED
    BY <1>0, <1>2, <2>1, <2>2, <2>4, LapsedLogsStay
<1>3. CASE s \notin DOMAIN relay_sessions
  <2>1. ~Open(s)
    BY <1>3 DEF Open
  <2> QED
    BY <1>0, <1>3, <2>1, LapsedLogsStay DEF PromptInvariant, NothingIsDropped
<1> QED
  BY <1>1, <1>2, <1>3

\* A step of any kind but Tick keeps PollsCoverWaiting, if it resets no age but
\* that of a peer for whom nothing waits any more.
LEMMA CoverWaitingNext ==
    ASSUME PromptInvariant, SessionsUntouchedOrRenewed,
           \A q \in Peer : \/ poll_age'[q] = poll_age[q]
                          \/ /\ poll_age'[q] = 0
                             /\ \A s \in DOMAIN relay_sessions' : Waiting(s, q)' = <<>>
    PROVE  PollsCoverWaiting'
<1> SUFFICES ASSUME NEW s \in DOMAIN relay_sessions', NEW q \in Peer,
                    Waiting(s, q)' # <<>>
             PROVE  relay_sessions'[s].expires_in + poll_age'[q] >= RelaySessionTimeout
  BY DEF PollsCoverWaiting
<1>1. poll_age'[q] = poll_age[q] /\ poll_age[q] \in 0..PollInterval
  BY DEF PromptInvariant, PromptTypeOK
<1>2. CASE relay_sessions'[s].expires_in = RelaySessionTimeout
  BY <1>1, <1>2, IntervalAssumption, TimeoutAssumption
<1>3. CASE s \in DOMAIN relay_sessions /\ relay_sessions'[s] = relay_sessions[s]
  <2>1. Waiting(s, q)' = Waiting(s, q)
    BY <1>3 DEF Waiting, InSession, RoleOf
  <2> QED
    BY <1>1, <1>3, <2>1 DEF PromptInvariant, PollsCoverWaiting
<1> QED
  BY <1>2, <1>3 DEF SessionsUntouchedOrRenewed

\* A peer found online by connect is in the map, and stays there.
LEMMA EndsNext ==
    ASSUME TypeOK, PartiesDiffer, PromptInvariant, [Next]_vars,
           DOMAIN peers \subseteq DOMAIN peers'
    PROVE  EndsAreRegistered'
<1> SUFFICES ASSUME NEW s \in DOMAIN relay_sessions', NEW role \in Role
             PROVE  relay_sessions'[s].party[role] \in DOMAIN peers'
  BY DEF EndsAreRegistered
<1>1. ASSUME s \in DOMAIN relay_sessions,
             relay_sessions'[s].party = relay_sessions[s].party
      PROVE  relay_sessions'[s].party[role] \in DOMAIN peers'
  BY <1>1 DEF PromptInvariant, EndsAreRegistered
<1>2. CASE Quiet
  BY <1>1, <1>2 DEF Quiet
<1>3. ASSUME NEW a \in Peer, NEW b \in Peer, NEW prefer_direct \in BOOLEAN,
             NEW t \in Session, ConnectRelay(a, b, prefer_direct, t)
      PROVE  relay_sessions'[s].party[role] \in DOMAIN peers'
  <2>1. a \in DOMAIN peers /\ b \in DOMAIN peers
    BY <1>3 DEF ConnectRelay, Online
  <2>2. CASE s = t
    BY <1>3, <2>1, <2>2 DEF ConnectRelay, With
  <2>3. CASE s # t
    BY <1>1, <1>3, <2>3 DEF ConnectRelay, With, live_sessions
  <2> QED
    BY <2>2, <2>3
<1>4. ASSUME NEW t \in Session, NEW p \in Peer, NEW from \in Peer, NEW to \in Peer,
             NEW m \in Message, relay_send(t, p, from, to, m)
      PROVE  relay_sessions'[s].party[role] \in DOMAIN peers'
  <2> DEFINE recipient == Counterpart(RoleOf(relay_sessions[t], p))
             envelope == [relay_session_id |-> t, from_peer_id |-> from,
                          to_peer_id |-> to, message |-> m]
  <2>1. relay_sessions' = [live_sessions EXCEPT
                             ![t].pending[recipient] = Append(@, envelope),
                             ![t].expires_in = RelaySessionTimeout]
    BY <1>4 DEF relay_send
  <2>2. \A u \in DOMAIN live_sessions : /\ u \in DOMAIN relay_sessions
                                        /\ live_sessions[u] = relay_sessions[u]
                                        /\ live_sessions[u] \in RelaySession
    BY DEF live_sessions, TypeOK
  <2> HIDE DEF recipient, envelope
  <2>3. s \in DOMAIN relay_sessions /\ relay_sessions'[s].party = relay_sessions[s].party
    BY <2>1, <2>2 DEF RelaySession
  <2> QED
    BY <1>1, <2>3
<1>5. ASSUME NEW p \in Peer, poll_relay_messages(p)
      PROVE  relay_sessions'[s].party[role] \in DOMAIN peers'
  <2>1. s \in DOMAIN relay_sessions /\ Open(s) /\ relay_sessions'[s] = PolledSession(s, p)
    BY <1>5 DEF poll_relay_messages
  <2> QED
    BY <1>1, <2>1, PolledQueues
<1> QED
  BY <1>2, <1>3, <1>4, <1>5, StepKinds

LEMMA RegistersKeeps ==
    ASSUME TypeOK, PartiesDiffer, PromptInvariant, NEW p \in Peer, GatewayRegisters(p)
    PROVE  BeatsCoverLeases' /\ PollsCoverWaiting' /\ DOMAIN peers \subseteq DOMAIN peers'
<1>1. PICK profile \in Profile, ip \in ObservedIp : Register(p, profile, ip)
  BY DEF GatewayRegisters
<1>2. /\ p \in DOMAIN peers' /\ peers'[p].expires_in = PresenceLease
      /\ DOMAIN peers' = DOMAIN peers \cup {p}
      /\ \A q \in DOMAIN peers \ {p} : peers'[q] = peers[q]
  BY <1>1 DEF Register, With
<1>3. /\ beat_age'[p] = 0
      /\ \A q \in Peer \ {p} : beat_age'[q] = beat_age[q]
  BY DEF GatewayRegisters, PromptInvariant, PromptTypeOK
<1>4. BeatsCoverLeases'
  BY <1>2, <1>3, LeaseAssumption DEF PromptInvariant, BeatsCoverLeases, TypeOK
<1>5. SessionsUntouchedOrRenewed /\ poll_age' = poll_age
  BY <1>1 DEF Register, GatewayRegisters, SessionsUntouchedOrRenewed
<1> QED
  BY <1>2, <1>4, <1>5, CoverWaitingNext

LEMMA BeatsKeeps ==
    ASSUME TypeOK, PartiesDiffer, PromptInvariant, NEW p \in Peer, GatewayBeats(p)
    PROVE  BeatsCoverLeases' /\ PollsCoverWaiting' /\ DOMAIN peers \subseteq DOMAIN peers'
<1>1. /\ beat_age'[p] = 0
      /\ \A q \in Peer \ {p} : beat_age'[q] = beat_age[q]
  BY DEF GatewayBeats, PromptInvariant, PromptTypeOK
<1>2. SessionsUntouchedOrRenewed /\ poll_age' = poll_age
  BY DEF GatewayBeats, Heartbeat, HeartbeatRefused, state, SessionsUntouchedOrRenewed
<1>3. CASE Heartbeat(p)
  <2>1. \A q \in DOMAIN peers : peers[q] \in Presence
    BY DEF TypeOK
  <2>2. /\ DOMAIN peers' = DOMAIN peers /\ p \in DOMAIN peers
        /\ peers'[p].expires_in = PresenceLease
        /\ \A q \in DOMAIN peers \ {p} : peers'[q] = peers[q]
    BY <1>3, <2>1 DEF Heartbeat, Presence
  <2>3. ASSUME NEW q \in DOMAIN peers'
        PROVE  peers'[q].expires_in + beat_age'[q] >= PresenceLease
    <3>1. CASE q = p
      BY <1>1, <2>2, <3>1, LeaseAssumption
    <3>2. CASE q # p
      <4>1. q \in Peer /\ q \in DOMAIN peers
        BY <2>2 DEF TypeOK
      <4>2. peers[q].expires_in + beat_age[q] >= PresenceLease
        BY <4>1 DEF PromptInvariant, BeatsCoverLeases
      <4> QED
        BY <1>1, <2>2, <3>2, <4>1, <4>2
    <3> QED
      BY <3>1, <3>2
  <2>4. BeatsCoverLeases'
    BY <2>3 DEF BeatsCoverLeases
  <2> QED
    BY <1>2, <2>2, <2>4, CoverWaitingNext
<1>4. CASE HeartbeatRefused(p)
  <2>1. peers' = peers /\ p \notin DOMAIN peers
    BY <1>4 DEF HeartbeatRefused, state
  <2> QED
    BY <1>1, <1>2, <2>1, CoverWaitingNext DEF PromptInvariant, BeatsCoverLeases, TypeOK
<1> QED
  BY <1>3, <1>4 DEF GatewayBeats

LEMMA PollsKeeps ==
    ASSUME TypeOK, PartiesDiffer, PromptInvariant, NEW p \in Peer, GatewayPolls(p)
    PROVE  BeatsCoverLeases' /\ PollsCoverWaiting' /\ DOMAIN peers \subseteq DOMAIN peers'
<1>1. peers' = peers /\ beat_age' = beat_age /\ poll_relay_messages(p)
  BY EverybodyOnline DEF GatewayPolls, poll_relay_messages, prune_peers
<1>2. BeatsCoverLeases'
  BY <1>1 DEF PromptInvariant, BeatsCoverLeases
<1>3. \A s \in DOMAIN relay_sessions' : Waiting(s, p)' = <<>>
  <2> SUFFICES ASSUME NEW s \in DOMAIN relay_sessions'
               PROVE  Waiting(s, p)' = <<>>
    OBVIOUS
  <2>1. s \in DOMAIN relay_sessions /\ Open(s) /\ relay_sessions'[s] = PolledSession(s, p)
    BY <1>1 DEF poll_relay_messages
  <2>2. /\ relay_sessions'[s].party = relay_sessions[s].party
        /\ InSession(relay_sessions[s], p) =>
             relay_sessions'[s].pending[RoleOf(relay_sessions[s], p)] = <<>>
    BY <2>1, PolledQueues
  <2> QED
    BY <2>2 DEF Waiting, InSession, RoleOf
<1>4. /\ poll_age'[p] = 0
      /\ \A q \in Peer \ {p} : poll_age'[q] = poll_age[q]
  BY DEF GatewayPolls, PromptInvariant, PromptTypeOK
<1>5. PollsCoverWaiting'
  BY <1>1, <1>3, <1>4, PollRenews, CoverWaitingNext
<1> QED
  BY <1>1, <1>2, <1>5

LEMMA OtherKeeps ==
    ASSUME TypeOK, PartiesDiffer, PromptInvariant, OtherRequest
    PROVE  BeatsCoverLeases' /\ PollsCoverWaiting' /\ DOMAIN peers \subseteq DOMAIN peers'
<1>1. beat_age' = beat_age /\ poll_age' = poll_age
  BY DEF OtherRequest, ages
<1>2. peers' = peers
  <2>1. \/ ConnectRequest \/ RelayRequest \/ Cleanup
        \/ \E p \in Peer : lookup_peer(p)
    BY DEF OtherRequest, RelayRequest
  <2> QED
    BY <2>1, RequestsPrune, EverybodyOnline DEF prune_peers
<1>3. BeatsCoverLeases'
  BY <1>1, <1>2 DEF PromptInvariant, BeatsCoverLeases
<1>4. PollsCoverWaiting'
  BY <1>1, OtherRenews, CoverWaitingNext
<1> QED
  BY <1>2, <1>3, <1>4

\* A unit of time costs every countdown one and adds one to every age.
LEMMA TickKeeps ==
    ASSUME TypeOK, PartiesDiffer, PromptInvariant, PromptTick
    PROVE  BeatsCoverLeases' /\ PollsCoverWaiting' /\ DOMAIN peers \subseteq DOMAIN peers'
<1>1. /\ DOMAIN peers' = DOMAIN peers
      /\ \A p \in Peer : p \in DOMAIN peers =>
            beat_age'[p] = beat_age[p] + 1 /\ poll_age'[p] = poll_age[p] + 1
  BY DEF PromptTick, Tick
<1>2. \A n \in Nat : Less(n) \in Nat /\ Less(n) + 1 >= n
  BY DEF Less
<1>3. ASSUME NEW p \in DOMAIN peers'
      PROVE  peers'[p].expires_in + beat_age'[p] >= PresenceLease
  <2>1. peers[p] \in Presence /\ p \in Peer /\ p \in DOMAIN peers
    BY <1>1, <1>3 DEF TypeOK
  <2>2. peers'[p].expires_in = Less(peers[p].expires_in)
    BY <2>1 DEF PromptTick, Tick, Presence
  <2>3. peers[p].expires_in \in Nat /\ beat_age[p] \in Nat /\ PresenceLease \in Nat
    BY <2>1, LeaseAssumption, IntervalAssumption
       DEF Presence, PromptInvariant, PromptTypeOK
  <2>4. peers[p].expires_in + beat_age[p] >= PresenceLease
    BY <2>1 DEF PromptInvariant, BeatsCoverLeases
  <2>5. beat_age'[p] = beat_age[p] + 1
    BY <1>1, <2>1
  <2> QED
    BY <1>2, <2>2, <2>3, <2>4, <2>5
<1>4. ASSUME NEW s \in DOMAIN relay_sessions', NEW q \in Peer, Waiting(s, q)' # <<>>
      PROVE  relay_sessions'[s].expires_in + poll_age'[q] >= RelaySessionTimeout
  <2>1. s \in DOMAIN relay_sessions /\ relay_sessions[s] \in RelaySession
    BY <1>4 DEF PromptTick, Tick, TypeOK
  <2>2. /\ relay_sessions'[s].expires_in = Less(relay_sessions[s].expires_in)
        /\ relay_sessions'[s].party = relay_sessions[s].party
        /\ relay_sessions'[s].pending = relay_sessions[s].pending
    BY <2>1 DEF PromptTick, Tick, RelaySession
  <2>3. Waiting(s, q)' = Waiting(s, q)
    BY <1>4, <2>1, <2>2 DEF Waiting, InSession, RoleOf
  <2>4. q \in DOMAIN peers
    <3>1. PICK role \in Role : relay_sessions[s].party[role] = q
      BY <1>4, <2>1, <2>3 DEF Waiting, InSession
    <3> QED
      BY <2>1, <3>1 DEF PromptInvariant, EndsAreRegistered
  <2>5. relay_sessions[s].expires_in + poll_age[q] >= RelaySessionTimeout
    BY <1>4, <2>1, <2>3 DEF PromptInvariant, PollsCoverWaiting
  <2>6. poll_age'[q] = poll_age[q] + 1
    BY <1>1, <2>4
  <2>7. /\ relay_sessions[s].expires_in \in Nat /\ poll_age[q] \in Nat
        /\ RelaySessionTimeout \in Nat
    BY <2>1, TimeoutAssumption, IntervalAssumption
       DEF RelaySession, PromptInvariant, PromptTypeOK
  <2> QED
    BY <1>2, <2>2, <2>5, <2>6, <2>7
<1> QED
  BY <1>1, <1>3, <1>4 DEF BeatsCoverLeases, PollsCoverWaiting

LEMMA AgesType ==
    ASSUME PromptTypeOK, [PromptNext]_promptVars
    PROVE  /\ beat_age' \in [Peer -> 0..HeartbeatInterval]
           /\ poll_age' \in [Peer -> 0..PollInterval]
<1>1. 0 \in 0..HeartbeatInterval /\ 0 \in 0..PollInterval
  BY IntervalAssumption
<1>2. ASSUME NEW p \in Peer, GatewayRegisters(p) \/ GatewayBeats(p) \/ GatewayPolls(p)
      PROVE  /\ beat_age' \in [Peer -> 0..HeartbeatInterval]
             /\ poll_age' \in [Peer -> 0..PollInterval]
  BY <1>1, <1>2 DEF GatewayRegisters, GatewayBeats, GatewayPolls, PromptTypeOK
<1>3. CASE OtherRequest \/ UNCHANGED promptVars
  BY <1>3 DEF OtherRequest, ages, promptVars, PromptTypeOK
<1>4. CASE PromptTick
  <2>1. \A p \in DOMAIN peers \cap Peer :
          beat_age[p] + 1 \in 0..HeartbeatInterval /\ poll_age[p] + 1 \in 0..PollInterval
    BY <1>4, IntervalAssumption DEF PromptTick, PromptTypeOK
  <2> QED
    BY <1>1, <1>4, <2>1 DEF PromptTick
<1> QED
  BY <1>2, <1>3, <1>4 DEF PromptNext

LEMMA PromptInductive ==
    ASSUME HubInvariant, PromptInvariant, [PromptNext]_promptVars
    PROVE  PromptInvariant'
<1>1. [Next]_vars
  BY PromptStepIsHubStep
<1>2. TypeOK /\ PartiesDiffer
  BY DEF HubInvariant
<1>3. PromptTypeOK'
  BY <1>1, <1>2, NextType, AgesType DEF PromptTypeOK, PromptInvariant
<1>4. NothingIsDropped'
  BY <1>1, NothingIsDroppedNext
<1>5. BeatsCoverLeases' /\ PollsCoverWaiting' /\ DOMAIN peers \subseteq DOMAIN peers'
  <2>1. CASE UNCHANGED promptVars
    <3>1. peers' = peers /\ relay_sessions' = relay_sessions /\ beat_age' = beat_age
          /\ poll_age' = poll_age
      BY <2>1 DEF promptVars, vars, state, ages
    <3>2. SessionsUntouchedOrRenewed
      BY <3>1 DEF SessionsUntouchedOrRenewed
    <3> QED
      BY <3>1, <3>2, CoverWaitingNext DEF PromptInvariant, BeatsCoverLeases
  <2> QED
    BY <1>2, <2>1, RegistersKeeps, BeatsKeeps, PollsKeeps, OtherKeeps, TickKeeps DEF PromptNext
<1>6. EndsAreRegistered'
  BY <1>1, <1>2, <1>5, EndsNext
<1> QED
  BY <1>3, <1>4, <1>5, <1>6 DEF PromptInvariant

LEMMA PromptInitially == PromptInit => PromptInvariant
<1> SUFFICES ASSUME PromptInit
             PROVE  PromptInvariant
  OBVIOUS
<1>1. TypeOK
  BY InitType DEF PromptInit
<1>2. PromptTypeOK
  BY <1>1, IntervalAssumption DEF PromptInit, PromptTypeOK
<1>3. BeatsCoverLeases /\ PollsCoverWaiting /\ EndsAreRegistered
  BY DEF PromptInit, Init, BeatsCoverLeases, PollsCoverWaiting, EndsAreRegistered
<1>4. NothingIsDropped
  BY DEF PromptInit, Init, NothingIsDropped
<1> QED
  BY <1>2, <1>3, <1>4 DEF PromptInvariant

\* PromptInvariant holds in every reachable state of a hub whose gateways keep
\* their intervals: what a countdown has lost never exceeds the age of the loop
\* that renews it.
THEOREM PromptInvariantHolds == PromptSpec => []PromptInvariant
<1>1. PromptSpec => []HubInvariant
  BY PromptRefinesHub, HubInvariantHolds
<1> QED
  BY <1>1, PromptInitially, PromptInductive, PTL DEF PromptSpec

-----------------------------------------------------------------------------
\* No age of a loop ever exceeds its interval, and the hub's state is well formed.
THEOREM PromptTypeCorrect == PromptSpec => []PromptTypeOK
<1>1. PromptInvariant => PromptTypeOK
  BY DEF PromptInvariant
<1> QED
  BY <1>1, PromptInvariantHolds, PTL

\* A gateway whose heartbeats come within an interval shorter than the lease is
\* online at every instant from its registration on, and no answer to anybody
\* calls it offline.
THEOREM PeersStayOnline == PromptSpec => []BeatingPeersStayOnline
<1>1. PromptInvariant /\ HubInvariant => BeatingPeersStayOnline
  BY EverybodyOnline DEF HubInvariant, OfflineIsFinal, BeatingPeersStayOnline
<1>2. PromptSpec => []HubInvariant
  BY PromptRefinesHub, HubInvariantHolds
<1> QED
  BY <1>1, <1>2, PromptInvariantHolds, PTL

\* If every gateway polls within an interval shorter than the session timeout,
\* no session runs out of time with a message waiting in it.
THEOREM WaitingStaysOpen == PromptSpec => []WaitingSessionsStayOpen
<1>1. PromptInvariant => WaitingSessionsStayOpen
  BY WaitingIsOpen
<1> QED
  BY <1>1, PromptInvariantHolds, PTL

\* And then the relay loses nothing at all: whatever was accepted on a session
\* that is gone was handed to its addressee.
THEOREM RelayDropsNothing == PromptSpec => []NothingIsDropped
<1>1. PromptInvariant => NothingIsDropped
  BY DEF PromptInvariant
<1> QED
  BY <1>1, PromptInvariantHolds, PTL
=============================================================================
