----------------------------- MODULE HubProofs -----------------------------
(***************************************************************************)
(* Theorems about Hub, for every value of its constants: any set of peers, *)
(* sessions and messages, any lease and timeout, any reachability.         *)
(***************************************************************************)
EXTENDS Hub, SequenceTheorems, TLAPS

-----------------------------------------------------------------------------
(***************************************************************************)
(* Facts about the helpers of Hub.                                         *)
(***************************************************************************)

LEMMA WithType ==
    ASSUME NEW K, NEW V, NEW f, DOMAIN f \subseteq K, f \in [DOMAIN f -> V],
           NEW k \in K, NEW v \in V
    PROVE  /\ DOMAIN With(f, k, v) \subseteq K
           /\ With(f, k, v) \in [DOMAIN With(f, k, v) -> V]
BY DEF With

LEMMA LiveType ==
    ASSUME TypeOK
    PROVE  /\ DOMAIN live_peers \subseteq Peer
           /\ live_peers \in [DOMAIN live_peers -> Presence]
           /\ DOMAIN live_sessions \subseteq issued
           /\ live_sessions \in [DOMAIN live_sessions -> RelaySession]
BY DEF TypeOK, live_peers, live_sessions

LEMMA RoleOfInSession ==
    ASSUME NEW session, NEW p, InSession(session, p)
    PROVE  RoleOf(session, p) \in Role /\ session.party[RoleOf(session, p)] = p
BY DEF InSession, RoleOf, Role

LEMMA CounterpartType == \A role \in Role : Counterpart(role) \in Role \ {role}
BY DEF Counterpart, Role

LEMMA DrainedType ==
    ASSUME TypeOK, NEW s, NEW p
    PROVE  Drained(s, p) \in Seq(Envelope)
<1>1. CASE Open(s) /\ InSession(relay_sessions[s], p)
  <2>1. s \in DOMAIN relay_sessions
    BY <1>1 DEF Open
  <2>2. relay_sessions[s] \in RelaySession
    BY <2>1 DEF TypeOK
  <2>3. RoleOf(relay_sessions[s], p) \in Role
    BY <1>1, RoleOfInSession
  <2> QED
    BY <1>1, <2>2, <2>3 DEF Drained, RelaySession
<1>2. CASE ~(Open(s) /\ InSession(relay_sessions[s], p))
  BY <1>2 DEF Drained
<1> QED
  BY <1>1, <1>2

LEMMA PolledSessionType ==
    ASSUME TypeOK, NEW s \in DOMAIN relay_sessions, NEW p
    PROVE  PolledSession(s, p) \in RelaySession
<1>1. relay_sessions[s] \in RelaySession
  BY DEF TypeOK
<1>2. CASE Drained(s, p) = <<>>
  BY <1>1, <1>2 DEF PolledSession
<1>3. CASE Drained(s, p) # <<>>
  <2>1. RoleOf(relay_sessions[s], p) \in Role
    BY <1>3, RoleOfInSession DEF Drained
  <2>2. RelaySessionTimeout \in 0..RelaySessionTimeout
    BY TimeoutAssumption
  <2>3. <<>> \in Seq(Envelope)
    OBVIOUS
  <2> QED
    BY <1>1, <1>3, <2>1, <2>2, <2>3 DEF PolledSession, RelaySession
<1> QED
  BY <1>2, <1>3

-----------------------------------------------------------------------------
(***************************************************************************)
(* Type correctness.                                                       *)
(***************************************************************************)

\* A handler that only prunes leaves two well-formed maps.
LEMMA PruneType ==
    ASSUME TypeOK, prune_expired
    PROVE  /\ DOMAIN peers' \subseteq Peer
           /\ peers' \in [DOMAIN peers' -> Presence]
           /\ DOMAIN relay_sessions' \subseteq issued
           /\ relay_sessions' \in [DOMAIN relay_sessions' -> RelaySession]
BY LiveType DEF prune_expired, prune_peers, prune_sessions

LEMMA InitType == Init => TypeOK
BY DEF Init, TypeOK

LEMMA PresenceType == TypeOK /\ PresenceRequest => TypeOK'
<1> SUFFICES ASSUME TypeOK, PresenceRequest
             PROVE  TypeOK'
  OBVIOUS
<1>1. PICK p \in Peer :
         \/ \E profile \in Profile, ip \in ObservedIp : Register(p, profile, ip)
         \/ Heartbeat(p)
         \/ HeartbeatRefused(p)
         \/ lookup_peer(p)
  BY DEF PresenceRequest
<1>2. PresenceLease \in 0..PresenceLease
  BY LeaseAssumption
<1>3. ASSUME NEW profile \in Profile, NEW ip \in ObservedIp, Register(p, profile, ip)
      PROVE  TypeOK'
  <2> DEFINE entry == [reachability |-> apply_observed_reachability(profile, ip),
                       expires_in |-> PresenceLease]
  <2>1. entry \in Presence
    BY <1>2 DEF Presence
  <2>2. peers' = With(peers, p, entry)
    BY <1>3 DEF Register
  <2> HIDE DEF entry
  <2>3. DOMAIN peers' \subseteq Peer /\ peers' \in [DOMAIN peers' -> Presence]
    BY <2>1, <2>2, WithType DEF TypeOK
  <2> QED
    BY <1>3, <2>3 DEF Register, TypeOK
<1>4. CASE Heartbeat(p)
  <2>1. /\ peers[p] \in Presence
        /\ peers' = [peers EXCEPT ![p].expires_in = PresenceLease]
    BY <1>4 DEF Heartbeat, TypeOK
  <2>2. [peers[p] EXCEPT !.expires_in = PresenceLease] \in Presence
    BY <1>2, <2>1 DEF Presence
  <2>3. DOMAIN peers' \subseteq Peer /\ peers' \in [DOMAIN peers' -> Presence]
    BY <2>1, <2>2 DEF TypeOK
  <2> QED
    BY <1>4, <2>3 DEF Heartbeat, TypeOK, history
<1>5. CASE HeartbeatRefused(p)
  BY <1>5 DEF HeartbeatRefused, TypeOK, state
<1>6. CASE lookup_peer(p)
  BY <1>6, PruneType DEF lookup_peer, TypeOK
<1> QED
  BY <1>1, <1>3, <1>4, <1>5, <1>6

LEMMA ConnectType == TypeOK /\ ConnectRequest => TypeOK'
<1> SUFFICES ASSUME TypeOK, ConnectRequest
             PROVE  TypeOK'
  OBVIOUS
<1>1. ASSUME NEW a \in Peer, ConnectToSelf(a)
      PROVE  TypeOK'
  BY <1>1, PruneType DEF ConnectToSelf, TypeOK, history
<1>2. ASSUME NEW a \in Peer, NEW b \in Peer, ConnectOffline(a, b)
      PROVE  TypeOK'
  BY <1>2, PruneType DEF ConnectOffline, TypeOK
<1>3. ASSUME NEW a \in Peer, NEW b \in Peer, ConnectDirect(a, b)
      PROVE  TypeOK'
  BY <1>3, PruneType DEF ConnectDirect, TypeOK, history
<1>4. ASSUME NEW a \in Peer, NEW b \in Peer, NEW prefer_direct \in BOOLEAN,
             NEW s \in Session, ConnectRelay(a, b, prefer_direct, s)
      PROVE  TypeOK'
  <2> DEFINE session == [party |-> [role \in Role |-> IF role = "source" THEN a ELSE b],
                         expires_in |-> RelaySessionTimeout, attached |-> {},
                         pending |-> [role \in Role |-> <<>>]]
  <2>1. session \in RelaySession
    BY TimeoutAssumption DEF RelaySession
  <2>2. relay_sessions' = With(live_sessions, s, session) /\ issued' = issued \cup {s}
    BY <1>4 DEF ConnectRelay
  <2>3. /\ DOMAIN live_sessions \subseteq issued'
        /\ live_sessions \in [DOMAIN live_sessions -> RelaySession]
    BY <2>2, LiveType
  <2>4. s \in issued'
    BY <2>2
  <2> HIDE DEF session
  <2>5. /\ DOMAIN relay_sessions' \subseteq issued'
        /\ relay_sessions' \in [DOMAIN relay_sessions' -> RelaySession]
    BY <2>1, <2>2, <2>3, <2>4, WithType
  <2>6. DOMAIN peers' \subseteq Peer /\ peers' \in [DOMAIN peers' -> Presence]
    BY <1>4, LiveType DEF ConnectRelay, prune_peers
  <2> QED
    BY <1>4, <2>5, <2>6 DEF ConnectRelay, TypeOK
<1> QED
  BY <1>1, <1>2, <1>3, <1>4 DEF ConnectRequest

LEMMA RelayType == TypeOK /\ RelayRequest => TypeOK'
<1> SUFFICES ASSUME TypeOK, RelayRequest
             PROVE  TypeOK'
  OBVIOUS
<1>t. RelaySessionTimeout \in 0..RelaySessionTimeout
  BY TimeoutAssumption
<1>1. ASSUME NEW p \in Peer, poll_relay_messages(p)
      PROVE  TypeOK'
  <2>1. /\ DOMAIN relay_sessions' \subseteq issued
        /\ relay_sessions' \in [DOMAIN relay_sessions' -> RelaySession]
    BY <1>1, PolledSessionType DEF poll_relay_messages, TypeOK
  <2>2. handed' \in [Peer -> [Session -> Seq(Envelope)]]
    <3>1. \A s \in Session : handed[p][s] \o Drained(s, p) \in Seq(Envelope)
      BY DrainedType DEF TypeOK
    <3> QED
      BY <1>1, <3>1 DEF poll_relay_messages, TypeOK
  <2>3. DOMAIN peers' \subseteq Peer /\ peers' \in [DOMAIN peers' -> Presence]
    BY <1>1, LiveType DEF poll_relay_messages, prune_peers
  <2> QED
    BY <1>1, <2>1, <2>2, <2>3 DEF poll_relay_messages, TypeOK
<1>2. ASSUME NEW p \in Peer, NEW s \in Session, attach_relay_peer(s, p)
      PROVE  TypeOK'
  <2>1. s \in DOMAIN live_sessions /\ live_sessions[s] \in RelaySession
    BY <1>2, LiveType DEF attach_relay_peer, Open, live_sessions
  <2>2. RoleOf(relay_sessions[s], p) \in Role
    BY <1>2, RoleOfInSession DEF attach_relay_peer
  <2>3. /\ DOMAIN relay_sessions' \subseteq issued
        /\ relay_sessions' \in [DOMAIN relay_sessions' -> RelaySession]
    BY <1>2, <1>t, <2>1, <2>2, LiveType DEF attach_relay_peer, RelaySession
  <2>4. DOMAIN peers' \subseteq Peer /\ peers' \in [DOMAIN peers' -> Presence]
    BY <1>2, LiveType DEF attach_relay_peer, prune_peers
  <2> QED
    BY <1>2, <2>3, <2>4 DEF attach_relay_peer, TypeOK, history
<1>3. ASSUME NEW p \in Peer, NEW s \in Session, AttachRefused(s, p)
      PROVE  TypeOK'
  BY <1>3, PruneType DEF AttachRefused, TypeOK, history
<1>4. ASSUME NEW p \in Peer, NEW s \in Session, NEW from \in Peer, NEW to \in Peer,
             SendRefused(s, p, from, to)
      PROVE  TypeOK'
  BY <1>4, PruneType DEF SendRefused, TypeOK, history
<1>5. ASSUME NEW p \in Peer, NEW s \in Session, NEW from \in Peer, NEW to \in Peer,
             NEW m \in Message, relay_send(s, p, from, to, m)
      PROVE  TypeOK'
  <2> DEFINE recipient == Counterpart(RoleOf(relay_sessions[s], p))
             envelope == [relay_session_id |-> s, from_peer_id |-> from,
                          to_peer_id |-> to, message |-> m]
             q == relay_sessions[s].party[recipient]
  <2>1. s \in DOMAIN live_sessions /\ live_sessions[s] \in RelaySession
        /\ relay_sessions[s] = live_sessions[s]
    BY <1>5, LiveType DEF relay_send, SendAllowed, Open, live_sessions
  <2>2. recipient \in Role
    BY <1>5, RoleOfInSession, CounterpartType DEF relay_send, SendAllowed
  <2>3. envelope \in Envelope
    BY DEF Envelope
  <2>4. q \in Peer
    BY <2>1, <2>2 DEF RelaySession
  <2>5. /\ relay_sessions' = [live_sessions EXCEPT
                                ![s].pending[recipient] = Append(@, envelope),
                                ![s].expires_in = RelaySessionTimeout]
        /\ accepted' = [accepted EXCEPT ![q][s] = Append(@, envelope)]
        /\ sent' = sent \cup {m} /\ UNCHANGED <<issued, handed, told_offline>>
        /\ peers' = live_peers
    BY <1>5 DEF relay_send, prune_peers
  <2> HIDE DEF recipient, envelope, q
  <2>6. Append(live_sessions[s].pending[recipient], envelope) \in Seq(Envelope)
    BY <2>1, <2>2, <2>3 DEF RelaySession
  <2>7. /\ DOMAIN relay_sessions' \subseteq issued
        /\ relay_sessions' \in [DOMAIN relay_sessions' -> RelaySession]
    BY <1>t, <2>1, <2>2, <2>5, <2>6, LiveType DEF RelaySession
  <2>8. accepted' \in [Peer -> [Session -> Seq(Envelope)]]
    BY <2>3, <2>4, <2>5 DEF TypeOK
  <2> QED
    BY <2>5, <2>7, <2>8, LiveType DEF TypeOK
<1> QED
  BY <1>1, <1>2, <1>3, <1>4, <1>5 DEF RelayRequest

LEMMA TickType == TypeOK /\ Tick => TypeOK'
<1> SUFFICES ASSUME TypeOK, Tick
             PROVE  TypeOK'
  OBVIOUS
<1>1. ASSUME NEW n \in Nat, NEW t \in 0..n
      PROVE  Less(t) \in 0..n
  BY DEF Less
<1>2. DOMAIN peers' \subseteq Peer /\ peers' \in [DOMAIN peers' -> Presence]
  BY <1>1, LeaseAssumption DEF Tick, TypeOK, Presence
<1>3. /\ DOMAIN relay_sessions' \subseteq issued
      /\ relay_sessions' \in [DOMAIN relay_sessions' -> RelaySession]
  BY <1>1, TimeoutAssumption, ZenonT(30) DEF Tick, TypeOK, RelaySession
<1> QED
  BY <1>2, <1>3 DEF Tick, TypeOK, history

\* Every step of the hub keeps its maps and logs well formed.
LEMMA NextType == TypeOK /\ [Next]_vars => TypeOK'
<1> SUFFICES ASSUME TypeOK, [Next]_vars
             PROVE  TypeOK'
  OBVIOUS
<1>1. CASE Cleanup
  BY <1>1, PruneType DEF Cleanup, TypeOK, history
<1>2. CASE UNCHANGED vars
  BY <1>2 DEF vars, state, history, TypeOK
<1> QED
  BY <1>1, <1>2, PresenceType, ConnectType, RelayType, TickType DEF Next

\* The hub's two maps and the logs kept of its answers are well formed in every
\* reachable state: keys are peers and issued sessions, no countdown exceeds its
\* lease, queues hold envelopes.
THEOREM TypeCorrect == Spec => []TypeOK
BY InitType, NextType, PTL DEF Spec

-----------------------------------------------------------------------------
(***************************************************************************)
(* Facts about prefixes.                                                   *)
(***************************************************************************)

LEMMA PrefixReflexive ==
    ASSUME NEW S, NEW a \in Seq(S)
    PROVE  IsPrefix(a, a)
BY DEF IsPrefix

LEMMA PrefixOfAppend ==
    ASSUME NEW S, NEW a \in Seq(S), NEW h \in Seq(S), NEW e \in S, IsPrefix(h, a)
    PROVE  IsPrefix(h, Append(a, e))
<1>1. Len(h) <= Len(a) /\ SubSeq(h, 1, Len(h)) = SubSeq(a, 1, Len(h))
  BY DEF IsPrefix
<1>2. Len(Append(a, e)) = Len(a) + 1
  OBVIOUS
<1>3. SubSeq(Append(a, e), 1, Len(h)) = SubSeq(a, 1, Len(h))
  BY <1>1
<1> QED
  BY <1>1, <1>2, <1>3 DEF IsPrefix

LEMMA PrefixElements ==
    ASSUME NEW S, NEW a \in Seq(S), NEW h \in Seq(S), IsPrefix(h, a),
           NEW i \in DOMAIN h
    PROVE  i \in DOMAIN a /\ h[i] = a[i]
<1>1. Len(h) <= Len(a) /\ SubSeq(h, 1, Len(h)) = SubSeq(a, 1, Len(h))
  BY DEF IsPrefix
<1>2. i \in 1..Len(h)
  OBVIOUS
<1>3. SubSeq(h, 1, Len(h))[i] = h[i] /\ SubSeq(a, 1, Len(h))[i] = a[i]
  BY <1>1, <1>2
<1> QED
  BY <1>1, <1>2, <1>3

-----------------------------------------------------------------------------
(***************************************************************************)
(* The relay part of the inductive invariant.                              *)
(***************************************************************************)

RelayInvariant ==
    /\ PartiesDiffer
    /\ NewSessionsAreEmpty
    /\ AcceptedIsAddressed
    /\ RelayFifo

\* Most steps move no message: sessions may go, flags and countdowns change.
Quiet ==
    /\ DOMAIN relay_sessions' \subseteq DOMAIN relay_sessions
    /\ \A s \in DOMAIN relay_sessions' :
          /\ relay_sessions'[s].party = relay_sessions[s].party
          /\ relay_sessions'[s].pending = relay_sessions[s].pending
    /\ UNCHANGED <<issued, accepted, handed>>

LEMMA QuietKeepsRelay ==
    ASSUME RelayInvariant, Quiet
    PROVE  RelayInvariant'
<1>1. \A s \in DOMAIN relay_sessions', p \in Peer : Waiting(s, p)' = Waiting(s, p)
  BY DEF Quiet, Waiting, InSession, RoleOf
<1> QED
  BY <1>1 DEF RelayInvariant, Quiet, PartiesDiffer, NewSessionsAreEmpty,
              AcceptedIsAddressed, RelayFifo, LiveSessionsConserve, DeadSessionsKeepPrefix

LEMMA PruneIsQuiet ==
    ASSUME prune_sessions, UNCHANGED <<issued, accepted, handed>>
    PROVE  Quiet
BY DEF prune_sessions, live_sessions, Quiet

LEMMA UnchangedIsQuiet ==
    ASSUME UNCHANGED <<relay_sessions, issued, accepted, handed>>
    PROVE  Quiet
BY DEF Quiet

LEMMA TickIsQuiet == TypeOK /\ Tick => Quiet
BY DEF TypeOK, RelaySession, Tick, Quiet, history

LEMMA PresenceIsQuiet == PresenceRequest => Quiet
<1> SUFFICES ASSUME PresenceRequest
             PROVE  Quiet
  OBVIOUS
<1>1. \/ prune_sessions /\ UNCHANGED <<issued, accepted, handed>>
      \/ UNCHANGED <<relay_sessions, issued, accepted, handed>>
  BY DEF PresenceRequest, Register, Heartbeat, HeartbeatRefused, lookup_peer,
         prune_expired, state, history
<1> QED
  BY <1>1, PruneIsQuiet, UnchangedIsQuiet

LEMMA AttachIsQuiet ==
    ASSUME TypeOK, NEW s, NEW p, attach_relay_peer(s, p)
    PROVE  Quiet
<1>1. relay_sessions' = [live_sessions EXCEPT
                           ![s].attached = @ \cup {RoleOf(relay_sessions[s], p)},
                           ![s].expires_in = RelaySessionTimeout]
  BY DEF attach_relay_peer
<1>2. \A t \in DOMAIN live_sessions : /\ t \in DOMAIN relay_sessions
                                      /\ live_sessions[t] = relay_sessions[t]
                                      /\ live_sessions[t] \in RelaySession
  BY DEF live_sessions, TypeOK
<1>3. \A t \in DOMAIN relay_sessions' :
        /\ relay_sessions'[t].party = live_sessions[t].party
        /\ relay_sessions'[t].pending = live_sessions[t].pending
  BY <1>1, <1>2 DEF RelaySession
<1> QED
  BY <1>1, <1>2, <1>3 DEF Quiet, attach_relay_peer, history

\* A new session starts with empty queues, and with empty logs because its id
\* is new.
LEMMA ConnectRelayKeepsRelay ==
    ASSUME TypeOK, RelayInvariant, NEW a \in Peer, NEW b \in Peer,
           NEW prefer_direct \in BOOLEAN, NEW s \in Session,
           ConnectRelay(a, b, prefer_direct, s)
    PROVE  RelayInvariant'
<1> DEFINE session == [party |-> [role \in Role |-> IF role = "source" THEN a ELSE b],
                       expires_in |-> RelaySessionTimeout, attached |-> {},
                       pending |-> [role \in Role |-> <<>>]]
<1>1. /\ relay_sessions' = With(live_sessions, s, session) /\ issued' = issued \cup {s}
      /\ s \notin issued /\ a # b /\ UNCHANGED <<accepted, handed>>
  BY DEF ConnectRelay
<1>2. /\ relay_sessions'[s] = session /\ s \in DOMAIN relay_sessions'
      /\ \A t \in DOMAIN relay_sessions' \ {s} :
           t \in DOMAIN relay_sessions /\ relay_sessions'[t] = relay_sessions[t]
  BY <1>1 DEF With, live_sessions
<1>3. PartiesDiffer'
  BY <1>1, <1>2 DEF RelayInvariant, PartiesDiffer, Role
<1>4. NewSessionsAreEmpty' /\ AcceptedIsAddressed' /\ DeadSessionsKeepPrefix'
  BY <1>1 DEF RelayInvariant, RelayFifo, NewSessionsAreEmpty, AcceptedIsAddressed,
              DeadSessionsKeepPrefix
<1>5. ASSUME NEW t \in DOMAIN relay_sessions', NEW q \in Peer
      PROVE  accepted'[q][t] = handed'[q][t] \o Waiting(t, q)'
  <2>1. CASE t = s
    <3>1. accepted[q][s] = <<>> /\ handed[q][s] = <<>>
      BY <1>1 DEF RelayInvariant, NewSessionsAreEmpty
    <3>2. Waiting(s, q)' = <<>>
      BY <1>2 DEF Waiting, RoleOf, Role
    <3>3. <<>> \o <<>> = <<>>
      OBVIOUS
    <3> QED
      BY <1>1, <2>1, <3>1, <3>2, <3>3
  <2>2. CASE t # s
    <3>1. Waiting(t, q)' = Waiting(t, q)
      BY <1>2, <2>2 DEF Waiting, InSession, RoleOf
    <3> QED
      BY <1>1, <1>2, <2>2, <3>1 DEF RelayInvariant, RelayFifo, LiveSessionsConserve
  <2> QED
    BY <2>1, <2>2
<1> QED
  BY <1>3, <1>4, <1>5 DEF RelayInvariant, RelayFifo, LiveSessionsConserve

\* The envelope goes to the end of the recipient's queue and of its log; every
\* other queue and log is left alone.
LEMMA SendKeepsRelay ==
    ASSUME TypeOK, RelayInvariant, NEW s \in Session, NEW p \in Peer, NEW from \in Peer,
           NEW to \in Peer, NEW m \in Message, relay_send(s, p, from, to, m)
    PROVE  RelayInvariant'
<1> DEFINE session == relay_sessions[s]
           role == RoleOf(session, p)
           recipient == Counterpart(role)
           q == session.party[recipient]
           envelope == [relay_session_id |-> s, from_peer_id |-> from,
                        to_peer_id |-> to, message |-> m]
<1>1. Open(s) /\ InSession(session, p) /\ from = session.party[role] /\ to = q
  BY DEF relay_send, SendAllowed
<1>2. s \in DOMAIN relay_sessions /\ session \in RelaySession
  BY <1>1 DEF Open, TypeOK
<1>3. role \in Role /\ session.party[role] = p /\ recipient \in Role \ {role}
  BY <1>1, RoleOfInSession, CounterpartType
<1>4. q \in Peer /\ q # p
  BY <1>2, <1>3 DEF RelaySession, RelayInvariant, PartiesDiffer, Role
<1>5. envelope \in Envelope
  BY DEF Envelope
<1>6. RoleOf(session, q) = recipient /\ InSession(session, q)
  BY <1>2, <1>3, <1>4 DEF RoleOf, InSession, Role
<1>7. /\ relay_sessions' = [live_sessions EXCEPT
                              ![s].pending[recipient] = Append(@, envelope),
                              ![s].expires_in = RelaySessionTimeout]
      /\ accepted' = [accepted EXCEPT ![q][s] = Append(@, envelope)]
      /\ UNCHANGED <<issued, handed>>
  BY DEF relay_send
<1> HIDE DEF recipient, envelope, q, role
<1>8. /\ DOMAIN relay_sessions' = DOMAIN live_sessions
      /\ DOMAIN live_sessions \subseteq DOMAIN relay_sessions
      /\ \A t \in DOMAIN live_sessions : live_sessions[t] = relay_sessions[t]
      /\ s \in DOMAIN live_sessions
  BY <1>1, <1>7 DEF live_sessions, Open
<1>9. /\ relay_sessions'[s].party = session.party
      /\ relay_sessions'[s].pending
           = [session.pending EXCEPT ![recipient] = Append(@, envelope)]
  BY <1>2, <1>7, <1>8 DEF RelaySession
<1>10. \A t \in DOMAIN relay_sessions' \ {s} : relay_sessions'[t] = relay_sessions[t]
  BY <1>7, <1>8
<1>11. /\ accepted'[q][s] = Append(accepted[q][s], envelope)
       /\ \A x \in Peer, t \in Session :
            x # q \/ t # s => accepted'[x][t] = accepted[x][t]
  BY <1>4, <1>7 DEF TypeOK
<1>12. PartiesDiffer'
  BY <1>8, <1>9, <1>10 DEF RelayInvariant, PartiesDiffer
<1>13. NewSessionsAreEmpty'
  BY <1>2, <1>7, <1>11, SMTT(30)
  DEF TypeOK, RelayInvariant, NewSessionsAreEmpty
<1>14. AcceptedIsAddressed'
  <2> SUFFICES ASSUME NEW x \in Peer, NEW t \in Session, NEW i \in DOMAIN accepted'[x][t]
               PROVE  /\ accepted'[x][t][i].to_peer_id = x
                      /\ accepted'[x][t][i].from_peer_id # x
                      /\ accepted'[x][t][i].relay_session_id = t
    BY DEF AcceptedIsAddressed
  <2>1. CASE x = q /\ t = s
    <3>1. accepted[q][s] \in Seq(Envelope)
      BY <1>4 DEF TypeOK
    <3>2. CASE i \in DOMAIN accepted[q][s]
      <4>1. accepted'[q][s][i] = accepted[q][s][i]
        BY <1>5, <1>11, <3>1, <3>2
      <4> QED
        BY <1>4, <2>1, <3>2, <4>1 DEF RelayInvariant, AcceptedIsAddressed
    <3>3. CASE i \notin DOMAIN accepted[q][s]
      <4>1. accepted'[q][s][i] = envelope
        BY <1>5, <1>11, <2>1, <3>1, <3>3
      <4>2. /\ envelope.to_peer_id = q /\ envelope.from_peer_id = p
            /\ envelope.relay_session_id = s
        BY <1>1, <1>3 DEF envelope, role
      <4> QED
        BY <1>4, <2>1, <4>1, <4>2
    <3> QED
      BY <3>2, <3>3
  <2>2. CASE x # q \/ t # s
    BY <1>11, <2>2 DEF RelayInvariant, AcceptedIsAddressed
  <2> QED
    BY <2>1, <2>2
<1>15. LiveSessionsConserve'
  <2> SUFFICES ASSUME NEW t \in DOMAIN relay_sessions', NEW x \in Peer
               PROVE  accepted'[x][t] = handed'[x][t] \o Waiting(t, x)'
    BY DEF LiveSessionsConserve
  <2>0. t \in DOMAIN relay_sessions /\ t \in Session
    BY <1>8 DEF TypeOK
  <2>1. accepted[x][t] = handed[x][t] \o Waiting(t, x)
    BY <2>0 DEF RelayInvariant, RelayFifo, LiveSessionsConserve
  <2>2. CASE t # s
    <3>1. Waiting(t, x)' = Waiting(t, x)
      BY <1>10, <2>0, <2>2 DEF Waiting, InSession, RoleOf
    <3> QED
      BY <1>7, <1>11, <2>0, <2>1, <2>2, <3>1
  <2>3. CASE t = s /\ x # q
    <3>1. InSession(session, x) => RoleOf(session, x) # recipient
      BY <1>3, <1>6, <2>3 DEF InSession, RoleOf, Role, q, recipient
    <3>2. InSession(session, x) => RoleOf(session, x) \in Role
      BY RoleOfInSession
    <3>3. Waiting(s, x)' = Waiting(s, x)
      BY <1>2, <1>8, <1>9, <3>1, <3>2 DEF Waiting, InSession, RoleOf, RelaySession
    <3> QED
      BY <1>7, <1>11, <2>0, <2>1, <2>3, <3>3
  <2>4. CASE t = s /\ x = q
    <3>1. RoleOf(session, x) = recipient /\ InSession(session, x)
      BY <1>6, <2>4
    <3>2. Waiting(s, x) = session.pending[recipient] /\ Waiting(s, x) \in Seq(Envelope)
      BY <1>2, <1>3, <3>1 DEF Waiting, RelaySession
    <3>3. session.pending \in [Role -> Seq(Envelope)]
      BY <1>2 DEF RelaySession
    <3>4. relay_sessions'[s].pending[recipient]
            = Append(session.pending[recipient], envelope)
      BY <1>3, <1>9, <3>3
    <3>5. Waiting(s, x)' = Append(Waiting(s, x), envelope)
      BY <1>8, <1>9, <3>1, <3>2, <3>4 DEF Waiting, InSession, RoleOf
    <3>6. handed[x][s] \in Seq(Envelope)
      BY DEF TypeOK
    <3> DEFINE h == handed[x][s]
               w == Waiting(s, x)
    <3>7. Append(h \o w, envelope) = h \o Append(w, envelope)
      <4>1. h \in Seq(Envelope) /\ w \in Seq(Envelope)
        BY <3>2, <3>6
      <4> HIDE DEF h, w
      <4> QED
        BY <1>5, <4>1
    <3> QED
      BY <1>7, <1>11, <2>1, <2>4, <3>5, <3>7
  <2> QED
    BY <2>2, <2>3, <2>4
<1>16. DeadSessionsKeepPrefix'
  <2> SUFFICES ASSUME NEW x \in Peer, NEW t \in Session
               PROVE  IsPrefix(handed'[x][t], accepted'[x][t])
    BY DEF DeadSessionsKeepPrefix
  <2>1. /\ IsPrefix(handed[x][t], accepted[x][t])
        /\ handed[x][t] \in Seq(Envelope) /\ accepted[x][t] \in Seq(Envelope)
    BY DEF RelayInvariant, RelayFifo, DeadSessionsKeepPrefix, TypeOK
  <2>2. IsPrefix(handed[x][t], Append(accepted[x][t], envelope))
    BY <1>5, <2>1, PrefixOfAppend
  <2> QED
    BY <1>7, <1>11, <2>1, <2>2
<1> QED
  BY <1>12, <1>13, <1>14, <1>15, <1>16 DEF RelayInvariant, RelayFifo

\* In a session that has not run out of time a poll takes the whole queue.
LEMMA DrainedIsWaiting ==
    ASSUME NEW s, NEW p
    PROVE  /\ Open(s) => Drained(s, p) = Waiting(s, p)
           /\ ~Open(s) => Drained(s, p) = <<>>
BY DEF Drained, Waiting, Open

\* What a poll by p leaves of a session: nothing for p, and all there was for
\* the other end, because the two ends are different peers.
LEMMA PolledQueues ==
    ASSUME TypeOK, PartiesDiffer, NEW s \in DOMAIN relay_sessions, NEW p \in Peer, Open(s)
    PROVE  /\ PolledSession(s, p).party = relay_sessions[s].party
           /\ InSession(relay_sessions[s], p) =>
                PolledSession(s, p).pending[RoleOf(relay_sessions[s], p)] = <<>>
           /\ \A role \in Role : relay_sessions[s].party[role] # p =>
                PolledSession(s, p).pending[role] = relay_sessions[s].pending[role]
<1> DEFINE session == relay_sessions[s]
           own == RoleOf(session, p)
<1>1. session \in RelaySession
  BY DEF TypeOK
<1>2. CASE Drained(s, p) = <<>>
  <2>1. PolledSession(s, p) = session
    BY <1>2 DEF PolledSession
  <2>2. InSession(session, p) => session.pending[own] = <<>>
    BY <1>2 DEF Drained
  <2> QED
    BY <2>1, <2>2
<1>3. CASE Drained(s, p) # <<>>
  <2>1. InSession(session, p)
    BY <1>3 DEF Drained
  <2>2. own \in Role /\ session.party[own] = p
    BY <2>1, RoleOfInSession
  <2>3. PolledSession(s, p) = [session EXCEPT !.pending[own] = <<>>,
                                              !.attached = @ \cup {own},
                                              !.expires_in = RelaySessionTimeout]
    BY <1>3 DEF PolledSession
  <2> HIDE DEF own
  <2>4. /\ PolledSession(s, p).party = session.party
        /\ PolledSession(s, p).pending = [session.pending EXCEPT ![own] = <<>>]
    BY <1>1, <2>3 DEF RelaySession
  <2>5. session.pending \in [Role -> Seq(Envelope)]
    BY <1>1 DEF RelaySession
  <2>6. PolledSession(s, p).pending[own] = <<>>
    BY <2>2, <2>4, <2>5
  <2>7. ASSUME NEW role \in Role, session.party[role] # p
        PROVE  PolledSession(s, p).pending[role] = session.pending[role]
    BY <2>2, <2>4, <2>5, <2>7
  <2> QED
    BY <2>4, <2>6, <2>7 DEF own
<1> QED
  BY <1>2, <1>3

LEMMA PollKeepsRelay ==
    ASSUME TypeOK, RelayInvariant, NEW p \in Peer, poll_relay_messages(p)
    PROVE  RelayInvariant'
<1>1. /\ DOMAIN relay_sessions' \subseteq DOMAIN relay_sessions
      /\ \A s \in DOMAIN relay_sessions' :
           Open(s) /\ relay_sessions'[s] = PolledSession(s, p)
      /\ UNCHANGED <<issued, accepted>>
  BY DEF poll_relay_messages
<1>2. /\ \A s \in Session : handed'[p][s] = handed[p][s] \o Drained(s, p)
      /\ \A q \in Peer \ {p}, s \in Session : handed'[q][s] = handed[q][s]
  BY DEF poll_relay_messages, TypeOK
<1>3. \A s \in DOMAIN relay_sessions' : relay_sessions'[s].party = relay_sessions[s].party
  BY <1>1, PolledQueues DEF RelayInvariant
<1>4. PartiesDiffer' /\ AcceptedIsAddressed'
  BY <1>1, <1>3 DEF RelayInvariant, PartiesDiffer, AcceptedIsAddressed
<1>5. \A q \in Peer, s \in Session : handed[q][s] \in Seq(Envelope)
  BY DEF TypeOK
<1>6. NewSessionsAreEmpty'
  <2> SUFFICES ASSUME NEW s \in Session \ issued', NEW q \in Peer
               PROVE  accepted'[q][s] = <<>> /\ handed'[q][s] = <<>>
    BY DEF NewSessionsAreEmpty
  <2>1. accepted[q][s] = <<>> /\ handed[q][s] = <<>>
    BY <1>1 DEF RelayInvariant, NewSessionsAreEmpty
  <2>2. Drained(s, p) = <<>>
    BY <1>1 DEF TypeOK, Drained, Open
  <2>3. <<>> \o <<>> = <<>>
    OBVIOUS
  <2> QED
    BY <1>1, <1>2, <2>1, <2>2, <2>3
<1>7. LiveSessionsConserve'
  <2> SUFFICES ASSUME NEW s \in DOMAIN relay_sessions', NEW q \in Peer
               PROVE  accepted'[q][s] = handed'[q][s] \o Waiting(s, q)'
    BY DEF LiveSessionsConserve
  <2>1. /\ s \in DOMAIN relay_sessions /\ s \in Session /\ Open(s)
        /\ relay_sessions[s] \in RelaySession
    BY <1>1 DEF TypeOK
  <2>2. accepted[q][s] = handed[q][s] \o Waiting(s, q)
    BY <2>1 DEF RelayInvariant, RelayFifo, LiveSessionsConserve
  <2>3. CASE q = p
    <3>1. Waiting(s, p)' = <<>>
      BY <1>1, <1>3, <2>1, PolledQueues DEF RelayInvariant, Waiting, InSession, RoleOf
    <3>2. handed'[p][s] = accepted[p][s]
      BY <1>2, <2>1, <2>2, <2>3, DrainedIsWaiting
    <3>3. accepted[p][s] \in Seq(Envelope)
      BY <2>1 DEF TypeOK
    <3>4. accepted[p][s] \o <<>> = accepted[p][s]
      BY <3>3
    <3> QED
      BY <1>1, <2>3, <3>1, <3>2, <3>4
  <2>4. CASE q # p
    <3>1. InSession(relay_sessions[s], q) =>
            /\ RoleOf(relay_sessions[s], q) \in Role
            /\ relay_sessions[s].party[RoleOf(relay_sessions[s], q)] # p
      BY <2>4, RoleOfInSession
    <3>2. InSession(relay_sessions[s], q) =>
            PolledSession(s, p).pending[RoleOf(relay_sessions[s], q)]
              = relay_sessions[s].pending[RoleOf(relay_sessions[s], q)]
      BY <2>1, <3>1, PolledQueues DEF RelayInvariant
    <3>3. Waiting(s, q)' = Waiting(s, q)
      BY <1>1, <1>3, <2>1, <3>2 DEF Waiting, InSession, RoleOf
    <3> QED
      BY <1>1, <1>2, <2>1, <2>2, <2>4, <3>3
  <2> QED
    BY <2>3, <2>4
<1>8. DeadSessionsKeepPrefix'
  <2> SUFFICES ASSUME NEW s \in Session, NEW q \in Peer
               PROVE  IsPrefix(handed'[q][s], accepted'[q][s])
    BY DEF DeadSessionsKeepPrefix
  <2>1. IsPrefix(handed[q][s], accepted[q][s])
    BY DEF RelayInvariant, RelayFifo, DeadSessionsKeepPrefix
  <2>2. CASE q = p /\ Open(s)
    <3>1. handed'[p][s] = accepted[p][s]
      <4>1. accepted[p][s] = handed[p][s] \o Waiting(s, p)
        BY <2>2 DEF Open, RelayInvariant, RelayFifo, LiveSessionsConserve
      <4>2. Drained(s, p) = Waiting(s, p)
        BY <2>2, DrainedIsWaiting
      <4> QED
        BY <1>2, <4>1, <4>2
    <3>2. accepted[p][s] \in Seq(Envelope)
      BY DEF TypeOK
    <3>3. IsPrefix(accepted[p][s], accepted[p][s])
      BY <3>2, PrefixReflexive
    <3> QED
      BY <1>1, <2>2, <3>1, <3>3
  <2>3. CASE q = p /\ ~Open(s)
    <3>1. handed'[p][s] = handed[p][s] \o <<>>
      BY <1>2, <2>3, DrainedIsWaiting
    <3>2. handed[p][s] \o <<>> = handed[p][s]
      BY <1>5
    <3> QED
      BY <1>1, <2>1, <2>3, <3>1, <3>2
  <2>4. CASE q # p
    BY <1>1, <1>2, <2>1, <2>4
  <2> QED
    BY <2>2, <2>3, <2>4
<1> QED
  BY <1>4, <1>6, <1>7, <1>8 DEF RelayInvariant, RelayFifo

\* Three kinds of step move messages or open a session; all others are quiet.
LEMMA StepKinds ==
    ASSUME TypeOK, [Next]_vars
    PROVE  \/ Quiet
           \/ \E a, b \in Peer, prefer_direct \in BOOLEAN, s \in Session :
                 ConnectRelay(a, b, prefer_direct, s)
           \/ \E s \in Session, p, from, to \in Peer, m \in Message :
                 relay_send(s, p, from, to, m)
           \/ \E p \in Peer : poll_relay_messages(p)
<1>1. CASE PresenceRequest
  BY <1>1, PresenceIsQuiet
<1>2. CASE ConnectRequest
  <2>1. \/ prune_sessions /\ UNCHANGED <<issued, accepted, handed>>
        \/ \E a, b \in Peer, prefer_direct \in BOOLEAN, s \in Session :
              ConnectRelay(a, b, prefer_direct, s)
    BY <1>2 DEF ConnectRequest, ConnectToSelf, ConnectOffline, ConnectDirect,
                prune_expired, history
  <2> QED
    BY <2>1, PruneIsQuiet
<1>3. CASE RelayRequest
  <2>1. \/ \E p \in Peer : poll_relay_messages(p)
        \/ \E s \in Session, p \in Peer : attach_relay_peer(s, p)
        \/ prune_sessions /\ UNCHANGED <<issued, accepted, handed>>
        \/ \E s \in Session, p, from, to \in Peer, m \in Message :
              relay_send(s, p, from, to, m)
    BY <1>3 DEF RelayRequest, AttachRefused, SendRefused, prune_expired, history
  <2> QED
    BY <2>1, AttachIsQuiet, PruneIsQuiet
<1>4. CASE Cleanup
  BY <1>4, PruneIsQuiet DEF Cleanup, prune_expired, history
<1>5. CASE Tick
  BY <1>5, TickIsQuiet
<1>6. CASE UNCHANGED vars
  BY <1>6, UnchangedIsQuiet DEF vars, state, history
<1> QED
  BY <1>1, <1>2, <1>3, <1>4, <1>5, <1>6 DEF Next

LEMMA NextKeepsRelay == TypeOK /\ RelayInvariant /\ [Next]_vars => RelayInvariant'
BY StepKinds, QuietKeepsRelay, ConnectRelayKeepsRelay, SendKeepsRelay, PollKeepsRelay

LEMMA InitRelay == Init => RelayInvariant
<1> SUFFICES ASSUME Init
             PROVE  RelayInvariant
  OBVIOUS
<1>1. DOMAIN relay_sessions = {}
  BY DEF Init
<1>2. \A p \in Peer, s \in Session : accepted[p][s] = <<>> /\ handed[p][s] = <<>>
  BY DEF Init
<1>3. PartiesDiffer /\ LiveSessionsConserve
  BY <1>1 DEF PartiesDiffer, LiveSessionsConserve
<1>4. NewSessionsAreEmpty /\ AcceptedIsAddressed
  BY <1>2 DEF NewSessionsAreEmpty, AcceptedIsAddressed
<1>5. IsPrefix(<<>>, <<>>)
  BY DEF IsPrefix
<1>6. DeadSessionsKeepPrefix
  BY <1>2, <1>5 DEF DeadSessionsKeepPrefix
<1> QED
  BY <1>3, <1>4, <1>6 DEF RelayInvariant, RelayFifo

-----------------------------------------------------------------------------
(***************************************************************************)
(* Presence.                                                               *)
(***************************************************************************)

\* Every request but a registration and a heartbeat prunes the peers, and so does
\* the cleanup task.
LEMMA RequestsPrune ==
    ConnectRequest \/ RelayRequest \/ Cleanup \/ (\E p \in Peer : lookup_peer(p))
        => prune_peers
<1>1. ConnectRequest => prune_peers
  BY DEF ConnectRequest, ConnectToSelf, ConnectOffline, ConnectDirect, ConnectRelay, prune_expired
<1>2. ASSUME NEW p \in Peer, poll_relay_messages(p)
      PROVE  prune_peers
  BY <1>2 DEF poll_relay_messages
<1>3. ASSUME NEW p \in Peer, NEW s \in Session,
             attach_relay_peer(s, p) \/ AttachRefused(s, p)
      PROVE  prune_peers
  BY <1>3 DEF attach_relay_peer, AttachRefused, prune_expired
<1>4. ASSUME NEW p \in Peer, NEW s \in Session, NEW from \in Peer, NEW to \in Peer,
             SendRefused(s, p, from, to)
      PROVE  prune_peers
  BY <1>4 DEF SendRefused, prune_expired
<1>5. ASSUME NEW p \in Peer, NEW s \in Session, NEW from \in Peer, NEW to \in Peer,
             NEW m \in Message, relay_send(s, p, from, to, m)
      PROVE  prune_peers
  BY <1>5 DEF relay_send
<1>6. RelayRequest => prune_peers
  BY <1>2, <1>3, <1>4, <1>5 DEF RelayRequest
<1>7. Cleanup \/ (\E p \in Peer : lookup_peer(p)) => prune_peers
  BY DEF Cleanup, lookup_peer, prune_expired
<1> QED
  BY <1>1, <1>6, <1>7

\* A step either leaves told_offline alone and adds no peer, or registers one,
\* or adds one that is not in the map after the step.
LEMMA NextKeepsOffline == OfflineIsFinal /\ [Next]_vars => OfflineIsFinal'
<1> SUFFICES ASSUME OfflineIsFinal, [Next]_vars
             PROVE  OfflineIsFinal'
  OBVIOUS
<1>1. ASSUME prune_peers
      PROVE  DOMAIN peers' = {q \in DOMAIN peers : Online(q)}
  BY <1>1 DEF prune_peers, live_peers
<1>2. ASSUME DOMAIN peers' \subseteq DOMAIN peers, told_offline' = told_offline
      PROVE  OfflineIsFinal'
  BY <1>2 DEF OfflineIsFinal
<1>3. CASE PresenceRequest
  <2>1. ASSUME NEW p \in Peer, NEW profile \in Profile, NEW ip \in ObservedIp,
               Register(p, profile, ip)
        PROVE  OfflineIsFinal'
    BY <2>1 DEF Register, With, OfflineIsFinal
  <2>2. ASSUME NEW p \in Peer, Heartbeat(p)
        PROVE  OfflineIsFinal'
    BY <1>2, <2>2 DEF Heartbeat, history
  <2>3. ASSUME NEW p \in Peer, HeartbeatRefused(p)
        PROVE  OfflineIsFinal'
    BY <2>3 DEF HeartbeatRefused, state, OfflineIsFinal
  <2>4. ASSUME NEW p \in Peer, lookup_peer(p)
        PROVE  OfflineIsFinal'
    BY <1>1, <2>4 DEF lookup_peer, prune_expired, OfflineIsFinal
  <2> QED
    BY <1>3, <2>1, <2>2, <2>3, <2>4 DEF PresenceRequest
<1>4. CASE ConnectRequest
  <2>1. ASSUME NEW a \in Peer, NEW b \in Peer, ConnectOffline(a, b)
        PROVE  OfflineIsFinal'
    BY <1>1, <2>1 DEF ConnectOffline, prune_expired, OfflineIsFinal
  <2>2. \/ \E a, b \in Peer : ConnectOffline(a, b)
        \/ prune_peers /\ told_offline' = told_offline
    BY <1>4 DEF ConnectRequest, ConnectToSelf, ConnectDirect, ConnectRelay,
                prune_expired, history
  <2> QED
    BY <1>1, <1>2, <2>1, <2>2
<1>5. CASE RelayRequest
  <2> DEFINE Quietly == prune_peers /\ told_offline' = told_offline
  <2>1. ASSUME NEW p \in Peer, poll_relay_messages(p)
        PROVE  Quietly
    BY <2>1 DEF poll_relay_messages
  <2>2. ASSUME NEW p \in Peer, NEW s \in Session, attach_relay_peer(s, p)
        PROVE  Quietly
    BY <2>2 DEF attach_relay_peer, history
  <2>3. ASSUME NEW p \in Peer, NEW s \in Session, AttachRefused(s, p)
        PROVE  Quietly
    BY <2>3 DEF AttachRefused, prune_expired, history
  <2>4. ASSUME NEW p \in Peer, NEW s \in Session, NEW from \in Peer, NEW to \in Peer,
               SendRefused(s, p, from, to)
        PROVE  Quietly
    BY <2>4 DEF SendRefused, prune_expired, history
  <2>5. ASSUME NEW p \in Peer, NEW s \in Session, NEW from \in Peer, NEW to \in Peer,
               NEW m \in Message, relay_send(s, p, from, to, m)
        PROVE  Quietly
    BY <2>5 DEF relay_send
  <2>6. Quietly
    BY <1>5, <2>1, <2>2, <2>3, <2>4, <2>5 DEF RelayRequest
  <2> QED
    BY <1>1, <1>2, <2>6
<1>6. CASE Cleanup
  BY <1>1, <1>2, <1>6 DEF Cleanup, prune_expired, history
<1>7. CASE Tick
  BY <1>2, <1>7 DEF Tick, history
<1>8. CASE UNCHANGED vars
  BY <1>2, <1>8 DEF vars, state, history
<1> QED
  BY <1>3, <1>4, <1>5, <1>6, <1>7, <1>8 DEF Next

-----------------------------------------------------------------------------
(***************************************************************************)
(* The invariant and what follows from it.                                 *)
(***************************************************************************)

LEMMA HubInvariantInit == Init => HubInvariant
BY InitType, InitRelay DEF HubInvariant, RelayInvariant, Init, OfflineIsFinal

LEMMA HubInvariantNext == HubInvariant /\ [Next]_vars => HubInvariant'
BY NextType, NextKeepsRelay, NextKeepsOffline DEF HubInvariant, RelayInvariant

\* HubInvariant, the inductive strengthening of the properties below, holds in
\* every reachable state of the hub: each handler, the cleanup task and the
\* passing of time keep all of its conjuncts.
THEOREM HubInvariantHolds == Spec => []HubInvariant
BY HubInvariantInit, HubInvariantNext, PTL DEF Spec

\* Whatever the interleaving of sends, polls, attaches, prunes and the passing
\* of time: a session in the map has lost, duplicated and reordered nothing, and
\* of one that is gone a prefix was handed out.
THEOREM RelayIsFifo == Spec => []RelayFifo
<1>1. HubInvariant => RelayFifo
  BY DEF HubInvariant
<1> QED
  BY <1>1, HubInvariantHolds, PTL

\* A poll answers with envelopes for the polling peer only.
THEOREM AddresseeOnly == Spec => []OnlyTheAddressee
<1>1. HubInvariant => OnlyTheAddressee
  <2> SUFFICES ASSUME HubInvariant, NEW p \in Peer, NEW s \in Session,
                      NEW i \in DOMAIN handed[p][s]
               PROVE  /\ handed[p][s][i].to_peer_id = p
                      /\ handed[p][s][i].from_peer_id # p
                      /\ handed[p][s][i].relay_session_id = s
    BY DEF OnlyTheAddressee
  <2>1. /\ handed[p][s] \in Seq(Envelope) /\ accepted[p][s] \in Seq(Envelope)
        /\ IsPrefix(handed[p][s], accepted[p][s])
    BY DEF HubInvariant, TypeOK, RelayFifo, DeadSessionsKeepPrefix
  <2>2. i \in DOMAIN accepted[p][s] /\ handed[p][s][i] = accepted[p][s][i]
    BY <2>1, PrefixElements
  <2> QED
    BY <2>2 DEF HubInvariant, AcceptedIsAddressed
<1> QED
  BY <1>1, HubInvariantHolds, PTL

\* A peer that some answer called offline is in the map again only after it has
\* registered again.
THEOREM OfflineStaysOffline == Spec => []OfflineIsFinal
<1>1. HubInvariant => OfflineIsFinal
  BY DEF HubInvariant
<1> QED
  BY <1>1, HubInvariantHolds, PTL

-----------------------------------------------------------------------------
(***************************************************************************)
(* How sessions end.                                                       *)
(***************************************************************************)

\* Only the sweep of a poll takes a session whose time has not run out.
LEMMA OpenSessionsStay ==
    ASSUME TypeOK, [Next]_vars, NEW s, Open(s)
    PROVE  \/ s \in DOMAIN relay_sessions'
           \/ \E p \in Peer : /\ poll_relay_messages(p)
                              /\ relay_session_is_finished(PolledSession(s, p))
<1>1. s \in DOMAIN live_sessions /\ s \in DOMAIN relay_sessions
  BY DEF Open, live_sessions
<1>2. CASE PresenceRequest
  BY <1>1, <1>2 DEF PresenceRequest, Register, Heartbeat, HeartbeatRefused, lookup_peer,
                    prune_expired, prune_sessions, state
<1>3. CASE ConnectRequest
  BY <1>1, <1>3 DEF ConnectRequest, ConnectToSelf, ConnectOffline, ConnectDirect,
                    ConnectRelay, With, prune_expired, prune_sessions
<1>4. CASE RelayRequest
  <2>1. ASSUME NEW p \in Peer, poll_relay_messages(p), s \notin DOMAIN relay_sessions'
        PROVE  relay_session_is_finished(PolledSession(s, p))
    BY <1>1, <2>1 DEF poll_relay_messages
  <2>2. ASSUME NEW p \in Peer, NEW t \in Session, attach_relay_peer(t, p)
        PROVE  s \in DOMAIN relay_sessions'
    BY <1>1, <2>2 DEF attach_relay_peer
  <2>3. ASSUME NEW p \in Peer, NEW t \in Session, AttachRefused(t, p)
        PROVE  s \in DOMAIN relay_sessions'
    BY <1>1, <2>3 DEF AttachRefused, prune_expired, prune_sessions
  <2>4. ASSUME NEW p \in Peer, NEW t \in Session, NEW from \in Peer, NEW to \in Peer,
               SendRefused(t, p, from, to)
        PROVE  s \in DOMAIN relay_sessions'
    BY <1>1, <2>4 DEF SendRefused, prune_expired, prune_sessions
  <2>5. ASSUME NEW p \in Peer, NEW t \in Session, NEW from \in Peer, NEW to \in Peer,
               NEW m \in Message, relay_send(t, p, from, to, m)
        PROVE  s \in DOMAIN relay_sessions'
    BY <1>1, <2>5 DEF relay_send
  <2> QED
    BY <1>4, <2>1, <2>2, <2>3, <2>4, <2>5 DEF RelayRequest
<1>5. CASE Cleanup
  BY <1>1, <1>5 DEF Cleanup, prune_expired, prune_sessions
<1>6. CASE Tick
  BY <1>1, <1>6 DEF Tick
<1>7. CASE UNCHANGED vars
  BY <1>1, <1>7 DEF vars, state
<1> QED
  BY <1>2, <1>3, <1>4, <1>5, <1>6, <1>7 DEF Next

\* What a poll leaves finished has been handed over at both ends.
LEMMA FinishedIsHandedOver ==
    ASSUME TypeOK, RelayInvariant, NEW p \in Peer, poll_relay_messages(p), NEW s, Open(s),
           relay_session_is_finished(PolledSession(s, p)), NEW q \in Peer
    PROVE  handed'[q][s] = accepted[q][s]
<1>1. s \in DOMAIN relay_sessions /\ s \in Session
  BY DEF Open, TypeOK
<1>2. accepted[q][s] = handed[q][s] \o Waiting(s, q)
  BY <1>1 DEF RelayInvariant, RelayFifo, LiveSessionsConserve
<1>3. CASE q = p
  <2>1. handed'[p][s] = handed[p][s] \o Drained(s, p)
    BY <1>1 DEF poll_relay_messages, TypeOK
  <2> QED
    BY <1>2, <1>3, <2>1, DrainedIsWaiting
<1>4. CASE q # p
  <2>1. handed'[q][s] = handed[q][s]
    BY <1>4 DEF poll_relay_messages, TypeOK
  <2>2. Waiting(s, q) = <<>>
    <3>1. CASE InSession(relay_sessions[s], q)
      <4> DEFINE role == RoleOf(relay_sessions[s], q)
      <4>1. role \in Role /\ relay_sessions[s].party[role] # p
        BY <1>4, <3>1, RoleOfInSession
      <4>2. relay_sessions[s].pending[role] = PolledSession(s, p).pending[role]
        BY <1>1, <4>1, PolledQueues DEF RelayInvariant
      <4>3. PolledSession(s, p).pending[role] = <<>>
        BY <4>1 DEF relay_session_is_finished
      <4> QED
        BY <1>1, <3>1, <4>2, <4>3 DEF Waiting
    <3>2. CASE ~InSession(relay_sessions[s], q)
      BY <3>2 DEF Waiting
    <3> QED
      BY <3>1, <3>2
  <2>3. handed[q][s] \in Seq(Envelope)
    BY <1>1 DEF TypeOK
  <2>4. handed[q][s] \o <<>> = handed[q][s]
    BY <2>3
  <2> QED
    BY <1>2, <2>1, <2>2, <2>4
<1> QED
  BY <1>3, <1>4

\* The sweep at the end of any peer's poll never takes a session with a message
\* waiting at either end; apart from it, only time ends a session.
THEOREM SessionsEndOnlyForCause == Spec => SessionsEndForCause
<1>1. HubInvariant /\ [Next]_vars => EndForCause
  <2> SUFFICES ASSUME HubInvariant, [Next]_vars,
                      NEW s \in DOMAIN relay_sessions \ DOMAIN relay_sessions', Open(s),
                      NEW q \in Peer
               PROVE  handed'[q][s] = accepted'[q][s]
    BY DEF EndForCause
  <2>1. TypeOK /\ RelayInvariant
    BY DEF HubInvariant, RelayInvariant
  <2>2. PICK p \in Peer : /\ poll_relay_messages(p)
                         /\ relay_session_is_finished(PolledSession(s, p))
    BY <2>1, OpenSessionsStay
  <2>3. handed'[q][s] = accepted[q][s]
    BY <2>1, <2>2, FinishedIsHandedOver
  <2> QED
    BY <2>2, <2>3 DEF poll_relay_messages
<1> QED
  BY <1>1, HubInvariantHolds, PTL DEF Spec, SessionsEndForCause

-----------------------------------------------------------------------------
(***************************************************************************)
(* The hub implements Mailbox.                                             *)
(***************************************************************************)

LEMMA OpenMailboxes == TypeOK => Mail!OpenSessions = DOMAIN relay_sessions
BY DEF TypeOK, Mail!OpenSessions, status

\* A step that keeps the issued ids and adds no session closes what it removes.
LEMMA StatusAfter ==
    ASSUME TypeOK, DOMAIN relay_sessions' \subseteq DOMAIN relay_sessions, issued' = issued
    PROVE  status' = Mail!Closed(DOMAIN relay_sessions \ DOMAIN relay_sessions')
BY DEF TypeOK, status, Mail!Closed

LEMMA QuietRefines ==
    ASSUME TypeOK, Quiet
    PROVE  Mail!Next
<1> DEFINE D == DOMAIN relay_sessions \ DOMAIN relay_sessions'
<1>1. D \subseteq Mail!OpenSessions /\ D \in SUBSET Session
  BY OpenMailboxes DEF TypeOK
<1>2. status' = Mail!Closed(D) /\ UNCHANGED <<accepted, handed>>
  BY StatusAfter DEF Quiet
<1>3. Mail!Lapse(D)
  BY <1>1, <1>2 DEF Mail!Lapse
<1> QED
  BY <1>1, <1>3 DEF Mail!Next

LEMMA ConnectRefines ==
    ASSUME TypeOK, NEW a \in Peer, NEW b \in Peer, NEW prefer_direct \in BOOLEAN,
           NEW s \in Session, ConnectRelay(a, b, prefer_direct, s)
    PROVE  Mail!Next
<1> DEFINE D == DOMAIN relay_sessions \ DOMAIN live_sessions
<1>1. D \subseteq Mail!OpenSessions /\ D \in SUBSET Session
  BY OpenMailboxes DEF TypeOK
<1>2. DOMAIN live_sessions \subseteq DOMAIN relay_sessions /\ DOMAIN relay_sessions \subseteq issued
  BY DEF TypeOK, live_sessions
<1>3. /\ s \notin issued /\ issued' = issued \cup {s}
      /\ DOMAIN relay_sessions' = DOMAIN live_sessions \cup {s}
      /\ UNCHANGED <<accepted, handed>>
  BY DEF ConnectRelay, With
<1>4. status[s] = "unused"
  BY <1>2, <1>3 DEF status
<1>5. status' = [Mail!Closed(D) EXCEPT ![s] = "open"]
  BY <1>2, <1>3 DEF status, Mail!Closed
<1>6. Mail!OpenSession(D, s)
  BY <1>1, <1>3, <1>4, <1>5 DEF Mail!OpenSession
<1> QED
  BY <1>1, <1>6 DEF Mail!Next

LEMMA SendRefines ==
    ASSUME TypeOK, PartiesDiffer, NEW s \in Session, NEW p \in Peer, NEW from \in Peer,
           NEW to \in Peer, NEW m \in Message, relay_send(s, p, from, to, m)
    PROVE  Mail!Next
<1> DEFINE D == DOMAIN relay_sessions \ DOMAIN relay_sessions'
           session == relay_sessions[s]
           role == RoleOf(session, p)
<1>1. /\ Open(s) /\ InSession(session, p) /\ from = session.party[role]
      /\ to = session.party[Counterpart(role)]
  BY DEF relay_send, SendAllowed
<1>2. /\ DOMAIN relay_sessions' = DOMAIN live_sessions
      /\ UNCHANGED <<issued, handed>>
      /\ accepted' = [accepted EXCEPT ![to][s] = Append(@,
                        [relay_session_id |-> s, from_peer_id |-> from,
                         to_peer_id |-> to, message |-> m])]
  BY <1>1 DEF relay_send
<1>3. DOMAIN live_sessions \subseteq DOMAIN relay_sessions /\ s \in DOMAIN live_sessions
  BY <1>1 DEF live_sessions, Open
<1>4. role \in Role /\ Counterpart(role) \in Role \ {role} /\ s \in DOMAIN relay_sessions
  BY <1>1, RoleOfInSession, CounterpartType DEF Open
<1>5. from # to
  BY <1>1, <1>4 DEF PartiesDiffer, Role
<1>6. D \subseteq Mail!OpenSessions /\ D \in SUBSET Session /\ s \in Mail!OpenSessions \ D
  BY <1>2, <1>3, OpenMailboxes DEF TypeOK
<1>7. status' = Mail!Closed(D)
  BY <1>2, <1>3, StatusAfter
<1>8. Mail!Accept(D, s, to)
  BY <1>2, <1>5, <1>6, <1>7 DEF Mail!Accept
<1> QED
  BY <1>6, <1>8 DEF Mail!Next

LEMMA PollRefines ==
    ASSUME TypeOK, RelayInvariant, NEW p \in Peer, poll_relay_messages(p)
    PROVE  Mail!Next
<1> DEFINE D == {s \in DOMAIN relay_sessions : ~Open(s)}
           F == {s \in DOMAIN relay_sessions :
                   Open(s) /\ relay_session_is_finished(PolledSession(s, p))}
<1>1. /\ D \subseteq Mail!OpenSessions /\ F \subseteq Mail!OpenSessions \ D
      /\ D \in SUBSET Session /\ F \in SUBSET Session
  BY OpenMailboxes DEF TypeOK
<1>2. /\ DOMAIN relay_sessions' \subseteq DOMAIN relay_sessions
      /\ D \cup F = DOMAIN relay_sessions \ DOMAIN relay_sessions'
      /\ UNCHANGED <<issued, accepted>>
  BY DEF poll_relay_messages, Open
<1>3. status' = Mail!Closed(D \cup F)
  BY <1>2, StatusAfter
<1>4. handed' = [handed EXCEPT ![p] =
                   [s \in Session |-> IF s \in Mail!OpenSessions \ D
                                      THEN accepted[p][s] ELSE @[s]]]
  <2>1. ASSUME NEW s \in Session, s \in Mail!OpenSessions \ D
        PROVE  handed[p][s] \o Drained(s, p) = accepted[p][s]
    <3>1. s \in DOMAIN relay_sessions /\ Open(s)
      BY <2>1, OpenMailboxes
    <3> QED
      BY <3>1, DrainedIsWaiting, ZenonT(30)
      DEF RelayInvariant, RelayFifo, LiveSessionsConserve
  <2>2. ASSUME NEW s \in Session, s \notin Mail!OpenSessions \ D
        PROVE  handed[p][s] \o Drained(s, p) = handed[p][s]
    <3>1. ~Open(s)
      BY <2>2, OpenMailboxes DEF Open
    <3>2. Drained(s, p) = <<>>
      BY <3>1, DrainedIsWaiting
    <3>3. handed[p][s] \in Seq(Envelope)
      BY DEF TypeOK
    <3>4. handed[p][s] \o <<>> = handed[p][s]
      BY <3>3
    <3> QED
      BY <3>2, <3>4
  <2> HIDE DEF D
  <2>3. [s \in Session |-> handed[p][s] \o Drained(s, p)]
          = [s \in Session |-> IF s \in Mail!OpenSessions \ D
                               THEN accepted[p][s] ELSE handed[p][s]]
    BY <2>1, <2>2
  <2> QED
    BY <2>3 DEF poll_relay_messages
<1>5. \A s \in F, q \in Peer : handed'[q][s] = accepted[q][s]
  BY FinishedIsHandedOver
<1>6. Mail!Hand(D, p, F)
  BY <1>1, <1>2, <1>3, <1>4, <1>5 DEF Mail!Hand
<1> QED
  BY <1>1, <1>6 DEF Mail!Next

LEMMA MailboxInit == Init => Mail!Init
BY DEF Init, Mail!Init, status

LEMMA MailboxNext == HubInvariant /\ [Next]_vars => [Mail!Next]_(Mail!vars)
<1> SUFFICES ASSUME HubInvariant, [Next]_vars
             PROVE  [Mail!Next]_(Mail!vars)
  OBVIOUS
<1>1. TypeOK /\ RelayInvariant /\ PartiesDiffer
  BY DEF HubInvariant, RelayInvariant
<1>2. CASE Quiet
  BY <1>1, <1>2, QuietRefines
<1>3. CASE \E a, b \in Peer, prefer_direct \in BOOLEAN, s \in Session :
             ConnectRelay(a, b, prefer_direct, s)
  BY <1>1, <1>3, ConnectRefines
<1>4. CASE \E s \in Session, p, from, to \in Peer, m \in Message :
             relay_send(s, p, from, to, m)
  BY <1>1, <1>4, SendRefines
<1>5. CASE \E p \in Peer : poll_relay_messages(p)
  BY <1>1, <1>5, PollRefines
<1> QED
  BY <1>1, <1>2, <1>3, <1>4, <1>5, StepKinds

\* Every step of the hub is a step of the mailbox, or changes nothing in it: the
\* relay promises each recipient its messages in order, at most once, and all
\* that is new at every poll, until the session closes.
THEOREM HubImplementsMailbox == Spec => ImplementsMailbox
BY MailboxInit, MailboxNext, HubInvariantHolds, PTL DEF Spec, ImplementsMailbox, Mail!Spec
=============================================================================
