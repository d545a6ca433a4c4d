--------------------------- MODULE PresenceProofs ---------------------------
(***************************************************************************)
(* Theorems about Presence: a hub that may be restarted at any moment, and *)
(* what its gateways believe of it.  A restart is the one step that the    *)
(* hub alone does not make; for its relay it is a Lapse of all sessions,   *)
(* so what HubProofs shows of one life of the hub holds across them.       *)
(***************************************************************************)
EXTENDS Presence, HubProofs

-----------------------------------------------------------------------------
(***************************************************************************)
(* The hub's half: every step but a restart is a step of the hub.          *)
(***************************************************************************)

LEMMA StepOrRestart == [PresenceNext]_presenceVars => [Next]_vars \/ HubRestart
<1>1. ASSUME NEW p \in Peer, GatewayStep(p) \/ LateCall(p)
      PROVE  [Next]_vars
  <2>1. RegisterCall(p) \/ Heartbeat(p) \/ HeartbeatRefused(p) \/ UNCHANGED vars
    BY <1>1 DEF GatewayStep, RegisterSent, RegisterReaches, Start, StartFails, HeartbeatSent,
                HeartbeatReaches, heartbeat, heartbeat_refused, heartbeat_fails, record_error,
                Stop, LateCall, Sends, Succeeds, Fails, Refused, Ends
  <2> QED
    BY <2>1 DEF RegisterCall, Next, PresenceRequest
<1>2. HubStep(HubRequest) \/ HubStep(Cleanup) \/ PresenceTick => Next
  BY DEF HubStep, HubRequest, PresenceTick, Next, PresenceRequest
<1>3. UNCHANGED presenceVars => UNCHANGED vars
  BY DEF presenceVars
<1> QED
  BY <1>1, <1>2, <1>3 DEF PresenceNext

\* A restart empties the two maps and takes nothing back that was issued, accepted
\* or handed over.
LEMMA RestartIsQuiet == HubRestart => Quiet
BY DEF HubRestart, Quiet, history

LEMMA RestartKeepsHub == HubInvariant /\ HubRestart => HubInvariant'
<1> SUFFICES ASSUME HubInvariant, HubRestart
             PROVE  HubInvariant'
  OBVIOUS
<1>1. /\ peers' = <<>> /\ relay_sessions' = <<>>
      /\ DOMAIN peers' = {} /\ DOMAIN relay_sessions' = {}
      /\ UNCHANGED history
  BY DEF HubRestart
<1>2. TypeOK'
  BY <1>1 DEF HubInvariant, TypeOK, history
<1>3. RelayInvariant'
  BY QuietKeepsRelay, RestartIsQuiet DEF HubInvariant, RelayInvariant
<1>4. OfflineIsFinal'
  BY <1>1 DEF OfflineIsFinal
<1> QED
  BY <1>2, <1>3, <1>4 DEF HubInvariant, RelayInvariant

LEMMA PresenceKeepsHub == HubInvariant /\ [PresenceNext]_presenceVars => HubInvariant'
BY StepOrRestart, RestartKeepsHub, HubInvariantNext

\* A hub that is restarted keeps what one life of it promises: nothing accepted is
\* reordered, duplicated or handed to another, whichever sessions a restart cuts off,
\* and an answer that called a peer offline stays true until it registers again.
THEOREM RestartsKeepHubInvariant == PresenceSpec => []HubInvariant
<1>1. PresenceInit => HubInvariant
  BY HubInvariantInit DEF PresenceInit
<1> QED
  BY <1>1, PresenceKeepsHub, PTL DEF PresenceSpec

\* And it is a Mailbox still: a restart is a Lapse of every open session.
THEOREM RestartedHubImplementsMailbox == PresenceSpec => ImplementsMailbox
<1>1. PresenceInit => Mail!Init
  BY MailboxInit DEF PresenceInit
<1>2. HubInvariant /\ [PresenceNext]_presenceVars => [Mail!Next]_(Mail!vars)
  <2>1. HubInvariant /\ HubRestart => Mail!Next
    BY RestartIsQuiet, QuietRefines DEF HubInvariant
  <2> QED
    BY <2>1, StepOrRestart, MailboxNext
<1> QED
  BY <1>1, <1>2, RestartsKeepHubInvariant, PTL
     DEF PresenceSpec, ImplementsMailbox, Mail!Spec

-----------------------------------------------------------------------------
(***************************************************************************)
(* The gateways' half.  Steps but a restart and the passing of time take   *)
(* nobody off the map who was online, and shorten no countdown.            *)
(***************************************************************************)
NoneLost ==
    \A q \in Peer :
        Online(q) => /\ Online(q)' /\ peers'[q].expires_in \in Nat
                     /\ peers'[q].expires_in >= peers[q].expires_in

LEMMA SameIsNoneLost == UNCHANGED vars /\ PresenceTypeOK => NoneLost
<1> SUFFICES ASSUME UNCHANGED vars, PresenceTypeOK, NEW q \in Peer, Online(q)
             PROVE  /\ Online(q)' /\ peers'[q].expires_in \in Nat
                    /\ peers'[q].expires_in >= peers[q].expires_in
  BY DEF NoneLost
<1>1. peers' = peers
  BY DEF vars, state
<1>2. peers[q].expires_in \in Nat
  BY LeaseAssumption DEF PresenceTypeOK, TypeOK, Presence, Online
<1> QED
  BY <1>1, <1>2 DEF Online

\* A request that prunes takes off the map only who is overdue.
LEMMA PruneIsNoneLost == prune_peers /\ PresenceTypeOK => NoneLost
<1> SUFFICES ASSUME prune_peers, PresenceTypeOK, NEW q \in Peer, Online(q)
             PROVE  /\ Online(q)' /\ peers'[q].expires_in \in Nat
                    /\ peers'[q].expires_in >= peers[q].expires_in
  BY DEF NoneLost
<1>1. q \in DOMAIN peers' /\ peers'[q] = peers[q]
  BY DEF prune_peers, live_peers, Online
<1>2. peers[q].expires_in \in Nat
  BY LeaseAssumption DEF PresenceTypeOK, TypeOK, Presence, Online
<1> QED
  BY <1>1, <1>2 DEF Online

\* The hub takes a call of p: it is new in the map, or its entry is renewed.
LEMMA CallTaken ==
    ASSUME PresenceTypeOK, NEW p \in Peer, RegisterCall(p) \/ Heartbeat(p)
    PROVE  /\ NoneLost /\ Online(p)'
           /\ peers'[p].expires_in = PresenceLease
<1>1. /\ p \in DOMAIN peers' /\ peers'[p].expires_in = PresenceLease
      /\ \A q \in DOMAIN peers \ {p} : q \in DOMAIN peers' /\ peers'[q] = peers[q]
  <2>1. CASE RegisterCall(p)
    BY <2>1 DEF RegisterCall, Register, With
  <2>2. CASE Heartbeat(p)
    BY <2>2 DEF Heartbeat, PresenceTypeOK, TypeOK, Presence
  <2> QED
    BY <2>1, <2>2
<1>2. Online(p)'
  BY <1>1, LeaseAssumption DEF Online
<1>3. ASSUME NEW q \in Peer, Online(q)
      PROVE  /\ Online(q)' /\ peers'[q].expires_in \in Nat
             /\ peers'[q].expires_in >= peers[q].expires_in
  <2>1. peers[q].expires_in \in 0..PresenceLease /\ peers[q].expires_in > 0
    BY <1>3 DEF PresenceTypeOK, TypeOK, Presence, Online
  <2>2. CASE q = p
    BY <1>1, <1>2, <2>1, <2>2, LeaseAssumption
  <2>3. CASE q # p
    <3>1. q \in DOMAIN peers' /\ peers'[q] = peers[q]
      BY <1>1, <1>3, <2>3 DEF Online
    <3> QED
      BY <2>1, <3>1 DEF Online
  <2> QED
    BY <2>2, <2>3
<1> QED
  BY <1>1, <1>2, <1>3 DEF NoneLost

LEMMA CoverIsKept ==
    ASSUME PresenceTypeOK, NoneLost, NEW q \in Peer, NEW t \in 0..PresenceLease, Covers(q, t)
    PROVE  t < PresenceLease => /\ q \in DOMAIN peers'
                                /\ peers'[q].expires_in + t >= PresenceLease
<1> SUFFICES ASSUME t < PresenceLease
             PROVE  /\ q \in DOMAIN peers'
                    /\ peers'[q].expires_in + t >= PresenceLease
  OBVIOUS
<1>1. q \in DOMAIN peers /\ peers[q].expires_in + t >= PresenceLease
  BY DEF Covers
<1>2. peers[q].expires_in \in 0..PresenceLease
  BY <1>1 DEF PresenceTypeOK, TypeOK, Presence
<1>3. Online(q)
  BY <1>1, <1>2, LeaseAssumption DEF Online
<1>4. /\ q \in DOMAIN peers' /\ peers'[q].expires_in \in Nat
      /\ peers'[q].expires_in >= peers[q].expires_in
  BY <1>3 DEF NoneLost, Online
<1> QED
  BY <1>1, <1>2, <1>4, LeaseAssumption

\* What a step has to show of the one gateway it is about.
LEMMA GatewayKeeps ==
    ASSUME PresenceInvariant, NoneLost, NEW p \in Peer,
           \A q \in Peer \ {p} :
               /\ runtime'[q] = runtime[q] /\ call'[q] = call[q]
               /\ age'[q] = age[q] /\ confirmed'[q] = confirmed[q]
               /\ q \in unnoticed => q \in unnoticed',
           confirmed'[p] # confirmed[p] => Covers(p, confirmed[p])',
           call'[p] = "accepted" =>
               \/ call[p] = "accepted" /\ age'[p] = age[p]
               \/ Covers(p, age[p])',
           p \notin unnoticed' /\ ~Online(p)' =>
               call'[p] # "accepted" /\ (runtime'[p].running => runtime'[p].last_error)
    PROVE  CallsCoverLeases' /\ RefusalIsShown'
<1>1. \A q \in Peer : age[q] \in 0..PresenceLease /\ confirmed[q] \in 0..PresenceLease
  BY DEF PresenceInvariant, PresenceTypeOK
<1>2. ASSUME NEW q \in Peer
      PROVE  /\ Covers(q, confirmed[q])'
             /\ call'[q] = "accepted" => Covers(q, age[q])'
  <2>1. ASSUME confirmed'[q] = confirmed[q]
        PROVE  Covers(q, confirmed[q])'
    <3>1. Covers(q, confirmed[q])
      BY DEF PresenceInvariant, CallsCoverLeases
    <3>2. confirmed[q] < PresenceLease =>
              q \in DOMAIN peers' /\ peers'[q].expires_in + confirmed[q] >= PresenceLease
      BY <1>1, <3>1, CoverIsKept DEF PresenceInvariant
    <3> QED
      BY <2>1, <3>2 DEF Covers
  <2>2. ASSUME call'[q] = "accepted", call[q] = "accepted", age'[q] = age[q]
        PROVE  Covers(q, age[q])'
    <3>1. Covers(q, age[q])
      BY <2>2 DEF PresenceInvariant, CallsCoverLeases
    <3>2. age[q] < PresenceLease =>
              q \in DOMAIN peers' /\ peers'[q].expires_in + age[q] >= PresenceLease
      BY <1>1, <3>1, CoverIsKept DEF PresenceInvariant
    <3> QED
      BY <2>2, <3>2 DEF Covers
  <2>3. CASE q = p
    BY <2>1, <2>2, <2>3
  <2>4. CASE q # p
    BY <2>1, <2>2, <2>4
  <2> QED
    BY <2>3, <2>4
<1>3. ASSUME NEW q \in Peer, q \notin unnoticed', ~Online(q)'
      PROVE  call'[q] # "accepted" /\ (q \in Running' => runtime'[q].last_error)
  <2>1. CASE q = p
    BY <1>3, <2>1 DEF Running
  <2>2. CASE q # p
    <3>1. ~Online(q) /\ q \notin unnoticed
      BY <1>3, <2>2 DEF NoneLost
    <3>2. call[q] # "accepted" /\ (q \in Running => runtime[q].last_error)
      BY <3>1 DEF PresenceInvariant, RefusalIsShown
    <3> QED
      BY <2>2, <3>2 DEF Running
  <2> QED
    BY <2>1, <2>2
<1> QED
  BY <1>2, <1>3 DEF CallsCoverLeases, RefusalIsShown

-----------------------------------------------------------------------------
\* A call leaves.
LEMMA SendKeeps ==
    ASSUME PresenceInvariant, NEW p \in Peer, RegisterSent(p) \/ HeartbeatSent(p)
    PROVE  CallsCoverLeases' /\ RefusalIsShown'
<1>1. Sends(p) /\ call \in [Peer -> Call] /\ UNCHANGED vars
  BY DEF RegisterSent, HeartbeatSent, Sends, PresenceInvariant, PresenceTypeOK
<1>2. NoneLost
  BY <1>1, SameIsNoneLost DEF PresenceInvariant
<1>3. ~Online(p) /\ p \notin unnoticed => (p \in Running => runtime[p].last_error)
  BY DEF PresenceInvariant, RefusalIsShown
<1>4. ~Online(p)' => ~Online(p)
  BY <1>2 DEF NoneLost
<1> QED
  BY <1>1, <1>2, <1>3, <1>4, GatewayKeeps DEF Sends, Running

\* A call reaches a hub that takes it.
LEMMA AcceptKeeps ==
    ASSUME PresenceInvariant, NEW p \in Peer, RegisterCall(p) \/ Heartbeat(p),
           Noticed(p), UNCHANGED <<runtime, age, confirmed>>,
           call' = call \/ call' = [call EXCEPT ![p] = "accepted"]
    PROVE  CallsCoverLeases' /\ RefusalIsShown'
<1>1. call \in [Peer -> Call] /\ age \in [Peer -> 0..PresenceLease]
  BY DEF PresenceInvariant, PresenceTypeOK
<1>2. NoneLost /\ Online(p)' /\ peers'[p].expires_in = PresenceLease
  BY CallTaken DEF PresenceInvariant
<1>3. Covers(p, age[p])'
  BY <1>1, <1>2, LeaseAssumption DEF Covers, Online
<1> QED
  BY <1>1, <1>2, <1>3, GatewayKeeps DEF Noticed

\* It reaches a hub that does not know the gateway.
LEMMA RefuseKeeps ==
    ASSUME PresenceInvariant, NEW p \in Peer, HeartbeatRefused(p),
           UNCHANGED <<runtime, age, confirmed, unnoticed>>,
           call' = call \/ call' = [call EXCEPT ![p] = "refused"]
    PROVE  CallsCoverLeases' /\ RefusalIsShown'
<1>1. call \in [Peer -> Call] /\ UNCHANGED peers
  BY DEF PresenceInvariant, PresenceTypeOK, HeartbeatRefused, state
<1>2. \A q \in Peer : Online(q)' <=> Online(q)
  BY <1>1 DEF Online
<1>3. \A q \in Peer : call'[q] = "accepted" => call[q] = "accepted"
  BY <1>1
<1> QED
  BY <1>1, <1>2, <1>3
     DEF PresenceInvariant, CallsCoverLeases, Covers, RefusalIsShown, Running

\* A call ends: the gateway is told, or gives it up.
LEMMA EndKeeps ==
    ASSUME PresenceInvariant, NEW p \in Peer,
           \/ Start(p) \/ StartFails(p) \/ Stop(p)
           \/ heartbeat(p) \/ heartbeat_refused(p) \/ heartbeat_fails(p)
    PROVE  CallsCoverLeases' /\ RefusalIsShown'
<1>1. /\ runtime \in [Peer -> Runtime] /\ call \in [Peer -> Call]
      /\ age \in [Peer -> 0..PresenceLease] /\ confirmed \in [Peer -> 0..PresenceLease]
  BY DEF PresenceInvariant, PresenceTypeOK
<1>2. Ends(p) /\ UNCHANGED vars
  BY DEF Start, StartFails, Stop, heartbeat, heartbeat_refused, heartbeat_fails,
         Succeeds, Fails, Refused, Ends
<1>3. NoneLost /\ UNCHANGED peers /\ (Online(p)' <=> Online(p))
  BY <1>2, SameIsNoneLost DEF PresenceInvariant, vars, state, Online
<1>4. call'[p] = "none" /\ \A q \in Peer \ {p} : call'[q] = call[q] /\ age'[q] = age[q]
  BY <1>1, <1>2 DEF Ends
<1>5. \A q \in Peer \ {p} : q \in unnoticed => q \in unnoticed'
  BY DEF Start, StartFails, Stop, heartbeat, heartbeat_refused, heartbeat_fails,
         Succeeds, Fails, Refused, Noticed
<1>6. \A q \in Peer \ {p} : runtime'[q] = runtime[q] /\ confirmed'[q] = confirmed[q]
  BY <1>1 DEF Start, StartFails, Stop, heartbeat, heartbeat_refused, heartbeat_fails,
              Succeeds, Fails, Refused
<1>7. confirmed'[p] # confirmed[p] => Covers(p, confirmed[p])'
  <2>1. CASE Start(p) \/ heartbeat(p)
    <3>1. confirmed'[p] = age[p] /\ Covers(p, age[p])
      BY <1>1, <2>1 DEF Start, heartbeat, Succeeds, PresenceInvariant, CallsCoverLeases
    <3> QED
      BY <1>3, <3>1 DEF Covers
  <2>2. CASE Stop(p)
    <3>1. confirmed'[p] = PresenceLease
      BY <1>1, <2>2 DEF Stop
    <3> QED
      BY <3>1, LeaseAssumption DEF Covers
  <2>3. CASE StartFails(p) \/ heartbeat_refused(p) \/ heartbeat_fails(p)
    BY <2>3 DEF StartFails, heartbeat_refused, heartbeat_fails, Fails, Refused
  <2> QED
    BY <2>1, <2>2, <2>3
<1>8. ASSUME p \notin unnoticed', ~Online(p)'
      PROVE  runtime'[p].running => runtime'[p].last_error
  <2>1. CASE Start(p) \/ heartbeat(p)
    <3>1. call[p] = "accepted" /\ p \notin unnoticed /\ ~Online(p)
      BY <1>3, <1>8, <2>1 DEF Start, heartbeat, Succeeds
    <3> QED
      BY <3>1 DEF PresenceInvariant, RefusalIsShown
  <2>2. CASE StartFails(p) \/ Stop(p)
    BY <1>1, <2>2 DEF StartFails, Stop, Stopped
  <2>3. CASE heartbeat_refused(p) \/ heartbeat_fails(p)
    BY <1>1, <2>3 DEF heartbeat_refused, heartbeat_fails, Runtime
  <2> QED
    BY <2>1, <2>2, <2>3
<1> QED
  BY <1>3, <1>4, <1>5, <1>6, <1>7, <1>8, GatewayKeeps

\* Errors of other calls set the field that a refusal sets, and clear nothing.
LEMMA ErrorKeeps ==
    ASSUME PresenceInvariant, NEW p \in Peer, record_error(p)
    PROVE  CallsCoverLeases' /\ RefusalIsShown'
<1>1. runtime \in [Peer -> Runtime]
  BY DEF PresenceInvariant, PresenceTypeOK
<1>2. /\ UNCHANGED <<peers, call, age, confirmed, unnoticed>>
      /\ Running' = Running
      /\ \A q \in Peer : runtime[q].last_error => runtime'[q].last_error
      /\ \A q \in Peer : Online(q)' <=> Online(q)
  BY <1>1 DEF record_error, vars, state, callVars, Running, Runtime, Online
<1> QED
  BY <1>1, <1>2 DEF PresenceInvariant, CallsCoverLeases, Covers, RefusalIsShown, Running

LEMMA RequestKeeps ==
    ASSUME PresenceInvariant, HubStep(HubRequest) \/ HubStep(Cleanup)
    PROVE  CallsCoverLeases' /\ RefusalIsShown'
<1>1. prune_peers /\ UNCHANGED gatewayVars
  BY RequestsPrune DEF HubStep, HubRequest
<1>2. NoneLost /\ Running' = Running /\ UNCHANGED <<runtime, call, age, confirmed, unnoticed>>
  BY <1>1, PruneIsNoneLost DEF PresenceInvariant, gatewayVars, callVars, Running
<1>3. CallsCoverLeases'
  <2>1. \A q \in Peer : age[q] \in 0..PresenceLease /\ confirmed[q] \in 0..PresenceLease
    BY DEF PresenceInvariant, PresenceTypeOK
  <2>2. \A q \in Peer, t \in 0..PresenceLease : Covers(q, t) /\ t < PresenceLease =>
            q \in DOMAIN peers' /\ peers'[q].expires_in + t >= PresenceLease
    BY <1>2, CoverIsKept DEF PresenceInvariant
  <2> QED
    BY <1>2, <2>1, <2>2 DEF PresenceInvariant, CallsCoverLeases, Covers
<1>4. RefusalIsShown'
  BY <1>2 DEF PresenceInvariant, RefusalIsShown, NoneLost
<1> QED
  BY <1>3, <1>4

\* Nobody is in the map, nobody has been told, and what the hub that is gone has
\* taken counts no more.
LEMMA RestartKeeps ==
    ASSUME PresenceInvariant, HubRestart
    PROVE  CallsCoverLeases' /\ RefusalIsShown'
<1>1. /\ \A q \in Peer : confirmed'[q] = PresenceLease
      /\ \A q \in Peer : call'[q] = "accepted" => age'[q] = PresenceLease
      /\ unnoticed' = Peer
  BY DEF HubRestart
<1> QED
  BY <1>1, LeaseAssumption DEF CallsCoverLeases, Covers, RefusalIsShown

\* A unit of time costs every countdown one and makes every call one older, and who
\* is overdue by it has not been told.
LEMMA PresenceTickKeeps ==
    ASSUME PresenceInvariant, PresenceTick
    PROVE  CallsCoverLeases' /\ RefusalIsShown'
<1>1. /\ DOMAIN peers' = DOMAIN peers /\ Running' = Running
      /\ UNCHANGED <<runtime, call>>
      /\ unnoticed' = unnoticed \cup {p \in Peer : Online(p) /\ ~Online(p)'}
  BY DEF PresenceTick, Tick, Running
<1>2. ASSUME NEW q \in Peer, NEW t \in 0..PresenceLease, Covers(q, t), Older(t) < PresenceLease
      PROVE  q \in DOMAIN peers' /\ peers'[q].expires_in + Older(t) >= PresenceLease
  <2>1. /\ t < PresenceLease /\ Older(t) = t + 1
        /\ q \in DOMAIN peers /\ peers[q].expires_in + t >= PresenceLease
    BY <1>2, LeaseAssumption DEF Covers, Older
  <2>2. peers[q] \in Presence /\ peers[q].expires_in \in 0..PresenceLease
    BY <2>1 DEF PresenceInvariant, PresenceTypeOK, TypeOK, Presence
  <2>3. peers'[q].expires_in = Less(peers[q].expires_in)
    BY <2>1, <2>2 DEF PresenceTick, Tick, Presence
  <2> QED
    BY <1>1, <2>1, <2>2, <2>3, LeaseAssumption DEF Less
<1>3. CallsCoverLeases'
  <2> SUFFICES ASSUME NEW q \in Peer
               PROVE  /\ Covers(q, confirmed[q])'
                      /\ call'[q] = "accepted" => Covers(q, age[q])'
    BY DEF CallsCoverLeases
  <2>1. /\ age[q] \in 0..PresenceLease /\ confirmed[q] \in 0..PresenceLease
        /\ confirmed'[q] = Older(confirmed[q])
        /\ call[q] = "accepted" => age'[q] = Older(age[q])
    BY DEF PresenceInvariant, PresenceTypeOK, PresenceTick
  <2>2. Covers(q, confirmed[q]) /\ (call[q] = "accepted" => Covers(q, age[q]))
    BY DEF PresenceInvariant, CallsCoverLeases
  <2>3. Covers(q, confirmed[q])'
    BY <1>2, <2>1, <2>2 DEF Covers
  <2>4. call[q] = "accepted" => Covers(q, age[q])'
    BY <1>2, <2>1, <2>2 DEF Covers
  <2> QED
    BY <1>1, <2>3, <2>4
<1>4. RefusalIsShown'
  BY <1>1 DEF PresenceInvariant, RefusalIsShown
<1> QED
  BY <1>3, <1>4

LEMMA GatewayTypes ==
    ASSUME PresenceTypeOK, [PresenceNext]_presenceVars
    PROVE  /\ runtime' \in [Peer -> Runtime]
           /\ call' \in [Peer -> Call]
           /\ age' \in [Peer -> 0..PresenceLease] /\ confirmed' \in [Peer -> 0..PresenceLease]
           /\ unnoticed' \subseteq Peer
<1> DEFINE Goal == /\ runtime' \in [Peer -> Runtime]
                   /\ call' \in [Peer -> Call]
                   /\ age' \in [Peer -> 0..PresenceLease]
                   /\ confirmed' \in [Peer -> 0..PresenceLease]
                   /\ unnoticed' \subseteq Peer
<1>0. /\ 0 \in 0..PresenceLease /\ PresenceLease \in 0..PresenceLease /\ Stopped \in Runtime
      /\ {"none", "sent", "accepted", "refused"} = Call
  BY LeaseAssumption DEF Stopped, Runtime, Call
<1>1. ASSUME NEW p \in Peer, RegisterSent(p) \/ HeartbeatSent(p)
      PROVE  Goal
  BY <1>0, <1>1 DEF RegisterSent, HeartbeatSent, Sends, PresenceTypeOK
<1>2. ASSUME NEW p \in Peer, RegisterReaches(p) \/ HeartbeatReaches(p) \/ LateCall(p)
      PROVE  Goal
  <2>1. /\ UNCHANGED <<runtime, age, confirmed>>
        /\ unnoticed' \subseteq unnoticed
        /\ \E c \in Call : call' = [call EXCEPT ![p] = c] \/ call' = call
    BY <1>0, <1>2 DEF RegisterReaches, HeartbeatReaches, LateCall, Reaches, Noticed, callVars
  <2> QED
    BY <2>1 DEF PresenceTypeOK
<1>3. ASSUME NEW p \in Peer,
             \/ Start(p) \/ StartFails(p) \/ Stop(p)
             \/ heartbeat(p) \/ heartbeat_refused(p) \/ heartbeat_fails(p)
      PROVE  Goal
  <2>1. Ends(p) /\ runtime[p] \in Runtime /\ age[p] \in 0..PresenceLease
    BY <1>3 DEF Start, StartFails, Stop, heartbeat, heartbeat_refused, heartbeat_fails,
                Succeeds, Fails, Refused, PresenceTypeOK
  <2>2. call' \in [Peer -> Call] /\ age' \in [Peer -> 0..PresenceLease]
    BY <1>0, <2>1 DEF Ends, PresenceTypeOK
  <2>3. unnoticed' \subseteq Peer
    BY <1>3 DEF Start, StartFails, Stop, heartbeat, heartbeat_refused, heartbeat_fails,
                Succeeds, Fails, Refused, Noticed, PresenceTypeOK
  <2>4. confirmed' \in [Peer -> 0..PresenceLease]
    BY <1>0, <1>3, <2>1 DEF Start, StartFails, Stop, heartbeat, heartbeat_refused,
                            heartbeat_fails, Succeeds, Fails, Refused, PresenceTypeOK
  <2>5. runtime' \in [Peer -> Runtime]
    <3>1. \/ runtime' = runtime
          \/ \E r \in Runtime : runtime' = [runtime EXCEPT ![p] = r]
      <4>1. CASE Start(p)
        BY <4>1 DEF Start, Runtime
      <4>2. CASE StartFails(p) \/ Stop(p)
        BY <1>0, <4>2 DEF StartFails, Stop
      <4>3. CASE heartbeat(p)
        <5>1. runtime' = [runtime EXCEPT ![p] = [@ EXCEPT !.last_heartbeat_at = TRUE,
                                                          !.last_error = FALSE]]
          BY <4>3 DEF heartbeat
        <5> QED
          BY <2>1, <5>1 DEF Runtime
      <4>4. CASE heartbeat_refused(p) \/ heartbeat_fails(p)
        <5>1. runtime' = [runtime EXCEPT ![p] = [@ EXCEPT !.last_error = TRUE]]
          BY <4>4 DEF heartbeat_refused, heartbeat_fails
        <5> QED
          BY <2>1, <5>1 DEF Runtime
      <4> QED
        BY <1>3, <4>1, <4>2, <4>3, <4>4
    <3> QED
      BY <3>1 DEF PresenceTypeOK
  <2> QED
    BY <2>2, <2>3, <2>4, <2>5
<1>4. ASSUME NEW p \in Peer, record_error(p)
      PROVE  Goal
  BY <1>4 DEF record_error, callVars, PresenceTypeOK, Runtime
<1>5. CASE HubStep(HubRequest) \/ HubStep(Cleanup) \/ UNCHANGED presenceVars
  BY <1>5 DEF HubStep, presenceVars, gatewayVars, callVars, PresenceTypeOK
<1>6. CASE HubRestart
  BY <1>0, <1>6 DEF HubRestart, PresenceTypeOK
<1>7. CASE PresenceTick
  <2>1. \A t \in 0..PresenceLease : Older(t) \in 0..PresenceLease
    BY LeaseAssumption DEF Older
  <2> QED
    BY <1>0, <1>7, <2>1 DEF PresenceTick, PresenceTypeOK
<1> QED
  BY <1>1, <1>2, <1>3, <1>4, <1>5, <1>6, <1>7 DEF PresenceNext, GatewayStep

LEMMA PresenceInductive ==
    ASSUME HubInvariant, PresenceInvariant, [PresenceNext]_presenceVars
    PROVE  PresenceInvariant'
<1>1. TypeOK'
  BY PresenceKeepsHub DEF HubInvariant
<1>2. PresenceTypeOK'
  BY <1>1, GatewayTypes DEF PresenceTypeOK, PresenceInvariant
<1>3. CASE UNCHANGED presenceVars
  <2>1. /\ Running' = Running /\ UNCHANGED <<peers, runtime, call, age, confirmed, unnoticed>>
        /\ \A q \in Peer : Online(q)' <=> Online(q)
    BY <1>3 DEF presenceVars, vars, state, gatewayVars, callVars, Running, Online
  <2> QED
    BY <1>2, <2>1 DEF PresenceInvariant, CallsCoverLeases, Covers, RefusalIsShown
<1>4. ASSUME NEW p \in Peer, GatewayStep(p) \/ LateCall(p)
      PROVE  CallsCoverLeases' /\ RefusalIsShown'
  <2>1. CASE RegisterSent(p) \/ HeartbeatSent(p)
    BY <2>1, SendKeeps
  <2>2. CASE RegisterReaches(p) \/ HeartbeatReaches(p) \/ LateCall(p)
    <3>1. /\ UNCHANGED <<runtime, age, confirmed>>
          /\ \/ /\ RegisterCall(p) \/ Heartbeat(p)
                /\ Noticed(p)
                /\ call' = call \/ call' = [call EXCEPT ![p] = "accepted"]
             \/ /\ HeartbeatRefused(p) /\ UNCHANGED unnoticed
                /\ call' = call \/ call' = [call EXCEPT ![p] = "refused"]
      BY <2>2 DEF RegisterReaches, HeartbeatReaches, LateCall, Reaches, callVars
    <3> QED
      BY <3>1, AcceptKeeps, RefuseKeeps
  <2>3. CASE \/ Start(p) \/ StartFails(p) \/ Stop(p)
             \/ heartbeat(p) \/ heartbeat_refused(p) \/ heartbeat_fails(p)
    BY <2>3, EndKeeps
  <2>4. CASE record_error(p)
    BY <2>4, ErrorKeeps
  <2> QED
    BY <1>4, <2>1, <2>2, <2>3, <2>4 DEF GatewayStep
<1>5. CASE PresenceNext
  <2>1. CallsCoverLeases' /\ RefusalIsShown'
    BY <1>4, <1>5, RequestKeeps, RestartKeeps, PresenceTickKeeps DEF PresenceNext
  <2> QED
    BY <1>2, <2>1 DEF PresenceInvariant
<1> QED
  BY <1>3, <1>5

LEMMA PresenceInitially == PresenceInit => PresenceInvariant
<1> SUFFICES ASSUME PresenceInit
             PROVE  PresenceInvariant
  OBVIOUS
<1>1. TypeOK
  BY InitType DEF PresenceInit
<1>2. PresenceTypeOK
  BY <1>1, LeaseAssumption DEF PresenceInit, PresenceTypeOK, Stopped, Runtime, Call
<1>3. CallsCoverLeases /\ RefusalIsShown
  BY LeaseAssumption DEF PresenceInit, CallsCoverLeases, Covers, RefusalIsShown
<1> QED
  BY <1>2, <1>3 DEF PresenceInvariant

\* The inductive invariant behind the three below, for any lease and any number of
\* restarts, calls that hang, calls that are lost and calls that come late.
THEOREM PresenceInvariantHolds == PresenceSpec => []PresenceInvariant
BY PresenceInitially, PresenceInductive, RestartsKeepHubInvariant, PTL DEF PresenceSpec

-----------------------------------------------------------------------------
\* The hub, what the gateways keep of it and the calls under way are well formed in
\* every reachable state.
THEOREM PresenceTypeCorrect == PresenceSpec => []PresenceTypeOK
<1>1. PresenceInvariant => PresenceTypeOK
  BY DEF PresenceInvariant
<1> QED
  BY <1>1, PresenceInvariantHolds, PTL

\* For a lease from the moment a successful call of its own left, a gateway that
\* runs is online, unless the hub that took the call is gone.  Longer than that it
\* need not be: heartbeats may hang or be lost for any time.
THEOREM RunningStaysOnline == PresenceSpec => []RunningIsOnline
<1>1. PresenceInvariant => RunningIsOnline
  <2> SUFFICES ASSUME PresenceInvariant, NEW p \in Running, confirmed[p] < PresenceLease
               PROVE  Online(p)
    BY DEF RunningIsOnline
  <2>1. /\ p \in DOMAIN peers /\ confirmed[p] \in 0..PresenceLease
        /\ peers[p].expires_in + confirmed[p] >= PresenceLease
    BY DEF PresenceInvariant, PresenceTypeOK, CallsCoverLeases, Covers, Running
  <2>2. peers[p].expires_in \in 0..PresenceLease
    BY <2>1 DEF PresenceInvariant, PresenceTypeOK, TypeOK, Presence
  <2> QED
    BY <2>1, <2>2, LeaseAssumption DEF Online
<1> QED
  BY <1>1, PresenceInvariantHolds, PTL

\* What a gateway shows is never "online" once the hub has told it that it does not
\* know it: the one field for errors is set by whatever fails, and nothing clears it
\* before the hub takes a call of the gateway again.
THEOREM StatusIsTrue == PresenceSpec => []StatusTellsPresence
<1>1. PresenceInvariant => StatusTellsPresence
  <2> SUFFICES ASSUME PresenceInvariant, NEW p \in Running,
                      heartbeat_state(p) = "online", p \notin unnoticed
               PROVE  Online(p)
    BY DEF StatusTellsPresence
  <2>1. runtime[p].last_error \in BOOLEAN
    BY DEF PresenceInvariant, PresenceTypeOK, Running, Runtime
  <2>2. ~runtime[p].last_error
    BY <2>1 DEF heartbeat_state
  <2> QED
    BY <2>2 DEF PresenceInvariant, RefusalIsShown, Running
<1> QED
  BY <1>1, PresenceInvariantHolds, PTL
=============================================================================
