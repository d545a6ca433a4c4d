----------------------------- MODULE PromptHub -----------------------------
(***************************************************************************)
(* The hub as used by gateways that keep running: each one registers and   *)
(* then its heartbeat loop and its relay poll loop (gateway.rs) call the   *)
(* hub at their intervals.  An interval here is the longest time between   *)
(* two answers of the hub to the loop, the sleep and the call together: no *)
(* unit of time passes while a call is overdue.  Everything else the hub   *)
(* may be asked to do stays possible at every moment, by anybody.          *)
(*                                                                         *)
(* This is where the four durations of the system meet.  They are set in   *)
(* different programs (30 s and 60 s in the hub, 10 s and 1 s in the       *)
(* gateway) and nothing compares them: the first is even configurable by   *)
(* the user, and the lease the hub answers with is stored and not used.    *)
(***************************************************************************)
EXTENDS Hub

CONSTANTS
    HeartbeatInterval,   \* spawn_heartbeat_loop
    PollInterval         \* spawn_relay_poll_loop

ASSUME IntervalAssumption ==
    /\ HeartbeatInterval \in Nat /\ HeartbeatInterval < PresenceLease
    /\ PollInterval \in Nat /\ PollInterval < RelaySessionTimeout

VARIABLES
    beat_age,   \* time since each peer last registered or beat
    poll_age    \* time since each peer last polled (or registered first)

ages == <<beat_age, poll_age>>
promptVars == <<vars, ages>>

PromptTypeOK ==
    /\ TypeOK
    /\ beat_age \in [Peer -> 0..HeartbeatInterval]
    /\ poll_age \in [Peer -> 0..PollInterval]

PromptInit ==
    /\ Init
    /\ beat_age = [p \in Peer |-> 0]
    /\ poll_age = [p \in Peer |-> 0]

\* start: register, then spawn the loops.
GatewayRegisters(p) ==
    /\ \E profile \in Profile, ip \in ObservedIp : Register(p, profile, ip)
    /\ beat_age' = [beat_age EXCEPT ![p] = 0]
    /\ UNCHANGED poll_age

\* One turn of the heartbeat loop, answered with the record or with a 404.
GatewayBeats(p) ==
    /\ Heartbeat(p) \/ HeartbeatRefused(p)
    /\ beat_age' = [beat_age EXCEPT ![p] = 0]
    /\ UNCHANGED poll_age

\* One turn of the relay poll loop.
GatewayPolls(p) ==
    /\ poll_relay_messages(p)
    /\ poll_age' = [poll_age EXCEPT ![p] = 0]
    /\ UNCHANGED beat_age

OtherRequest ==
    /\ \/ ConnectRequest
       \/ Cleanup
       \/ \E p \in Peer :
             \/ lookup_peer(p)
             \/ \E s \in Session :
                   \/ attach_relay_peer(s, p)
                   \/ AttachRefused(s, p)
                   \/ \E from, to \in Peer :
                         \/ SendRefused(s, p, from, to)
                         \/ \E m \in Message : relay_send(s, p, from, to, m)
    /\ UNCHANGED ages

\* Peers the hub has never heard of have no loops that could be overdue.
PromptTick ==
    /\ \A p \in DOMAIN peers : beat_age[p] < HeartbeatInterval /\ poll_age[p] < PollInterval
    /\ Tick
    /\ beat_age' = [p \in Peer |-> IF p \in DOMAIN peers THEN beat_age[p] + 1 ELSE 0]
    /\ poll_age' = [p \in Peer |-> IF p \in DOMAIN peers THEN poll_age[p] + 1 ELSE 0]

PromptNext ==
    \/ \E p \in Peer : GatewayRegisters(p) \/ GatewayBeats(p) \/ GatewayPolls(p)
    \/ OtherRequest
    \/ PromptTick

PromptSpec == PromptInit /\ [][PromptNext]_promptVars

\* The poll loop runs until the gateway stops; time goes by.
PromptFairSpec ==
    /\ PromptSpec
    /\ \A p \in Peer : WF_promptVars(GatewayPolls(p))
    /\ \A p \in Peer : WF_promptVars(GatewayBeats(p))
    /\ WF_promptVars(PromptTick)
    /\ WF_promptVars(Cleanup /\ UNCHANGED ages)
-----------------------------------------------------------------------------
\* A gateway that beats within its interval is online at every instant, so no
\* lookup and no connect can miss it.
BeatingPeersStayOnline ==
    /\ \A p \in DOMAIN peers : Online(p)
    /\ \A p \in DOMAIN peers : p \notin told_offline

\* While both ends poll within their interval, no session with a waiting
\* message runs out of time, however late in its life the message came.
WaitingSessionsStayOpen ==
    \A s \in DOMAIN relay_sessions, p \in Peer : Waiting(s, p) # <<>> => Open(s)

\* So nothing is ever dropped: all that relay_send took for a session that is
\* gone was handed to its addressee.
NothingIsDropped ==
    \A s \in Session, p \in Peer :
        s \notin DOMAIN relay_sessions => handed[p][s] = accepted[p][s]

\* Why these hold: what a countdown has lost is at most what has passed since
\* the loop last called, for every peer in the map and for every peer a message
\* waits for; and the ends of a session are peers whose loops are running.
BeatsCoverLeases ==
    \A p \in DOMAIN peers : peers[p].expires_in + beat_age[p] >= PresenceLease

PollsCoverWaiting ==
    \A s \in DOMAIN relay_sessions, p \in Peer :
        Waiting(s, p) # <<>> =>
            relay_sessions[s].expires_in + poll_age[p] >= RelaySessionTimeout

EndsAreRegistered ==
    \A s \in DOMAIN relay_sessions, role \in Role :
        relay_sessions[s].party[role] \in DOMAIN peers

PromptInvariant ==
    /\ PromptTypeOK
    /\ BeatsCoverLeases
    /\ PollsCoverWaiting
    /\ EndsAreRegistered
    /\ NothingIsDropped

\* And it arrives: of all that was accepted for a peer, nothing is outstanding
\* for ever, provided its poll loop keeps turning.
EverythingArrives ==
    \A p \in Peer, s \in Session :
        []<>(handed[p][s] = accepted[p][s])
=============================================================================
