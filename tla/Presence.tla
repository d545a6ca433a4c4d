------------------------------ MODULE Presence ------------------------------
(***************************************************************************)
(* A hub that may be restarted, and what its gateways believe of it: the   *)
(* heartbeat loop of gateway.rs with the fields of GatewayRuntimeState     *)
(* from which the status line of the user interface is made.               *)
(*                                                                         *)
(* A gateway registers once, when it starts.  A call leaves, may reach the *)
(* hub, and is answered or fails, each in a step of its own, and time goes *)
(* by in between: HubClient sets no time-out, so a call may be under way   *)
(* for longer than a lease, and a failed heartbeat is not repeated before  *)
(* the next sleep.  What else the hub is asked, relaying included, may be  *)
(* asked by anybody at any time.                                           *)
(***************************************************************************)
EXTENDS Hub

VARIABLES
    runtime,        \* GatewayRuntimeState of each gateway
    call,           \* the call to register or heartbeat each gateway waits for
    age,            \* history: time since that call left; over when it was taken by a
                    \*   hub that is gone
    confirmed,      \* history: the age that the last call that succeeded has by now
    unnoticed       \* history: peers the hub has lost, or not known since they were
                    \*   stopped, and which no answer has told so

callVars == <<call, age, confirmed>>
gatewayVars == <<runtime, callVars, unnoticed>>
presenceVars == <<vars, gatewayVars>>

\* The timestamps and the error text are kept as whether they are set.
Runtime == [running : BOOLEAN, last_registered_at : BOOLEAN,
            last_heartbeat_at : BOOLEAN, last_error : BOOLEAN]

Stopped == [running |-> FALSE, last_registered_at |-> FALSE,
            last_heartbeat_at |-> FALSE, last_error |-> FALSE]

\* One call at a time: the loop awaits it before it sleeps again.
Call == {"none", "sent", "accepted", "refused"}

Running == {p \in Peer : runtime[p].running}

heartbeat_state(p) ==
    CASE runtime[p].last_error -> "error"
      [] ~runtime[p].last_error /\ runtime[p].last_heartbeat_at -> "online"
      [] OTHER -> IF runtime[p].last_registered_at THEN "registered" ELSE "starting"

PresenceTypeOK ==
    /\ TypeOK
    /\ runtime \in [Peer -> Runtime]
    /\ call \in [Peer -> Call]
    /\ age \in [Peer -> 0..PresenceLease] /\ confirmed \in [Peer -> 0..PresenceLease]
    /\ unnoticed \subseteq Peer

PresenceInit ==
    /\ Init
    /\ runtime = [p \in Peer |-> Stopped]
    /\ call = [p \in Peer |-> "none"]
    /\ age = [p \in Peer |-> 0]
    /\ confirmed = [p \in Peer |-> PresenceLease]
    /\ unnoticed = Peer

-----------------------------------------------------------------------------
(***************************************************************************)
(* A call leaves, reaches the hub and ends.                                *)
(***************************************************************************)
RegisterCall(p) == \E profile \in Profile, ip \in ObservedIp : Register(p, profile, ip)

Sends(p) ==
    /\ call[p] = "none"
    /\ call' = [call EXCEPT ![p] = "sent"]
    /\ UNCHANGED <<vars, runtime, age, confirmed, unnoticed>>

\* The hub knows p, or p knows that it does not.
Noticed(p) == unnoticed' = unnoticed \ {p}

Reaches(p, answer) ==
    /\ call[p] = "sent"
    /\ call' = [call EXCEPT ![p] = answer]
    /\ UNCHANGED <<runtime, age, confirmed>>

Ends(p) ==
    /\ call' = [call EXCEPT ![p] = "none"]
    /\ age' = [age EXCEPT ![p] = 0]
    /\ UNCHANGED vars

Succeeds(p) ==
    /\ call[p] = "accepted"
    /\ confirmed' = [confirmed EXCEPT ![p] = age[p]]
    /\ UNCHANGED unnoticed
    /\ Ends(p)

\* Whatever became of its request.
Fails(p) ==
    /\ call[p] # "none"
    /\ UNCHANGED <<confirmed, unnoticed>>
    /\ Ends(p)

Refused(p) ==
    /\ call[p] = "refused"
    /\ Noticed(p)
    /\ UNCHANGED confirmed
    /\ Ends(p)

-----------------------------------------------------------------------------
RegisterSent(p) == ~runtime[p].running /\ Sends(p)

RegisterReaches(p) ==
    /\ ~runtime[p].running
    /\ RegisterCall(p) /\ Noticed(p) /\ Reaches(p, "accepted")

\* start returns only when the hub has answered the registration.
Start(p) ==
    /\ ~runtime[p].running
    /\ Succeeds(p)
    /\ runtime' = [runtime EXCEPT ![p] =
                     [running |-> TRUE, last_registered_at |-> TRUE,
                      last_heartbeat_at |-> TRUE, last_error |-> FALSE]]

\* No loop is started, also when the registration was made.
StartFails(p) == ~runtime[p].running /\ Fails(p) /\ UNCHANGED runtime

\* The sleep of the loop is over; how long it lasts says nothing here.
HeartbeatSent(p) == runtime[p].running /\ Sends(p)

HeartbeatReaches(p) ==
    /\ runtime[p].running
    /\ \/ Heartbeat(p) /\ Noticed(p) /\ Reaches(p, "accepted")
       \/ HeartbeatRefused(p) /\ UNCHANGED unnoticed /\ Reaches(p, "refused")

heartbeat(p) ==
    /\ runtime[p].running
    /\ Succeeds(p)
    /\ runtime' = [runtime EXCEPT ![p].last_heartbeat_at = TRUE, ![p].last_error = FALSE]

\* Variant: the status of the HTTP answer is not looked at.
AnyAnswerIsSuccess(p) ==
    /\ runtime[p].running
    /\ Refused(p)
    /\ runtime' = [runtime EXCEPT ![p].last_heartbeat_at = TRUE, ![p].last_error = FALSE]

\* A 404 is recorded as an error like any other: the gateway does not register
\* again.
heartbeat_refused(p) ==
    /\ runtime[p].running
    /\ Refused(p)
    /\ runtime' = [runtime EXCEPT ![p].last_error = TRUE]

heartbeat_fails(p) ==
    /\ runtime[p].running
    /\ Fails(p)
    /\ runtime' = [runtime EXCEPT ![p].last_error = TRUE]

\* A poll, a lookup or a connect that fails, an error while a message is stored:
\* all set the one last_error.
record_error(p) ==
    /\ runtime[p].running
    /\ runtime' = [runtime EXCEPT ![p].last_error = TRUE]
    /\ UNCHANGED <<vars, callVars, unnoticed>>

\* Stopped or killed; the hub is not told.
Stop(p) ==
    /\ runtime[p].running
    /\ runtime' = [runtime EXCEPT ![p] = Stopped]
    /\ confirmed' = [confirmed EXCEPT ![p] = PresenceLease]
    /\ unnoticed' = unnoticed \cup {p}
    /\ Ends(p)

GatewayStep(p) ==
    \/ RegisterSent(p) \/ RegisterReaches(p) \/ Start(p) \/ StartFails(p)
    \/ HeartbeatSent(p) \/ HeartbeatReaches(p)
    \/ heartbeat(p) \/ heartbeat_refused(p) \/ heartbeat_fails(p)
    \/ record_error(p) \/ Stop(p)
-----------------------------------------------------------------------------
\* A request that nobody waits for any more reaches the hub, or one of another
\* client under the name of p.
LateCall(p) ==
    /\ \/ (RegisterCall(p) \/ Heartbeat(p)) /\ Noticed(p)
       \/ HeartbeatRefused(p) /\ UNCHANGED unnoticed
    /\ UNCHANGED <<runtime, callVars>>

\* Both maps of the hub are in memory only.
HubRestart ==
    /\ peers' = <<>> /\ relay_sessions' = <<>>
    /\ confirmed' = [p \in Peer |-> PresenceLease]
    /\ age' = [p \in Peer |-> IF call[p] = "accepted" THEN PresenceLease ELSE age[p]]
    /\ unnoticed' = Peer
    /\ UNCHANGED <<history, runtime, call>>

\* What else is asked of the hub, and its own cleanup task.
HubRequest == (\E p \in Peer : lookup_peer(p)) \/ ConnectRequest \/ RelayRequest

HubStep(step) == step /\ UNCHANGED gatewayVars

\* Time waits for nobody: not for a heartbeat, nor for the answer to one.
Older(t) == IF t < PresenceLease THEN t + 1 ELSE t

PresenceTick ==
    /\ Tick
    /\ age' = [p \in Peer |-> IF call[p] = "none" THEN 0 ELSE Older(age[p])]
    /\ confirmed' = [p \in Peer |-> Older(confirmed[p])]
    /\ unnoticed' = unnoticed \cup {p \in Peer : Online(p) /\ ~Online(p)'}
    /\ UNCHANGED <<runtime, call>>

PresenceNext ==
    \/ \E p \in Peer : GatewayStep(p) \/ LateCall(p)
    \/ HubStep(HubRequest) \/ HubStep(Cleanup)
    \/ HubRestart \/ PresenceTick

PresenceSpec == PresenceInit /\ [][PresenceNext]_presenceVars

\* The heartbeat loop turns for as long as the gateway runs, each of its calls
\* ends, well or badly, time goes by, and the cleanup task turns for as long as
\* there is a hub.
PresenceFairSpec ==
    /\ PresenceSpec
    /\ \A p \in Peer :
          /\ WF_presenceVars(HeartbeatSent(p))
          /\ WF_presenceVars(heartbeat(p) \/ heartbeat_refused(p) \/ heartbeat_fails(p))
    /\ WF_presenceVars(PresenceTick)
    /\ WF_presenceVars(HubStep(Cleanup))

\* The best a network can do, again and again heartbeats reach the hub and their
\* answers come back, and a hub that is restarted for a last time.
AnsweredSpec ==
    /\ PresenceFairSpec
    /\ <>[][~HubRestart]_presenceVars
    /\ \A p \in Peer :
          /\ SF_presenceVars(HeartbeatReaches(p))
          /\ SF_presenceVars(heartbeat(p)) /\ SF_presenceVars(heartbeat_refused(p))
-----------------------------------------------------------------------------
\* A gateway whose last successful call left less than a lease ago is online,
\* unless the hub that took the call is gone: no prune of any handler, no request
\* of another peer, no answer that comes late and no older call of its own takes
\* it off.
RunningIsOnline ==
    \A p \in Running : confirmed[p] < PresenceLease => Online(p)

\* A gateway that shows "online" is online, unless the hub has lost it, by a
\* restart or because the lease ran out, and no answer has told it so since: the
\* errors of other calls, which share the one field, and the heartbeats that clear
\* it, however late their answers, never hide that the hub refuses it.
StatusTellsPresence ==
    \A p \in Running :
        heartbeat_state(p) = "online" => Online(p) \/ p \in unnoticed

\* Why these two hold: a peer whose call was taken less than a lease ago is in the
\* map, with a countdown that has lost no more than the time since that call left;
\* and once a gateway has been told that the hub does not know it, its status
\* shows an error, and no earlier success is on its way to clear it.
Covers(p, t) ==
    t < PresenceLease => p \in DOMAIN peers /\ peers[p].expires_in + t >= PresenceLease

CallsCoverLeases ==
    \A p \in Peer : Covers(p, confirmed[p]) /\ (call[p] = "accepted" => Covers(p, age[p]))

RefusalIsShown ==
    \A p \in Peer \ unnoticed :
        ~Online(p) => call[p] # "accepted" /\ (p \in Running => runtime[p].last_error)

PresenceInvariant ==
    /\ PresenceTypeOK
    /\ CallsCoverLeases
    /\ RefusalIsShown

\* And it does not go on showing "online" for ever when the hub has lost it.
LossIsNoticed ==
    \A p \in Peer :
        p \in Running /\ ~Online(p)
            ~> p \notin Running \/ Online(p) \/ heartbeat_state(p) = "error"

\* "Peers register with the OpenHanse hub, keep their presence alive": whatever
\* happens to the hub, a gateway that goes on running is online again at some
\* later time.
PresenceIsKept ==
    \A p \in Peer : []<>(p \in Running => Online(p))
=============================================================================
