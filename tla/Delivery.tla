------------------------------ MODULE Delivery ------------------------------
(***************************************************************************)
(* How a message gets from one gateway to another (gateway.rs): a call of  *)
(* send_message asks the hub how to connect, posts the message to the      *)
(* target's own HTTP endpoint or goes through a relay session, and in auto *)
(* mode falls back from the first to the second; the target's poll loop    *)
(* fetches relayed messages and stores them.                               *)
(*                                                                         *)
(* Each HTTP call takes effect at one moment and is answered at a later    *)
(* one, or not: a call that fails may have had its effect or not, or may   *)
(* yet have it, and the caller cannot tell.  Between any two steps of a    *)
(* call everybody else may move.  There is no time-out on any call.        *)
(*                                                                         *)
(* A POST goes to an address, not to a gateway: the receiver does not      *)
(* compare the name the message is for with its own, and the sender does   *)
(* not look at the name in the answer.  The relay goes by names.           *)
(*                                                                         *)
(* The hub's relay is the Mailbox that Hub implements.  Which path the hub *)
(* offers is left open, see Reachability for the choice it makes.  Files   *)
(* can be written (a failure to write is not modelled here), and the event *)
(* log is left out.                                                        *)
(*                                                                         *)
(* An operator marked "Variant" is the one below it with a mistake in it,  *)
(* for checking that the properties tell the two apart; nothing uses it.   *)
(***************************************************************************)
EXTENDS Naturals, Sequences, SequencesExt, FiniteSets

CONSTANTS
    Peer, Session,
    Message,              \* one for each call of send_message
    Sender,               \* the gateway each call is made on
    target_peer_id,       \* GatewayRuntimeConfig, for each gateway
    communication_mode,   \* GatewayRuntimeConfig, for each gateway
    Fragile,              \* the gateways whose process may be killed
    Listeners,            \* the gateways that may answer at an address the hub offers
                          \*   for each gateway: itself, or another one if that is
                          \*   0.0.0.0, is out of date or exists in another LAN too
    NoSession

ModesOfCommunication == {"auto", "direct", "relay_only"}

ASSUME DeliveryAssumption ==
    /\ Sender \in [Message -> Peer]
    /\ target_peer_id \in [Peer -> Peer]
    /\ \A p \in Peer : target_peer_id[p] # p
    /\ communication_mode \in [Peer -> ModesOfCommunication]
    /\ Fragile \subseteq Peer
    /\ Listeners \in [Peer -> SUBSET Peer]
    /\ NoSession \notin Session

VARIABLES
    status, accepted, handed,   \* the hub's relay, see Mailbox
    running,                    \* the gateways whose process runs
    step,                       \* how far each call of send_message has come
    session,                    \* the relay session it was given
    posts, sends,               \* the POST and relay send requests under way
    inbox,                      \* inbox.jsonl of each gateway, and the inbox in memory
    batch,                      \* the answer to a poll, as far as it is not yet stored
    counts,                     \* the four counters of GatewayRuntimeState
    lost,                       \* history: envelopes that nobody has any more
    given_up                    \* history: messages whose POST failed for the sender

relayVars == <<status, accepted, handed>>
callVars == <<step, session>>
requests == <<posts, sends>>
history == <<lost, given_up>>
vars == <<relayVars, callVars, requests, running, inbox, batch, counts, history>>

Relay == INSTANCE Mailbox WITH status <- status, accepted <- accepted, handed <- handed

DELIVERY_MODE_DIRECT_TCP == "direct_tcp"
DELIVERY_MODE_RELAY == "relay"

\* "posting" and "sending": the request is yet to take effect; "posted" and
\* "relayed": it has taken effect and is yet to be answered.
Steps == {"idle", "connecting", "posting", "posted", "reconnecting", "attaching",
          "sending", "relayed", "sent_direct", "sent_relay", "failed"}
Finished == {"sent_direct", "sent_relay", "failed"}

Recipient(m) == target_peer_id[Sender[m]]
ModeOf(m) == communication_mode[Sender[m]]
prefer_direct(mode) == mode \in {"auto", "direct"}

Counter == {"direct_sent_count", "relay_sent_count",
            "direct_received_count", "relay_received_count"}
NoCounts == [c \in Counter |-> 0]

Init ==
    /\ Relay!Init
    /\ running = Peer
    /\ step = [m \in Message |-> "idle"]
    /\ session = [m \in Message |-> NoSession]
    /\ posts = {} /\ sends = {}
    /\ inbox = [p \in Peer |-> <<>>]
    /\ batch = [p \in Peer |-> <<>>]
    /\ counts = [p \in Peer |-> NoCounts]
    /\ lost = {} /\ given_up = {}

-----------------------------------------------------------------------------
(***************************************************************************)
(* The sender.                                                             *)
(***************************************************************************)

Goto(m, next) == step' = [step EXCEPT ![m] = next]

SendMessage(m) ==
    /\ step[m] = "idle" /\ Sender[m] \in running
    /\ Goto(m, "connecting")
    /\ UNCHANGED <<relayVars, session, requests, running, inbox, batch, counts, history>>

\* The hub offers a direct path only to those who ask for one.
ConnectDirect(m) ==
    /\ step[m] = "connecting" /\ prefer_direct(ModeOf(m))
    /\ Goto(m, "posting")
    /\ posts' = posts \cup {m}
    /\ UNCHANGED <<relayVars, session, sends, running, inbox, batch, counts, history>>

\* A relay session is opened, for the first connect or for the second one that
\* asks for no direct path.  A forced direct call gives up there, with the
\* session left to the hub.
ConnectRelay(m, s) ==
    /\ step[m] \in {"connecting", "reconnecting"}
    /\ Relay!OpenSession({}, s)
    /\ Goto(m, IF step[m] = "connecting" /\ ModeOf(m) = "direct"
               THEN "failed" ELSE "attaching")
    /\ session' = [session EXCEPT ![m] = s]
    /\ UNCHANGED <<requests, running, inbox, batch, counts, history>>

\* A connect, an attach or a relay send that is refused (target offline,
\* session gone) or not answered ends the call: also a connect that did open a
\* session and a send that was accepted.
CallFails(m) ==
    /\ step[m] \in {"connecting", "reconnecting", "attaching", "sending", "relayed"}
    /\ Goto(m, "failed")
    /\ UNCHANGED <<relayVars, session, requests, running, inbox, batch, counts, history>>

ConnectAnswerLost(m, s) ==
    /\ step[m] \in {"connecting", "reconnecting"}
    /\ Relay!OpenSession({}, s)
    /\ Goto(m, "failed")
    /\ UNCHANGED <<session, requests, running, inbox, batch, counts, history>>

\* Variant: a forced direct call falls back as well.
PostFailsOver(m) ==
    /\ step[m] \in {"posting", "posted"}
    /\ Goto(m, "reconnecting")
    /\ given_up' = given_up \cup {m}
    /\ UNCHANGED <<relayVars, session, requests, running, inbox, batch, counts, lost>>

\* The POST was refused, or its answer did not come: the message may have been
\* stored all the same.
PostFails(m) ==
    /\ step[m] \in {"posting", "posted"}
    /\ Goto(m, IF ModeOf(m) = "direct" THEN "failed" ELSE "reconnecting")
    /\ given_up' = given_up \cup {m}
    /\ UNCHANGED <<relayVars, session, requests, running, inbox, batch, counts, lost>>

\* remember_delivery counts only what it is told under one of these names.
remember_delivery(p, delivery_mode) ==
    counts' = [counts EXCEPT ![p] = [c \in Counter |->
        IF \/ c = "direct_sent_count" /\ delivery_mode = DELIVERY_MODE_DIRECT_TCP
           \/ c = "relay_sent_count" /\ delivery_mode = DELIVERY_MODE_RELAY
        THEN @[c] + 1 ELSE @[c]]]

\* Variant: the relay is used in addition, to be on the safe side.
PostAnsweredAndRelayed(m) ==
    /\ step[m] = "posted"
    /\ Goto(m, "reconnecting")
    /\ remember_delivery(Sender[m], "direct")
    /\ UNCHANGED <<relayVars, session, requests, running, inbox, batch, history>>

PostAnswered(m) ==
    /\ step[m] = "posted"
    /\ Goto(m, "sent_direct")
    /\ remember_delivery(Sender[m], "direct")
    /\ UNCHANGED <<relayVars, session, requests, running, inbox, batch, history>>

AttachAnswered(m) ==
    /\ step[m] = "attaching"
    /\ session[m] \in Relay!OpenSessions
    /\ Goto(m, "sending")
    /\ sends' = sends \cup {m}
    /\ UNCHANGED <<relayVars, session, posts, running, inbox, batch, counts, history>>

EnvelopeOf(m) == [relay_session_id |-> session[m], from_peer_id |-> Sender[m],
                  to_peer_id |-> Recipient(m), message |-> m]

RelaySendAccepted(m) ==
    /\ m \in sends
    /\ Relay!Accept({}, session[m], Recipient(m))
    /\ Last(accepted'[Recipient(m)][session[m]]) = EnvelopeOf(m)
    /\ IF step[m] = "sending" THEN Goto(m, "relayed") ELSE UNCHANGED step
    /\ sends' = sends \ {m}
    /\ UNCHANGED <<session, posts, running, inbox, batch, counts, history>>

RelaySendAnswered(m) ==
    /\ step[m] = "relayed"
    /\ Goto(m, "sent_relay")
    /\ remember_delivery(Sender[m], DELIVERY_MODE_RELAY)
    /\ UNCHANGED <<relayVars, session, requests, running, inbox, batch, history>>

-----------------------------------------------------------------------------
(***************************************************************************)
(* The receiver.                                                           *)
(***************************************************************************)

persist_received_message(p, m, delivery_mode) ==
    /\ inbox' = [inbox EXCEPT ![p] = Append(@, [message |-> m, via |-> delivery_mode])]
    /\ counts' = [counts EXCEPT ![p] = [c \in Counter |->
           IF \/ c = "direct_received_count" /\ delivery_mode = DELIVERY_MODE_DIRECT_TCP
              \/ c = "relay_received_count" /\ delivery_mode = DELIVERY_MODE_RELAY
           THEN @[c] + 1 ELSE @[c]]]

Listening(p, m) == p \in running /\ p \in Listeners[Recipient(m)]

\* Variant: the POST is acknowledged and put aside, to be stored by the loop
\* that stores relayed messages.
PostQueued(m, p) ==
    /\ m \in posts /\ Listening(p, m)
    /\ batch' = [batch EXCEPT ![p] = Append(@, EnvelopeOf(m))]
    /\ IF step[m] = "posting" THEN Goto(m, "posted") ELSE UNCHANGED step
    /\ posts' = posts \ {m}
    /\ UNCHANGED <<relayVars, session, sends, running, inbox, counts, history>>

\* Whoever listens there stores the message.  A request may arrive when its sender
\* has given up already.
PostArrives(m, p) ==
    /\ m \in posts /\ Listening(p, m)
    /\ persist_received_message(p, m, DELIVERY_MODE_DIRECT_TCP)
    /\ IF step[m] = "posting" THEN Goto(m, "posted") ELSE UNCHANGED step
    /\ posts' = posts \ {m}
    /\ UNCHANGED <<relayVars, session, sends, running, batch, history>>

\* What the mailbox holds for p on session s.
Waiting(p, s) == SubSeq(accepted[p][s], Len(handed[p][s]) + 1, Len(accepted[p][s]))

\* What a poll by p is answered with, in whatever order of the sessions.
New(p) == UNION {ToSet(Waiting(p, s)) : s \in Relay!OpenSessions}

\* Every session of this module carries one message, so any order of the new
\* envelopes respects the order within sessions.
Orders(S) == {q \in [1..Cardinality(S) -> S] : ToSet(q) = S}

\* Variant: a poll does not wait for the last one to be worked through.
PollOverlaps(p) ==
    /\ p \in running
    /\ Relay!Hand({}, p, {})
    /\ batch' \in {[batch EXCEPT ![p] = q] : q \in Orders(New(p))}
    /\ UNCHANGED <<callVars, requests, running, inbox, counts, history>>

\* The loop polls again only when it is through with the last answer.
Poll(p) ==
    /\ p \in running /\ batch[p] = <<>>
    /\ Relay!Hand({}, p, {})
    /\ batch' \in {[batch EXCEPT ![p] = q] : q \in Orders(New(p))}
    /\ UNCHANGED <<callVars, requests, running, inbox, counts, history>>

\* The hub has emptied the queues before it answers: if the answer does not
\* arrive, no later poll can repeat it.
PollAnswerLost(p) ==
    /\ p \in running /\ batch[p] = <<>>
    /\ Relay!Hand({}, p, {})
    /\ lost' = lost \cup New(p)
    /\ UNCHANGED <<callVars, requests, running, inbox, batch, counts, given_up>>

\* Variant: the gateway stores only messages of the peer it talks to.
ReceiveFromTarget(p) ==
    /\ p \in running /\ batch[p] # <<>>
    /\ Head(batch[p]).from_peer_id = target_peer_id[p]
    /\ persist_received_message(p, Head(batch[p]).message, DELIVERY_MODE_RELAY)
    /\ batch' = [batch EXCEPT ![p] = Tail(@)]
    /\ UNCHANGED <<relayVars, callVars, requests, running, history>>

\* Variant: the envelope is stored and left at the head of the answer.
ReceiveWithoutTaking(p) ==
    /\ p \in running /\ batch[p] # <<>>
    /\ persist_received_message(p, Head(batch[p]).message, DELIVERY_MODE_RELAY)
    /\ UNCHANGED <<relayVars, callVars, requests, running, batch, history>>

receive_relay_message(p) ==
    /\ p \in running /\ batch[p] # <<>>
    /\ persist_received_message(p, Head(batch[p]).message, DELIVERY_MODE_RELAY)
    /\ batch' = [batch EXCEPT ![p] = Tail(@)]
    /\ UNCHANGED <<relayVars, callVars, requests, running, history>>

-----------------------------------------------------------------------------
\* The hub drops sessions: with what waits in them when their time has run out,
\* or, in the course of a poll, because nothing does.
Lapse(s) ==
    /\ Relay!Lapse({s}) /\ s \in Relay!OpenSessions
    /\ lost' = lost \cup UNION {ToSet(Waiting(p, s)) : p \in Peer}
    /\ UNCHANGED <<callVars, requests, running, inbox, batch, counts, given_up>>

\* A killed gateway forgets everything but its files.  A request on its way may
\* be refused, or be taken by its next process, or by another one.
Crash(p) ==
    /\ p \in running \cap Fragile
    /\ running' = running \ {p}
    /\ step' = [m \in Message |-> IF Sender[m] = p /\ step[m] \notin Finished \cup {"idle"}
                                  THEN "failed" ELSE step[m]]
    /\ lost' = lost \cup ToSet(batch[p])
    /\ batch' = [batch EXCEPT ![p] = <<>>]
    /\ counts' = [counts EXCEPT ![p] = NoCounts]
    /\ UNCHANGED <<relayVars, session, requests, inbox, given_up>>

Restart(p) ==
    /\ p \notin running
    /\ running' = running \cup {p}
    /\ UNCHANGED <<relayVars, callVars, requests, inbox, batch, counts, history>>

CallStep(m) ==
    \/ SendMessage(m) \/ ConnectDirect(m)
    \/ \E s \in Session : ConnectRelay(m, s) \/ ConnectAnswerLost(m, s)
    \/ \E p \in Peer : PostArrives(m, p)
    \/ PostAnswered(m) \/ PostFails(m)
    \/ AttachAnswered(m) \/ RelaySendAccepted(m) \/ RelaySendAnswered(m)
    \/ CallFails(m)

GatewayStep(p) ==
    \/ Poll(p) \/ PollAnswerLost(p) \/ receive_relay_message(p)
    \/ Crash(p) \/ Restart(p)

Next ==
    \/ \E m \in Message : CallStep(m)
    \/ \E p \in Peer : GatewayStep(p)
    \/ \E s \in Session : Lapse(s)

Spec == Init /\ [][Next]_vars

\* The poll loop turns for as long as the gateway runs, and somebody starts a
\* gateway that was killed.
FairSpec ==
    /\ Spec
    /\ \A p \in Peer : WF_vars(Poll(p)) /\ WF_vars(receive_relay_message(p))
                         /\ WF_vars(Restart(p))
-----------------------------------------------------------------------------
\* The calls made so far.
Begun == {m \in Message : step[m] # "idle"}

Envelope == [relay_session_id : Session, from_peer_id : Peer, to_peer_id : Peer,
             message : Message]
Entry == [message : Message, via : {DELIVERY_MODE_DIRECT_TCP, DELIVERY_MODE_RELAY}]

TypeOK ==
    /\ status \in [Session -> {"unused", "open", "closed"}]
    /\ accepted \in [Peer -> [Session -> Seq(Envelope)]]
    /\ handed \in [Peer -> [Session -> Seq(Envelope)]]
    /\ running \subseteq Peer
    /\ step \in [Message -> Steps]
    /\ session \in [Message -> Session \cup {NoSession}]
    /\ posts \cup sends \cup given_up \subseteq Message
    /\ inbox \in [Peer -> Seq(Entry)]
    /\ batch \in [Peer -> Seq(Envelope)]
    /\ counts \in [Peer -> [Counter -> Nat]]
    /\ \A p \in Peer, c \in Counter : counts[p][c] <= Cardinality(Begun)
    /\ lost \subseteq Envelope

CopiesAt(p, m, delivery_mode) ==
    {i \in DOMAIN inbox[p] : inbox[p][i] = [message |-> m, via |-> delivery_mode]}

StoredAt(p, m, delivery_mode) == CopiesAt(p, m, delivery_mode) # {}

\* Wherever they are.
Copies(m, delivery_mode) ==
    UNION {{p} \X CopiesAt(p, m, delivery_mode) : p \in Peer}

\* "Sent" over a direct connection means stored, by a gateway that listens where
\* the hub says the target does: whatever is killed or lost afterwards, the message
\* is in an inbox file, and in the target's if nobody else listens there.
SentDirectIsStored ==
    \A m \in Message :
        step[m] = "sent_direct" =>
            \E p \in Listeners[Recipient(m)] : StoredAt(p, m, DELIVERY_MODE_DIRECT_TCP)

\* An envelope the hub accepted is in exactly one place, whatever lapses, is
\* lost or is killed around it: it waits at the hub, is on its way to the inbox,
\* is in the inbox, or is lost for one of the three causes the actions name.
EnvelopesAreSomewhere ==
    \A m \in Message :
        LET e == EnvelopeOf(m)
            p == Recipient(m)
            places == {place \in {"hub", "batch", "inbox", "lost"} :
                         CASE place = "hub" -> e \in New(p)
                           [] place = "batch" -> e \in ToSet(batch[p])
                           [] place = "inbox" -> StoredAt(p, m, DELIVERY_MODE_RELAY)
                           [] place = "lost" -> e \in lost}
        IN IF session[m] # NoSession /\ e \in ToSet(accepted[p][session[m]])
           THEN Cardinality(places) = 1 ELSE places = {}

\* A message is stored twice, by one gateway or by two, only in this way: its sender
\* is in auto mode, the POST was stored but failed for the sender, and the retry
\* went through the relay.  Each path stores it once.
DuplicatesOnlyByFallback ==
    \A m \in Message :
        /\ Cardinality(Copies(m, DELIVERY_MODE_DIRECT_TCP)) <= 1
        /\ Cardinality(Copies(m, DELIVERY_MODE_RELAY)) <= 1
        /\ Copies(m, DELIVERY_MODE_DIRECT_TCP) # {} /\ Copies(m, DELIVERY_MODE_RELAY) # {}
             => ModeOf(m) = "auto" /\ m \in given_up

\* The modes a user can force are kept on every path a call may take: nothing
\* of a forced direct call is ever given to the hub to relay, and nothing of a
\* relay-only call is posted directly.
ForcedModeIsKept ==
    \A m \in Message :
        /\ ModeOf(m) = "direct" =>
             \A s \in Session : EnvelopeOf(m) \notin ToSet(accepted[Recipient(m)][s])
        /\ ModeOf(m) = "relay_only" =>
             step[m] # "posting" /\ Copies(m, DELIVERY_MODE_DIRECT_TCP) = {}

\* What the hub accepted for a gateway that is not killed again and again ends
\* in its inbox or is lost: the poll loop leaves nothing lying, whoever sent it
\* and whatever was fetched with it.
RelayedIsReceived ==
    \A m \in Message :
        <>[](Recipient(m) \in running) =>
            (step[m] = "relayed" ~> \/ StoredAt(Recipient(m), m, DELIVERY_MODE_RELAY)
                                    \/ EnvelopeOf(m) \in lost)

\* The counters of a gateway that has not been restarted agree with what its
\* calls were told: this is what the status line "sent d: r:" of the user
\* interface is taken from.
SentCountersTally ==
    \A p \in Peer \ Fragile :
        LET sent(how) == Cardinality({m \in Message : Sender[m] = p /\ step[m] = how})
        IN /\ counts[p].direct_sent_count = sent("sent_direct")
           /\ counts[p].relay_sent_count = sent("sent_relay")
-----------------------------------------------------------------------------
(***************************************************************************)
(* The inductive invariant behind the safety properties above.             *)
(***************************************************************************)

\* The hub has accepted the envelope of m.
Relayed(m) == session[m] # NoSession /\ accepted[Recipient(m)][session[m]] # <<>>

Stored(m, delivery_mode) == \E p \in Peer : StoredAt(p, m, delivery_mode)

WaitsAtHub(m) ==
    /\ Relayed(m)
    /\ status[session[m]] = "open" /\ handed[Recipient(m)][session[m]] = <<>>

InBatch(m) == EnvelopeOf(m) \in ToSet(batch[Recipient(m)])

\* A call uses one session, and no two calls use the same.
SessionsAreOwn ==
    \A m \in Message :
        /\ step[m] \in {"attaching", "sending", "relayed", "sent_relay"} =>
             session[m] # NoSession
        /\ session[m] # NoSession =>
             /\ status[session[m]] # "unused"
             /\ step[m] \in {"attaching", "sending", "relayed", "sent_relay", "failed"}
             /\ \A n \in Message : session[n] = session[m] => n = m

OneEnvelopePerSession ==
    \A p \in Peer, s \in Session :
        /\ \/ accepted[p][s] = <<>>
           \/ \E m \in Message : /\ session[m] = s /\ Recipient(m) = p
                                 /\ accepted[p][s] = <<EnvelopeOf(m)>>
        /\ handed[p][s] \in {<<>>, accepted[p][s]}

\* A relay send under way has not been accepted, and one that was accepted is not
\* sent again, also if its sender has given up meanwhile.
SendsAreNew ==
    \A m \in Message :
        /\ m \in sends => step[m] \in {"sending", "failed"} /\ session[m] # NoSession
        /\ Relayed(m) => m \notin sends /\ step[m] \in {"relayed", "sent_relay", "failed"}

\* Likewise for a POST; and a call that has posted asks for a relay session only
\* when the POST has failed.
PostsAreNew ==
    \A m \in Message :
        /\ m \in posts \/ Stored(m, DELIVERY_MODE_DIRECT_TCP) =>
             /\ step[m] \notin {"idle", "connecting"}
             /\ session[m] # NoSession => m \in given_up
        /\ m \in posts => /\ step[m] \notin {"posted", "sent_direct"}
                          /\ ~Stored(m, DELIVERY_MODE_DIRECT_TCP)
        /\ step[m] = "posting" => ~Stored(m, DELIVERY_MODE_DIRECT_TCP)
        /\ step[m] \in {"posted", "sent_direct"} => Stored(m, DELIVERY_MODE_DIRECT_TCP)
        /\ step[m] = "reconnecting" => m \in given_up

ModesAreKept ==
    \A m \in Message :
        /\ ModeOf(m) = "direct" =>
             /\ step[m] \notin {"reconnecting", "attaching"}
             /\ m \notin sends /\ ~Relayed(m)
        /\ ModeOf(m) = "relay_only" =>
             /\ step[m] \notin {"posting", "posted"}
             /\ m \notin posts /\ ~Stored(m, DELIVERY_MODE_DIRECT_TCP)

\* What is beyond the hub was accepted by it, and is nowhere twice.
EnvelopesAreAccepted ==
    /\ \A p \in Peer : \A i \in DOMAIN batch[p] :
          \E m \in Message : Recipient(m) = p /\ Relayed(m) /\ batch[p][i] = EnvelopeOf(m)
    /\ \A e \in lost : \E m \in Message : Relayed(m) /\ e = EnvelopeOf(m)
    /\ \A m \in Message : Stored(m, DELIVERY_MODE_RELAY) => Relayed(m)

NothingTwice ==
    \A p \in Peer :
        /\ \A i, j \in DOMAIN batch[p] : batch[p][i] = batch[p][j] => i = j
        /\ \A i, j \in DOMAIN inbox[p] : inbox[p][i] = inbox[p][j] => i = j

\* A message comes to one gateway by each path: by the relay to the one it is for,
\* by a POST to one that listens where that one is said to.
StoredWhere ==
    \A p \in Peer, m \in Message :
        /\ StoredAt(p, m, DELIVERY_MODE_RELAY) => p = Recipient(m)
        /\ StoredAt(p, m, DELIVERY_MODE_DIRECT_TCP) =>
             /\ p \in Listeners[Recipient(m)]
             /\ \A q \in Peer \ {p} : ~StoredAt(q, m, DELIVERY_MODE_DIRECT_TCP)

\* An accepted envelope is at one place, and leaves it only for another.
OnePlace ==
    \A m \in Message : Relayed(m) =>
        /\ \/ WaitsAtHub(m) \/ InBatch(m)
           \/ Stored(m, DELIVERY_MODE_RELAY) \/ EnvelopeOf(m) \in lost
        /\ WaitsAtHub(m) => ~InBatch(m) /\ ~Stored(m, DELIVERY_MODE_RELAY)
        /\ EnvelopeOf(m) \in lost => ~WaitsAtHub(m) /\ ~InBatch(m)
        /\ Stored(m, DELIVERY_MODE_RELAY) => ~InBatch(m) /\ EnvelopeOf(m) \notin lost

\* What a counter counts since its gateway was started: all the calls there are, if
\* the gateway was never killed.
Counted(p, count, calls) ==
    /\ count <= Cardinality(calls)
    /\ p \notin Fragile => count = Cardinality(calls)

Sent(p, how) == {m \in Message : Sender[m] = p /\ step[m] = how}
Received(p, how) == {m \in Message : StoredAt(p, m, how)}

\* Three of the four counters tally; no direct delivery is ever counted as sent.
CountersTally ==
    /\ IsFiniteSet(Begun)
    /\ \A p \in Peer :
          /\ counts[p].direct_sent_count = 0
          /\ Counted(p, counts[p].relay_sent_count, Sent(p, "sent_relay"))
          /\ Counted(p, counts[p].direct_received_count,
                     Received(p, DELIVERY_MODE_DIRECT_TCP))
          /\ Counted(p, counts[p].relay_received_count, Received(p, DELIVERY_MODE_RELAY))

DeliveryInvariant ==
    /\ TypeOK
    /\ SessionsAreOwn /\ OneEnvelopePerSession
    /\ SendsAreNew /\ PostsAreNew /\ ModesAreKept
    /\ EnvelopesAreAccepted /\ NothingTwice /\ StoredWhere /\ OnePlace
    /\ CountersTally
=============================================================================
