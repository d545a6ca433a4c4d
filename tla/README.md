# Models of the OpenHanse network

TLA+ models of the OpenHanse hub and gateways, the TLC runs that check them on
small instances, and TLAPS proofs of what matters most for every instance.
The reference is the code: each definition below is translated from the source
lines `PROJECT.json` names for it under `map`. Paths in this file are relative
to the repository; `core` stands for `Source/openhanse-core/src`.

## 1. Inventory

A **hub** (`openhanse-core`, `hub/`) knows which peers are online and carries
messages between peers that cannot reach each other. A **gateway** (`gateway.rs`)
is the runtime of one peer: it registers with a hub, keeps beating, receives
messages on an HTTP endpoint of its own, polls the hub for relayed messages, and
sends. A **peer runtime** (`peer_runtime.rs`) is both in one process. A local
HTTP API and a web page (`openhanse-gui`) and a command line program
(`openhanse-cli`) drive a gateway.

| Component | State | Operations | Talks to | What is hard | What makes it correct |
|---|---|---|---|---|---|
| Hub state `core/hub/model/server_state_model.rs` | `peers`, `relay_sessions`, all under one write lock, in memory | register, heartbeat, lookup, connect, attach, relay send, poll, prune | gateways by HTTP | interleaved clients; entries that are out of time and not pruned; a sweep over everybody's sessions; restart | queues are FIFO and conserve messages; only the addressee is served; sessions end for cause; offline is final until a new registration |
| Direct-or-relay decision, same file and gateway helpers | none | describe oneself, observe, select candidates, explain | connect | scopes and hints decided in several places | exactly the usable candidates; the reason holds; no loopback address is offered |
| Gateway presence loop `core/gateway.rs` | last registration, heartbeat and error | start, heartbeat, stop | hub | calls that hang, are lost or come late; intervals set elsewhere; hub restart | online for a lease from each success; the status tells when it is not |
| Gateway delivery `core/gateway.rs` | calls of `send_message`, inbox, counters | connect, post, fall back, attach, relay send, poll, store | hub, other gateways | an effect whose answer is lost; retry; an address that leads elsewhere; crash between fetch and store | stored before acknowledged; nothing vanishes without a cause; duplicates only by the retry; forced modes are kept |
| Gateway journals `core/gateway.rs` | `events`, `next_event_id`, the two `.jsonl` files | record event, append, load | disk | append outside the lock, torn lines, restart | ids unique and increasing; a start can read what was written |
| Gateway discovery `core/gateway.rs` | one UDP socket during a start | probe twice, give up | hub | datagrams lost, late, repeated; a start in another network | what is registered is true of this start; a start never hangs |
| Hub runtime `core/hub/mod.rs` | tasks, sockets | start, stop, cleanup task, UDP echo | sockets | shutdown while calls are under way; restart | cleanup runs; stop ends |
| Peer runtime `core/peer_runtime.rs` | hub and gateway handles | start, stop | both | a start or a stop that fails half-way | nothing is left running |
| Web page `openhanse-gui/assets/WebUI` | event cursor, inbox | poll every 1.5 s, commands | local API | polls that overlap | each event shown once, in order |
| Embedding interface `openhanse-gui/src/lib.rs` | one global runtime slot behind a mutex | start, stop, status; local HTTP API | peer runtime | a new runtime starts before the old one stops; threads at once; calls without time-out under the mutex | the slot is empty or holds a complete runtime; calls return |
| Command line `openhanse-cli` | none of its own | run until /quit, a failing command or Ctrl-C | runtimes | a failing command ends it without a stop | nothing is left running |

The hazards of this code, at the lines where they bite and with the properties
that cover them, are listed in `PROJECT.json`.

## 2. Modules

```
Selection ── Reachability ─┬─ Hub ─┬── HubProofs ─┬─ PromptHubProofs
          │                │       │              └─ PresenceProofs
          │                │       ├── PromptHub ─┬─ MCPromptHub
          │                │       │              └─ PromptHubProofs
          │                │       ├── Presence ──┬─ MCPresence
          │                │       │              └─ PresenceProofs
          │                │       └── MCHub           Hub implements Mailbox
          │                ├─ Decision ───┬─ MCReachability
          │                │              └─ ReachabilityProofs
          │                └─ Discovery ──┬─ MCDiscovery
          │                               └─ ReachabilityProofs
          └─ Journal ── EventFeed ── JournalProofs
SelectionProofs: lemmas for ReachabilityProofs and JournalProofs
Delivery, on Mailbox ─┬─ MCDelivery                 Hosting ─┬─ MCHosting
                      └─ DeliveryProofs                      └─ HostingProofs
```

**Reachability** has no variables. It holds the functions of `gateway.rs` and
`server_state_model.rs` that describe a peer and decide between a direct path
and a relay session, under the names they have in the code. A host is a model
value with a *class* (what the standard library's `is_loopback`, `is_private`
... say of it), and a `base_url` is a triple. **Decision** takes the decision of
`connect` for two peers: each is what it registered, as a gateway or as another
client of the HTTP API, and where the hub saw that come from. **Selection** is the
filter over an iterator, for all modules: the elements of a sequence at some of its
positions.

**Hub** is `ServerStateModel`. The HTTP handlers take the one write lock of
`AppStateModel` for all they do, so each is one action; a handler's early
returns are actions of their own, with what was pruned before the return in
them (`ConnectOffline`, `AttachRefused`, `SendRefused`, `HeartbeatRefused`).
`register_peer` and `heartbeat` do not prune, all other handlers do first.

| Code | Model |
|---|---|
| `expires_at` | the countdown `expires_in`; `Tick` lets time pass; 0 is out of time but still in the map |
| `source_attached`, `target_attached` | the set `attached` of roles |
| `pending_for_source`, `pending_for_target` | `pending[role]` |
| `Uuid::new_v4` | a member of `Session` not in `issued` |
| payload text, keys, names | a model value of `Message`; nothing |

`issued`, `sent`, `accepted`, `handed` and `told_offline` are history variables:
what the hub has answered so far.

**Mailbox** is what the relay promises, without queues, roles, flags and time:
for each recipient and session one log of accepted envelopes, handed out whole,
in order and once, until the session closes. `Hub!ImplementsMailbox` is the
refinement: `INSTANCE Mailbox WITH status <- status, ...`, where `status` is
computed from the map of sessions and the ids issued.

**PromptHub** is the hub as used by gateways that keep running: their heartbeat
and poll loops call it within `HeartbeatInterval` and `PollInterval`, everybody
else may do anything at any time. Time does not pass while such a call is
overdue. This is where the four durations of the system meet (lease 30 s and
session time-out 60 s in the hub, heartbeat 10 s and poll 1 s in the gateway).

**Presence** adds to the hub's presence half a hub that may be restarted and
what each gateway believes: the fields of `GatewayRuntimeState` from which
`heartbeat_state` is derived, failed starts, stops the hub is not told of. A
registration or a heartbeat leaves, reaches the hub (or not) and ends (well or
badly) in three steps, and time passes in between without any bound: no call has a
time-out, a host may be suspended, an outage may last, and a failed heartbeat is not
repeated before the next sleep. So a running gateway can lose its lease, and what is
claimed of it (`RunningIsOnline`) is claimed for one lease from the moment its last
successful call left. A call whose caller has given up may still arrive
(`LateCall`). Connects and relaying by anybody go on meanwhile, and a restart takes
their sessions too.

| Code | Model |
|---|---|
| the call that `register().await` or `heartbeat().await` is in | `call`: sent, accepted or refused by the hub; `none` between two |
| `last_registered_at_unix_ms`, `last_heartbeat_at_unix_ms`, `last_error` | whether they are set |
| a sleep of the loop, an answer under way | as long as the clock likes |
| how old is what a gateway was last told | the histories `age`, `confirmed`; `unnoticed` for what it was not told |

**Delivery** is `send_message`, the receiving endpoint, the relay poll loop and
the counters. It composes the gateways with `Mailbox` in place of the hub's
relay, by an `INSTANCE` of it over the gateways' names; `Hub` was shown to
implement it. Every HTTP call has its effect at one
moment and is answered later, or not; a request may arrive after its sender has
given it up (`posts`, `sends`); a gateway may be killed between the answer to a
poll and the storing of what it brought. Which path the hub offers is left open.
A POST goes to an address, and whoever listens there stores the message: the
receiver does not compare `to_peer_id` with its own name (`gateway.rs:749`), the
sender does not look at the `peer_id` in the answer (`gateway.rs:640`). `Listeners`
says, for each target, which gateways may answer at the addresses offered for it.

**Journal** is what a gateway keeps on disk. Each task of the runtime follows the
code of `record_event` or `persist_received_message`, as the list of the steps
others can see (`todo`): number an event, write, push, announce. The steps of
several tasks interleave, because the lock covers the state and not the files.
A file is the sequence of writes made to it; `serde_json::to_writer` writes to an
unbuffered file token by token, and three writes a line (a beginning, the rest,
the newline) are enough to show what can happen between them. `readable` is when
`load_json_lines` finds one whole object on each line; `Start` has it as its
guard, because `start` fails otherwise. The process may be killed, and a write may
fail, at every step; a command that fails in the command line program ends it
without `stop`, which is a kill too. `clean` and `broken` are history variables
that say whether, and in which file, such an accident has happened.

| Code | Model |
|---|---|
| `UiEventModel`, `InboxEntryModel` | `id` (for messages: the count), and the run it was made in |
| a line of a `.jsonl` file | the writes `head`, `tail`, `newline` with its value |
| `MAX_EVENTS` (256) | a constant |
| `event_tx` | the history variable `announced` |
| `start` to its last `await?`, `stop` | `phase`, with `runtime_started` and `runtime_stopped` recorded by `Main` |

**EventFeed** is the page of `app.js` on top of it: polls that carry the cursor of
the moment they are sent, are answered with `events_since`, arrive in any order or
fail, and move the cursor to the last event they bring.

**Discovery** is the UDP exchange of `discover_udp_reachability` with the hub's
echo: one socket, two probes one after the other, a transaction id for each, a
time-out, and a network that may lose, repeat, delay and reorder. The gateway may
be stopped and start again, in another network and with the socket address it
had before. What it then registers is computed by `Reachability`.

| Code | Model |
|---|---|
| datagrams under way | `sent` and `answered`, which only grow: any of them may arrive at any time, again, or never |
| `transaction_id` | the number of the start and of the probe |
| `observed_addr` | `nat[probe]`, fixed for a start: where each port of the hub sees the socket |
| an answer that is no JSON, a bind or a name that fails, 1.5 s | `GiveUp` |

**Hosting** is who starts and stops runtimes on a machine: `openhanse_start`,
`openhanse_runtime_status` and `openhanse_stop` of several threads over the slot,
`run_chat` and `run_hub` of command line programs, and below them the start and stop
of the local API, of the peer runtime, of the hub and of the gateway. A call is the
list of the steps left of it (`todo`), one for each await or lock others can see;
every step of a start may fail, and then what was spawned goes with the tokio
runtime, or the process (`Dropped`).

| Code | Model |
|---|---|
| `HOST_RUNTIME` and its mutex | `slot`, `lock` |
| host and port of each listener (`bind_addr`, `discovery_udp_bind_addr`, `direct_bind_host` and `_port`, 127.0.0.1 and `ui_bind_port`) | `AddressOf(r, s)`, `None` for port 0, which is always free; the two discovery ports are one |
| a bind that the system refuses because of another socket | the pairs in `Clash`, over which nothing is assumed but that it goes both ways: equal addresses, and on Linux a port on 0.0.0.0 and on another host |
| `shutdown_tx.send(true)`, then `task.await` | `Close...`, then `Drain...`, which waits for the call a task is in |
| heartbeat and poll loops; requests to the local API | `tasks[r].loops`, `tasks[r].ui`: idle or in a call to the hub |
| `inbox.jsonl`, `events.jsonl` of one peer | `writing`: the runtimes that have read them and may append |

Operators marked *Variant* are the operator below them with a plausible mistake.
Nothing uses them; each property is checked to fail when the mistake is made.

## 3. Runs

| Run | Instance | What it shows |
|---|---|---|
| `hub` | 3 peers (one outside the session), 1 session, 3 messages, lease 1, time-out 2, profiles with and without a direct path | `RelayFifo`, `OnlyTheAddressee`, `OfflineIsFinal`, `SessionsEndForCause`; the hub implements `Mailbox` |
| `prompt_hub` | 2 peers, 1 session, 2 messages, lease and time-out 3, intervals 2 | beating peers stay online, nothing accepted is dropped, everything arrives |
| `reachability` | every pair of the gateways of three modes, six hosts and three NAT outcomes, and of peers registered by hand | `CandidatesAreTheUsableOnes`, `ReasonExplainsRelay`, `ObservedTargetAddressChangesNothing`, `LoopbackIsNeverOffered` |
| `delivery` | one sender in each mode, a receiver that may be killed and at whose address the auto sender answers too, 3 messages, 3 sessions | `SentDirectIsStored`, `EnvelopesAreSomewhere`, `DuplicatesOnlyByFallback`, `ForcedModeIsKept` |
| `delivery_live` | the same with an auto and a relay-only sender | `RelayedIsReceived` |
| `delivery_counters` | as `delivery`; a violation is expected | the counter of direct messages never moves |
| `presence` | 2 gateways, lease 2, any number of hub restarts, 1 session, no messages | `RunningIsOnline`, `StatusTellsPresence`, `LossIsNoticed`, `NothingLingers` |
| `presence_lost` | 1 gateway, a hub that is not restarted for ever; a violation is expected | presence is not kept across a restart of the hub |
| `journal` | 2 tasks, 2 runs, 1 message, calls up to the third id, a window of 2, 1 failed write | `ToldIsWritten`, `IdsNameEvents`, `DamageHasCause` |
| `event_feed` | the same with 2 overlapping polls, without messages | `CursorPassesNothing`, `RepeatsNeedOverlap` |
| `hosting` | 2 threads, 1 command line program, up to 3 calls, three configurations of which the direct addresses of two do not clash | `NothingIsLeftRunning`, `WritersTakeTurns`, `CallsReturn` |
| `discovery` | 2 starts, auto or relay-only, 2 socket addresses, NATs that keep the port or do not | `DescriptionIsTrue`, `DiscoveryEnds` |

The type invariant of each module with state is checked by one of these runs.

**Bounds.** Three messages let two wait in one queue while a third waits in the other;
the third peer of `hub` is the one that polls and sends on sessions that are not its
own. One session is enough for the properties of single sessions, and for a sweep by a
peer outside it. That a poll drains several sessions at once is covered by the theorems,
for any number of them. A lease of 1 already has the states that matter: running, out of
time and not pruned, pruned. A session time-out of 2 tells "renewed" from "not renewed".
In `prompt_hub` the intervals are the largest the assumption allows, so that the loops
are late by as much as they may. In `presence` a lease of 2 tells a call that left now
from one that left before and from one that is too old; ages are kept up to a lease,
because beyond it they say nothing. In `delivery` no call needs more than one relay
session besides those whose answer was lost, and three sessions for three calls let all
of them be in use. A sender's crash is left to the failing of its calls. One gateway
more that answers at an address is enough for a message that goes astray, and here it is
its sender, or a sender of its own. In `journal` two tasks are enough for lines that are
mixed or out of order, two runs for what is read back and numbered on, and a window of
two for events that fall out of it; a relayed message is the longest code there is (one
append, one push, two events). `MaxId` bounds the calls that begin, not the events of
those that have. In `hosting` three calls let one thread replace or stop the runtime
another has started while a third party (a second thread, or a program) is at work on
its own; the three configurations include two that can replace each other and run side
by side (one port on two hosts), and one on 0.0.0.0 that clashes with both. In
`discovery` the second start is what makes answers to the first stale; two sockets tell
a socket that is had again from a new one, and three addresses tell a NAT that keeps the
port, one that changes it and one that changes the host only.

**Symmetry** is used in the safety runs only, for peers, sessions and messages
that no constant tells apart.

**Fairness.** `PromptFairSpec`: the clock, the cleanup task of `hub/mod.rs:249`, which
loops until shutdown, and the two loops of a gateway, `gateway.rs:827` and `:847`, which
run until it stops. `Delivery!FairSpec` has the poll loop, its processing of an answer,
and somebody who starts a killed gateway again; no call is assumed to be answered,
because no call has a time-out. `PresenceFairSpec` has the clock, the cleanup task and
the heartbeat loop, and assumes of a heartbeat that it ends, well or badly: the code
leaves that to the network, since it sets no time-out, and with a call that never ends
the status would show the last success for ever. It assumes nothing of what is lost,
refused or late, nor of restarts. `AnsweredSpec`, for the run that is to fail, gives the
network and the hub at their best: strong fairness of heartbeats that reach the hub and
of answers that come back, and a last restart. `Hosting!FairSpec`: each thread goes on
with its call when it can, and a hub answers in the end, which the code leaves to the
hub and the network since it sets no time-out. A `std` mutex is not fair: a thread could
be passed over by others for ever, and `CallsReturn` holds because the calls are
finitely many. `Discovery!FairSpec`: the gateway sends what it has to, and its timer
runs; nothing of the network, the hub, or a stop. All but `AnsweredSpec` are weak.

## 4. Proofs

TLAPS checks the proofs for every value of the constants. Every invariant and every
action property that a run checks, and the refinement of the mailbox, is stated by a
theorem. Each one rests on an inductive invariant, which is defined in the component's
module. TLC was asked about each before its proof.

| Theorem | States | In |
|---|---|---|
| `HubInvariantHolds`, `TypeCorrect` | `HubInvariant`, `TypeOK` | `HubProofs` |
| `RelayIsFifo`, `AddresseeOnly`, `OfflineStaysOffline` | `RelayFifo`, `OnlyTheAddressee`, `OfflineIsFinal` | |
| `SessionsEndOnlyForCause` | `SessionsEndForCause` (of steps) | |
| `HubImplementsMailbox` | `ImplementsMailbox`: `Spec` implies `Mailbox!Spec` | |
| `PromptInvariantHolds`, `PromptTypeCorrect` | `PromptInvariant`, `PromptTypeOK` | `PromptHubProofs` |
| `PromptRefinesHub` | `PromptSpec => Spec` | |
| `PeersStayOnline`, `WaitingStaysOpen`, `RelayDropsNothing` | `BeatingPeersStayOnline`, `WaitingSessionsStayOpen`, `NothingIsDropped` | |
| `RestartsKeepHubInvariant`, `RestartedHubImplementsMailbox` | `HubInvariant`, `ImplementsMailbox` of a hub that may be restarted | `PresenceProofs` |
| `PresenceInvariantHolds`, `PresenceTypeCorrect` | `PresenceInvariant`, `PresenceTypeOK` | |
| `RunningStaysOnline`, `StatusIsTrue` | `RunningIsOnline`, `StatusTellsPresence` | |
| `DeliveryInvariantHolds`, `DeliveryTypeCorrect` | `DeliveryInvariant`, `TypeOK` | `DeliveryProofs` |
| `SentDirectStored`, `ForcedModesKept`, `DuplicatesByFallback`, `AcceptedIsSomewhere` | `SentDirectIsStored`, `ForcedModeIsKept`, `DuplicatesOnlyByFallback`, `EnvelopesAreSomewhere` | |
| `CountersAreExact` | what the counters do count, and that the one of direct messages is 0 | |
| `DeliveryUsesMailbox` | every step of the delivery is one of the mailbox, or none | |
| `HostingInvariantHolds`, `HostingTypeCorrect` | `HostingInvariant`, `TypeOK` | `HostingProofs` |
| `NothingLeftRunning`, `WritersAlternate` | `NothingIsLeftRunning`, `WritersTakeTurns` | |
| `CandidatesAreRight`, `ReasonIsTrue` | `CandidatesAreTheUsableOnes`, `ReasonExplainsRelay` | `ReachabilityProofs` |
| `ObservedTargetIsNoPath`, `LoopbackStaysHome` | `ObservedTargetAddressChangesNothing`, `LoopbackIsNeverOffered` | |
| `DiscoveryInvariantHolds`, `DiscoveryTypeCorrect` | `DiscoveryInvariant`, `TypeOK` | |
| `RegistersTheTruth` | `DescriptionIsTrue` | |
| `JournalInvariantHolds`, `JournalTypeCorrect` | `JournalInvariant`, `TypeOK` | `JournalProofs` |
| `ToldSurvives`, `IdsStayNames`, `DamageNeedsCause` | `ToldIsWritten`, `IdsNameEvents`, `DamageHasCause` | |
| `FeedInvariantHolds`, `FeedTypeCorrect` | `FeedInvariant`, `FeedTypeOK` | |
| `CursorNeverPasses`, `RepeatsNeedTwoPolls` | `CursorPassesNothing`, `RepeatsNeedOverlap` (of steps) | |

**Assumptions.** The sets of peers, sessions, messages, profiles, addresses, hosts,
tasks, polls, threads and sockets are arbitrary, and most of them may be infinite.

| Assumption | Says |
|---|---|
| `HostClassAssumption` | each host has one of the classes |
| `LeaseAssumption`, `TimeoutAssumption` | the hub's durations are positive |
| `IntervalAssumption` (of `PromptHub` only) | each interval is shorter than the duration it renews, as the defaults are (10 s and 30 s, 1 s and 60 s); the code does not check it (a hazard in `PROJECT.json`) |
| `DeliveryAssumption` | a message has a sender, a gateway one target, which is not itself (connect refuses that); any gateways may listen where a target is said to; no session has the name for "none" |
| `DecisionAssumption` | a peer registered as some gateway or any well-typed record; "no candidates" is not a list |
| `DiscoveryAssumption` | NATs map to hosts and ports; there is a private host to bind, and a port |
| `HostingAssumption` | configurations are of the modes there are; `Clash` goes both ways; names are apart |
| `JournalAssumption` | `Main` is a task, the window of events is not empty, bounds are numbers |
| `FeedAssumption` | a process has finitely many tasks |

The bounds of the models (`MaxId`, `MaxStarts` ...) are arbitrary numbers in the
proofs.

*The hub's invariant.* `RelayFifo` says accepted = handed ∘ waiting for each
session in the map. It is not inductive alone: `ConnectRelay` must find empty
logs for the id it issues (`NewSessionsAreEmpty`, since ids are never reused); a
poll must empty one queue and not both (`PartiesDiffer`, since connect refuses
a peer to itself); and `AcceptedIsAddressed` is carried along so that what is
handed out, a prefix of what was accepted, has the right addressee.
`SessionsEndForCause` follows: the sweep takes a session only when both queues
are empty, and then conservation says all was handed over. The refinement uses
the same facts: what `Drained` takes out is what the mailbox's log has beyond
`handed`.

*The prompt hub's invariant.* No entry runs out as long as what its countdown
has lost is at most the age of the loop that renews it: `BeatsCoverLeases` for
peers, `PollsCoverWaiting` for sessions in which something waits. Both steps
that could break them, `PromptTick` and the renewals, move countdown and age
together. `EndsAreRegistered` ties the second to loops that exist.

*Presence.* The hub has each peer whose call it took less than a lease ago, with a
countdown that has lost no more than the time since that call left (`CallsCoverLeases`,
`Covers`), be the call the last success or one whose answer is still to come: no other
request shortens a countdown, and a restart makes both void. A gateway that has been
told that the hub does not know it shows an error that nothing clears, and has no
earlier success under way that could (`RefusalIsShown`). The hub's own
invariant is shown again for the specification with restarts: a restart empties both
maps and leaves the histories, which to the mailbox is a lapse of all sessions.

*Delivery.* That an accepted envelope is at exactly one of four places (`OnePlace`)
needs what makes a second copy impossible: every call has a session of its own, a log
has at most one envelope, and neither a POST nor a relay send is repeated
(`SendsAreNew`, `PostsAreNew`), also when the caller has given it up and it arrives
late. `StoredWhere` says where copies can be: a relayed message at the one it is for, a
posted one at one gateway that listens. The counters compare with the cardinality of
sets of calls; they are exact for gateways that were never killed.

*Hosting.* What is left of each call says which runtimes it holds and what they
already have (`CallIsWellFormed`, `StartIsOnItsWay`); no runtime is in two hands
(`HandsApart`) or in none (`AllInHand`); and the slot is empty while a call that has
taken its runtime is past the lock. That the remaining steps stay in one order
(`Rank`) lets each step be shown once, wherever it occurs.

*Decision.* There is nothing to say of steps, since there is one; the weight is in
lemmas on lists of any length. A `Selection` is described by the positions it keeps
(`Kept`: growing, and all of them). The filter and the de-duplication are two of them,
so the positions of what is offered are one growing sequence onto "the first of each
base_url among those that may be offered", and a growing sequence has as many members as
places (`DedupeOfSelection`, `GrowingNumbers`).

*Discovery.* Every datagram that carries an id of this start tells where this start
is seen (`ProbesTellTheNetwork`): ids are used once, and the hub only echoes. The rest
is that `observed` is filled in the order of the two probes.

*Journal.* `WrittenBefore` ties what a task has left to do to what it has written.
A file that no accident has happened to is `Sound` (each head follows a newline and is
followed by its tail) and ends where the one task that writes to it is. `IdsAreFresh`
needs more than that every id is below the next one: after a stop the next id comes
from the last line, so `LastIsHighest` follows "runtime_stopped" through its five steps,
with nobody else at work (`NobodyElse`).

*EventFeed.* What the page may have missed is bounded by counting: each event is on one
line or in the hand of one task, so there are as many as ids (`OneLineEach`). The
events in memory are then in places that can be named: those of this run in the order
of ids, those loaded before them in the order of lines (`InPlace`). What is forgotten is
old in one order or the other, and no cursor, be it of the page, of a poll under way or
of an answer, has passed anything else (`CursorsPassable`).

**What the proofs have changed.** `CursorPassesNothing` used to speak of the last
`MAX_EVENTS` events by id alone. The invariant for it could not be shown, and TLC found
why in an instance with three tasks and a window of four: lines are appended out of the
order of their ids, a later start puts events in memory in the order of the lines, the
window cuts one of them there, and yet another start brings it back within the window by
ids. The property is now about events that are among the last in both orders.
`select_direct_candidates` used to be a `CASE` whose guards overlap, when there are both
public and local candidates. Which of two true guards is meant TLA+ leaves open, though
TLC takes the first; the code's order is now in the definition. `SelectSeq`, which is
defined by recursion inside the standard module, has been replaced by `Selection`.

**Model-checked only.** The liveness properties (`NothingLingers`,
`EverythingArrives`, `RelayedIsReceived`, `LossIsNoticed`, `CallsReturn`,
`DiscoveryEnds`), because there is no fairness reasoning with TLAPS here. Induction on data
is out of reach of the provers as well; where a proof needs it (`Selection`), it is by the
smallest counterexample (`Smallest`, from the finiteness of intervals).

## 5. Findings

* `direct_sent_count` never counts: `send_message` remembers a direct delivery
  as `"direct"` (`gateway.rs:642`), the counter knows `"direct_tcp"`. Run
  `delivery_counters`.
* A gateway whose record the hub has lost goes on beating, is answered 404 each
  time and never registers again. Run `presence_lost`, where a restart has lost it; a
  lease that ran out while heartbeats hung or were lost does the same.

Limits of the code that the conditions of the properties mark, and no document
denies:

* A file in which two tasks appended at the same time, or a line was cut off, can
  no longer be read, and then `start` fails until somebody repairs the file
  (`DamageHasCause`). A line that only lacks its newline is still read once: the
  next append is glued to it.
* After a kill the next event id is the id of the last line plus one, which need
  not be the largest: an id can be given twice, and a page that has shown the
  first event never asks for the second (`IdsNameEvents`, `CursorPassesNothing`
  are about orderly stops).
* `start` loads all events of the file, whatever `MAX_EVENTS`; only the first new
  event cuts them. Until then events a page has missed are in the window again, under
  its cursor (`CursorPassesNothing` is about the last `MAX_EVENTS`, by id and by line).
* `openhanse_start` cannot replace a runtime by one that needs one of its ports: the
  new one is started first, fails, and the old one goes on (`NothingIsLeftRunning`
  says that it does so complete).
* Two runtimes of one peer whose direct addresses do not clash overlap, both append to
  the files and number their events from the same last line: those with a port of the
  system's choice, and those with one port on two hosts, such as 127.0.0.1 and the
  address the command line program detects (`WritersTakeTurns` is about addresses that
  clash). `localhost` may be two addresses, and then it need not clash with itself.
* A message posted to an address that leads to another gateway is stored there, and its
  sender is told that it was sent directly (`SentDirectIsStored` is about those who
  listen at the target's address: it is in the target's inbox for certain only when the
  target is the only one).
* A running gateway whose heartbeats hang or are lost for a lease is dropped by the hub,
  and shows "online" until a call of it has ended (`RunningIsOnline`,
  `StatusTellsPresence`).
* `openhanse_stop` during an `openhanse_start` finds the old runtime, or nothing; the
  new one is installed after it.
* As long as a hub leaves a call unanswered, `stop` and with it the slot's mutex wait,
  and so does every other call of the application (`CallsReturn` needs an answer).
  The servers' graceful shutdown waits for the requests they have accepted, and so also
  for a client of the local API that is slow to send or to read; in `Hosting` such a
  request takes as long as its call to the hub.
* A peer is the `peer_id` it claims: the hub keeps a `device_key` and compares it with
  nothing (`OnlyTheAddressee` is about the ids in the requests).
* What may be offered follows from the scope a gateway gives its address: 0.0.0.0 counts
  as an address in the LAN (`gateway.rs:1054`) and is offered (`LoopbackIsNeverOffered`
  is about loopback addresses only, `CandidatesAreTheUsableOnes` about what the filters
  let through).
* A datagram that belongs to another probe ends the discovery: it is not skipped. The
  gateway then registers without observed addresses (`DescriptionIsTrue` allows it).

## 6. Not modelled

Command line parsing, printing (the printer of events among it, which may skip some
when it lags), rendering, HTTP and JSON formats, the strings of the C interface, the
Wiki, the scripts and the test runner hold no state of their own that a property
could be about. Failing writes of the inbox are in `Journal` and left out of
`Delivery`. Rejection of empty ids at registration is validation of a field nothing
else depends on. A port number of 65535 for the first discovery port, which has no
successor, is not reachable from the programs: both use 3478. In `Hosting` a start's
discovery is left out, because it ends by itself (`DiscoveryEnds`), and so is the
panic of a thread that holds the mutex.

## 7. Plan

Done: `Reachability`, `Hub`, `Mailbox`, `PromptHub`, `Presence`, `Delivery`, `Journal`,
`EventFeed`, `Hosting`, `Discovery` and `Decision`, in the order of importance (the hub
carries everybody's messages), and the proofs of all their safety properties.

Next, in this order:

1. The safety halves of the liveness properties: that what a property waits for comes
   nearer with each step of the fair actions (the steps left of a call in `Hosting`, the
   probes left in `Discovery`), and nothing undoes it.
2. **Routing**: `Reachability` composed with a network of LANs: does a candidate
   that is offered lead to the peer it is offered for? It would say which `Listeners`
   of `Delivery` the hub's decision allows.
