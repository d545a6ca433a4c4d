------------------------------- MODULE Hosting -------------------------------
(***************************************************************************)
(* Who starts and stops peer runtimes on one machine: the threads of an    *)
(* application that calls openhanse_start, openhanse_runtime_status and    *)
(* openhanse_stop (openhanse-gui), which share one slot behind a mutex,    *)
(* and command line programs (openhanse-cli), each with a runtime of its   *)
(* own.  All runtimes compete for the addresses of the machine, which are  *)
(* pairs of a host and a port, and those of one peer append to the same    *)
(* files.                                                                  *)
(*                                                                         *)
(* A call is the list of the steps that are left of it (todo), each of     *)
(* them an await or a lock at which others may come in between.  No call   *)
(* to a hub has a time-out: it is answered at some time, or not.           *)
(***************************************************************************)
EXTENDS Integers, Sequences, Functions

CONSTANTS
    Thread,     \* the threads of the application
    Chat,       \* command line programs
    Address,    \* a host and a port that is not 0
    Clash,      \* pairs of addresses of which one cannot be had while the other is:
                \*   equal ones, and those of one port with 0.0.0.0 among the hosts
    Config,     \* configurations: peer_mode, and the addresses to listen on
    MaxCalls,   \* bound on the calls and programs started
    None

Mode == {"both", "hub", "gateway"}
Socket == {"ui", "hub", "discovery", "direct"}
StartSteps == Socket \cup {"load", "register"}
StopSteps == {"close_ui", "drain_ui", "close_direct", "drain_loops", "farewell", "close_hub"}

\* None as an address stands for port 0: the system chooses a port that is free.
ASSUME HostingAssumption ==
    /\ Config \subseteq [mode : Mode, address : [Socket -> Address \cup {None}]]
    /\ Clash \subseteq Address \X Address
    /\ \A a, b \in Address : <<a, b>> \in Clash => <<b, a>> \in Clash
    /\ MaxCalls \in Nat /\ None \notin Address
    /\ Thread \cap Chat = {} /\ None \notin Thread \cup (1..MaxCalls)

Host == Thread \cup Chat
Runtime == 1..MaxCalls   \* in the order in which they are started

VARIABLES
    slot,       \* HOST_RUNTIME: the runtime in it, or None
    lock,       \* the thread that holds its mutex, or None
    call,       \* for each host: todo, the runtime it starts, the one it stops
    config,     \* the configuration of each runtime started so far
    bound,      \* the sockets each runtime listens on
    writing,    \* the runtimes whose tasks may append to the two files
    tasks,      \* the requests to the local API and the loops of each runtime
    calls       \* the calls made so far

vars == <<slot, lock, call, config, bound, writing, tasks, calls>>

runs_gateway(mode) == mode \in {"both", "gateway"}
runs_hub(mode) == mode \in {"both", "hub"}

\* The hub listens on the port of the server URL and on ports from 3478 on, of
\* 127.0.0.1 or of 0.0.0.0; the local API on 127.0.0.1; the direct receiver on the
\* host and the port it is told.
AddressOf(r, s) == config[r].address[s]

Idle == [todo |-> <<>>, new |-> None, old |-> None]
At(h, step) == call[h].todo # <<>> /\ Head(call[h].todo) = step
Advanced(h) == [call EXCEPT ![h].todo = Tail(@)]
Steps(condition, steps) == IF condition THEN steps ELSE <<>>

\* PeerRuntimeHandle::start: the hub binds two discovery ports after its own (one
\* socket here); the gateway binds, reads its files and registers.
\* Variant: the files are read, and written to, before the port is bound.
load_before_bind(mode) ==
    Steps(runs_hub(mode), <<"hub", "discovery">>)
        \o Steps(runs_gateway(mode), <<"load", "direct", "register">>)

start(mode) ==
    Steps(runs_hub(mode), <<"hub", "discovery">>)
        \o Steps(runs_gateway(mode), <<"direct", "load", "register">>)

\* PeerRuntimeHandle::stop: each part is told to close, and waited for.
stop(mode) ==
    Steps(runs_gateway(mode), <<"close_direct", "drain_loops", "farewell">>)
        \o Steps(runs_hub(mode), <<"close_hub">>)

\* GatewayWebRuntimeHandle::stop, and then the runtime is dropped.
stop_and_drop(r) ==
    <<"close_ui", "drain_ui">> \o stop(config[r].mode) \o <<"drop">>

Init ==
    /\ slot = None /\ lock = None
    /\ call = [h \in Host |-> Idle]
    /\ config = <<>>
    /\ bound = [r \in Runtime |-> {}]
    /\ writing = {}
    /\ tasks = [r \in Runtime |-> [ui |-> "none", loops |-> "none"]]
    /\ calls = 0

-----------------------------------------------------------------------------
(* Calls begin.                                                            *)

Call(h, todo, new) ==
    /\ call[h] = Idle /\ calls < MaxCalls
    /\ calls' = calls + 1
    /\ call' = [call EXCEPT ![h] = [todo |-> todo, new |-> new, old |-> None]]
    /\ UNCHANGED <<slot, lock, bound, writing, tasks>>

openhanse_start(t, c) ==
    /\ config' = Append(config, c)
    /\ Call(t, <<"ui">> \o start(c.mode) \o <<"lock", "install">>,
            Len(config'))

openhanse_stop(t) == Call(t, <<"lock", "unlock">>, None) /\ UNCHANGED config

openhanse_runtime_status(t) == Call(t, <<"lock", "read">>, None) /\ UNCHANGED config

\* run_chat and run_hub.
run(p, c) ==
    /\ config' = Append(config, c)
    /\ Call(p, start(c.mode) \o <<"serve">>, Len(config'))

-----------------------------------------------------------------------------
(* The steps of a start.                                                   *)

Available(r, s) ==
    \A q \in DOMAIN config : \A o \in bound[q] :
        <<AddressOf(q, o), AddressOf(r, s)>> \notin Clash

Bind(h, s) ==
    LET r == call[h].new
    IN  /\ At(h, s)
        /\ Available(r, s)
        /\ bound' = [bound EXCEPT ![r] = @ \cup {s}]
        /\ call' = Advanced(h)
        /\ UNCHANGED <<slot, lock, config, writing, tasks, calls>>

\* The files are read and "runtime_started" is recorded; the receiver is spawned.
Load(h) ==
    /\ At(h, "load")
    /\ writing' = writing \cup {call[h].new}
    /\ call' = Advanced(h)
    /\ UNCHANGED <<slot, lock, config, bound, tasks, calls>>

\* The hub has answered the registration; the heartbeat and poll loops are spawned, and
\* in the application the local API.
Register(h) ==
    /\ At(h, "register")
    /\ tasks' = [tasks EXCEPT ![call[h].new] =
                    [ui |-> IF h \in Thread THEN "idle" ELSE "none", loops |-> "idle"]]
    /\ call' = Advanced(h)
    /\ UNCHANGED <<slot, lock, config, bound, writing, calls>>

\* Every task and socket of a runtime goes with its tokio runtime, or its process.
Dropped(r) ==
    /\ bound' = [bound EXCEPT ![r] = {}]
    /\ writing' = writing \ {r}
    /\ tasks' = [tasks EXCEPT ![r] = [ui |-> "none", loops |-> "none"]]

\* Variant: the handle is dropped, but not what it had spawned: the receiver and the
\* runtime that holds it keep each other alive.
FailKeepsReceiver(h) ==
    /\ \E step \in StartSteps : At(h, step)
    /\ call' = [call EXCEPT ![h] = Idle]
    /\ bound' = [bound EXCEPT ![call[h].new] =
                    IF At(h, "register") THEN {"direct"} ELSE {}]
    /\ UNCHANGED <<slot, lock, config, writing, tasks, calls>>

\* A step of start fails: an address is taken, a file cannot be read, the hub refuses.
\* The slot has not been looked at.
Fail(h) ==
    /\ \E step \in StartSteps : At(h, step)
    /\ call' = [call EXCEPT ![h] = Idle]
    /\ Dropped(call[h].new)
    /\ UNCHANGED <<slot, lock, config, calls>>

-----------------------------------------------------------------------------
(* The slot.                                                               *)

\* Variant: a slot that is in use is no obstacle.
LockAnyway(t) ==
    /\ At(t, "lock")
    /\ lock' = t
    /\ call' = Advanced(t)
    /\ UNCHANGED <<slot, config, bound, writing, tasks, calls>>

\* start and stop take what is in the slot, and stop it before they go on.
Lock(t) ==
    LET rest == Tail(call[t].todo)
    IN  /\ At(t, "lock") /\ lock = None
        /\ lock' = t
        /\ IF slot = None \/ Head(rest) = "read"
           THEN call' = Advanced(t) /\ UNCHANGED slot
           ELSE /\ slot' = None
                /\ call' = [call EXCEPT ![t] = [todo |-> stop_and_drop(slot) \o rest,
                                                new |-> @.new, old |-> slot]]
        /\ UNCHANGED <<config, bound, writing, tasks, calls>>

\* The last thing done under the lock: start fills the slot, stop leaves it empty,
\* status has kept it locked while it read the runtime's state.
Unlock(t) ==
    /\ \E step \in {"install", "unlock", "read"} : At(t, step)
    /\ slot' = IF At(t, "install") THEN call[t].new ELSE slot
    /\ lock' = None
    /\ call' = [call EXCEPT ![t] = Idle]
    /\ UNCHANGED <<config, bound, writing, tasks, calls>>

-----------------------------------------------------------------------------
(* The steps of a stop.                                                    *)

\* Variant: the signal is not sent.
CloseUnsignalled(h, step, sockets) ==
    /\ At(h, step)
    /\ call' = Advanced(h)
    /\ UNCHANGED <<slot, lock, config, bound, writing, tasks, calls>>

\* A shutdown signal: the server takes no more connections.
Close(h, step, sockets) ==
    /\ At(h, step)
    /\ bound' = [bound EXCEPT ![call[h].old] = @ \ sockets]
    /\ call' = Advanced(h)
    /\ UNCHANGED <<slot, lock, config, writing, tasks, calls>>

\* Requests that were accepted are served to their end, and a loop ends when the
\* call it is in has been answered.
Drain(h, step, task, socket) ==
    LET r == call[h].old
    IN  /\ At(h, step)
        /\ socket \notin bound[r] /\ tasks[r][task] # "calling"
        /\ tasks' = [tasks EXCEPT ![r][task] = "none"]
        /\ call' = Advanced(h)
        /\ UNCHANGED <<slot, lock, config, bound, writing, calls>>

CloseUi(h) == Close(h, "close_ui", {"ui"})
DrainUi(h) == Drain(h, "drain_ui", "ui", "ui")
CloseDirect(h) == Close(h, "close_direct", {"direct"})
DrainLoops(h) == Drain(h, "drain_loops", "loops", "direct")

\* The cleanup task and the two echo tasks end at once, and hold nothing.
CloseHub(h) == Close(h, "close_hub", {"hub", "discovery"})

\* "runtime_stopped" is recorded; if that fails, stop ends here, and what is left of
\* it is only dropped.
Farewell(h) ==
    LET rest == Tail(call[h].todo)
    IN  /\ At(h, "farewell")
        /\ writing' = writing \ {call[h].old}
        /\ \E left \in {rest} \cup (IF Head(rest) = "close_hub" THEN {Tail(rest)} ELSE {}) :
               call' = [call EXCEPT ![h].todo = left]
        /\ UNCHANGED <<slot, lock, config, bound, tasks, calls>>

Drop(h) ==
    /\ At(h, "drop")
    /\ Dropped(call[h].old)
    /\ call' = [call EXCEPT ![h] = IF h \in Chat THEN Idle
                                   ELSE [todo |-> Tail(@.todo), new |-> @.new, old |-> None]]
    /\ UNCHANGED <<slot, lock, config, calls>>

\* /quit, the end of the input, or Ctrl-C of a hub.
Quit(p) ==
    LET r == call[p].new
    IN  /\ At(p, "serve")
        /\ call' = [call EXCEPT ![p] = [todo |-> stop(config[r].mode) \o <<"drop">>,
                                        new |-> None, old |-> r]]
        /\ UNCHANGED <<slot, lock, config, bound, writing, tasks, calls>>

\* A command that fails ends the program; the runtime is not stopped.
CommandFails(p) ==
    /\ At(p, "serve") /\ runs_gateway(config[call[p].new].mode)
    /\ Dropped(call[p].new)
    /\ call' = [call EXCEPT ![p] = Idle]
    /\ UNCHANGED <<slot, lock, config, calls>>

-----------------------------------------------------------------------------
(* Calls to a hub, of the loops and of requests to the local API.          *)

CallHub(r, task, socket) ==
    /\ tasks[r][task] = "idle" /\ socket \in bound[r]
    /\ r \in writing   \* a runtime without a gateway makes no calls
    /\ tasks' = [tasks EXCEPT ![r][task] = "calling"]
    /\ UNCHANGED <<slot, lock, call, config, bound, writing, calls>>

Answered(r, task) ==
    /\ tasks[r][task] = "calling"
    /\ tasks' = [tasks EXCEPT ![r][task] = "idle"]
    /\ UNCHANGED <<slot, lock, call, config, bound, writing, calls>>

Step(h) ==
    \/ \E s \in Socket : Bind(h, s)
    \/ Load(h) \/ Register(h) \/ Fail(h)
    \/ CloseUi(h) \/ DrainUi(h)
    \/ CloseDirect(h) \/ DrainLoops(h) \/ Farewell(h)
    \/ CloseHub(h) \/ Drop(h)
    \/ h \in Thread /\ (Lock(h) \/ Unlock(h))

Next ==
    \/ \E t \in Thread, c \in Config : openhanse_start(t, c)
    \/ \E t \in Thread : openhanse_stop(t) \/ openhanse_runtime_status(t)
    \/ \E p \in Chat, c \in Config : run(p, c)
    \/ \E p \in Chat : Quit(p) \/ CommandFails(p)
    \/ \E h \in Host : Step(h)
    \/ \E r \in Runtime : \/ CallHub(r, "ui", "ui") \/ CallHub(r, "loops", "direct")
                          \/ \E task \in {"ui", "loops"} : Answered(r, task)

Spec == Init /\ [][Next]_vars

\* Every thread gets on with its call, and hubs answer.
FairSpec ==
    /\ Spec
    /\ \A t \in Thread : WF_vars(Step(t))
    /\ \A r \in Runtime, task \in {"ui", "loops"} : WF_vars(Answered(r, task))
-----------------------------------------------------------------------------
(* Properties.                                                             *)

Task == {"none", "idle", "calling"}

\* The types, and who holds the mutex: the thread that is past its lock step.
TypeOK ==
    /\ slot \in Runtime \cup {None} /\ lock \in Thread \cup {None}
    /\ DOMAIN call = Host
    /\ \A t \in Thread : lock = t <=> call[t] # Idle /\ "lock" \notin Range(call[t].todo)
    /\ \A h \in Host : {call[h].new, call[h].old} \subseteq DOMAIN config \cup {None}
    /\ config \in Seq(Config) /\ Len(config) <= calls
    /\ bound \in [Runtime -> SUBSET Socket]
    /\ writing \subseteq DOMAIN config
    /\ tasks \in [Runtime -> [ui : Task, loops : Task]]
    /\ calls \in 0..MaxCalls

Runs(r) == bound[r] # {} \/ r \in writing \/ tasks[r] # [ui |-> "none", loops |-> "none"]

\* The sockets of a runtime that has started.
Sockets(c) == {"ui"} \cup (IF runs_hub(c.mode) THEN {"hub", "discovery"} ELSE {})
                     \cup (IF runs_gateway(c.mode) THEN {"direct"} ELSE {})

\* Whatever fails, and in whatever order threads start and stop: between two calls
\* the slot is empty or its runtime is complete, listening on all its sockets and
\* recording, and nothing else runs but what a call or a program is at work on.  No
\* listener and no writer is left behind that nobody can stop.
NothingIsLeftRunning ==
    /\ \A r \in DOMAIN config :
          Runs(r) => \/ r = slot
                     \/ \E h \in Host : r \in {call[h].new, call[h].old}
    /\ (lock = None /\ slot # None) =>
          /\ bound[slot] = Sockets(config[slot])
          /\ slot \in writing <=> runs_gateway(config[slot].mode)

\* Runtimes of one peer whose direct addresses clash do not share the two files, but
\* for the end of a stop: a second one, of another thread or program, gets its address
\* only when the first has given its own up, and fails before it has read or written a
\* line if not.  (With addresses that do not clash they both run, and write.)
WritersTakeTurns ==
    \A q, r \in writing :
        (q # r /\ <<AddressOf(q, "direct"), AddressOf(r, "direct")>> \in Clash) =>
            \E h \in Host : call[h].old \in {q, r} /\ "direct" \notin bound[call[h].old]

\* Every call of the application returns, also when several start, stop and ask at
\* once: a stop holds the slot while it waits for a loop, and the loop for a hub.
CallsReturn == \A t \in Thread : call[t] # Idle ~> call[t] = Idle
-----------------------------------------------------------------------------
(***************************************************************************)
(* The inductive invariant behind the safety properties above.             *)
(***************************************************************************)

\* A call takes its steps in this order, and none of them twice.
Rank ==
    [ui |-> 1, hub |-> 2, discovery |-> 3, direct |-> 4, load |-> 5, register |-> 6,
     lock |-> 7,
     close_ui |-> 8, drain_ui |-> 9, close_direct |-> 10, drain_loops |-> 11,
     farewell |-> 12, close_hub |-> 13, drop |-> 14,
     install |-> 15, unlock |-> 16, read |-> 17, serve |-> 18]

StepName == DOMAIN Rank

InOrder(s) == \A i, j \in DOMAIN s : i < j => Rank[s[i]] < Rank[s[j]]

\* The steps that are left of a call, and the runtimes it is at work on.
Left(h) == Range(call[h].todo)
New(h) == call[h].new
Old(h) == call[h].old

\* What is left of a call says which runtimes it holds: the one it starts until it is
\* put in the slot, or quits; the one it stops until it is dropped.  Only a thread goes
\* to the slot, and only a thread serves the local API.
CallIsWellFormed(h) ==
    LET runtimes == DOMAIN config \cup {None}
    IN  /\ call[h] \in [todo : Seq(StepName), new : runtimes, old : runtimes]
        /\ InOrder(call[h].todo)
        /\ Left(h) = {} => call[h] = Idle
        /\ Old(h) # None <=> "drop" \in Left(h)
        /\ New(h) # None <=> "install" \in Left(h) \/ "serve" \in Left(h)
        /\ \A step \in Left(h) \cap StopSteps : "drop" \in Left(h)
        /\ \A step \in Left(h) \cap StartSteps :
              New(h) # None /\ ("lock" \in Left(h) \/ "serve" \in Left(h))
        /\ "lock" \in Left(h) \/ "serve" \in Left(h) => "drop" \notin Left(h)
        /\ h \in Thread =>
              /\ "serve" \notin Left(h)
              /\ Left(h) # {} =>
                    "install" \in Left(h) \/ "unlock" \in Left(h) \/ "read" \in Left(h)
              /\ "install" \in Left(h) => "unlock" \notin Left(h)
              /\ "read" \in Left(h) => Left(h) \subseteq {"lock", "read"}
        /\ h \in Chat =>
              /\ "ui" \notin Left(h) /\ "close_ui" \notin Left(h) /\ "drain_ui" \notin Left(h)
              /\ "lock" \notin Left(h) /\ "install" \notin Left(h)
              /\ "unlock" \notin Left(h) /\ "read" \notin Left(h)
              /\ Left(h) # {} => "serve" \in Left(h) \/ "drop" \in Left(h)

\* The sockets of a runtime that h starts.
SocketsFor(h, c) == Sockets(c) \ (IF h \in Chat THEN {"ui"} ELSE {})

\* A runtime that is being started has what the steps so far have made.
StartIsOnItsWay(h) ==
    New(h) # None =>
        LET c == config[New(h)]
        IN  /\ Left(h) \cap Socket \subseteq SocketsFor(h, c)
            /\ bound[New(h)] = SocketsFor(h, c) \ Left(h)
            /\ New(h) \in writing <=> runs_gateway(c.mode) /\ "load" \notin Left(h)
            /\ "direct" \in Left(h) => "load" \in Left(h)
            /\ "load" \in Left(h) \/ "register" \in Left(h) => runs_gateway(c.mode)

\* The one in the slot is complete, and whoever is past the lock has emptied the slot,
\* or only reads.
SlotIsComplete ==
    /\ slot \in DOMAIN config \cup {None}
    /\ slot # None => /\ bound[slot] = Sockets(config[slot])
                      /\ slot \in writing <=> runs_gateway(config[slot].mode)
    /\ lock # None => slot = None \/ "read" \in Left(lock)

\* No runtime is in two hands.
HandsApart ==
    /\ \A h \in Host :
          /\ New(h) # None => New(h) # Old(h) /\ New(h) # slot
          /\ Old(h) # None => Old(h) # slot
    /\ \A g, h \in Host :
          g # h => {New(g), Old(g)} \cap {New(h), Old(h)} \subseteq {None}

\* Nothing runs that is in nobody's.
AllInHand ==
    \A r \in Runtime :
        Runs(r) => r = slot \/ \E h \in Host : r \in {New(h), Old(h)}

AddressesAreTakenOnce ==
    \A q, r \in DOMAIN config : \A o \in bound[q], s \in bound[r] :
        q # r => <<AddressOf(q, o), AddressOf(r, s)>> \notin Clash

HostingInvariant ==
    /\ TypeOK
    /\ \A h \in Host : CallIsWellFormed(h) /\ StartIsOnItsWay(h)
    /\ SlotIsComplete /\ HandsApart /\ AllInHand /\ AddressesAreTakenOnce
=============================================================================
