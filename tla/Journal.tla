------------------------------- MODULE Journal -------------------------------
(***************************************************************************)
(* What a gateway keeps: the events and the inbox of GatewayRuntimeState   *)
(* (gateway.rs), and the two files of JSON lines from which the next start *)
(* reads them back.                                                        *)
(*                                                                         *)
(* The tasks of the runtime, the loops, the handlers of the two HTTP       *)
(* servers and whoever holds the handle, run on several threads.  Each     *)
(* follows the code of record_event or persist_received_message step by    *)
(* step; todo holds what is left of it.  The state is behind a lock, the   *)
(* files are not: append_json_line opens the file for append, and to_writer*)
(* writes to it without a buffer, token by token.  A line is three writes  *)
(* here: a beginning, the rest of the object, and the newline.             *)
(*                                                                         *)
(* A kill ends the process, not the machine: what was written stays.       *)
(***************************************************************************)
EXTENDS Integers, SequencesExt, Selection

CONSTANTS
    Task,         \* the tasks of a running gateway
    Main,         \* the task that starts and stops the runtime
    MAX_EVENTS,   \* how many events are kept in memory
    MaxId,        \* bound: no call begins when this many ids have been given
    MaxReceived,  \* bound on the messages received
    MaxRuns,      \* bound on the starts of the process
    MaxFailures   \* bound on the writes that fail (a full disk, say)

ASSUME JournalAssumption ==
    /\ Main \in Task
    /\ MAX_EVENTS \in Nat \ {0}
    /\ {MaxId, MaxReceived, MaxRuns, MaxFailures} \subseteq Nat

VARIABLES
    phase,          \* where start and stop are in their code
    events,         \* GatewayRuntimeState
    next_event_id,
    inbox,
    file,           \* events.jsonl and inbox.jsonl, as the writes made to them
    job,            \* what each task is doing: its kind, the value at hand
    todo,           \*   and the steps that are left
    run,            \* the starts so far
    received,       \* the messages that have come so far
    failures,
    announced,      \* history: the events sent on event_tx
    clean,          \* history: no kill and no failed write so far
    broken          \* history: the files in which a line was cut off, or
                    \*   written to by two tasks at the same time

memory == <<events, next_event_id, inbox>>
bounds == <<run, received, failures>>
journalVars == <<phase, memory, file, job, todo, bounds, announced, clean, broken>>

File == {"events", "inbox"}

\* A value stands for one event or one inbox entry: UiEventModel with its id, or
\* the id-th message received; the run in which it was made tells it from others.
Value == [id : Nat, run : Nat]
Nothing == [id |-> 0, run |-> 0]

Part == {"head", "tail", "newline"}
Written == [part : Part, value : Value]

\* Variant: the newline is forgotten.
append_json_object(f) == << <<f, "head">>, <<f, "tail">> >>

\* The code of a call, as the steps that others can see.
append_json_line(f) == << <<f, "head">>, <<f, "tail">>, <<f, "newline">> >>
record_event ==
    << <<"state", "number">> >> \o append_json_line("events") \o << <<"event_tx", "send">> >>

\* Variant: the message is kept in memory before it is appended.
push_received_message ==
    << <<"state", "push">> >> \o append_json_line("inbox") \o record_event

persist_received_message ==
    append_json_line("inbox") \o << <<"state", "push">> >> \o record_event

\* receive_relay_message records an event of its own after that.
Steps(kind) ==
    CASE kind = "event"  -> record_event
      [] kind = "direct" -> persist_received_message
      [] kind = "relay"  -> persist_received_message \o record_event

Idle(t) == todo[t] = <<>>
At(t, step) == ~Idle(t) /\ Head(todo[t]) = step
InLine(t, f) == At(t, <<f, "tail">>) \/ At(t, <<f, "newline">>)

TypeOK ==
    /\ phase \in {"down", "starting", "up", "stopping", "farewell"}
    /\ events \in Seq(Value) /\ inbox \in Seq(Value)
    /\ next_event_id \in Nat \ {0}
    /\ file \in [File -> Seq(Written)]
    /\ job \in [Task -> [kind : {"event", "direct", "relay"}, value : Value]]
    /\ \A t \in Task : IsSuffix(todo[t], Steps(job[t].kind))
    /\ run \in 0..MaxRuns
    /\ received \in 0..MaxReceived
    /\ failures \in 0..MaxFailures
    /\ announced \subseteq Value
    /\ clean \in BOOLEAN /\ broken \subseteq File

Forget ==
    /\ events' = <<>> /\ next_event_id' = 1 /\ inbox' = <<>>
    /\ job' = [t \in Task |-> [kind |-> "event", value |-> Nothing]]
    /\ todo' = [t \in Task |-> <<>>]

JournalInit ==
    /\ phase = "down"
    /\ events = <<>> /\ next_event_id = 1 /\ inbox = <<>>
    /\ file = [f \in File |-> <<>>]
    /\ job = [t \in Task |-> [kind |-> "event", value |-> Nothing]]
    /\ todo = [t \in Task |-> <<>>]
    /\ run = 0 /\ received = 0 /\ failures = 0
    /\ announced = {} /\ clean = TRUE /\ broken = {}

-----------------------------------------------------------------------------
(* Reading a file back.                                                    *)

\* Every line is one whole object: its beginning opens a line and its rest follows
\* at once.  Empty lines are skipped, and the last line needs no newline.
readable(s) ==
    \A i \in DOMAIN s :
        /\ s[i].part = "head" =>
               /\ i > 1 => s[i - 1].part = "newline"
               /\ i < Len(s) /\ s[i + 1] = [s[i] EXCEPT !.part = "tail"]
        /\ s[i].part = "tail" =>
               i > 1 /\ s[i - 1] = [s[i] EXCEPT !.part = "head"]

\* The values of the parts of one kind, in the order of the file.
ValuesOf(s, part) ==
    LET lines == Selection(s, {i \in DOMAIN s : s[i].part = part})
    IN  [i \in DOMAIN lines |-> lines[i].value]

load_json_lines(f) == ValuesOf(file[f], "tail")

-----------------------------------------------------------------------------
(* Start and stop.                                                         *)

\* Variant: ids start at 0 when there are no events.
StartFromZero ==
    /\ phase = "down" /\ run < MaxRuns
    /\ \A f \in File : readable(file[f])
    /\ run' = run + 1
    /\ events' = load_json_lines("events")
    /\ inbox' = load_json_lines("inbox")
    /\ next_event_id' = IF events' = <<>> THEN 0 ELSE Last(events').id + 1
    /\ phase' = "starting"
    /\ job' = [job EXCEPT ![Main] = [kind |-> "event", value |-> Nothing]]
    /\ todo' = [todo EXCEPT ![Main] = record_event]
    /\ UNCHANGED <<file, received, failures, announced, clean, broken>>

\* start: both files are read, or it fails; then "runtime_started" is recorded
\* before any other task exists.  Nothing cuts what was read to MAX_EVENTS.
Start ==
    /\ phase = "down" /\ run < MaxRuns
    /\ \A f \in File : readable(file[f])
    /\ run' = run + 1
    /\ events' = load_json_lines("events")
    /\ inbox' = load_json_lines("inbox")
    /\ next_event_id' = IF events' = <<>> THEN 1 ELSE Last(events').id + 1
    /\ phase' = "starting"
    /\ job' = [job EXCEPT ![Main] = [kind |-> "event", value |-> Nothing]]
    /\ todo' = [todo EXCEPT ![Main] = record_event]
    /\ UNCHANGED <<file, received, failures, announced, clean, broken>>

\* The receiver and the loops are spawned; the runtime serves.  The other events of
\* start, on the UDP discovery and the registration, are calls of Main from here on.
Serve ==
    /\ phase = "starting" /\ Idle(Main)
    /\ phase' = "up"
    /\ UNCHANGED <<memory, file, job, todo, bounds, announced, clean, broken>>

\* stop: the shutdown signal.  What is under way goes on, and a poll that was
\* answered still hands over its messages.
Stop ==
    /\ phase = "up"
    /\ phase' = "stopping"
    /\ UNCHANGED <<memory, file, job, todo, bounds, announced, clean, broken>>

\* Variant: stop does not wait for the tasks.
FarewellAtOnce ==
    /\ phase = "stopping" /\ Idle(Main)
    /\ phase' = "farewell"
    /\ job' = [job EXCEPT ![Main] = [kind |-> "event", value |-> Nothing]]
    /\ todo' = [todo EXCEPT ![Main] = record_event]
    /\ UNCHANGED <<memory, file, bounds, announced, clean, broken>>

\* stop has waited for every task, and records "runtime_stopped".
Farewell ==
    /\ phase = "stopping" /\ \A t \in Task : Idle(t)
    /\ phase' = "farewell"
    /\ job' = [job EXCEPT ![Main] = [kind |-> "event", value |-> Nothing]]
    /\ todo' = [todo EXCEPT ![Main] = record_event]
    /\ UNCHANGED <<memory, file, bounds, announced, clean, broken>>

Exit ==
    /\ phase = "farewell" /\ Idle(Main)
    /\ phase' = "down"
    /\ Forget
    /\ UNCHANGED <<file, bounds, announced, clean, broken>>

Kill ==
    /\ phase # "down"
    /\ phase' = "down"
    /\ Forget
    /\ clean' = FALSE
    /\ broken' = broken \cup {f \in File : \E t \in Task : InLine(t, f)}
    /\ UNCHANGED <<file, bounds, announced>>

-----------------------------------------------------------------------------
(* Calls, and their steps.                                                 *)

Begin(t, kind, value) ==
    /\ phase \in {"up", "stopping"} /\ Idle(t)
    /\ next_event_id <= MaxId
    /\ job' = [job EXCEPT ![t] = [kind |-> kind, value |-> value]]
    /\ todo' = [todo EXCEPT ![t] = Steps(kind)]
    /\ UNCHANGED <<phase, memory, file, run, failures, announced, clean, broken>>

\* Any call that records an event and receives nothing: a heartbeat that failed,
\* a lookup, a connect, a message sent.
Record(t) == Begin(t, "event", Nothing) /\ UNCHANGED received

Receive(t, kind) ==
    /\ received < MaxReceived
    /\ received' = received + 1
    /\ Begin(t, kind, [id |-> received', run |-> run])

\* The id is given and the event is appended under one lock.
Number(t) ==
    LET event == [id |-> next_event_id, run |-> run]
        more  == Append(events, event)
    IN  /\ At(t, <<"state", "number">>)
        /\ next_event_id' = next_event_id + 1
        /\ events' = IF Len(more) > MAX_EVENTS
                     THEN SubSeq(more, Len(more) - MAX_EVENTS + 1, Len(more))
                     ELSE more
        /\ job' = [job EXCEPT ![t].value = event]
        /\ todo' = [todo EXCEPT ![t] = Tail(@)]
        /\ UNCHANGED <<phase, inbox, file, bounds, announced, clean, broken>>

Write(t, f) ==
    \E part \in Part :
        /\ At(t, <<f, part>>)
        /\ file' = [file EXCEPT ![f] = Append(@, [part |-> part, value |-> job[t].value])]
        /\ broken' = broken \cup (IF \E u \in Task \ {t} : InLine(u, f) THEN {f} ELSE {})
        /\ todo' = [todo EXCEPT ![t] = Tail(@)]
        /\ UNCHANGED <<phase, memory, job, bounds, announced, clean>>

Push(t) ==
    /\ At(t, <<"state", "push">>)
    /\ inbox' = Append(inbox, job[t].value)
    /\ todo' = [todo EXCEPT ![t] = Tail(@)]
    /\ UNCHANGED <<phase, events, next_event_id, file, job, bounds, announced, clean, broken>>

\* Sending on a channel nobody listens to is no error.
Announce(t) ==
    /\ At(t, <<"event_tx", "send">>)
    /\ announced' = announced \cup {job[t].value}
    /\ todo' = [todo EXCEPT ![t] = Tail(@)]
    /\ UNCHANGED <<phase, memory, file, job, bounds, clean, broken>>

\* A write fails: the call returns the error, and the line is left as it is.  The
\* poll loop records the error it gets for a relay message; start and stop return
\* it, and the process ends.
FailedWrite(t, f) ==
    /\ \E part \in Part : At(t, <<f, part>>)
    /\ failures < MaxFailures /\ failures' = failures + 1
    /\ clean' = FALSE
    /\ broken' = broken \cup {g \in File : InLine(t, g)}
    /\ IF phase \in {"starting", "farewell"}
       THEN phase' = "down" /\ Forget
       ELSE /\ job' = [job EXCEPT ![t] = [kind |-> "event", value |-> Nothing]]
            /\ todo' = [todo EXCEPT ![t] = IF job[t].kind = "relay" THEN record_event ELSE <<>>]
            /\ UNCHANGED <<phase, memory>>
    /\ UNCHANGED <<file, run, received, announced>>

Step(t) ==
    \/ Number(t) \/ Push(t) \/ Announce(t)
    \/ \E f \in File : Write(t, f)

JournalNext ==
    \/ Start \/ Serve \/ Stop \/ Farewell \/ Exit \/ Kill
    \/ \E t \in Task :
        \/ Record(t)
        \/ \E kind \in {"direct", "relay"} : Receive(t, kind)
        \/ Step(t)
        \/ \E f \in File : FailedWrite(t, f)

JournalSpec == JournalInit /\ [][JournalNext]_journalVars

-----------------------------------------------------------------------------
(* Properties.                                                             *)

\* The lines that are complete in a file.
Lines(f) == ToSet(ValuesOf(file[f], "newline"))

\* What the user is shown survives: a message is in the inbox only if its line is
\* in the file, and an event is announced to a printer only if its line is,
\* whenever the process is killed and whatever fails (persist_received_message and
\* record_event append before they push or send).
ToldIsWritten ==
    /\ ToSet(inbox) \subseteq ToSet(ValuesOf(file["inbox"], "tail"))
    /\ announced \subseteq Lines("events")

\* Event ids name events across runs, as the pages that hold one as since_event_id
\* take for granted: as long as every run was stopped in order, no id is given
\* twice, though the lines of a file need not be in the order of their ids.
IdsNameEvents ==
    clean => \A a, b \in ToSet(events) \cup ToSet(load_json_lines("events")) \cup announced :
                 a.id = b.id => a = b

\* A file that start cannot read has been through one of two accidents: a line that
\* a kill or a failed write cut off, or two tasks that appended at the same time.
\* Long use, the window of events and restarts in between do not damage it.
DamageHasCause ==
    \A f \in File \ broken : (\A t \in Task : ~InLine(t, f)) => readable(file[f])
-----------------------------------------------------------------------------
(***************************************************************************)
(* The inductive invariant behind the safety properties above.             *)
(***************************************************************************)

\* A task that has given an event its id and not yet announced it.
EventInHand(t) ==
    At(t, <<"event_tx", "send">>) \/ \E part \in Part : At(t, <<"events", part>>)

\* When the runtime is down nothing goes on, and when it starts and bids farewell only
\* Main is at work.
NobodyElse ==
    /\ phase = "down" => events = <<>> /\ inbox = <<>> /\ \A t \in Task : Idle(t)
    /\ phase \in {"starting", "farewell"} => \A t \in Task \ {Main} : Idle(t)

\* A step that tells comes after the write of what it tells.
WrittenBefore ==
    \A t \in Task :
        /\ At(t, <<"inbox", "newline">>) \/ At(t, <<"state", "push">>) =>
              job[t].value \in ToSet(ValuesOf(file["inbox"], "tail"))
        /\ At(t, <<"event_tx", "send">>) => job[t].value \in Lines("events")

\* The parts of a file that is not broken: each head follows a newline and is followed by
\* its tail, if by anything.
Sound(s) ==
    \A i \in DOMAIN s :
        /\ s[i].part = "head" =>
               /\ i > 1 => s[i - 1].part = "newline"
               /\ i < Len(s) => s[i + 1] = [s[i] EXCEPT !.part = "tail"]
        /\ s[i].part = "tail" =>
               i > 1 /\ s[i - 1] = [s[i] EXCEPT !.part = "head"]

\* It ends where the task that writes to it is, or with a line that is complete.
EndsWell(f) ==
    LET s == file[f]
    IN  /\ \A t, u \in Task : InLine(t, f) /\ InLine(u, f) => t = u
        /\ (\A t \in Task : ~InLine(t, f)) => s = <<>> \/ Last(s).part = "newline"
        /\ \A t \in Task :
              /\ At(t, <<f, "tail">>) =>
                    s # <<>> /\ Last(s) = [part |-> "head", value |-> job[t].value]
              /\ At(t, <<f, "newline">>) => s # <<>> /\ Last(s).part = "tail"

LinesAreWhole == \A f \in File \ broken : Sound(file[f]) /\ EndsWell(f)

KnownEvents ==
    ToSet(events) \cup ToSet(load_json_lines("events")) \cup announced
        \cup {job[t].value : t \in {u \in Task : EventInHand(u)}}

\* The event that was recorded last has the highest id, and its line is the last one in
\* the file: nothing else is written while "runtime_stopped" is.
LastIsHighest ==
    LET written == load_json_lines("events")
    IN  /\ phase = "farewell" =>
              IF Idle(Main) \/ At(Main, <<"events", "newline">>) \/ At(Main, <<"event_tx", "send">>)
              THEN written # <<>> /\ Last(written).id = next_event_id - 1
              ELSE EventInHand(Main) => job[Main].value.id = next_event_id - 1
        /\ phase = "down" =>
              \A a \in KnownEvents : written # <<>> /\ a.id <= Last(written).id

IdsAreFresh ==
    /\ \A a, b \in KnownEvents : a.id = b.id => a = b
    /\ phase # "down" => \A a \in KnownEvents : a.id < next_event_id
    /\ LastIsHighest

JournalInvariant ==
    /\ TypeOK /\ NobodyElse /\ WrittenBefore /\ ToldIsWritten /\ LinesAreWhole
    /\ clean => IdsAreFresh
=============================================================================
