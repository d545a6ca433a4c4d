------------------------------ MODULE EventFeed ------------------------------
(***************************************************************************)
(* The page in the browser (app.js) that shows the events of a gateway, on *)
(* top of Journal.  It asks for the events after the last one it has shown *)
(* every second and a half, whether or not the last answer has come, and   *)
(* it stays open while the gateway is restarted.                           *)
(***************************************************************************)
EXTENDS Journal

CONSTANT Poll   \* the polls that can be under way at one time

ASSUME FeedAssumption == IsFiniteSet(Task)

VARIABLES
    sinceEventId,   \* the cursor of the page; 0 before the first event (null)
    polls,          \* each poll under way
    shown,          \* history: the events the page has shown
    overlap         \* history: a poll was sent while another was under way

feedVars == <<sinceEventId, polls, shown, overlap>>
vars == <<journalVars, feedVars>>

NoPoll == [at |-> "none", since |-> 0, events |-> <<>>]

FeedTypeOK ==
    /\ TypeOK
    /\ sinceEventId \in Nat
    /\ polls \in [Poll -> [at : {"none", "sent", "answered"}, since : Nat,
                           events : Seq(Value)]]
    /\ shown \subseteq Value
    /\ overlap \in BOOLEAN

Init ==
    /\ JournalInit
    /\ sinceEventId = 0
    /\ polls = [p \in Poll |-> NoPoll]
    /\ shown = {}
    /\ overlap = FALSE

\* Variants: the event of the cursor is answered again; the next one is skipped.
events_from(since) == Selection(events, {i \in DOMAIN events : events[i].id >= since})
events_after_next(since) ==
    Selection(events, {i \in DOMAIN events : events[i].id > since + 1})

\* events_since.  Ids start at 1, so a missing cursor and 0 ask for the same.
events_since(since) == Selection(events, {i \in DOMAIN events : events[i].id > since})

-----------------------------------------------------------------------------
\* poll: the request is sent, with the cursor of this moment.
Ask(p) ==
    /\ polls[p].at = "none"
    /\ polls' = [polls EXCEPT ![p] = [at |-> "sent", since |-> sinceEventId, events |-> <<>>]]
    /\ overlap' = (overlap \/ \E q \in Poll : polls[q].at # "none")
    /\ UNCHANGED <<journalVars, sinceEventId, shown>>

\* The handler of /api/poll; the page is served from the end of start to stop.
Answer(p) ==
    /\ phase \in {"up", "stopping"}
    /\ polls[p].at = "sent"
    /\ polls' = [polls EXCEPT ![p].at = "answered",
                              ![p].events = events_since(polls[p].since)]
    /\ UNCHANGED <<journalVars, sinceEventId, shown, overlap>>

\* Variant: an answer without events moves the cursor back by one, to look again.
ShowAndLookBack(p) ==
    LET answer == polls[p].events
    IN  /\ polls[p].at = "answered"
        /\ shown' = shown \cup ToSet(answer)
        /\ sinceEventId' = IF answer = <<>> THEN sinceEventId - 1 ELSE Last(answer).id
        /\ polls' = [polls EXCEPT ![p] = NoPoll]
        /\ UNCHANGED <<journalVars, overlap>>

\* The rest of poll: each event is shown and becomes the cursor.
Show(p) ==
    LET answer == polls[p].events
    IN  /\ polls[p].at = "answered"
        /\ shown' = shown \cup ToSet(answer)
        /\ sinceEventId' = IF answer = <<>> THEN sinceEventId ELSE Last(answer).id
        /\ polls' = [polls EXCEPT ![p] = NoPoll]
        /\ UNCHANGED <<journalVars, overlap>>

\* fetch fails: the gateway is down, or its answer is lost.  The page logs it.
PollFails(p) ==
    /\ polls[p].at # "none"
    /\ polls' = [polls EXCEPT ![p] = NoPoll]
    /\ UNCHANGED <<journalVars, sinceEventId, shown, overlap>>

Next ==
    \/ JournalNext /\ UNCHANGED feedVars
    \/ \E p \in Poll : Ask(p) \/ Answer(p) \/ Show(p) \/ PollFails(p)

Spec == Init /\ [][Next]_vars

-----------------------------------------------------------------------------
(* Properties.                                                             *)

\* The cursor never passes one of the last MAX_EVENTS events, by its id and by its place
\* in the journal: whatever polls overlap, fail or are answered late, and through every
\* orderly restart, one with an id up to since_event_id has been shown (record_event
\* gives ids and appends to events under one lock).  The two orders differ, as tasks
\* append their lines in any order and start reads the lines as they are: an event among
\* the last by its id alone can have left the memory unseen and come back with the next
\* start.  A kill loses the rest: an id that was shown but not yet written is given again,
\* and no poll asks for its second event.
CursorPassesNothing ==
    clean => \A i \in DOMAIN events :
        (/\ events[i].id <= sinceEventId
         /\ next_event_id - events[i].id <= MAX_EVENTS
         /\ Len(events) - i < MAX_EVENTS) => events[i] \in shown

\* The page shows an event a second time, or moves its cursor back, only if two of
\* its polls were once under way together (setInterval does not wait for poll), or
\* the gateway was killed.
RepeatsNeedOverlap ==
    [][\A p \in Poll :
           (Show(p) /\ clean /\ ~overlap) =>
               /\ ToSet(polls[p].events) \cap shown = {}
               /\ sinceEventId' >= sinceEventId]_vars

-----------------------------------------------------------------------------
(***************************************************************************)
(* The inductive invariant behind the properties of the page, as long as   *)
(* every run was stopped in order.                                         *)
(***************************************************************************)

journal == load_json_lines("events")

\* The tasks with an event that has its id and not yet its line.
Unwritten == {t \in Task : At(t, <<"events", "head">>) \/ At(t, <<"events", "tail">>)}

\* The events that have been given an id, and the id of the next one.
Given == ToSet(journal) \cup {job[t].value : t \in Unwritten}
NextId ==
    CASE phase # "down" -> next_event_id
      [] phase = "down" /\ journal # <<>> -> Last(journal).id + 1
      [] phase = "down" /\ journal = <<>> -> 1

\* Each event is on one line, or in the hand of one task on its way there: so there are
\* as many as ids.
OneLineEach ==
    /\ \A i, j \in DOMAIN journal : journal[i] = journal[j] => i = j
    /\ \A t \in Unwritten : job[t].value \notin ToSet(journal)
    /\ \A t, u \in Unwritten : job[t].value = job[u].value => t = u
    /\ Len(journal) + Cardinality(Unwritten) = NextId - 1
    /\ \A e \in Given : e.run <= run

\* The place in the journal of the i-th event in memory: the events of this run are in the
\* order of their ids, and before them those that were loaded in the order of the lines.
Place(i) == (next_event_id - 1) - (Len(events) - i)
InPlace(i) ==
    \/ events[i].run = run /\ events[i].id = Place(i)
    \/ events[i].run < run /\ Place(i) \in DOMAIN journal /\ journal[Place(i)] = events[i]

MemoryIsInOrder ==
    phase # "down" => /\ ToSet(events) \subseteq Given
                      /\ \A i \in DOMAIN events : InPlace(i)
                      /\ events # <<>> => Last(events).id = next_event_id - 1

\* An event that is not among the last MAX_EVENTS, by its id or by its line.
Old(e) ==
    \/ e.id + MAX_EVENTS < NextId
    \/ e.run < run /\ \E i \in DOMAIN journal : journal[i] = e /\ i + MAX_EVENTS < NextId

OnlyOldForgotten ==
    phase # "down" => \A e \in Given : e \in ToSet(events) \/ Old(e)

\* A cursor that has passed nothing that is not old, if the events in seen were shown.
Passable(id, seen) ==
    id < NextId /\ \A e \in Given : e.id <= id => e \in seen \/ Old(e)

CursorsPassable ==
    /\ Passable(sinceEventId, shown)
    /\ \A p \in Poll : polls[p].at # "none" => Passable(polls[p].since, shown)
    /\ \A p \in Poll :
          LET answer == polls[p].events
          IN  answer # <<>> =>
                 /\ Passable(Last(answer).id, shown \cup ToSet(answer))
                 /\ \A e \in ToSet(answer) : polls[p].since < e.id /\ e.id <= Last(answer).id

OnePollAtATime ==
    ~overlap =>
        /\ \A p, q \in Poll : polls[p].at # "none" /\ polls[q].at # "none" => p = q
        /\ \A p \in Poll : polls[p].at # "none" => polls[p].since = sinceEventId
        /\ \A e \in shown : e.id <= sinceEventId

JournalInOrder == OneLineEach /\ MemoryIsInOrder /\ OnlyOldForgotten

FeedInvariant ==
    /\ JournalInvariant /\ FeedTypeOK
    /\ clean => JournalInOrder /\ CursorsPassable /\ OnePollAtATime
=============================================================================
