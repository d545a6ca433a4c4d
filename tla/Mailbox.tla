------------------------------ MODULE Mailbox ------------------------------
(***************************************************************************)
(* What the hub's relay promises, without queues, roles, flags or time: on *)
(* every session each recipient has one log of accepted envelopes.  A poll *)
(* hands the recipient all that is new in its logs, in order and once.  A  *)
(* session may be closed with envelopes still waiting (its time ran out),  *)
(* together with whatever else happens, or because nothing waits in it;    *)
(* nothing happens on it afterwards.                                       *)
(***************************************************************************)
EXTENDS Sequences

CONSTANTS Peer, Session, Message

VARIABLES
    status,     \* what has become of each session: unused, open or closed
    accepted,   \* what was accepted for each recipient on each session
    handed      \* what was handed to each recipient on each session

vars == <<status, accepted, handed>>

OpenSessions == {s \in Session : status[s] = "open"}

Init ==
    /\ status = [s \in Session |-> "unused"]
    /\ accepted = [p \in Peer |-> [s \in Session |-> <<>>]]
    /\ handed = [p \in Peer |-> [s \in Session |-> <<>>]]

\* The sessions of D close.
Closed(D) == [s \in Session |-> IF s \in D THEN "closed" ELSE status[s]]

\* D runs out of time.
Lapse(D) ==
    /\ D \subseteq OpenSessions
    /\ status' = Closed(D)
    /\ UNCHANGED <<accepted, handed>>

OpenSession(D, s) ==
    /\ D \subseteq OpenSessions
    /\ status[s] = "unused"
    /\ status' = [Closed(D) EXCEPT ![s] = "open"]
    /\ UNCHANGED <<accepted, handed>>

\* Session s takes one envelope, from somebody else and addressed to p.
Accept(D, s, p) ==
    /\ D \subseteq OpenSessions
    /\ s \in OpenSessions \ D
    /\ \E q \in Peer \ {p}, m \in Message :
          accepted' = [accepted EXCEPT ![p][s] = Append(@,
                         [relay_session_id |-> s, from_peer_id |-> q,
                          to_peer_id |-> p, message |-> m])]
    /\ status' = Closed(D)
    /\ UNCHANGED handed

\* All that is new for p on the sessions still open; F closes with it, because
\* nothing waits there for anybody.
Hand(D, p, F) ==
    /\ D \subseteq OpenSessions
    /\ F \subseteq OpenSessions \ D
    /\ handed' = [handed EXCEPT ![p] =
                    [s \in Session |-> IF s \in OpenSessions \ D
                                       THEN accepted[p][s] ELSE @[s]]]
    /\ \A s \in F, q \in Peer : handed'[q][s] = accepted[q][s]
    /\ status' = Closed(D \cup F)
    /\ UNCHANGED accepted

Next ==
    \E D \in SUBSET Session :
        \/ Lapse(D)
        \/ \E s \in Session : OpenSession(D, s)
        \/ \E s \in Session, p \in Peer : Accept(D, s, p)
        \/ \E p \in Peer, F \in SUBSET Session : Hand(D, p, F)

Spec == Init /\ [][Next]_vars
=============================================================================
