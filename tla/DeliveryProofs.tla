--------------------------- MODULE DeliveryProofs ---------------------------
(***************************************************************************)
(* Theorems about Delivery: for any gateways, in any modes, any of which   *)
(* may be killed, any number of calls and sessions, and any requests and   *)
(* answers lost or late.  One invariant carries them: each call has a      *)
(* relay session of its own, what was posted or sent once is not posted or *)
(* sent again, and an envelope leaves one place only for another.          *)
(***************************************************************************)
EXTENDS Delivery, SequenceTheorems, FiniteSetTheorems, TLAPS

-----------------------------------------------------------------------------
(***************************************************************************)
(* Facts about the helpers of Delivery.                                    *)
(***************************************************************************)

LEMMA CallPeers ==
    \A m \in Message : Sender[m] \in Peer /\ Recipient(m) \in Peer /\ Recipient(m) # Sender[m]
BY DeliveryAssumption DEF Recipient

\* TypeOK but for the bound on the counters.
Shape ==
    /\ status \in [Session -> {"unused", "open", "closed"}]
    /\ accepted \in [Peer -> [Session -> Seq(Envelope)]]
    /\ handed \in [Peer -> [Session -> Seq(Envelope)]]
    /\ running \subseteq Peer
    /\ step \in [Message -> Steps]
    /\ session \in [Message -> Session \cup {NoSession}]
    /\ posts \cup sends \cup given_up \subseteq Message
    /\ inbox \in [Peer -> Seq(Entry)]
    /\ batch \in [Peer -> Seq(Envelope)]
    /\ counts \in [Peer -> [Counter -> Nat]]
    /\ lost \subseteq Envelope

LEMMA EnvelopeOfType ==
    ASSUME Shape, NEW m \in Message, session[m] # NoSession
    PROVE  EnvelopeOf(m) \in Envelope /\ session[m] \in Session
BY CallPeers DEF Shape, EnvelopeOf, Envelope

LEMMA EnvelopesDiffer ==
    \A m, n \in Message : EnvelopeOf(m) = EnvelopeOf(n) => m = n
BY DEF EnvelopeOf

\* Without sessions to close the relay's statuses stay.
LEMMA NothingCloses ==
    ASSUME Shape
    PROVE  /\ Relay!Closed({}) = status
           /\ Relay!Closed({} \cup {}) = status
BY DEF Shape, Relay!Closed

LEMMA HandAll ==
    ASSUME Shape, NEW p \in Peer, Relay!Hand({}, p, {})
    PROVE  /\ status' = status /\ accepted' = accepted
           /\ handed' = [handed EXCEPT ![p] =
                           [s \in Session |-> IF status[s] = "open" THEN accepted[p][s]
                                              ELSE handed[p][s]]]
<1>1. \A s \in Session : s \in Relay!OpenSessions \ {} <=> status[s] = "open"
  BY DEF Relay!OpenSessions
<1>2. /\ status' = Relay!Closed({} \cup {}) /\ accepted' = accepted
      /\ handed' = [handed EXCEPT ![p] =
                      [s \in Session |-> IF s \in Relay!OpenSessions \ {}
                                         THEN accepted[p][s] ELSE handed[p][s]]]
  BY DEF Relay!Hand, Shape
<1> QED
  BY <1>1, <1>2, NothingCloses

LEMMA Opened ==
    ASSUME Shape, NEW s \in Session, Relay!OpenSession({}, s)
    PROVE  /\ status[s] = "unused" /\ status' = [status EXCEPT ![s] = "open"]
           /\ UNCHANGED <<accepted, handed>>
BY NothingCloses DEF Relay!OpenSession

LEMMA LapsedStatus ==
    ASSUME Shape, NEW s \in Session, Lapse(s)
    PROVE  /\ status[s] = "open" /\ status' = [status EXCEPT ![s] = "closed"]
           /\ UNCHANGED <<accepted, handed>>
<1>1. Relay!Closed({s}) = [status EXCEPT ![s] = "closed"]
  BY DEF Relay!Closed, Shape
<1> QED
  BY <1>1 DEF Lapse, Relay!Lapse, Relay!OpenSessions

\* The envelope that is accepted is that of the call.
LEMMA AcceptedEnvelope ==
    ASSUME Shape, SendsAreNew, NEW m \in Message, RelaySendAccepted(m)
    PROVE  /\ session[m] \in Session /\ EnvelopeOf(m) \in Envelope
           /\ status[session[m]] = "open" /\ UNCHANGED <<status, handed>>
           /\ accepted' = [accepted EXCEPT ![Recipient(m)][session[m]] =
                             Append(@, EnvelopeOf(m))]
<1>1. session[m] \in Session /\ EnvelopeOf(m) \in Envelope
  BY EnvelopeOfType DEF RelaySendAccepted, SendsAreNew
<1>2. Relay!Accept({}, session[m], Recipient(m)) /\ Recipient(m) \in Peer
  BY CallPeers DEF RelaySendAccepted
<1>3. PICK q \in Peer, n \in Message :
        accepted' = [accepted EXCEPT ![Recipient(m)][session[m]] = Append(@,
                       [relay_session_id |-> session[m], from_peer_id |-> q,
                        to_peer_id |-> Recipient(m), message |-> n])]
  BY <1>2 DEF Relay!Accept
<1> DEFINE e == [relay_session_id |-> session[m], from_peer_id |-> q,
                 to_peer_id |-> Recipient(m), message |-> n]
           log == accepted[Recipient(m)][session[m]]
<1>4. e \in Envelope /\ log \in Seq(Envelope)
  <2>1. e \in Envelope
    BY <1>1, <1>2, ZenonT(30) DEF Envelope
  <2>2. log \in Seq(Envelope)
    BY <1>1, <1>2 DEF Shape
  <2> QED
    BY <2>1, <2>2
<1>5. accepted'[Recipient(m)][session[m]] = Append(log, e)
  BY <1>1, <1>2, <1>3 DEF Shape
<1> HIDE DEF e, log
<1>6. Last(Append(log, e)) = e
  BY <1>4 DEF Last
<1>7. Last(accepted'[Recipient(m)][session[m]]) = EnvelopeOf(m)
  BY DEF RelaySendAccepted, EnvelopeOf
<1>8. e = EnvelopeOf(m)
  BY <1>5, <1>6, <1>7
<1> QED
  BY <1>1, <1>2, <1>3, <1>8, NothingCloses DEF e, Relay!Accept, Relay!OpenSessions

-----------------------------------------------------------------------------
(***************************************************************************)
(* What a step does to the places an envelope can be at.                   *)
(***************************************************************************)

\* What is stored for a gateway is one entry more in its inbox.
LEMMA StoredAfter ==
    ASSUME Shape, NEW p \in Peer, NEW n \in Message,
           NEW how \in {DELIVERY_MODE_DIRECT_TCP, DELIVERY_MODE_RELAY},
           persist_received_message(p, n, how)
    PROVE  /\ inbox' \in [Peer -> Seq(Entry)]
           /\ \A m \in Message : \A d \in {DELIVERY_MODE_DIRECT_TCP, DELIVERY_MODE_RELAY} :
                 /\ Stored(m, d)' <=> Stored(m, d) \/ (m = n /\ d = how)
                 /\ \A q \in Peer : StoredAt(q, m, d)' <=>
                       StoredAt(q, m, d) \/ (q = p /\ m = n /\ d = how)
           /\ ~Stored(n, how) => \A q \in Peer :
                 (\A i, j \in DOMAIN inbox[q] : inbox[q][i] = inbox[q][j] => i = j) =>
                   \A i, j \in DOMAIN inbox'[q] : inbox'[q][i] = inbox'[q][j] => i = j
<1> DEFINE x == [message |-> n, via |-> how]
<1>1. x \in Entry
  BY DEF Entry
<1>2. inbox \in [Peer -> Seq(Entry)]
  BY DEF Shape
<1>3. inbox' = [inbox EXCEPT ![p] = Append(@, x)]
  BY DEF persist_received_message
<1> HIDE DEF x
<1>4. /\ inbox' \in [Peer -> Seq(Entry)]
      /\ inbox'[p] = Append(inbox[p], x)
      /\ \A q \in Peer \ {p} : inbox'[q] = inbox[q]
  BY <1>1, <1>2, <1>3
<1>5. /\ DOMAIN inbox'[p] = DOMAIN inbox[p] \cup {Len(inbox[p]) + 1}
      /\ Len(inbox[p]) + 1 \notin DOMAIN inbox[p]
      /\ inbox'[p][Len(inbox[p]) + 1] = x
      /\ \A i \in DOMAIN inbox[p] : inbox'[p][i] = inbox[p][i]
  BY <1>1, <1>2, <1>4
<1>6. ASSUME NEW m \in Message,
             NEW d \in {DELIVERY_MODE_DIRECT_TCP, DELIVERY_MODE_RELAY}
      PROVE  /\ Stored(m, d)' <=> Stored(m, d) \/ (m = n /\ d = how)
             /\ \A q \in Peer : StoredAt(q, m, d)' <=>
                   StoredAt(q, m, d) \/ (q = p /\ m = n /\ d = how)
  <2>1. [message |-> m, via |-> d] = x <=> m = n /\ d = how
    BY DEF x
  <2>2. ASSUME NEW q \in Peer
        PROVE  StoredAt(q, m, d)' <=> StoredAt(q, m, d) \/ (q = p /\ m = n /\ d = how)
    <3>1. /\ StoredAt(q, m, d) <=> \E i \in DOMAIN inbox[q] :
                                     inbox[q][i] = [message |-> m, via |-> d]
          /\ StoredAt(q, m, d)' <=> \E i \in DOMAIN inbox'[q] :
                                      inbox'[q][i] = [message |-> m, via |-> d]
      BY DEF StoredAt, CopiesAt
    <3>2. CASE q # p
      BY <1>4, <3>1, <3>2
    <3>3. CASE q = p
      BY <1>5, <2>1, <3>1, <3>3
    <3> QED
      BY <3>2, <3>3
  <2> QED
    BY <2>2 DEF Stored
<1>7. ASSUME ~Stored(n, how), NEW q \in Peer,
             \A i, j \in DOMAIN inbox[q] : inbox[q][i] = inbox[q][j] => i = j
      PROVE  \A i, j \in DOMAIN inbox'[q] : inbox'[q][i] = inbox'[q][j] => i = j
  <2>1. CASE q # p
    BY <1>4, <1>7, <2>1
  <2>2. CASE q = p
    <3>1. \A i \in DOMAIN inbox[p] : inbox[p][i] # x
      BY <1>7 DEF Stored, StoredAt, CopiesAt, x
    <3> QED
      BY <1>5, <1>7, <2>2, <3>1
  <2> QED
    BY <2>1, <2>2
<1> QED
  BY <1>4, <1>6, <1>7

\* What still waits on a session is its one envelope, if it was not handed out.
LEMMA WaitingIsOne ==
    ASSUME Shape, SessionsAreOwn, OneEnvelopePerSession,
           NEW p \in Peer, NEW s \in Session, NEW e
    PROVE  e \in ToSet(Waiting(p, s)) <=>
             \E m \in Message : /\ session[m] = s /\ Recipient(m) = p /\ e = EnvelopeOf(m)
                                /\ Relayed(m) /\ handed[p][s] = <<>>
<1> DEFINE log == accepted[p][s]
           out == handed[p][s]
<1>1. log \in Seq(Envelope) /\ out \in Seq(Envelope) /\ out \in {<<>>, log}
  BY DEF Shape, OneEnvelopePerSession
<1>2. CASE log = <<>>
  <2>1. Waiting(p, s) = SubSeq(<<>>, 1, 0)
    BY <1>1, <1>2 DEF Waiting
  <2>2. ToSet(Waiting(p, s)) = {}
    BY <2>1, SubSeqEmpty DEF ToSet
  <2> QED
    BY <1>2, <2>2 DEF Relayed
<1>3. ASSUME NEW n \in Message, session[n] = s, Recipient(n) = p, log = <<EnvelopeOf(n)>>
      PROVE  e \in ToSet(Waiting(p, s)) <=>
               \E m \in Message : /\ session[m] = s /\ Recipient(m) = p /\ e = EnvelopeOf(m)
                                  /\ Relayed(m) /\ handed[p][s] = <<>>
  <2> NoSession \notin Session
    BY DeliveryAssumption
  <2>1. Relayed(n) /\ Len(log) = 1 /\ log[1] = EnvelopeOf(n)
    BY <1>3 DEF Relayed
  <2>2. CASE out = <<>>
    <3>1. Waiting(p, s) = SubSeq(log, 1, 1)
      BY <2>1, <2>2 DEF Waiting
    <3>2. SubSeq(log, 1, 1) = log
      BY <1>1, <2>1, SubSeqFull
    <3>3. ToSet(Waiting(p, s)) = {EnvelopeOf(n)}
      BY <2>1, <3>1, <3>2 DEF ToSet
    <3>4. \A m \in Message : session[m] = s => m = n
      BY <1>3 DEF SessionsAreOwn
    <3> QED
      BY <1>3, <2>1, <2>2, <3>3, <3>4
  <2>3. CASE out = log
    <3>1. Waiting(p, s) = SubSeq(log, 2, 1)
      BY <2>1, <2>3 DEF Waiting
    <3>2. ToSet(Waiting(p, s)) = {}
      BY <3>1, SubSeqEmpty DEF ToSet
    <3> QED
      BY <2>1, <2>3, <3>2
  <2> QED
    BY <1>1, <2>2, <2>3
<1> QED
  BY <1>2, <1>3 DEF OneEnvelopePerSession

\* A poll is answered with the envelopes that wait for the gateway at the hub.
LEMMA NewIsWaiting ==
    ASSUME Shape, SessionsAreOwn, OneEnvelopePerSession, NEW p \in Peer
    PROVE  \A e : e \in New(p) <=> \E m \in Message :
                     Recipient(m) = p /\ WaitsAtHub(m) /\ e = EnvelopeOf(m)
<1> SUFFICES ASSUME NEW e
             PROVE  e \in New(p) <=> \E m \in Message :
                       Recipient(m) = p /\ WaitsAtHub(m) /\ e = EnvelopeOf(m)
  OBVIOUS
<1>1. e \in New(p) <=> \E s \in Session : status[s] = "open" /\ e \in ToSet(Waiting(p, s))
  BY DEF New, Relay!OpenSessions
<1>2. \A s \in Session : e \in ToSet(Waiting(p, s)) <=>
         \E m \in Message : /\ session[m] = s /\ Recipient(m) = p /\ e = EnvelopeOf(m)
                            /\ Relayed(m) /\ handed[p][s] = <<>>
  BY WaitingIsOne
<1>3. \A m \in Message : Relayed(m) => session[m] \in Session
  BY DEF Relayed, Shape
<1> QED
  BY <1>1, <1>2, <1>3 DEF WaitsAtHub

LEMMA NewIsFinite ==
    ASSUME Shape, SessionsAreOwn, OneEnvelopePerSession, SendsAreNew, IsFiniteSet(Begun),
           NEW p \in Peer
    PROVE  IsFiniteSet(New(p))
<1> DEFINE B == {m \in Begun : Recipient(m) = p /\ WaitsAtHub(m)}
           f == [m \in B |-> EnvelopeOf(m)]
<1>1. IsFiniteSet(B)
  BY FS_Subset
<1>2. \A m \in Message : WaitsAtHub(m) => m \in Begun
  BY DEF WaitsAtHub, SendsAreNew, Begun
<1>3. \A e : e \in New(p) <=> \E m \in B : e = EnvelopeOf(m)
  BY <1>2, NewIsWaiting DEF Begun
<1>4. f \in Surjection(B, New(p))
  <2>1. f \in [B -> New(p)]
    BY <1>3
  <2>2. \A e \in New(p) : \E m \in B : f[m] = e
    BY <1>3
  <2> HIDE DEF f, B
  <2> QED
    BY <2>1, <2>2 DEF Surjection
<1> HIDE DEF f, B
<1> QED
  BY <1>1, <1>4, FS_Surjection

\* Each element once.
LEMMA OrderOf ==
    ASSUME NEW S, IsFiniteSet(S), NEW q \in Orders(S)
    PROVE  /\ q \in Seq(S) /\ ToSet(q) = S
           /\ \A i, j \in DOMAIN q : q[i] = q[j] => i = j
<1> DEFINE n == Cardinality(S)
<1>1. n \in Nat
  BY FS_CardinalityType
<1>2. q \in [1..n -> S] /\ ToSet(q) = S
  BY DEF Orders
<1>3. IsFiniteSet(1..n) /\ Cardinality(1..n) = n
  BY <1>1, FS_Interval
<1>4. q \in Surjection(1..n, S)
  BY <1>2 DEF Surjection, ToSet
<1> HIDE DEF n
<1>5. q \in Injection(1..n, S)
  BY <1>3, <1>4, FS_SurjSameCardinalityImpliesInj DEF n
<1>6. \A i, j \in 1..n : q[i] = q[j] => i = j
  BY <1>5 DEF Injection, IsInjective
<1> QED
  BY <1>1, <1>2, <1>6

-----------------------------------------------------------------------------
\* The inductive invariant, but for what follows from its parts.
Parts ==
    /\ Shape
    /\ SessionsAreOwn /\ OneEnvelopePerSession
    /\ SendsAreNew /\ PostsAreNew /\ ModesAreKept
    /\ EnvelopesAreAccepted /\ NothingTwice /\ StoredWhere /\ OnePlace
    /\ CountersTally

LEMMA NothingMoves ==
    /\ UNCHANGED <<relayVars, session>> => \A m \in Message :
          /\ EnvelopeOf(m)' = EnvelopeOf(m)
          /\ Relayed(m)' <=> Relayed(m)
          /\ WaitsAtHub(m)' <=> WaitsAtHub(m)
    /\ UNCHANGED inbox => \A m \in Message : \A how :
          /\ Stored(m, how)' <=> Stored(m, how)
          /\ \A q \in Peer : StoredAt(q, m, how)' <=> StoredAt(q, m, how)
    /\ UNCHANGED <<session, batch>> => \A m \in Message : InBatch(m)' <=> InBatch(m)
<1>1. UNCHANGED <<relayVars, session>> => \A m \in Message :
          /\ EnvelopeOf(m)' = EnvelopeOf(m)
          /\ Relayed(m)' <=> Relayed(m)
          /\ WaitsAtHub(m)' <=> WaitsAtHub(m)
  BY DEF relayVars, EnvelopeOf, Relayed, WaitsAtHub, Recipient
<1>2. UNCHANGED inbox => \A m \in Message : \A how :
          /\ Stored(m, how)' <=> Stored(m, how)
          /\ \A q \in Peer : StoredAt(q, m, how)' <=> StoredAt(q, m, how)
  BY DEF Stored, StoredAt, CopiesAt
<1>3. UNCHANGED <<session, batch>> => \A m \in Message : InBatch(m)' <=> InBatch(m)
  BY DEF InBatch, EnvelopeOf, Recipient
<1> QED
  BY <1>1, <1>2, <1>3

\* A session that is opened was nobody's, and nothing was ever accepted on it.
LEMMA OpenedIsFresh ==
    ASSUME Parts, NEW s \in Session, Relay!OpenSession({}, s)
    PROVE  /\ \A m \in Message : session[m] # s
           /\ \A p \in Peer : accepted[p][s] = <<>>
<1>1. status[s] = "unused"
  BY Opened DEF Parts
<1>2. \A m \in Message : session[m] # s
  BY <1>1, DeliveryAssumption DEF Parts, SessionsAreOwn
<1> QED
  BY <1>2 DEF Parts, OneEnvelopePerSession

LEMMA ConnectMoves ==
    ASSUME Parts, NEW n \in Message, NEW s \in Session, ConnectRelay(n, s)
    PROVE  /\ session[n] = NoSession /\ session' = [session EXCEPT ![n] = s]
           /\ ~Relayed(n) /\ ~Relayed(n)'
           /\ \A m \in Message \ {n} :
                /\ session'[m] = session[m]
                /\ EnvelopeOf(m)' = EnvelopeOf(m)
                /\ Relayed(m)' <=> Relayed(m)
                /\ WaitsAtHub(m)' <=> WaitsAtHub(m)
                /\ InBatch(m)' <=> InBatch(m)
           /\ \A m \in Message : \A how : Stored(m, how)' <=> Stored(m, how)
<1> USE CallPeers
<1>1. Relay!OpenSession({}, s) /\ session' = [session EXCEPT ![n] = s] /\ UNCHANGED <<batch, inbox>>
  BY DEF ConnectRelay
<1>2. /\ status[s] = "unused" /\ status' = [status EXCEPT ![s] = "open"]
      /\ UNCHANGED <<accepted, handed>>
  BY <1>1, Opened DEF Parts
<1>3. session[n] = NoSession
  BY DEF ConnectRelay, Parts, SessionsAreOwn
<1>4. session \in [Message -> Session \cup {NoSession}] /\ status \in [Session -> {"unused", "open", "closed"}]
  BY DEF Parts, Shape
<1>5. ~Relayed(n) /\ ~Relayed(n)'
  <2>1. session'[n] = s /\ accepted'[Recipient(n)][s] = <<>>
    BY <1>1, <1>2, <1>4, OpenedIsFresh
  <2> QED
    BY <1>3, <2>1 DEF Relayed, Recipient
<1>6. ASSUME NEW m \in Message \ {n}
      PROVE  /\ session'[m] = session[m]
             /\ EnvelopeOf(m)' = EnvelopeOf(m)
             /\ Relayed(m)' <=> Relayed(m)
             /\ WaitsAtHub(m)' <=> WaitsAtHub(m)
             /\ InBatch(m)' <=> InBatch(m)
  <2>1. session'[m] = session[m]
    BY <1>1, <1>4
  <2>2. EnvelopeOf(m)' = EnvelopeOf(m)
    BY <2>1 DEF EnvelopeOf, Recipient
  <2>3. Relayed(m)' <=> Relayed(m)
    BY <1>2, <2>1 DEF Relayed, Recipient
  <2>4. Relayed(m) => session[m] \in Session /\ session[m] # s
    BY <1>1, <1>4, OpenedIsFresh DEF Relayed
  <2>5. Relayed(m) => status'[session[m]] = status[session[m]]
    BY <1>2, <1>4, <2>4
  <2>6. WaitsAtHub(m)' <=> WaitsAtHub(m)
    BY <1>2, <2>1, <2>3, <2>5 DEF WaitsAtHub, Recipient
  <2>7. InBatch(m)' <=> InBatch(m)
    BY <1>1, <2>2 DEF InBatch, Recipient
  <2> QED
    BY <2>1, <2>2, <2>3, <2>6, <2>7
<1> QED
  BY <1>1, <1>3, <1>5, <1>6, NothingMoves

\* A session nobody will use.
LEMMA LostConnectMoves ==
    ASSUME Parts, NEW n \in Message, NEW s \in Session, ConnectAnswerLost(n, s)
    PROVE  \A m \in Message :
              /\ EnvelopeOf(m)' = EnvelopeOf(m)
              /\ Relayed(m)' <=> Relayed(m)
              /\ WaitsAtHub(m)' <=> WaitsAtHub(m)
              /\ InBatch(m)' <=> InBatch(m)
              /\ \A how : Stored(m, how)' <=> Stored(m, how)
<1>1. Relay!OpenSession({}, s) /\ UNCHANGED <<session, batch, inbox>>
  BY DEF ConnectAnswerLost
<1>2. /\ status[s] = "unused" /\ status' = [status EXCEPT ![s] = "open"]
      /\ UNCHANGED <<accepted, handed>>
  BY <1>1, Opened DEF Parts
<1>3. session \in [Message -> Session \cup {NoSession}] /\ status \in [Session -> {"unused", "open", "closed"}]
  BY DEF Parts, Shape
<1> SUFFICES ASSUME NEW m \in Message
             PROVE  /\ EnvelopeOf(m)' = EnvelopeOf(m)
                    /\ Relayed(m)' <=> Relayed(m)
                    /\ WaitsAtHub(m)' <=> WaitsAtHub(m)
  BY <1>1, NothingMoves
<1>4. EnvelopeOf(m)' = EnvelopeOf(m) /\ (Relayed(m)' <=> Relayed(m))
  BY <1>1, <1>2 DEF EnvelopeOf, Relayed, Recipient
<1>5. Relayed(m) => session[m] \in Session /\ session[m] # s
  BY <1>1, <1>3, OpenedIsFresh DEF Relayed
<1>6. Relayed(m) => status'[session[m]] = status[session[m]]
  BY <1>2, <1>3, <1>5
<1> QED
  BY <1>1, <1>2, <1>4, <1>6 DEF WaitsAtHub, Recipient

LEMMA AcceptMoves ==
    ASSUME Parts, NEW n \in Message, RelaySendAccepted(n)
    PROVE  /\ session[n] \in Session /\ ~Relayed(n)
           /\ accepted[Recipient(n)][session[n]] = <<>>
           /\ accepted' = [accepted EXCEPT ![Recipient(n)][session[n]] = <<EnvelopeOf(n)>>]
           /\ UNCHANGED <<status, handed>>
           /\ \A m \in Message :
                 /\ EnvelopeOf(m)' = EnvelopeOf(m)
                 /\ Relayed(m)' <=> Relayed(m) \/ m = n
                 /\ WaitsAtHub(m)' <=> WaitsAtHub(m) \/ m = n
                 /\ InBatch(m)' <=> InBatch(m)
                 /\ \A how : Stored(m, how)' <=> Stored(m, how)
<1> DEFINE r == Recipient(n)
           z == session[n]
<1>1. /\ z \in Session /\ status[z] = "open" /\ EnvelopeOf(n) \in Envelope
      /\ UNCHANGED <<status, handed>>
      /\ accepted' = [accepted EXCEPT ![r][z] = Append(@, EnvelopeOf(n))]
  BY AcceptedEnvelope DEF Parts
<1>2. n \in sends /\ UNCHANGED <<session, batch, inbox>>
  BY DEF RelaySendAccepted
<1>3. z # NoSession /\ ~Relayed(n) /\ accepted[r][z] = <<>>
  BY <1>1, <1>2, DeliveryAssumption DEF Parts, SendsAreNew, Relayed
<1>4. /\ accepted \in [Peer -> [Session -> Seq(Envelope)]]
      /\ r \in Peer
      /\ \A m \in Message : Recipient(m) \in Peer /\ session[m] \in Session \cup {NoSession}
  BY CallPeers DEF Parts, Shape
<1>5. accepted' = [accepted EXCEPT ![r][z] = <<EnvelopeOf(n)>>]
  BY <1>1, <1>3, <1>4
<1>6. handed[r][z] = <<>>
  BY <1>1, <1>3, <1>4 DEF Parts, OneEnvelopePerSession
<1>7. ASSUME NEW m \in Message
      PROVE  /\ Relayed(m)' <=> Relayed(m) \/ m = n
             /\ WaitsAtHub(m)' <=> WaitsAtHub(m) \/ m = n
  <2>1. session'[m] = session[m] /\ (m = n => session[m] = z /\ Recipient(m) = r)
    BY <1>2
  <2>2. m # n /\ session[m] # NoSession => session[m] # z
    BY DEF Parts, SessionsAreOwn
  <2>3. m # n /\ session[m] # NoSession =>
          accepted'[Recipient(m)][session[m]] = accepted[Recipient(m)][session[m]]
    BY <1>1, <1>4, <1>5, <2>2
  <2>4. accepted'[r][z] # <<>>
    <3> DEFINE one == <<EnvelopeOf(n)>>
    <3>1. one # <<>> /\ accepted' = [accepted EXCEPT ![r][z] = one]
      BY <1>5
    <3>2. r \in DOMAIN accepted /\ z \in DOMAIN accepted[r]
      BY <1>1, <1>4
    <3> HIDE DEF one, r, z
    <3> QED
      BY <3>1, <3>2
  <2>5. Relayed(m)' <=> Relayed(m) \/ m = n
    <3>1. Relayed(m)' <=> session[m] # NoSession /\ accepted'[Recipient(m)][session[m]] # <<>>
      BY <2>1 DEF Relayed, Recipient
    <3>2. CASE m = n
      BY <1>3, <2>4, <3>1, <3>2
    <3>3. CASE m # n
      BY <2>3, <3>1, <3>3 DEF Relayed
    <3> QED
      BY <3>2, <3>3
  <2>6. WaitsAtHub(m)' <=> Relayed(m)' /\ status[session[m]] = "open"
                             /\ handed[Recipient(m)][session[m]] = <<>>
    BY <1>1, <2>1 DEF WaitsAtHub, Recipient
  <2> QED
    BY <1>1, <1>6, <2>1, <2>5, <2>6 DEF WaitsAtHub
<1> QED
  BY <1>1, <1>2, <1>3, <1>5, <1>7, NothingMoves DEF EnvelopeOf, Recipient

\* What waits for the gateway that polls leaves the hub.
LEMMA HandMoves ==
    ASSUME Parts, NEW p \in Peer, Relay!Hand({}, p, {}), UNCHANGED session
    PROVE  \A m \in Message :
              /\ EnvelopeOf(m)' = EnvelopeOf(m)
              /\ Relayed(m)' <=> Relayed(m)
              /\ WaitsAtHub(m)' <=> WaitsAtHub(m) /\ Recipient(m) # p
<1>1. /\ status' = status /\ accepted' = accepted
      /\ handed' = [handed EXCEPT ![p] =
                      [s \in Session |-> IF status[s] = "open" THEN accepted[p][s]
                                         ELSE handed[p][s]]]
  BY HandAll DEF Parts
<1> SUFFICES ASSUME NEW m \in Message
             PROVE  /\ EnvelopeOf(m)' = EnvelopeOf(m)
                    /\ Relayed(m)' <=> Relayed(m)
                    /\ WaitsAtHub(m)' <=> WaitsAtHub(m) /\ Recipient(m) # p
  OBVIOUS
<1>2. EnvelopeOf(m)' = EnvelopeOf(m) /\ (Relayed(m)' <=> Relayed(m))
  BY <1>1 DEF EnvelopeOf, Relayed, Recipient
<1>3. handed \in [Peer -> [Session -> Seq(Envelope)]] /\ Recipient(m) \in Peer
  BY CallPeers DEF Parts, Shape
<1>4. Relayed(m) => session[m] \in Session
  BY DEF Parts, Shape, Relayed
<1>5. WaitsAtHub(m)' <=> /\ Relayed(m) /\ status[session[m]] = "open"
                         /\ handed'[Recipient(m)][session[m]] = <<>>
  BY <1>1, <1>2 DEF WaitsAtHub, Recipient
<1>6. CASE Recipient(m) # p
  <2>1. handed'[Recipient(m)] = handed[Recipient(m)]
    BY <1>1, <1>3, <1>6
  <2> QED
    BY <1>2, <1>5, <1>6, <2>1 DEF WaitsAtHub
<1>7. CASE Recipient(m) = p
  <2>1. Relayed(m) /\ status[session[m]] = "open" =>
          handed'[p][session[m]] = accepted[p][session[m]]
    BY <1>1, <1>3, <1>4
  <2> QED
    BY <1>2, <1>5, <1>7, <2>1 DEF Relayed
<1> QED
  BY <1>6, <1>7

\* A poll's answer is what waited, once each.
LEMMA PollMoves ==
    ASSUME Parts, NEW p \in Peer, Poll(p)
    PROVE  /\ batch' \in [Peer -> Seq(Envelope)]
           /\ \A q \in Peer \ {p} : batch'[q] = batch[q]
           /\ batch[p] = <<>>
           /\ \A i, j \in DOMAIN batch'[p] : batch'[p][i] = batch'[p][j] => i = j
           /\ \A i \in DOMAIN batch'[p] : \E m \in Message :
                 Recipient(m) = p /\ WaitsAtHub(m) /\ batch'[p][i] = EnvelopeOf(m)
           /\ \A m \in Message :
                 InBatch(m)' <=> InBatch(m) \/ (WaitsAtHub(m) /\ Recipient(m) = p)
<1>1. PICK q \in Orders(New(p)) : batch' = [batch EXCEPT ![p] = q]
  BY DEF Poll
<1>2. IsFiniteSet(New(p))
  BY NewIsFinite DEF Parts, CountersTally
<1>3. /\ q \in Seq(New(p)) /\ ToSet(q) = New(p)
      /\ \A i, j \in DOMAIN q : q[i] = q[j] => i = j
  BY <1>2, OrderOf
<1>4. \A e : e \in New(p) <=> \E m \in Message :
                Recipient(m) = p /\ WaitsAtHub(m) /\ e = EnvelopeOf(m)
  BY NewIsWaiting DEF Parts
<1>5. New(p) \subseteq Envelope
  BY <1>4, EnvelopeOfType DEF WaitsAtHub, Relayed, Parts
<1>6. q \in Seq(Envelope)
  BY <1>3, <1>5, SeqMonotonic
<1>7. batch \in [Peer -> Seq(Envelope)]
  BY DEF Parts, Shape
<1>8. /\ batch' \in [Peer -> Seq(Envelope)]
      /\ \A r \in Peer \ {p} : batch'[r] = batch[r]
      /\ batch'[p] = q
  BY <1>1, <1>6, <1>7
<1>9. \A i \in DOMAIN q : q[i] \in New(p)
  BY <1>3 DEF ToSet
<1>10. ASSUME NEW m \in Message
       PROVE  InBatch(m)' <=> InBatch(m) \/ (WaitsAtHub(m) /\ Recipient(m) = p)
  <2>1. Recipient(m) \in Peer /\ batch[p] = <<>> /\ UNCHANGED session
    BY CallPeers DEF Poll, callVars
  <2>2. InBatch(m)' <=> EnvelopeOf(m) \in ToSet(batch'[Recipient(m)])
    BY <2>1 DEF InBatch, EnvelopeOf, Recipient
  <2>3. CASE Recipient(m) # p
    <3>1. InBatch(m) <=> EnvelopeOf(m) \in ToSet(batch[Recipient(m)])
      BY DEF InBatch
    <3> QED
      BY <1>8, <2>1, <2>2, <2>3, <3>1
  <2>4. CASE Recipient(m) = p
    <3>1. InBatch(m)' <=> EnvelopeOf(m) \in New(p)
      BY <1>3, <1>8, <2>2, <2>4
    <3>2. EnvelopeOf(m) \in New(p) <=> WaitsAtHub(m)
      BY <1>4, <2>4, EnvelopesDiffer
    <3>3. ~InBatch(m)
      BY <2>1, <2>4 DEF InBatch, ToSet
    <3> QED
      BY <2>4, <3>1, <3>2, <3>3
  <2> QED
    BY <2>3, <2>4
<1>11. batch[p] = <<>>
  BY DEF Poll
<1> QED
  BY <1>3, <1>4, <1>8, <1>9, <1>10, <1>11

\* A session that lapses takes along what waits on it.
LEMMA LapseMoves ==
    ASSUME Parts, NEW s \in Session, Lapse(s)
    PROVE  /\ \A m \in Message :
                 /\ EnvelopeOf(m)' = EnvelopeOf(m)
                 /\ Relayed(m)' <=> Relayed(m)
                 /\ WaitsAtHub(m)' <=> WaitsAtHub(m) /\ session[m] # s
           /\ \A e : e \in lost' <=> e \in lost \/ \E m \in Message :
                 session[m] = s /\ WaitsAtHub(m) /\ e = EnvelopeOf(m)
<1>1. /\ status[s] = "open" /\ status' = [status EXCEPT ![s] = "closed"]
      /\ UNCHANGED <<accepted, handed>>
  BY LapsedStatus DEF Parts
<1>2. UNCHANGED session
  BY DEF Lapse, callVars
<1>3. ASSUME NEW m \in Message
      PROVE  /\ EnvelopeOf(m)' = EnvelopeOf(m)
             /\ Relayed(m)' <=> Relayed(m)
             /\ WaitsAtHub(m)' <=> WaitsAtHub(m) /\ session[m] # s
  <2>1. EnvelopeOf(m)' = EnvelopeOf(m) /\ (Relayed(m)' <=> Relayed(m))
    BY <1>1, <1>2 DEF EnvelopeOf, Relayed, Recipient
  <2>2. Relayed(m) => session[m] \in Session
    BY DEF Parts, Shape, Relayed
  <2>3. status \in [Session -> {"unused", "open", "closed"}]
    BY DEF Parts, Shape
  <2>4. Relayed(m) => (status'[session[m]] = "open" <=>
                         status[session[m]] = "open" /\ session[m] # s)
    BY <1>1, <2>2, <2>3
  <2> QED
    BY <1>1, <1>2, <2>1, <2>4 DEF WaitsAtHub, Recipient
<1>4. ASSUME NEW e
      PROVE  e \in lost' <=> e \in lost \/ \E m \in Message :
                session[m] = s /\ WaitsAtHub(m) /\ e = EnvelopeOf(m)
  <2>1. e \in lost' <=> e \in lost \/ \E p \in Peer : e \in ToSet(Waiting(p, s))
    BY DEF Lapse
  <2>2. \A p \in Peer : e \in ToSet(Waiting(p, s)) <=>
           \E m \in Message : /\ session[m] = s /\ Recipient(m) = p /\ e = EnvelopeOf(m)
                              /\ Relayed(m) /\ handed[p][s] = <<>>
    BY WaitingIsOne DEF Parts
  <2> QED
    BY <1>1, <2>1, <2>2, CallPeers DEF WaitsAtHub
<1> QED
  BY <1>3, <1>4

\* The envelope that is stored leaves the batch.
LEMMA ReceiveMoves ==
    ASSUME Parts, NEW p \in Peer, receive_relay_message(p)
    PROVE  \E n \in Message :
              /\ Recipient(n) = p /\ Relayed(n) /\ InBatch(n)
              /\ ~Stored(n, DELIVERY_MODE_RELAY)
              /\ persist_received_message(p, n, DELIVERY_MODE_RELAY)
              /\ batch' = [batch EXCEPT ![p] = Tail(@)] /\ batch[p] # <<>>
              /\ \A m \in Message : InBatch(m)' <=> InBatch(m) /\ m # n
<1>1. /\ batch[p] # <<>> /\ batch' = [batch EXCEPT ![p] = Tail(@)] /\ UNCHANGED session
      /\ persist_received_message(p, Head(batch[p]).message, DELIVERY_MODE_RELAY)
  BY DEF receive_relay_message, callVars
<1>2. batch \in [Peer -> Seq(Envelope)]
  BY DEF Parts, Shape
<1>3. batch[p] \in Seq(Envelope) /\ 1 \in DOMAIN batch[p] /\ Head(batch[p]) = batch[p][1]
  BY <1>1, <1>2
<1>4. PICK n \in Message : Recipient(n) = p /\ Relayed(n) /\ batch[p][1] = EnvelopeOf(n)
  BY <1>3 DEF Parts, EnvelopesAreAccepted
<1>5. InBatch(n)
  BY <1>3, <1>4 DEF InBatch, ToSet
<1>6. ~Stored(n, DELIVERY_MODE_RELAY)
  BY <1>4, <1>5 DEF Parts, OnePlace
<1>7. Head(batch[p]).message = n
  BY <1>3, <1>4 DEF EnvelopeOf
<1>8. /\ batch'[p] = Tail(batch[p])
      /\ \A q \in Peer \ {p} : batch'[q] = batch[q]
  BY <1>1, <1>2
<1>9. ASSUME NEW m \in Message
      PROVE  InBatch(m)' <=> InBatch(m) /\ m # n
  <2>1. InBatch(m)' <=> EnvelopeOf(m) \in ToSet(batch'[Recipient(m)])
    BY <1>1 DEF InBatch, EnvelopeOf, Recipient
  <2>2. CASE Recipient(m) # p
    BY <1>4, <1>8, <2>1, <2>2, CallPeers DEF InBatch
  <2>3. CASE Recipient(m) = p
    <3> DEFINE q == batch[p]
    <3>1. /\ Len(Tail(q)) = Len(q) - 1 /\ Len(q) \in Nat /\ Tail(q) \in Seq(Envelope)
          /\ \A i \in 1..Len(Tail(q)) : Tail(q)[i] = q[i + 1]
      <4>1. q \in Seq(Envelope) /\ q # <<>>
        BY <1>1, <1>3
      <4> HIDE DEF q
      <4>2. Len(q) \in Nat
        BY <4>1
      <4> QED
        BY <4>1, <4>2, HeadTailProperties
    <3>2. InBatch(m)' <=> \E i \in 1..Len(Tail(q)) : Tail(q)[i] = EnvelopeOf(m)
      <4>1. batch'[p] = Tail(q) /\ (InBatch(m)' <=> EnvelopeOf(m) \in ToSet(batch'[p]))
        BY <1>8, <2>1, <2>3
      <4>2. DOMAIN Tail(q) = 1..Len(Tail(q))
        BY <3>1
      <4> HIDE DEF q
      <4> QED
        BY <4>1, <4>2 DEF ToSet
    <3>3. InBatch(m) <=> \E i \in 1..Len(q) : q[i] = EnvelopeOf(m)
      BY <1>3, <2>3 DEF InBatch, ToSet
    <3>4. \A i, j \in 1..Len(q) : q[i] = q[j] => i = j
      BY <1>3 DEF Parts, NothingTwice
    <3>5. \A i \in 1..Len(q) : q[i] = EnvelopeOf(n) => i = 1
      BY <1>3, <1>4, <3>4
    <3>6. EnvelopeOf(m) = EnvelopeOf(n) => m = n
      BY EnvelopesDiffer
    <3>7. (\E i \in 1..Len(Tail(q)) : Tail(q)[i] = EnvelopeOf(m)) <=>
             \E i \in 2..Len(q) : q[i] = EnvelopeOf(m)
      <4>1. \A i \in 1..Len(Tail(q)) : i + 1 \in 2..Len(q) /\ Tail(q)[i] = q[i + 1]
        BY <3>1
      <4>2. \A i \in 2..Len(q) : i - 1 \in 1..Len(Tail(q)) /\ Tail(q)[i - 1] = q[i]
        BY <3>1
      <4> HIDE DEF q
      <4> QED
        BY <4>1, <4>2
    <3> QED
      BY <1>3, <1>4, <3>1, <3>2, <3>3, <3>5, <3>6, <3>7
  <2> QED
    BY <2>2, <2>3
<1> QED
  BY <1>1, <1>4, <1>5, <1>6, <1>7, <1>9

LEMMA CrashMoves ==
    ASSUME Parts, NEW p \in Peer, Crash(p)
    PROVE  /\ batch' \in [Peer -> Seq(Envelope)] /\ batch'[p] = <<>>
           /\ \A q \in Peer \ {p} : batch'[q] = batch[q]
           /\ \A m \in Message :
                 /\ EnvelopeOf(m)' = EnvelopeOf(m)
                 /\ Relayed(m)' <=> Relayed(m)
                 /\ WaitsAtHub(m)' <=> WaitsAtHub(m)
                 /\ InBatch(m)' <=> InBatch(m) /\ Recipient(m) # p
                 /\ \A how : Stored(m, how)' <=> Stored(m, how)
           /\ \A e : e \in lost' <=> e \in lost \/ \E m \in Message :
                 Recipient(m) = p /\ Relayed(m) /\ InBatch(m) /\ e = EnvelopeOf(m)
<1>1. /\ batch' = [batch EXCEPT ![p] = <<>>] /\ UNCHANGED <<relayVars, session, inbox>>
      /\ lost' = lost \cup ToSet(batch[p])
  BY DEF Crash
<1>2. batch \in [Peer -> Seq(Envelope)]
  BY DEF Parts, Shape
<1>3. /\ batch' \in [Peer -> Seq(Envelope)] /\ batch'[p] = <<>>
      /\ \A q \in Peer \ {p} : batch'[q] = batch[q]
  BY <1>1, <1>2
<1>4. ASSUME NEW m \in Message
      PROVE  InBatch(m)' <=> InBatch(m) /\ Recipient(m) # p
  <2>1. InBatch(m)' <=> EnvelopeOf(m) \in ToSet(batch'[Recipient(m)])
    BY <1>1 DEF InBatch, EnvelopeOf, Recipient
  <2>2. ToSet(<<>>) = {}
    BY DEF ToSet
  <2> QED
    BY <1>3, <2>1, <2>2, CallPeers DEF InBatch
<1>5. ASSUME NEW e
      PROVE  e \in lost' <=> e \in lost \/ \E m \in Message :
                Recipient(m) = p /\ Relayed(m) /\ InBatch(m) /\ e = EnvelopeOf(m)
  <2>1. e \in ToSet(batch[p]) => \E m \in Message :
           Recipient(m) = p /\ Relayed(m) /\ e = EnvelopeOf(m)
    BY DEF ToSet, Parts, EnvelopesAreAccepted
  <2> QED
    BY <1>1, <2>1 DEF InBatch
<1> QED
  BY <1>1, <1>3, <1>4, <1>5, NothingMoves

\* A message that is posted is stored; nothing of the relay is touched.
LEMMA PostMoves ==
    ASSUME Parts, NEW n \in Message, NEW at \in Peer, PostArrives(n, at)
    PROVE  /\ inbox' \in [Peer -> Seq(Entry)]
           /\ ~Stored(n, DELIVERY_MODE_DIRECT_TCP)
           /\ \A m \in Message :
                 /\ EnvelopeOf(m)' = EnvelopeOf(m)
                 /\ Relayed(m)' <=> Relayed(m)
                 /\ WaitsAtHub(m)' <=> WaitsAtHub(m)
                 /\ InBatch(m)' <=> InBatch(m)
                 /\ Stored(m, DELIVERY_MODE_RELAY)' <=> Stored(m, DELIVERY_MODE_RELAY)
                 /\ Stored(m, DELIVERY_MODE_DIRECT_TCP)' <=>
                       Stored(m, DELIVERY_MODE_DIRECT_TCP) \/ m = n
                 /\ \A q \in Peer :
                       /\ StoredAt(q, m, DELIVERY_MODE_RELAY)' <=>
                             StoredAt(q, m, DELIVERY_MODE_RELAY)
                       /\ StoredAt(q, m, DELIVERY_MODE_DIRECT_TCP)' <=>
                             StoredAt(q, m, DELIVERY_MODE_DIRECT_TCP) \/ (q = at /\ m = n)
           /\ \A q \in Peer : \A i, j \in DOMAIN inbox'[q] :
                 inbox'[q][i] = inbox'[q][j] => i = j
<1>1. /\ persist_received_message(at, n, DELIVERY_MODE_DIRECT_TCP)
      /\ UNCHANGED <<relayVars, session, batch>> /\ n \in posts
  BY DEF PostArrives
<1>2. ~Stored(n, DELIVERY_MODE_DIRECT_TCP)
  BY <1>1 DEF Parts, PostsAreNew
<1>3. /\ inbox' \in [Peer -> Seq(Entry)]
      /\ \A m \in Message : \A d \in {DELIVERY_MODE_DIRECT_TCP, DELIVERY_MODE_RELAY} :
            /\ Stored(m, d)' <=> Stored(m, d) \/ (m = n /\ d = DELIVERY_MODE_DIRECT_TCP)
            /\ \A q \in Peer : StoredAt(q, m, d)' <=>
                  StoredAt(q, m, d) \/ (q = at /\ m = n /\ d = DELIVERY_MODE_DIRECT_TCP)
      /\ \A q \in Peer :
            (\A i, j \in DOMAIN inbox[q] : inbox[q][i] = inbox[q][j] => i = j) =>
              \A i, j \in DOMAIN inbox'[q] : inbox'[q][i] = inbox'[q][j] => i = j
  BY <1>1, <1>2, StoredAfter DEF Parts
<1>4. DELIVERY_MODE_DIRECT_TCP # DELIVERY_MODE_RELAY
  BY DEF DELIVERY_MODE_DIRECT_TCP, DELIVERY_MODE_RELAY
<1>5. \A q \in Peer : \A i, j \in DOMAIN inbox'[q] : inbox'[q][i] = inbox'[q][j] => i = j
  BY <1>3 DEF Parts, NothingTwice
<1> QED
  BY <1>1, <1>2, <1>3, <1>4, <1>5, NothingMoves

LEMMA LostPollMoves ==
    ASSUME Parts, NEW p \in Peer, PollAnswerLost(p)
    PROVE  \A e : e \in lost' <=> e \in lost \/ \E m \in Message :
                     Recipient(m) = p /\ WaitsAtHub(m) /\ e = EnvelopeOf(m)
<1>1. lost' = lost \cup New(p)
  BY DEF PollAnswerLost
<1>2. \A e : e \in New(p) <=> \E m \in Message :
                 Recipient(m) = p /\ WaitsAtHub(m) /\ e = EnvelopeOf(m)
  BY NewIsWaiting DEF Parts
<1> QED
  BY <1>1, <1>2

\* No envelope is beyond the hub that the hub has not accepted.
LEMMA BeyondIsRelayed ==
    ASSUME Parts, NEW m \in Message
    PROVE  InBatch(m) \/ Stored(m, DELIVERY_MODE_RELAY) \/ EnvelopeOf(m) \in lost =>
              Relayed(m)
<1>1. InBatch(m) => Relayed(m)
  BY EnvelopesDiffer, CallPeers DEF Parts, EnvelopesAreAccepted, InBatch, ToSet
<1>2. Stored(m, DELIVERY_MODE_RELAY) => Relayed(m)
  BY DEF Parts, EnvelopesAreAccepted
<1>3. EnvelopeOf(m) \in lost => Relayed(m)
  BY EnvelopesDiffer DEF Parts, EnvelopesAreAccepted
<1> QED
  BY <1>1, <1>2, <1>3

\* The steps that move no envelope.
QuietStep == UNCHANGED <<relayVars, session, inbox, batch, lost>>

LEMMA Cases ==
    ASSUME [Next]_vars
    PROVE  \/ QuietStep
           \/ \E m \in Message, s \in Session : ConnectRelay(m, s)
           \/ \E m \in Message, s \in Session : ConnectAnswerLost(m, s)
           \/ \E m \in Message : RelaySendAccepted(m)
           \/ \E m \in Message, at \in Peer : PostArrives(m, at)
           \/ \E p \in Peer : Poll(p)
           \/ \E p \in Peer : PollAnswerLost(p)
           \/ \E p \in Peer : receive_relay_message(p)
           \/ \E p \in Peer : Crash(p)
           \/ \E s \in Session : Lapse(s)
<1>1. \A m \in Message : SendMessage(m) \/ ConnectDirect(m) \/ CallFails(m) => QuietStep
  BY DEF QuietStep, SendMessage, ConnectDirect, CallFails, history
<1>2. \A m \in Message : PostFails(m) \/ PostAnswered(m) => QuietStep
  BY DEF QuietStep, PostFails, PostAnswered, history
<1>3. \A m \in Message : AttachAnswered(m) \/ RelaySendAnswered(m) => QuietStep
  BY DEF QuietStep, AttachAnswered, RelaySendAnswered, history
<1>4. \A p \in Peer : Restart(p) => QuietStep
  BY DEF QuietStep, Restart, callVars, history
<1>5. UNCHANGED vars => QuietStep
  BY DEF QuietStep, vars, callVars, history
<1> QED
  BY <1>1, <1>2, <1>3, <1>4, <1>5 DEF Next, CallStep, GatewayStep

LEMMA QuietMoves ==
    ASSUME QuietStep
    PROVE  /\ UNCHANGED <<status, accepted, handed, session, inbox, batch, lost>>
           /\ \A m \in Message :
                 /\ EnvelopeOf(m)' = EnvelopeOf(m)
                 /\ Relayed(m)' <=> Relayed(m)
                 /\ WaitsAtHub(m)' <=> WaitsAtHub(m)
                 /\ InBatch(m)' <=> InBatch(m)
                 /\ \A how : Stored(m, how)' <=> Stored(m, how)
BY NothingMoves DEF QuietStep, relayVars

-----------------------------------------------------------------------------
(***************************************************************************)
(* Each part of the invariant is kept by every step.                       *)
(***************************************************************************)

LEMMA OnePlaceNext ==
    ASSUME Parts, [Next]_vars
    PROVE  OnePlace'
<1> DEFINE Placed(m) ==
             /\ \/ WaitsAtHub(m) \/ InBatch(m)
                \/ Stored(m, DELIVERY_MODE_RELAY) \/ EnvelopeOf(m) \in lost
             /\ WaitsAtHub(m) => ~InBatch(m) /\ ~Stored(m, DELIVERY_MODE_RELAY)
             /\ EnvelopeOf(m) \in lost => ~WaitsAtHub(m) /\ ~InBatch(m)
             /\ Stored(m, DELIVERY_MODE_RELAY) => ~InBatch(m) /\ EnvelopeOf(m) \notin lost
<1> SUFFICES ASSUME NEW m \in Message, Relayed(m)'
             PROVE  Placed(m)'
  BY DEF OnePlace
<1>1. Relayed(m) => Placed(m)
  BY DEF Parts, OnePlace
<1>2. CASE QuietStep
  BY <1>1, <1>2, QuietMoves
<1>3. ASSUME NEW n \in Message, NEW s \in Session, ConnectRelay(n, s)
      PROVE  Placed(m)'
  <2>1. m # n /\ lost' = lost
    BY <1>3, ConnectMoves DEF ConnectRelay, history
  <2> QED
    BY <1>1, <1>3, <2>1, ConnectMoves
<1>4. ASSUME NEW n \in Message, NEW s \in Session, ConnectAnswerLost(n, s)
      PROVE  Placed(m)'
  <2>1. lost' = lost
    BY <1>4 DEF ConnectAnswerLost, history
  <2> QED
    BY <1>1, <1>4, <2>1, LostConnectMoves
<1>5. ASSUME NEW n \in Message, RelaySendAccepted(n)
      PROVE  Placed(m)'
  <2>1. lost' = lost
    BY <1>5 DEF RelaySendAccepted, history
  <2>2. Relayed(m)' <=> Relayed(m) \/ m = n
    BY <1>5, AcceptMoves
  <2>3. CASE m = n
    BY <1>5, <2>1, <2>3, AcceptMoves, BeyondIsRelayed
  <2>4. CASE m # n
    BY <1>1, <1>5, <2>1, <2>2, <2>4, AcceptMoves
  <2> QED
    BY <2>3, <2>4
<1>6. ASSUME NEW n \in Message, NEW at \in Peer, PostArrives(n, at)
      PROVE  Placed(m)'
  <2>1. lost' = lost
    BY <1>6 DEF PostArrives, history
  <2> QED
    BY <1>1, <1>6, <2>1, PostMoves
<1>7. ASSUME NEW p \in Peer, Poll(p)
      PROVE  Placed(m)'
  <2>1. lost' = lost /\ UNCHANGED <<session, inbox>> /\ Relay!Hand({}, p, {})
    BY <1>7 DEF Poll, callVars, history
  <2>2. /\ EnvelopeOf(m)' = EnvelopeOf(m) /\ Relayed(m)
        /\ WaitsAtHub(m)' <=> WaitsAtHub(m) /\ Recipient(m) # p
    BY <2>1, HandMoves
  <2>3. InBatch(m)' <=> InBatch(m) \/ (WaitsAtHub(m) /\ Recipient(m) = p)
    BY <1>7, PollMoves
  <2>4. Stored(m, DELIVERY_MODE_RELAY)' <=> Stored(m, DELIVERY_MODE_RELAY)
    BY <2>1, NothingMoves
  <2> QED
    BY <1>1, <2>1, <2>2, <2>3, <2>4
<1>8. ASSUME NEW p \in Peer, PollAnswerLost(p)
      PROVE  Placed(m)'
  <2>1. UNCHANGED <<session, inbox, batch>> /\ Relay!Hand({}, p, {})
    BY <1>8 DEF PollAnswerLost, callVars
  <2>2. /\ EnvelopeOf(m)' = EnvelopeOf(m) /\ Relayed(m)
        /\ WaitsAtHub(m)' <=> WaitsAtHub(m) /\ Recipient(m) # p
    BY <2>1, HandMoves
  <2>3. /\ InBatch(m)' <=> InBatch(m)
        /\ Stored(m, DELIVERY_MODE_RELAY)' <=> Stored(m, DELIVERY_MODE_RELAY)
    BY <2>1, NothingMoves
  <2>4. EnvelopeOf(m) \in lost' <=>
          EnvelopeOf(m) \in lost \/ (Recipient(m) = p /\ WaitsAtHub(m))
    BY <1>8, LostPollMoves, EnvelopesDiffer
  <2> QED
    BY <1>1, <2>2, <2>3, <2>4
<1>9. ASSUME NEW p \in Peer, receive_relay_message(p)
      PROVE  Placed(m)'
  <2>1. UNCHANGED <<relayVars, session, lost>>
    BY <1>9 DEF receive_relay_message, callVars, history
  <2>2. PICK n \in Message :
          /\ InBatch(n) /\ Recipient(n) = p
          /\ persist_received_message(p, n, DELIVERY_MODE_RELAY)
          /\ InBatch(m)' <=> InBatch(m) /\ m # n
    BY <1>9, ReceiveMoves
  <2>3. Stored(m, DELIVERY_MODE_RELAY)' <=> Stored(m, DELIVERY_MODE_RELAY) \/ m = n
    BY <2>2, StoredAfter DEF Parts
  <2>4. /\ EnvelopeOf(m)' = EnvelopeOf(m) /\ Relayed(m)
        /\ WaitsAtHub(m)' <=> WaitsAtHub(m)
    BY <2>1, NothingMoves
  <2> QED
    BY <1>1, <2>1, <2>2, <2>3, <2>4
<1>10. ASSUME NEW p \in Peer, Crash(p)
       PROVE  Placed(m)'
  <2>1. EnvelopeOf(m) \in lost' <=>
          EnvelopeOf(m) \in lost \/ (Recipient(m) = p /\ InBatch(m))
    BY <1>10, CrashMoves, EnvelopesDiffer
  <2> QED
    BY <1>1, <1>10, <2>1, CrashMoves
<1>11. ASSUME NEW s \in Session, Lapse(s)
       PROVE  Placed(m)'
  <2>1. UNCHANGED <<session, inbox, batch>>
    BY <1>11 DEF Lapse, callVars
  <2>2. /\ InBatch(m)' <=> InBatch(m)
        /\ Stored(m, DELIVERY_MODE_RELAY)' <=> Stored(m, DELIVERY_MODE_RELAY)
    BY <2>1, NothingMoves
  <2>3. EnvelopeOf(m) \in lost' <=>
          EnvelopeOf(m) \in lost \/ (session[m] = s /\ WaitsAtHub(m))
    BY <1>11, LapseMoves, EnvelopesDiffer
  <2> QED
    BY <1>1, <1>11, <2>2, <2>3, LapseMoves
<1> QED
  BY <1>2, <1>3, <1>4, <1>5, <1>6, <1>7, <1>8, <1>9, <1>10, <1>11, Cases

\* What the hub has accepted it has accepted.
LEMMA RelayedStays ==
    ASSUME Parts, [Next]_vars, NEW m \in Message, Relayed(m)
    PROVE  Relayed(m)' /\ EnvelopeOf(m)' = EnvelopeOf(m)
<1>1. CASE QuietStep
  BY <1>1, QuietMoves
<1>2. ASSUME NEW n \in Message, NEW s \in Session, ConnectRelay(n, s)
      PROVE  Relayed(m)' /\ EnvelopeOf(m)' = EnvelopeOf(m)
  BY <1>2, ConnectMoves
<1>3. ASSUME NEW n \in Message, NEW s \in Session, ConnectAnswerLost(n, s)
      PROVE  Relayed(m)' /\ EnvelopeOf(m)' = EnvelopeOf(m)
  BY <1>3, LostConnectMoves
<1>4. ASSUME NEW n \in Message, RelaySendAccepted(n)
      PROVE  Relayed(m)' /\ EnvelopeOf(m)' = EnvelopeOf(m)
  BY <1>4, AcceptMoves
<1>5. ASSUME NEW n \in Message, NEW at \in Peer, PostArrives(n, at)
      PROVE  Relayed(m)' /\ EnvelopeOf(m)' = EnvelopeOf(m)
  BY <1>5, PostMoves
<1>6. ASSUME NEW p \in Peer, Poll(p) \/ PollAnswerLost(p)
      PROVE  Relayed(m)' /\ EnvelopeOf(m)' = EnvelopeOf(m)
  <2>1. Relay!Hand({}, p, {}) /\ UNCHANGED session
    BY <1>6 DEF Poll, PollAnswerLost, callVars
  <2> QED
    BY <2>1, HandMoves
<1>7. ASSUME NEW p \in Peer, receive_relay_message(p)
      PROVE  Relayed(m)' /\ EnvelopeOf(m)' = EnvelopeOf(m)
  <2>1. UNCHANGED <<relayVars, session>>
    BY <1>7 DEF receive_relay_message, callVars
  <2> QED
    BY <2>1, NothingMoves
<1>8. ASSUME NEW p \in Peer, Crash(p)
      PROVE  Relayed(m)' /\ EnvelopeOf(m)' = EnvelopeOf(m)
  BY <1>8, CrashMoves
<1>9. ASSUME NEW s \in Session, Lapse(s)
      PROVE  Relayed(m)' /\ EnvelopeOf(m)' = EnvelopeOf(m)
  BY <1>9, LapseMoves
<1> QED
  BY <1>1, <1>2, <1>3, <1>4, <1>5, <1>6, <1>7, <1>8, <1>9, Cases

\* Which steps touch the answers to polls, the inboxes and what is lost.
LEMMA WhoTouchesWhat ==
    ASSUME [Next]_vars
    PROVE  /\ \/ UNCHANGED batch
              \/ \E p \in Peer : Poll(p)
              \/ \E p \in Peer : receive_relay_message(p)
              \/ \E p \in Peer : Crash(p)
           /\ \/ UNCHANGED inbox
              \/ \E n \in Message, at \in Peer : PostArrives(n, at)
              \/ \E p \in Peer : receive_relay_message(p)
           /\ \/ UNCHANGED lost
              \/ \E p \in Peer : PollAnswerLost(p)
              \/ \E p \in Peer : Crash(p)
              \/ \E s \in Session : Lapse(s)
<1>1. QuietStep => UNCHANGED <<batch, inbox, lost>>
  BY DEF QuietStep
<1>2. \A m \in Message, s \in Session :
         ConnectRelay(m, s) \/ ConnectAnswerLost(m, s) => UNCHANGED <<batch, inbox, lost>>
  BY DEF ConnectRelay, ConnectAnswerLost, history
<1>3. \A m \in Message : /\ RelaySendAccepted(m) => UNCHANGED <<batch, inbox, lost>>
                         /\ \A at \in Peer : PostArrives(m, at) => UNCHANGED <<batch, lost>>
  BY DEF RelaySendAccepted, PostArrives, history
<1>4. \A p \in Peer : /\ Poll(p) => UNCHANGED <<inbox, lost>>
                      /\ PollAnswerLost(p) => UNCHANGED <<inbox, batch>>
                      /\ receive_relay_message(p) => UNCHANGED lost
                      /\ Crash(p) => UNCHANGED inbox
  BY DEF Poll, PollAnswerLost, receive_relay_message, Crash, history
<1>5. \A s \in Session : Lapse(s) => UNCHANGED <<inbox, batch>>
  BY DEF Lapse
<1> QED
  BY <1>1, <1>2, <1>3, <1>4, <1>5, Cases

\* The entries of a batch that has lost its head were there before.
LEMMA TailOfBatch ==
    ASSUME Parts, NEW p \in Peer, receive_relay_message(p)
    PROVE  /\ batch' \in [Peer -> Seq(Envelope)]
           /\ \A q \in Peer \ {p} : batch'[q] = batch[q]
           /\ \A i \in DOMAIN batch'[p] :
                 i \in Nat /\ i + 1 \in DOMAIN batch[p] /\ batch'[p][i] = batch[p][i + 1]
<1>1. batch' = [batch EXCEPT ![p] = Tail(@)] /\ batch[p] # <<>>
  BY DEF receive_relay_message
<1>2. batch \in [Peer -> Seq(Envelope)]
  BY DEF Parts, Shape
<1> DEFINE q == batch[p]
<1>3. q \in Seq(Envelope) /\ q # <<>>
  BY <1>1, <1>2
<1>4. batch'[p] = Tail(q) /\ \A r \in Peer \ {p} : batch'[r] = batch[r]
  BY <1>1, <1>2
<1>5. /\ Tail(q) \in Seq(Envelope) /\ Len(Tail(q)) = Len(q) - 1 /\ Len(q) \in Nat
      /\ \A i \in 1..Len(Tail(q)) : Tail(q)[i] = q[i + 1]
  <2> HIDE DEF q
  <2>1. Len(q) \in Nat
    BY <1>3
  <2> QED
    BY <1>3, <2>1, HeadTailProperties
<1>6. batch' \in [Peer -> Seq(Envelope)]
  BY <1>1, <1>2, <1>5
<1>7. \A i \in DOMAIN Tail(q) : i \in Nat /\ i + 1 \in DOMAIN q /\ Tail(q)[i] = q[i + 1]
  <2> HIDE DEF q
  <2>1. DOMAIN Tail(q) = 1..Len(Tail(q)) /\ DOMAIN q = 1..Len(q)
    BY <1>3, <1>5
  <2> QED
    BY <1>5, <2>1
<1> QED
  BY <1>4, <1>6, <1>7

LEMMA EnvelopesAreAcceptedNext ==
    ASSUME Parts, [Next]_vars
    PROVE  EnvelopesAreAccepted'
<1>1. \A m \in Message : Relayed(m) => Relayed(m)' /\ EnvelopeOf(m)' = EnvelopeOf(m)
  BY RelayedStays
<1>2. /\ \A p \in Peer : \A i \in DOMAIN batch[p] :
            \E m \in Message : Recipient(m) = p /\ Relayed(m) /\ batch[p][i] = EnvelopeOf(m)
      /\ \A e \in lost : \E m \in Message : Relayed(m) /\ e = EnvelopeOf(m)
      /\ \A m \in Message : Stored(m, DELIVERY_MODE_RELAY) => Relayed(m)
  BY DEF Parts, EnvelopesAreAccepted
<1>3. ASSUME NEW p \in Peer, NEW i \in DOMAIN batch'[p]
      PROVE  \E m \in Message : /\ Recipient(m) = p /\ Relayed(m)'
                                /\ batch'[p][i] = EnvelopeOf(m)'
  <2>1. CASE i \in DOMAIN batch[p] /\ batch'[p][i] = batch[p][i]
    BY <1>1, <1>2, <2>1
  <2>2. ASSUME NEW r \in Peer, Poll(r)
        PROVE  \E m \in Message : /\ Recipient(m) = p /\ Relayed(m)'
                                  /\ batch'[p][i] = EnvelopeOf(m)'
    <3>1. CASE p # r
      BY <2>1, <2>2, <3>1, PollMoves
    <3>2. CASE p = r
      BY <1>1, <2>2, <3>2, PollMoves DEF WaitsAtHub
    <3> QED
      BY <3>1, <3>2
  <2>3. ASSUME NEW r \in Peer, receive_relay_message(r)
        PROVE  \E m \in Message : /\ Recipient(m) = p /\ Relayed(m)'
                                  /\ batch'[p][i] = EnvelopeOf(m)'
    <3>1. CASE p # r
      BY <2>1, <2>3, <3>1, TailOfBatch
    <3>2. CASE p = r
      <4>1. i + 1 \in DOMAIN batch[p] /\ batch'[p][i] = batch[p][i + 1]
        BY <2>3, <3>2, TailOfBatch
      <4> QED
        BY <1>1, <1>2, <4>1
    <3> QED
      BY <3>1, <3>2
  <2>4. ASSUME NEW r \in Peer, Crash(r)
        PROVE  \E m \in Message : /\ Recipient(m) = p /\ Relayed(m)'
                                  /\ batch'[p][i] = EnvelopeOf(m)'
    <3>1. p # r
      BY <2>4, CrashMoves
    <3> QED
      BY <2>1, <2>4, <3>1, CrashMoves
  <2> QED
    BY <2>1, <2>2, <2>3, <2>4, WhoTouchesWhat
<1>4. ASSUME NEW e \in lost'
      PROVE  \E m \in Message : Relayed(m)' /\ e = EnvelopeOf(m)'
  <2>1. \/ e \in lost
        \/ \E m \in Message : Relayed(m) /\ e = EnvelopeOf(m)
    <3>1. ASSUME NEW p \in Peer, PollAnswerLost(p)
          PROVE  e \in lost \/ \E m \in Message : Relayed(m) /\ e = EnvelopeOf(m)
      BY <3>1, LostPollMoves DEF WaitsAtHub
    <3>2. ASSUME NEW p \in Peer, Crash(p)
          PROVE  e \in lost \/ \E m \in Message : Relayed(m) /\ e = EnvelopeOf(m)
      BY <3>2, CrashMoves
    <3>3. ASSUME NEW s \in Session, Lapse(s)
          PROVE  e \in lost \/ \E m \in Message : Relayed(m) /\ e = EnvelopeOf(m)
      BY <3>3, LapseMoves DEF WaitsAtHub
    <3> QED
      BY <3>1, <3>2, <3>3, WhoTouchesWhat
  <2> QED
    BY <1>1, <1>2, <2>1
<1>5. ASSUME NEW m \in Message, Stored(m, DELIVERY_MODE_RELAY)'
      PROVE  Relayed(m)'
  <2>1. Stored(m, DELIVERY_MODE_RELAY) \/ Relayed(m)
    <3>1. CASE UNCHANGED inbox
      BY <1>5, <3>1, NothingMoves
    <3>2. ASSUME NEW n \in Message, NEW at \in Peer, PostArrives(n, at)
          PROVE  Stored(m, DELIVERY_MODE_RELAY)
      BY <1>5, <3>2, PostMoves
    <3>3. ASSUME NEW p \in Peer, receive_relay_message(p)
          PROVE  Stored(m, DELIVERY_MODE_RELAY) \/ Relayed(m)
      <4>1. PICK n \in Message : /\ Relayed(n) /\ Recipient(n) = p
                                 /\ persist_received_message(p, n, DELIVERY_MODE_RELAY)
        BY <3>3, ReceiveMoves
      <4>2. Stored(m, DELIVERY_MODE_RELAY)' <=> Stored(m, DELIVERY_MODE_RELAY) \/ m = n
        BY <4>1, StoredAfter DEF Parts
      <4> QED
        BY <1>5, <4>1, <4>2
    <3> QED
      BY <3>1, <3>2, <3>3, WhoTouchesWhat
  <2> QED
    BY <1>1, <1>2, <2>1
<1> QED
  BY <1>3, <1>4, <1>5 DEF EnvelopesAreAccepted, Recipient

LEMMA NothingTwiceNext ==
    ASSUME Parts, [Next]_vars
    PROVE  NothingTwice'
<1>1. \A p \in Peer : /\ \A i, j \in DOMAIN batch[p] : batch[p][i] = batch[p][j] => i = j
                      /\ \A i, j \in DOMAIN inbox[p] : inbox[p][i] = inbox[p][j] => i = j
  BY DEF Parts, NothingTwice
<1>2. ASSUME NEW p \in Peer
      PROVE  \A i, j \in DOMAIN batch'[p] : batch'[p][i] = batch'[p][j] => i = j
  <2>1. CASE batch'[p] = batch[p]
    BY <1>1, <2>1
  <2>2. ASSUME NEW r \in Peer, Poll(r)
        PROVE  \A i, j \in DOMAIN batch'[p] : batch'[p][i] = batch'[p][j] => i = j
    BY <2>1, <2>2, PollMoves
  <2>3. ASSUME NEW r \in Peer, receive_relay_message(r)
        PROVE  \A i, j \in DOMAIN batch'[p] : batch'[p][i] = batch'[p][j] => i = j
    <3>1. CASE p = r
      <4>1. \A i \in DOMAIN batch'[p] : /\ i \in Nat /\ i + 1 \in DOMAIN batch[p]
                                        /\ batch'[p][i] = batch[p][i + 1]
        BY <2>3, <3>1, TailOfBatch
      <4> SUFFICES ASSUME NEW i \in DOMAIN batch'[p], NEW j \in DOMAIN batch'[p],
                          batch'[p][i] = batch'[p][j]
                   PROVE  i = j
        OBVIOUS
      <4>2. i + 1 = j + 1
        BY <1>1, <4>1
      <4> QED
        BY <4>1, <4>2
    <3>2. CASE p # r
      BY <2>1, <2>3, <3>2, TailOfBatch
    <3> QED
      BY <3>1, <3>2
  <2>4. ASSUME NEW r \in Peer, Crash(r)
        PROVE  \A i, j \in DOMAIN batch'[p] : batch'[p][i] = batch'[p][j] => i = j
    BY <2>1, <2>4, CrashMoves
  <2> QED
    BY <2>1, <2>2, <2>3, <2>4, WhoTouchesWhat
<1>3. ASSUME NEW p \in Peer
      PROVE  \A i, j \in DOMAIN inbox'[p] : inbox'[p][i] = inbox'[p][j] => i = j
  <2>1. CASE UNCHANGED inbox
    BY <1>1, <2>1
  <2>2. ASSUME NEW n \in Message, NEW at \in Peer, PostArrives(n, at)
        PROVE  \A i, j \in DOMAIN inbox'[p] : inbox'[p][i] = inbox'[p][j] => i = j
    BY <2>2, PostMoves
  <2>3. ASSUME NEW r \in Peer, receive_relay_message(r)
        PROVE  \A i, j \in DOMAIN inbox'[p] : inbox'[p][i] = inbox'[p][j] => i = j
    <3>1. PICK n \in Message : /\ Recipient(n) = r /\ ~Stored(n, DELIVERY_MODE_RELAY)
                               /\ persist_received_message(r, n, DELIVERY_MODE_RELAY)
      BY <2>3, ReceiveMoves
    <3> QED
      BY <1>1, <3>1, StoredAfter DEF Parts
  <2> QED
    BY <2>1, <2>2, <2>3, WhoTouchesWhat
<1> QED
  BY <1>2, <1>3 DEF NothingTwice

LEMMA StoredWhereNext ==
    ASSUME Parts, [Next]_vars
    PROVE  StoredWhere'
<1> DEFINE Home(p, m) ==
             /\ StoredAt(p, m, DELIVERY_MODE_RELAY) => p = Recipient(m)
             /\ StoredAt(p, m, DELIVERY_MODE_DIRECT_TCP) =>
                  /\ p \in Listeners[Recipient(m)]
                  /\ \A q \in Peer \ {p} : ~StoredAt(q, m, DELIVERY_MODE_DIRECT_TCP)
<1> SUFFICES ASSUME NEW p \in Peer, NEW m \in Message
             PROVE  Home(p, m)'
  BY DEF StoredWhere
<1>1. Home(p, m) /\ Recipient(m)' = Recipient(m)
  BY DEF Parts, StoredWhere, Recipient
<1>2. CASE UNCHANGED inbox
  BY <1>1, <1>2, NothingMoves
<1>3. ASSUME NEW n \in Message, NEW at \in Peer, PostArrives(n, at)
      PROVE  Home(p, m)'
  <2>1. at \in Listeners[Recipient(n)]
    BY <1>3 DEF PostArrives, Listening
  <2>2. \A q \in Peer : ~StoredAt(q, n, DELIVERY_MODE_DIRECT_TCP)
    BY <1>3, PostMoves DEF Stored
  <2>3. \A q \in Peer :
           /\ StoredAt(q, m, DELIVERY_MODE_RELAY)' <=> StoredAt(q, m, DELIVERY_MODE_RELAY)
           /\ StoredAt(q, m, DELIVERY_MODE_DIRECT_TCP)' <=>
                 StoredAt(q, m, DELIVERY_MODE_DIRECT_TCP) \/ (q = at /\ m = n)
    BY <1>3, PostMoves
  <2> QED
    BY <1>1, <2>1, <2>2, <2>3
<1>4. ASSUME NEW r \in Peer, receive_relay_message(r)
      PROVE  Home(p, m)'
  <2>1. PICK n \in Message : /\ Recipient(n) = r
                             /\ persist_received_message(r, n, DELIVERY_MODE_RELAY)
    BY <1>4, ReceiveMoves
  <2>2. DELIVERY_MODE_DIRECT_TCP # DELIVERY_MODE_RELAY
    BY DEF DELIVERY_MODE_DIRECT_TCP, DELIVERY_MODE_RELAY
  <2>3. \A q \in Peer :
           /\ StoredAt(q, m, DELIVERY_MODE_RELAY)' <=>
                 StoredAt(q, m, DELIVERY_MODE_RELAY) \/ (q = r /\ m = n)
           /\ StoredAt(q, m, DELIVERY_MODE_DIRECT_TCP)' <=>
                 StoredAt(q, m, DELIVERY_MODE_DIRECT_TCP)
    BY <2>1, <2>2, StoredAfter DEF Parts
  <2> QED
    BY <1>1, <2>1, <2>3
<1> QED
  BY <1>2, <1>3, <1>4, WhoTouchesWhat

-----------------------------------------------------------------------------
(***************************************************************************)
(* What a step can mean for one call: everything the invariant says of a   *)
(* single call follows from these moves.                                   *)
(***************************************************************************)

PostStays(m) ==
    /\ m \in posts' <=> m \in posts
    /\ m \in given_up' <=> m \in given_up
    /\ Stored(m, DELIVERY_MODE_DIRECT_TCP)' <=> Stored(m, DELIVERY_MODE_DIRECT_TCP)

RelayStays(m) ==
    /\ session'[m] = session[m]
    /\ m \in sends' <=> m \in sends
    /\ Relayed(m)' <=> Relayed(m)

Unmoved(m) == step'[m] = step[m] /\ PostStays(m) /\ RelayStays(m)

Turns(m) ==
    /\ PostStays(m) /\ RelayStays(m)
    /\ \/ step[m] = "idle" /\ step'[m] = "connecting"
       \/ step[m] = "posted" /\ step'[m] = "sent_direct"
       \/ step[m] = "relayed" /\ step'[m] = "sent_relay"
       \/ /\ step[m] \in {"connecting", "reconnecting", "attaching", "sending", "relayed"}
          /\ step'[m] = "failed"

Posts(m) ==
    /\ step[m] = "connecting" /\ ModeOf(m) # "relay_only" /\ step'[m] = "posting"
    /\ m \in posts' /\ (m \in given_up' <=> m \in given_up) /\ RelayStays(m)
    /\ Stored(m, DELIVERY_MODE_DIRECT_TCP)' <=> Stored(m, DELIVERY_MODE_DIRECT_TCP)

Arrives(m) ==
    /\ m \in posts /\ m \notin posts' /\ (m \in given_up' <=> m \in given_up)
    /\ Stored(m, DELIVERY_MODE_DIRECT_TCP)' /\ RelayStays(m)
    /\ IF step[m] = "posting" THEN step'[m] = "posted" ELSE step'[m] = step[m]

GivesUp(m) ==
    /\ step[m] \in {"posting", "posted"} /\ m \in given_up' /\ RelayStays(m)
    /\ (m \in posts' <=> m \in posts)
    /\ Stored(m, DELIVERY_MODE_DIRECT_TCP)' <=> Stored(m, DELIVERY_MODE_DIRECT_TCP)
    /\ IF ModeOf(m) = "direct" THEN step'[m] = "failed" ELSE step'[m] = "reconnecting"

Connects(m) ==
    /\ step[m] \in {"connecting", "reconnecting"}
    /\ session[m] = NoSession /\ session'[m] \in Session
    /\ ~Relayed(m) /\ ~Relayed(m)' /\ (m \in sends' <=> m \in sends) /\ PostStays(m)
    /\ IF step[m] = "connecting" /\ ModeOf(m) = "direct"
       THEN step'[m] = "failed" ELSE step'[m] = "attaching"

Sends(m) ==
    /\ step[m] = "attaching" /\ step'[m] = "sending" /\ session'[m] = session[m]
    /\ m \in sends' /\ (Relayed(m)' <=> Relayed(m)) /\ PostStays(m)

IsAccepted(m) ==
    /\ m \in sends /\ m \notin sends' /\ session'[m] = session[m] /\ session[m] \in Session
    /\ Relayed(m)' /\ PostStays(m)
    /\ IF step[m] = "sending" THEN step'[m] = "relayed" ELSE step'[m] = step[m]

IsKilled(m) ==
    /\ RelayStays(m) /\ (m \in posts' => m \in posts)
    /\ m \in given_up' <=> m \in given_up
    /\ Stored(m, DELIVERY_MODE_DIRECT_TCP)' <=> Stored(m, DELIVERY_MODE_DIRECT_TCP)
    /\ \/ step'[m] = step[m]
       \/ step[m] \notin Finished \cup {"idle"} /\ step'[m] = "failed"

Moves(m) ==
    \/ Unmoved(m) \/ Turns(m) \/ Posts(m) \/ Arrives(m) \/ GivesUp(m) \/ Connects(m)
    \/ Sends(m) \/ IsAccepted(m) \/ IsKilled(m)

LEMMA EveryCallMoves ==
    ASSUME Parts, [Next]_vars, NEW m \in Message
    PROVE  Moves(m)
<1> /\ step \in [Message -> Steps] /\ session \in [Message -> Session \cup {NoSession}]
    /\ posts \cup sends \cup given_up \subseteq Message
  BY DEF Parts, Shape
<1> USE DEF Goto
<1>1. ASSUME NEW n \in Message, SendMessage(n) \/ CallFails(n)
      PROVE  Unmoved(m) \/ Turns(m)
  <2>1. QuietStep /\ UNCHANGED <<session, posts, sends, given_up>>
    BY <1>1 DEF SendMessage, CallFails, QuietStep, requests, history
  <2> QED
    BY <1>1, <2>1, QuietMoves
    DEF SendMessage, CallFails, Unmoved, Turns, PostStays, RelayStays
<1>2. ASSUME NEW n \in Message, PostAnswered(n) \/ RelaySendAnswered(n)
      PROVE  Unmoved(m) \/ Turns(m)
  <2>1. QuietStep /\ UNCHANGED <<session, posts, sends, given_up>>
    BY <1>2 DEF PostAnswered, RelaySendAnswered, QuietStep, requests, history
  <2> QED
    BY <1>2, <2>1, QuietMoves
    DEF PostAnswered, RelaySendAnswered, Unmoved, Turns, PostStays, RelayStays
<1>3. ASSUME NEW n \in Message, ConnectDirect(n)
      PROVE  Unmoved(m) \/ Posts(m)
  <2>1. QuietStep /\ UNCHANGED <<session, sends, given_up>>
    BY <1>3 DEF ConnectDirect, QuietStep, history
  <2> QED
    BY <1>3, <2>1, QuietMoves
    DEF ConnectDirect, prefer_direct, Unmoved, Posts, PostStays, RelayStays
<1>4. ASSUME NEW n \in Message, NEW at \in Peer, PostArrives(n, at)
      PROVE  Unmoved(m) \/ Arrives(m)
  <2>1. UNCHANGED <<session, sends, given_up>>
    BY <1>4 DEF PostArrives, history
  <2> QED
    BY <1>4, <2>1, PostMoves DEF PostArrives, Unmoved, Arrives, PostStays, RelayStays
<1>5. ASSUME NEW n \in Message, PostFails(n)
      PROVE  Unmoved(m) \/ GivesUp(m)
  <2>1. QuietStep /\ UNCHANGED <<session, posts, sends>>
    BY <1>5 DEF PostFails, QuietStep, requests, history
  <2> QED
    BY <1>5, <2>1, QuietMoves DEF PostFails, Unmoved, GivesUp, PostStays, RelayStays
<1>6. ASSUME NEW n \in Message, NEW s \in Session, ConnectRelay(n, s)
      PROVE  Unmoved(m) \/ Connects(m)
  <2>1. UNCHANGED <<posts, sends, given_up>>
    BY <1>6 DEF ConnectRelay, requests, history
  <2> QED
    BY <1>6, <2>1, ConnectMoves DEF ConnectRelay, Unmoved, Connects, PostStays, RelayStays
<1>7. ASSUME NEW n \in Message, NEW s \in Session, ConnectAnswerLost(n, s)
      PROVE  Unmoved(m) \/ Turns(m)
  <2>1. UNCHANGED <<session, posts, sends, given_up>>
    BY <1>7 DEF ConnectAnswerLost, requests, history
  <2> QED
    BY <1>7, <2>1, LostConnectMoves
    DEF ConnectAnswerLost, Unmoved, Turns, PostStays, RelayStays
<1>8. ASSUME NEW n \in Message, AttachAnswered(n)
      PROVE  Unmoved(m) \/ Sends(m)
  <2>1. QuietStep /\ UNCHANGED <<session, posts, given_up>>
    BY <1>8 DEF AttachAnswered, QuietStep, history
  <2> QED
    BY <1>8, <2>1, QuietMoves DEF AttachAnswered, Unmoved, Sends, PostStays, RelayStays
<1>9. ASSUME NEW n \in Message, RelaySendAccepted(n)
      PROVE  Unmoved(m) \/ IsAccepted(m)
  <2>1. UNCHANGED <<session, posts, given_up>>
    BY <1>9 DEF RelaySendAccepted, history
  <2> QED
    BY <1>9, <2>1, AcceptMoves
    DEF RelaySendAccepted, Unmoved, IsAccepted, PostStays, RelayStays
<1>10. ASSUME NEW p \in Peer, Poll(p) \/ PollAnswerLost(p)
       PROVE  Unmoved(m)
  <2>1. UNCHANGED <<step, session, posts, sends, inbox, given_up>> /\ Relay!Hand({}, p, {})
    BY <1>10 DEF Poll, PollAnswerLost, callVars, requests, history
  <2> QED
    BY <2>1, HandMoves, NothingMoves DEF Unmoved, PostStays, RelayStays
<1>11. ASSUME NEW p \in Peer, receive_relay_message(p)
       PROVE  Unmoved(m)
  <2>1. UNCHANGED <<relayVars, step, session, posts, sends, given_up>>
    BY <1>11 DEF receive_relay_message, callVars, requests, history
  <2>2. PICK n \in Message : /\ Recipient(n) = p
                             /\ persist_received_message(p, n, DELIVERY_MODE_RELAY)
    BY <1>11, ReceiveMoves
  <2>3. Stored(m, DELIVERY_MODE_DIRECT_TCP)' <=> Stored(m, DELIVERY_MODE_DIRECT_TCP)
    <3>1. DELIVERY_MODE_DIRECT_TCP # DELIVERY_MODE_RELAY
      BY DEF DELIVERY_MODE_DIRECT_TCP, DELIVERY_MODE_RELAY
    <3> QED
      BY <2>2, <3>1, StoredAfter DEF Parts
  <2> QED
    BY <2>1, <2>3, NothingMoves DEF Unmoved, PostStays, RelayStays
<1>12. ASSUME NEW p \in Peer, Crash(p)
       PROVE  IsKilled(m)
  <2>1. UNCHANGED <<session, posts, sends, given_up>>
    BY <1>12 DEF Crash, requests
  <2>2. \/ step'[m] = step[m]
        \/ step[m] \notin Finished \cup {"idle"} /\ step'[m] = "failed"
    BY <1>12 DEF Crash
  <2> QED
    BY <1>12, <2>1, <2>2, CrashMoves DEF IsKilled, RelayStays
<1>13. ASSUME NEW p \in Peer, Restart(p)
       PROVE  Unmoved(m)
  <2>1. QuietStep /\ UNCHANGED <<step, session, posts, sends, given_up>>
    BY <1>13 DEF Restart, QuietStep, callVars, requests, history
  <2> QED
    BY <2>1, QuietMoves DEF Unmoved, PostStays, RelayStays
<1>14. ASSUME NEW s \in Session, Lapse(s)
       PROVE  Unmoved(m)
  <2>1. UNCHANGED <<step, session, posts, sends, inbox, given_up>>
    BY <1>14 DEF Lapse, callVars, requests
  <2> QED
    BY <1>14, <2>1, LapseMoves, NothingMoves DEF Unmoved, PostStays, RelayStays
<1>15. CASE UNCHANGED vars
  <2>1. QuietStep /\ UNCHANGED <<step, session, posts, sends, given_up>>
    BY <1>15 DEF vars, QuietStep, callVars, requests, history
  <2> QED
    BY <2>1, QuietMoves DEF Moves, Unmoved, PostStays, RelayStays
<1> QED
  BY <1>1, <1>2, <1>3, <1>4, <1>5, <1>6, <1>7, <1>8, <1>9, <1>10, <1>11, <1>12, <1>13,
     <1>14, <1>15
  DEF Next, CallStep, GatewayStep, Moves

LEMMA SendsAreNewNext ==
    ASSUME Parts, [Next]_vars
    PROVE  SendsAreNew'
<1> SUFFICES ASSUME NEW m \in Message
             PROVE  /\ m \in sends' => /\ step'[m] \in {"sending", "failed"}
                                       /\ session'[m] # NoSession
                    /\ Relayed(m)' => /\ m \notin sends'
                                      /\ step'[m] \in {"relayed", "sent_relay", "failed"}
  BY DEF SendsAreNew
<1>1. /\ m \in sends => step[m] \in {"sending", "failed"} /\ session[m] # NoSession
      /\ Relayed(m) => m \notin sends /\ step[m] \in {"relayed", "sent_relay", "failed"}
      /\ step[m] \in {"attaching", "sending", "relayed", "sent_relay"} =>
            session[m] # NoSession
  BY DEF Parts, SendsAreNew, SessionsAreOwn
<1>2. CASE Unmoved(m) \/ Turns(m) \/ Posts(m) \/ Arrives(m)
  BY <1>1, <1>2 DEF Unmoved, Turns, Posts, Arrives, RelayStays
<1>3. CASE GivesUp(m) \/ Connects(m) \/ Sends(m)
  BY <1>1, <1>3 DEF GivesUp, Connects, Sends, RelayStays
<1>4. CASE IsAccepted(m) \/ IsKilled(m)
  BY <1>1, <1>4 DEF IsAccepted, IsKilled, RelayStays, Finished
<1> QED
  BY <1>2, <1>3, <1>4, EveryCallMoves DEF Moves

LEMMA PostsAreNewNext ==
    ASSUME Parts, [Next]_vars
    PROVE  PostsAreNew'
<1> DEFINE Posted(m) ==
        /\ m \in posts \/ Stored(m, DELIVERY_MODE_DIRECT_TCP) =>
             /\ step[m] \notin {"idle", "connecting"}
             /\ session[m] # NoSession => m \in given_up
        /\ m \in posts => /\ step[m] \notin {"posted", "sent_direct"}
                          /\ ~Stored(m, DELIVERY_MODE_DIRECT_TCP)
        /\ step[m] = "posting" => ~Stored(m, DELIVERY_MODE_DIRECT_TCP)
        /\ step[m] \in {"posted", "sent_direct"} => Stored(m, DELIVERY_MODE_DIRECT_TCP)
        /\ step[m] = "reconnecting" => m \in given_up
<1> SUFFICES ASSUME NEW m \in Message
             PROVE  Posted(m)'
  BY DEF PostsAreNew
<1>1. Posted(m)
  BY DEF Parts, PostsAreNew
<1>2. session[m] # NoSession =>
         step[m] \in {"attaching", "sending", "relayed", "sent_relay", "failed"}
  BY DEF Parts, SessionsAreOwn
<1>3. CASE Unmoved(m) \/ Turns(m)
  BY <1>1, <1>3 DEF Unmoved, Turns, PostStays, RelayStays
<1>4. CASE Posts(m) \/ Arrives(m)
  BY <1>1, <1>2, <1>4 DEF Posts, Arrives, RelayStays
<1>5. CASE GivesUp(m) \/ Connects(m)
  BY <1>1, <1>5 DEF GivesUp, Connects, PostStays, RelayStays
<1>6. CASE Sends(m) \/ IsAccepted(m)
  BY <1>1, <1>6 DEF Sends, IsAccepted, PostStays
<1>7. CASE IsKilled(m)
  BY <1>1, <1>7 DEF IsKilled, RelayStays, Finished
<1> QED
  BY <1>3, <1>4, <1>5, <1>6, <1>7, EveryCallMoves DEF Moves

LEMMA ModesAreKeptNext ==
    ASSUME Parts, [Next]_vars
    PROVE  ModesAreKept'
<1> DEFINE Kept(m) ==
        /\ ModeOf(m) = "direct" =>
             /\ step[m] \notin {"reconnecting", "attaching"}
             /\ m \notin sends /\ ~Relayed(m)
        /\ ModeOf(m) = "relay_only" =>
             /\ step[m] \notin {"posting", "posted"}
             /\ m \notin posts /\ ~Stored(m, DELIVERY_MODE_DIRECT_TCP)
<1> SUFFICES ASSUME NEW m \in Message
             PROVE  Kept(m)'
  BY DEF ModesAreKept, ModeOf
<1>1. Kept(m)
  BY DEF Parts, ModesAreKept
<1>2. ModeOf(m)' = ModeOf(m)
  BY DEF ModeOf
<1>3. CASE Unmoved(m) \/ Turns(m)
  BY <1>1, <1>2, <1>3 DEF Unmoved, Turns, PostStays, RelayStays
<1>4. CASE Posts(m) \/ Arrives(m)
  BY <1>1, <1>2, <1>4 DEF Posts, Arrives, RelayStays
<1>5. CASE GivesUp(m) \/ Connects(m)
  BY <1>1, <1>2, <1>5 DEF GivesUp, Connects, PostStays, RelayStays
<1>6. CASE Sends(m) \/ IsAccepted(m)
  BY <1>1, <1>2, <1>6 DEF Sends, IsAccepted, PostStays
<1>7. CASE IsKilled(m)
  BY <1>1, <1>2, <1>7 DEF IsKilled, RelayStays, Finished
<1> QED
  BY <1>3, <1>4, <1>5, <1>6, <1>7, EveryCallMoves DEF Moves

\* Nothing becomes unused again, and a session that a call was given stays its own.
LEMMA StatusNext ==
    ASSUME Parts, [Next]_vars
    PROVE  /\ status' \in [Session -> {"unused", "open", "closed"}]
           /\ \A s \in Session : status[s] # "unused" => status'[s] # "unused"
<1>1. status \in [Session -> {"unused", "open", "closed"}]
  BY DEF Parts, Shape
<1>2. \/ status' = status
      \/ \E s \in Session : \/ status' = [status EXCEPT ![s] = "open"]
                            \/ status' = [status EXCEPT ![s] = "closed"]
  <2>1. QuietStep => status' = status
    BY QuietMoves
  <2>2. \A m \in Message, s \in Session : ConnectRelay(m, s) \/ ConnectAnswerLost(m, s) =>
           status' = [status EXCEPT ![s] = "open"]
    BY Opened DEF Parts, ConnectRelay, ConnectAnswerLost
  <2>3. /\ \A m \in Message : RelaySendAccepted(m) => status' = status
        /\ \A m \in Message, at \in Peer : PostArrives(m, at) => status' = status
    BY AcceptedEnvelope DEF Parts, PostArrives, relayVars
  <2>4. \A p \in Peer : Poll(p) \/ PollAnswerLost(p) => status' = status
    BY HandAll DEF Parts, Poll, PollAnswerLost
  <2>5. \A p \in Peer : receive_relay_message(p) \/ Crash(p) => status' = status
    BY DEF receive_relay_message, Crash, relayVars
  <2>6. \A s \in Session : Lapse(s) => status' = [status EXCEPT ![s] = "closed"]
    BY LapsedStatus DEF Parts
  <2> QED
    BY <2>1, <2>2, <2>3, <2>4, <2>5, <2>6, Cases
<1> QED
  BY <1>1, <1>2

LEMMA SessionNext ==
    ASSUME [Next]_vars
    PROVE  UNCHANGED session \/ \E m \in Message, s \in Session : ConnectRelay(m, s)
<1>1. QuietStep => UNCHANGED session
  BY DEF QuietStep
<1>2. \A m \in Message, s \in Session : ConnectAnswerLost(m, s) => UNCHANGED session
  BY DEF ConnectAnswerLost
<1>3. /\ \A m \in Message : RelaySendAccepted(m) => UNCHANGED session
      /\ \A m \in Message, at \in Peer : PostArrives(m, at) => UNCHANGED session
  BY DEF RelaySendAccepted, PostArrives
<1>4. \A p \in Peer : Poll(p) \/ PollAnswerLost(p) \/ receive_relay_message(p) \/ Crash(p) =>
         UNCHANGED session
  BY DEF Poll, PollAnswerLost, receive_relay_message, Crash, callVars
<1>5. \A s \in Session : Lapse(s) => UNCHANGED session
  BY DEF Lapse, callVars
<1> QED
  BY <1>1, <1>2, <1>3, <1>4, <1>5, Cases

LEMMA SessionsAreOwnNext ==
    ASSUME Parts, [Next]_vars
    PROVE  SessionsAreOwn'
<1> SUFFICES ASSUME NEW m \in Message
             PROVE  /\ step'[m] \in {"attaching", "sending", "relayed", "sent_relay"} =>
                         session'[m] # NoSession
                    /\ session'[m] # NoSession =>
                         /\ status'[session'[m]] # "unused"
                         /\ step'[m] \in {"attaching", "sending", "relayed", "sent_relay",
                                          "failed"}
                         /\ \A n \in Message : session'[n] = session'[m] => n = m
  BY DEF SessionsAreOwn
<1> NoSession \notin Session /\ session \in [Message -> Session \cup {NoSession}]
  BY DeliveryAssumption DEF Parts, Shape
<1>1. /\ step[m] \in {"attaching", "sending", "relayed", "sent_relay"} =>
           session[m] # NoSession
      /\ session[m] # NoSession =>
           /\ status[session[m]] # "unused"
           /\ step[m] \in {"attaching", "sending", "relayed", "sent_relay", "failed"}
           /\ \A n \in Message : session[n] = session[m] => n = m
      /\ m \in sends => step[m] \in {"sending", "failed"} /\ session[m] # NoSession
  BY DEF Parts, SessionsAreOwn, SendsAreNew
<1>2. /\ step'[m] \in {"attaching", "sending", "relayed", "sent_relay"} =>
           session'[m] # NoSession
      /\ session'[m] # NoSession =>
           step'[m] \in {"attaching", "sending", "relayed", "sent_relay", "failed"}
  <2>1. CASE Unmoved(m) \/ Turns(m) \/ Posts(m)
    BY <1>1, <2>1 DEF Unmoved, Turns, Posts, RelayStays
  <2>2. CASE Arrives(m) \/ GivesUp(m) \/ Connects(m)
    BY <1>1, <2>2 DEF Arrives, GivesUp, Connects, RelayStays
  <2>3. CASE Sends(m) \/ IsAccepted(m) \/ IsKilled(m)
    BY <1>1, <2>3 DEF Sends, IsAccepted, IsKilled, RelayStays
  <2> QED
    BY <2>1, <2>2, <2>3, EveryCallMoves DEF Moves
<1>3. CASE UNCHANGED session
  BY <1>1, <1>2, <1>3, StatusNext
<1>4. ASSUME NEW n \in Message, NEW s \in Session, ConnectRelay(n, s)
      PROVE  session'[m] # NoSession =>
               /\ status'[session'[m]] # "unused"
               /\ \A k \in Message : session'[k] = session'[m] => k = m
  <2>1. session' = [session EXCEPT ![n] = s] /\ Relay!OpenSession({}, s)
    BY <1>4 DEF ConnectRelay
  <2>2. \A k \in Message : session[k] # s
    BY <2>1, OpenedIsFresh
  <2>3. status'[s] = "open"
    BY <2>1, Opened DEF Parts, Shape
  <2> QED
    BY <1>1, <2>1, <2>2, <2>3, StatusNext
<1> QED
  BY <1>2, <1>3, <1>4, SessionNext

LEMMA RelayNext ==
    ASSUME Parts, [Next]_vars
    PROVE  \/ UNCHANGED <<accepted, handed>>
           \/ \E m \in Message : RelaySendAccepted(m)
           \/ \E p \in Peer : Relay!Hand({}, p, {}) /\ UNCHANGED session
<1>1. QuietStep => UNCHANGED <<accepted, handed>>
  BY QuietMoves
<1>2. \A m \in Message, s \in Session : ConnectRelay(m, s) \/ ConnectAnswerLost(m, s) =>
         UNCHANGED <<accepted, handed>>
  BY DEF ConnectRelay, ConnectAnswerLost, Relay!OpenSession
<1>3. \A m \in Message, at \in Peer : PostArrives(m, at) => UNCHANGED <<accepted, handed>>
  BY DEF PostArrives, relayVars
<1>4. \A p \in Peer : Poll(p) \/ PollAnswerLost(p) =>
         Relay!Hand({}, p, {}) /\ UNCHANGED session
  BY DEF Poll, PollAnswerLost, callVars
<1>5. \A p \in Peer : receive_relay_message(p) \/ Crash(p) => UNCHANGED <<accepted, handed>>
  BY DEF receive_relay_message, Crash, relayVars
<1>6. \A s \in Session : Lapse(s) => UNCHANGED <<accepted, handed>>
  BY DEF Lapse, Relay!Lapse
<1> QED
  BY <1>1, <1>2, <1>3, <1>4, <1>5, <1>6, Cases

LEMMA OneEnvelopePerSessionNext ==
    ASSUME Parts, [Next]_vars
    PROVE  OneEnvelopePerSession'
<1> SUFFICES ASSUME NEW p \in Peer, NEW s \in Session
             PROVE  /\ \/ accepted'[p][s] = <<>>
                       \/ \E m \in Message : /\ session'[m] = s /\ Recipient(m) = p
                                             /\ accepted'[p][s] = <<EnvelopeOf(m)'>>
                    /\ handed'[p][s] \in {<<>>, accepted'[p][s]}
  BY DEF OneEnvelopePerSession, Recipient
<1>1. /\ \/ accepted[p][s] = <<>>
         \/ \E m \in Message : /\ session[m] = s /\ Recipient(m) = p
                               /\ accepted[p][s] = <<EnvelopeOf(m)>>
      /\ handed[p][s] \in {<<>>, accepted[p][s]}
  BY DEF Parts, OneEnvelopePerSession
<1>2. /\ accepted \in [Peer -> [Session -> Seq(Envelope)]]
      /\ handed \in [Peer -> [Session -> Seq(Envelope)]]
      /\ NoSession \notin Session
  BY DeliveryAssumption DEF Parts, Shape
<1>3. ASSUME NEW m \in Message, session[m] = s, Recipient(m) = p,
             accepted[p][s] = <<EnvelopeOf(m)>>
      PROVE  session'[m] = s /\ EnvelopeOf(m)' = EnvelopeOf(m)
  <2>1. Relayed(m)
    BY <1>2, <1>3 DEF Relayed
  <2>2. EnvelopeOf(m)' = EnvelopeOf(m)
    BY <2>1, RelayedStays
  <2> QED
    BY <1>3, <2>2 DEF EnvelopeOf
<1>4. CASE accepted'[p][s] = accepted[p][s] /\ handed'[p][s] \in {handed[p][s], accepted[p][s]}
  <2>1. CASE accepted[p][s] = <<>>
    BY <1>1, <1>4, <2>1
  <2>2. ASSUME NEW m \in Message, session[m] = s, Recipient(m) = p,
               accepted[p][s] = <<EnvelopeOf(m)>>
        PROVE  session'[m] = s /\ accepted'[p][s] = <<EnvelopeOf(m)'>>
    BY <1>3, <1>4, <2>2
  <2> QED
    BY <1>1, <1>4, <2>1, <2>2
<1>5. ASSUME NEW n \in Message, RelaySendAccepted(n)
      PROVE  \/ accepted'[p][s] = accepted[p][s] /\ handed'[p][s] = handed[p][s]
             \/ /\ session'[n] = s /\ Recipient(n) = p
                /\ accepted'[p][s] = <<EnvelopeOf(n)'>> /\ handed'[p][s] = <<>>
  <2> DEFINE one == <<EnvelopeOf(n)>>
             r == Recipient(n)
             z == session[n]
  <2>1. /\ accepted' = [accepted EXCEPT ![r][z] = one] /\ UNCHANGED <<handed, session>>
        /\ accepted[r][z] = <<>> /\ z \in Session /\ r \in Peer
    BY <1>5, AcceptMoves, CallPeers DEF RelaySendAccepted
  <2>2. EnvelopeOf(n)' = EnvelopeOf(n)
    BY <1>5, AcceptMoves
  <2>3. r \in DOMAIN accepted /\ z \in DOMAIN accepted[r]
    BY <1>2, <2>1
  <2>4. (p = r /\ s = z) \/ accepted'[p][s] = accepted[p][s]
    <3> HIDE DEF one, r, z
    <3> QED
      BY <1>2, <2>1, <2>3
  <2>5. accepted'[r][z] = one
    <3> HIDE DEF one, r, z
    <3> QED
      BY <2>1, <2>3
  <2>6. p = r /\ s = z => handed'[p][s] = <<>>
    BY <1>1, <2>1
  <2> QED
    BY <2>1, <2>2, <2>4, <2>5, <2>6
<1>6. ASSUME NEW q \in Peer, Relay!Hand({}, q, {})
      PROVE  /\ accepted'[p][s] = accepted[p][s]
             /\ handed'[p][s] \in {handed[p][s], accepted[p][s]}
  <2> DEFINE all == [t \in Session |-> IF status[t] = "open" THEN accepted[q][t]
                                       ELSE handed[q][t]]
  <2>1. accepted' = accepted /\ handed' = [handed EXCEPT ![q] = all]
    BY <1>6, HandAll DEF Parts
  <2>2. all[s] \in {handed[q][s], accepted[q][s]}
    OBVIOUS
  <2> HIDE DEF all
  <2> QED
    BY <1>2, <2>1, <2>2
<1> QED
  BY <1>4, <1>5, <1>6, RelayNext

-----------------------------------------------------------------------------
(***************************************************************************)
(* The counters.                                                           *)
(***************************************************************************)

\* One more is counted for p, on this counter and on no other.
Increments(p, counter) ==
    /\ counts' \in [Peer -> [Counter -> Nat]]
    /\ \A q \in Peer, c \in Counter :
          counts'[q][c] = IF q = p /\ c = counter THEN counts[q][c] + 1 ELSE counts[q][c]

LEMMA Remembered ==
    ASSUME Shape, NEW p \in Peer
    PROVE  /\ remember_delivery(p, DELIVERY_MODE_RELAY) => Increments(p, "relay_sent_count")
           /\ remember_delivery(p, "direct") => Increments(p, "none of them")
<1> USE DEF Shape, Increments, Counter, DELIVERY_MODE_RELAY, DELIVERY_MODE_DIRECT_TCP
<1>1. ASSUME remember_delivery(p, DELIVERY_MODE_RELAY)
      PROVE  Increments(p, "relay_sent_count")
  BY <1>1 DEF remember_delivery
<1>2. ASSUME remember_delivery(p, "direct")
      PROVE  Increments(p, "none of them")
  BY <1>2 DEF remember_delivery
<1> QED
  BY <1>1, <1>2

LEMMA Persisted ==
    ASSUME Shape, NEW p \in Peer, NEW m
    PROVE  /\ persist_received_message(p, m, DELIVERY_MODE_DIRECT_TCP) =>
                Increments(p, "direct_received_count")
           /\ persist_received_message(p, m, DELIVERY_MODE_RELAY) =>
                Increments(p, "relay_received_count")
<1> USE DEF Shape, Increments, Counter, DELIVERY_MODE_RELAY, DELIVERY_MODE_DIRECT_TCP
<1>1. ASSUME persist_received_message(p, m, DELIVERY_MODE_DIRECT_TCP)
      PROVE  Increments(p, "direct_received_count")
  BY <1>1, SMTT(30) DEF persist_received_message
<1>2. ASSUME persist_received_message(p, m, DELIVERY_MODE_RELAY)
      PROVE  Increments(p, "relay_received_count")
  BY <1>2, SMTT(30) DEF persist_received_message
<1> QED
  BY <1>1, <1>2

\* Which steps touch what the counters count.
SentStays == \A m \in Message : step'[m] = "sent_relay" <=> step[m] = "sent_relay"

LEMMA CountsNext ==
    ASSUME Parts, [Next]_vars
    PROVE  \/ UNCHANGED <<counts, inbox>> /\ SentStays
           \/ \E m \in Message : PostAnswered(m)
           \/ \E m \in Message : RelaySendAnswered(m)
           \/ \E m \in Message, at \in Peer : PostArrives(m, at)
           \/ \E p \in Peer : receive_relay_message(p)
           \/ \E p \in Peer : Crash(p)
<1> step \in [Message -> Steps]
  BY DEF Parts, Shape
<1> USE DEF Goto, SentStays, callVars
<1>1. \A m \in Message : SendMessage(m) \/ ConnectDirect(m) \/ PostFails(m) \/ CallFails(m) =>
         UNCHANGED <<counts, inbox>> /\ SentStays
  BY DEF SendMessage, ConnectDirect, PostFails, CallFails
<1>2. \A m \in Message, s \in Session : ConnectRelay(m, s) \/ ConnectAnswerLost(m, s) =>
         UNCHANGED <<counts, inbox>> /\ SentStays
  BY DEF ConnectRelay, ConnectAnswerLost
<1>3. \A m \in Message : AttachAnswered(m) \/ RelaySendAccepted(m) =>
         UNCHANGED <<counts, inbox>> /\ SentStays
  BY DEF AttachAnswered, RelaySendAccepted
<1>4. \A p \in Peer : Poll(p) \/ PollAnswerLost(p) \/ Restart(p) =>
         UNCHANGED <<counts, inbox>> /\ SentStays
  BY DEF Poll, PollAnswerLost, Restart
<1>5. \A s \in Session : Lapse(s) => UNCHANGED <<counts, inbox>> /\ SentStays
  BY DEF Lapse
<1>6. UNCHANGED vars => UNCHANGED <<counts, inbox>> /\ SentStays
  BY DEF vars
<1> QED
  BY <1>1, <1>2, <1>3, <1>4, <1>5, <1>6 DEF Next, CallStep, GatewayStep

LEMMA CountsType ==
    ASSUME Parts, [Next]_vars
    PROVE  counts' \in [Peer -> [Counter -> Nat]]
<1>1. \A m \in Message : PostAnswered(m) \/ RelaySendAnswered(m) =>
         counts' \in [Peer -> [Counter -> Nat]]
  BY Remembered, CallPeers DEF Parts, PostAnswered, RelaySendAnswered, Increments
<1>2. \A m \in Message, at \in Peer :
         PostArrives(m, at) => counts' \in [Peer -> [Counter -> Nat]]
  BY Persisted DEF Parts, PostArrives, Increments
<1>3. \A p \in Peer : receive_relay_message(p) => counts' \in [Peer -> [Counter -> Nat]]
  BY Persisted DEF Parts, receive_relay_message, Increments
<1>4. \A p \in Peer : Crash(p) => counts' \in [Peer -> [Counter -> Nat]]
  BY DEF Crash, Parts, Shape, NoCounts
<1>5. UNCHANGED counts => counts' \in [Peer -> [Counter -> Nat]]
  BY DEF Parts, Shape
<1> QED
  BY <1>1, <1>2, <1>3, <1>4, <1>5, CountsNext

LEMMA CallsType ==
    ASSUME Parts, [Next]_vars
    PROVE  /\ running' \subseteq Peer
           /\ step' \in [Message -> Steps]
           /\ posts' \cup sends' \cup given_up' \subseteq Message
<1> DEFINE Typed == /\ running' \subseteq Peer
                    /\ step' \in [Message -> Steps]
                    /\ posts' \cup sends' \cup given_up' \subseteq Message
<1> /\ running \subseteq Peer /\ step \in [Message -> Steps]
    /\ posts \cup sends \cup given_up \subseteq Message
  BY DEF Parts, Shape
<1> USE DEF Goto, Steps, requests, history, callVars
<1>1. \A m \in Message : SendMessage(m) \/ ConnectDirect(m) \/ PostFails(m) => Typed
  BY DEF SendMessage, ConnectDirect, PostFails
<1>2. \A m \in Message : CallFails(m) \/ AttachAnswered(m) => Typed
  BY DEF CallFails, AttachAnswered
<1>3. \A m \in Message, s \in Session : ConnectRelay(m, s) \/ ConnectAnswerLost(m, s) => Typed
  BY DEF ConnectRelay, ConnectAnswerLost
<1>4. \A m \in Message : PostAnswered(m) \/ RelaySendAnswered(m) => Typed
  BY DEF PostAnswered, RelaySendAnswered
<1>5. /\ \A m \in Message : RelaySendAccepted(m) => Typed
      /\ \A m \in Message, at \in Peer : PostArrives(m, at) => Typed
  BY DEF RelaySendAccepted, PostArrives
<1>6. \A p \in Peer : Poll(p) \/ PollAnswerLost(p) \/ receive_relay_message(p) => Typed
  BY DEF Poll, PollAnswerLost, receive_relay_message
<1>7. \A p \in Peer : Crash(p) \/ Restart(p) => Typed
  BY DEF Crash, Restart
<1>8. \A s \in Session : Lapse(s) => Typed
  BY DEF Lapse
<1>9. UNCHANGED vars => Typed
  BY DEF vars
<1> QED
  BY <1>1, <1>2, <1>3, <1>4, <1>5, <1>6, <1>7, <1>8, <1>9 DEF Next, CallStep, GatewayStep

LEMMA RelayType ==
    ASSUME Parts, [Next]_vars
    PROVE  /\ accepted' \in [Peer -> [Session -> Seq(Envelope)]]
           /\ handed' \in [Peer -> [Session -> Seq(Envelope)]]
<1>1. /\ accepted \in [Peer -> [Session -> Seq(Envelope)]]
      /\ handed \in [Peer -> [Session -> Seq(Envelope)]]
  BY DEF Parts, Shape
<1>2. ASSUME NEW m \in Message, RelaySendAccepted(m)
      PROVE  /\ accepted' \in [Peer -> [Session -> Seq(Envelope)]]
             /\ UNCHANGED handed
  <2> DEFINE r == Recipient(m)
             z == session[m]
             log == Append(accepted[r][z], EnvelopeOf(m))
  <2>1. /\ z \in Session /\ EnvelopeOf(m) \in Envelope /\ r \in Peer /\ UNCHANGED handed
        /\ accepted' = [accepted EXCEPT ![r][z] = log]
    BY <1>2, AcceptedEnvelope, CallPeers DEF Parts
  <2>2. log \in Seq(Envelope)
    BY <1>1, <2>1
  <2> HIDE DEF log, r, z
  <2> QED
    BY <1>1, <2>1, <2>2
<1>3. ASSUME NEW p \in Peer, Relay!Hand({}, p, {})
      PROVE  /\ UNCHANGED accepted
             /\ handed' \in [Peer -> [Session -> Seq(Envelope)]]
  <2> DEFINE all == [s \in Session |-> IF status[s] = "open" THEN accepted[p][s]
                                       ELSE handed[p][s]]
  <2>1. accepted' = accepted /\ handed' = [handed EXCEPT ![p] = all]
    BY <1>3, HandAll DEF Parts
  <2>2. all \in [Session -> Seq(Envelope)]
    BY <1>1
  <2> HIDE DEF all
  <2> QED
    BY <1>1, <2>1, <2>2
<1> QED
  BY <1>1, <1>2, <1>3, RelayNext

LEMMA ShapeNext ==
    ASSUME Parts, [Next]_vars
    PROVE  Shape'
<1>1. session' \in [Message -> Session \cup {NoSession}]
  BY SessionNext DEF Parts, Shape, ConnectRelay
<1>2. inbox' \in [Peer -> Seq(Entry)]
  <2>1. \A n \in Message, at \in Peer : PostArrives(n, at) => inbox' \in [Peer -> Seq(Entry)]
    BY PostMoves
  <2>2. \A p \in Peer : receive_relay_message(p) => inbox' \in [Peer -> Seq(Entry)]
    BY ReceiveMoves, StoredAfter DEF Parts
  <2> QED
    BY <2>1, <2>2, WhoTouchesWhat DEF Parts, Shape
<1>3. batch' \in [Peer -> Seq(Envelope)]
  BY PollMoves, TailOfBatch, CrashMoves, WhoTouchesWhat DEF Parts, Shape
<1>4. lost' \subseteq Envelope
  <2>1. \A e \in lost' : \E m \in Message : Relayed(m)' /\ e = EnvelopeOf(m)'
    BY EnvelopesAreAcceptedNext DEF EnvelopesAreAccepted
  <2>2. \A m \in Message : Relayed(m)' => EnvelopeOf(m)' \in Envelope
    BY <1>1, CallPeers DEF Relayed, EnvelopeOf, Envelope, Recipient
  <2> QED
    BY <2>1, <2>2
<1> QED
  BY <1>1, <1>2, <1>3, <1>4, StatusNext, RelayType, CallsType, CountsType DEF Shape

LEMMA CountedMore ==
    ASSUME NEW p, NEW S, IsFiniteSet(S), NEW x, x \notin S, NEW count \in Nat,
           Counted(p, count, S)
    PROVE  Counted(p, count + 1, S \cup {x})
<1>1. Cardinality(S) \in Nat /\ Cardinality(S \cup {x}) = Cardinality(S) + 1
  BY FS_CardinalityType, FS_AddElement
<1> QED
  BY <1>1 DEF Counted

LEMMA CountedNone ==
    ASSUME NEW p \in Fragile, NEW S, IsFiniteSet(S)
    PROVE  Counted(p, 0, S)
BY FS_CardinalityType DEF Counted

LEMMA BegunNext ==
    ASSUME Parts, [Next]_vars
    PROVE  IsFiniteSet(Begun)'
<1>1. IsFiniteSet(Begun) /\ step \in [Message -> Steps]
  BY DEF Parts, CountersTally, Shape
<1>2. ASSUME NEW m \in Message, SendMessage(m)
      PROVE  IsFiniteSet(Begun)'
  <2>1. Begun' = Begun \cup {m}
    BY <1>1, <1>2 DEF SendMessage, Goto, Begun
  <2> QED
    BY <1>1, <2>1, FS_AddElement
<1>3. ASSUME ~ \E m \in Message : SendMessage(m)
      PROVE  IsFiniteSet(Begun)'
  <2>1. \A m \in Message : step[m] = "idle" => step'[m] = "idle"
    <3> SUFFICES ASSUME NEW n \in Message, step[n] = "idle" PROVE step'[n] = "idle"
      OBVIOUS
    <3> USE DEF Goto, callVars
    <3>1. \A m \in Message : ConnectDirect(m) \/ PostFails(m) \/ CallFails(m) =>
             step'[n] = step[n]
      BY <1>1 DEF ConnectDirect, PostFails, CallFails
    <3>2. \A m \in Message, s \in Session : ConnectRelay(m, s) \/ ConnectAnswerLost(m, s) =>
             step'[n] = step[n]
      BY <1>1 DEF ConnectRelay, ConnectAnswerLost
    <3>3. \A m \in Message : AttachAnswered(m) \/ RelaySendAccepted(m) => step'[n] = step[n]
      BY <1>1 DEF AttachAnswered, RelaySendAccepted
    <3>4. /\ \A m \in Message : PostAnswered(m) \/ RelaySendAnswered(m) => step'[n] = step[n]
          /\ \A m \in Message, at \in Peer : PostArrives(m, at) => step'[n] = step[n]
      BY <1>1 DEF PostAnswered, RelaySendAnswered, PostArrives
    <3>5. \A p \in Peer : Poll(p) \/ PollAnswerLost(p) \/ receive_relay_message(p) =>
             step'[n] = step[n]
      BY DEF Poll, PollAnswerLost, receive_relay_message
    <3>6. \A p \in Peer : Crash(p) \/ Restart(p) => step'[n] = step[n]
      BY DEF Crash, Restart
    <3>7. \A s \in Session : Lapse(s) => step'[n] = step[n]
      BY DEF Lapse
    <3>8. UNCHANGED vars => step'[n] = step[n]
      BY DEF vars
    <3> QED
      BY <1>3, <3>1, <3>2, <3>3, <3>4, <3>5, <3>6, <3>7, <3>8
      DEF Next, CallStep, GatewayStep
  <2>2. Begun' \subseteq Begun
    BY <2>1 DEF Begun
  <2> QED
    BY <1>1, <2>2, FS_Subset
<1> QED
  BY <1>2, <1>3

\* What is counted is among the calls made, so it can be counted.
LEMMA CountedAreBegun ==
    ASSUME SendsAreNew, PostsAreNew, EnvelopesAreAccepted, IsFiniteSet(Begun), NEW p \in Peer
    PROVE  \A S \in {Sent(p, "sent_relay"), Received(p, DELIVERY_MODE_DIRECT_TCP),
                     Received(p, DELIVERY_MODE_RELAY)} :
              IsFiniteSet(S) /\ Cardinality(S) \in Nat /\ Cardinality(S) <= Cardinality(Begun)
<1>1. Sent(p, "sent_relay") \subseteq Begun
  BY DEF Sent, Begun
<1>2. Received(p, DELIVERY_MODE_DIRECT_TCP) \subseteq Begun
  BY DEF Received, Stored, Begun, PostsAreNew
<1>3. Received(p, DELIVERY_MODE_RELAY) \subseteq Begun
  BY DEF Received, Stored, Begun, SendsAreNew, EnvelopesAreAccepted
<1> QED
  BY <1>1, <1>2, <1>3, FS_Subset, FS_CardinalityType

LEMMA CountersTallyNext ==
    ASSUME Parts, [Next]_vars
    PROVE  CountersTally'
<1> DEFINE Tally(p) ==
             /\ counts[p].direct_sent_count = 0
             /\ Counted(p, counts[p].relay_sent_count, Sent(p, "sent_relay"))
             /\ Counted(p, counts[p].direct_received_count,
                        Received(p, DELIVERY_MODE_DIRECT_TCP))
             /\ Counted(p, counts[p].relay_received_count, Received(p, DELIVERY_MODE_RELAY))
<1> SUFFICES ASSUME NEW p \in Peer
             PROVE  Tally(p)'
  BY BegunNext DEF CountersTally
<1>1. Tally(p) /\ counts \in [Peer -> [Counter -> Nat]]
  BY DEF Parts, CountersTally, Shape
<1>2. /\ IsFiniteSet(Sent(p, "sent_relay"))
      /\ IsFiniteSet(Received(p, DELIVERY_MODE_DIRECT_TCP))
      /\ IsFiniteSet(Received(p, DELIVERY_MODE_RELAY))
  BY CountedAreBegun DEF Parts, CountersTally
<1>3. SentStays => Sent(p, "sent_relay")' = Sent(p, "sent_relay")
  BY DEF SentStays, Sent
<1>4. UNCHANGED inbox => \A how : Received(p, how)' = Received(p, how)
  BY NothingMoves DEF Received
<1>5. counts[p].direct_sent_count \in Nat /\ counts[p].relay_sent_count \in Nat
      /\ counts[p].direct_received_count \in Nat /\ counts[p].relay_received_count \in Nat
  BY <1>1 DEF Counter
<1>6. CASE UNCHANGED <<counts, inbox>> /\ SentStays
  BY <1>1, <1>3, <1>4, <1>6 DEF Counted
<1>7. ASSUME NEW n \in Message, PostAnswered(n)
      PROVE  Tally(p)'
  <2>1. UNCHANGED inbox /\ Increments(Sender[n], "none of them")
    BY <1>7, Remembered, CallPeers DEF PostAnswered, Parts
  <2>2. SentStays
    BY <1>7 DEF PostAnswered, Goto, SentStays, Parts, Shape
  <2>3. \A c \in Counter : counts'[p][c] = counts[p][c]
    BY <2>1 DEF Increments, Counter
  <2> QED
    BY <1>1, <1>3, <1>4, <2>1, <2>2, <2>3 DEF Counted, Counter
<1>8. ASSUME NEW n \in Message, RelaySendAnswered(n)
      PROVE  Tally(p)'
  <2>1. UNCHANGED inbox /\ Increments(Sender[n], "relay_sent_count")
    BY <1>8, Remembered, CallPeers DEF RelaySendAnswered, Parts
  <2>2. step[n] = "relayed" /\ step' = [step EXCEPT ![n] = "sent_relay"]
        /\ step \in [Message -> Steps]
    BY <1>8 DEF RelaySendAnswered, Goto, Parts, Shape
  <2>3. /\ counts'[p].direct_sent_count = counts[p].direct_sent_count
        /\ counts'[p].direct_received_count = counts[p].direct_received_count
        /\ counts'[p].relay_received_count = counts[p].relay_received_count
        /\ counts'[p].relay_sent_count = IF p = Sender[n] THEN counts[p].relay_sent_count + 1
                                         ELSE counts[p].relay_sent_count
    BY <2>1 DEF Increments, Counter
  <2>4. n \notin Sent(p, "sent_relay")
    BY <2>2 DEF Sent
  <2>5. Sent(p, "sent_relay")' = IF p = Sender[n] THEN Sent(p, "sent_relay") \cup {n}
                                 ELSE Sent(p, "sent_relay")
    BY <2>2 DEF Sent
  <2>6. Counted(p, counts[p].relay_sent_count, Sent(p, "sent_relay"))'
    <3>1. CASE p = Sender[n]
      <4>1. Counted(p, counts[p].relay_sent_count + 1, Sent(p, "sent_relay") \cup {n})
        BY <1>1, <1>2, <1>5, <2>4, CountedMore
      <4> QED
        BY <2>3, <2>5, <3>1, <4>1 DEF Counted
    <3>2. CASE p # Sender[n]
      BY <1>1, <2>3, <2>5, <3>2 DEF Counted
    <3> QED
      BY <3>1, <3>2
  <2> QED
    BY <1>1, <1>4, <2>1, <2>3, <2>6 DEF Counted
<1>9. ASSUME NEW n \in Message, NEW at \in Peer, PostArrives(n, at)
      PROVE  Tally(p)'
  <2> DEFINE S == Received(p, DELIVERY_MODE_DIRECT_TCP)
  <2>1. Increments(at, "direct_received_count")
    BY <1>9, Persisted DEF PostArrives, Parts
  <2>2. SentStays
    BY <1>9 DEF PostArrives, Goto, SentStays, Parts, Shape
  <2>3. /\ counts'[p].direct_sent_count = counts[p].direct_sent_count
        /\ counts'[p].relay_sent_count = counts[p].relay_sent_count
        /\ counts'[p].relay_received_count = counts[p].relay_received_count
        /\ counts'[p].direct_received_count =
              IF p = at THEN counts[p].direct_received_count + 1
              ELSE counts[p].direct_received_count
    BY <2>1 DEF Increments, Counter
  <2>4. n \notin S
    BY <1>9, PostMoves DEF Received, Stored
  <2>5. /\ S' = IF p = at THEN S \cup {n} ELSE S
        /\ Received(p, DELIVERY_MODE_RELAY)' = Received(p, DELIVERY_MODE_RELAY)
    BY <1>9, PostMoves DEF Received
  <2> HIDE DEF S
  <2>6. Counted(p, counts[p].direct_received_count, S)'
    <3>1. CASE p = at
      <4>1. Counted(p, counts[p].direct_received_count + 1, S \cup {n})
        BY <1>1, <1>2, <1>5, <2>4, CountedMore DEF S
      <4> QED
        BY <2>3, <2>5, <3>1, <4>1 DEF Counted
    <3>2. CASE p # at
      BY <1>1, <2>3, <2>5, <3>2 DEF Counted, S
    <3> QED
      BY <3>1, <3>2
  <2> QED
    BY <1>1, <1>3, <2>2, <2>3, <2>5, <2>6 DEF Counted, S
<1>10. ASSUME NEW r \in Peer, receive_relay_message(r)
       PROVE  Tally(p)'
  <2> DEFINE S == Received(p, DELIVERY_MODE_RELAY)
  <2>1. PICK n \in Message : /\ Recipient(n) = r /\ ~Stored(n, DELIVERY_MODE_RELAY)
                             /\ persist_received_message(r, n, DELIVERY_MODE_RELAY)
    BY <1>10, ReceiveMoves
  <2>2. Increments(r, "relay_received_count")
    BY <2>1, Persisted DEF Parts
  <2>3. SentStays
    BY <1>10 DEF receive_relay_message, callVars, SentStays
  <2>4. /\ counts'[p].direct_sent_count = counts[p].direct_sent_count
        /\ counts'[p].relay_sent_count = counts[p].relay_sent_count
        /\ counts'[p].direct_received_count = counts[p].direct_received_count
        /\ counts'[p].relay_received_count =
              IF p = r THEN counts[p].relay_received_count + 1
              ELSE counts[p].relay_received_count
    BY <2>2 DEF Increments, Counter
  <2>5. \A m \in Message :
           /\ StoredAt(p, m, DELIVERY_MODE_RELAY)' <=>
                 StoredAt(p, m, DELIVERY_MODE_RELAY) \/ (p = r /\ m = n)
           /\ StoredAt(p, m, DELIVERY_MODE_DIRECT_TCP)' <=>
                 StoredAt(p, m, DELIVERY_MODE_DIRECT_TCP)
    <3>1. DELIVERY_MODE_DIRECT_TCP # DELIVERY_MODE_RELAY
      BY DEF DELIVERY_MODE_DIRECT_TCP, DELIVERY_MODE_RELAY
    <3> QED
      BY <2>1, <3>1, StoredAfter DEF Parts
  <2>6. n \notin S
    BY <2>1 DEF Received, Stored
  <2>7. /\ S' = IF p = r THEN S \cup {n} ELSE S
        /\ Received(p, DELIVERY_MODE_DIRECT_TCP)' = Received(p, DELIVERY_MODE_DIRECT_TCP)
    BY <2>1, <2>5 DEF Received
  <2> HIDE DEF S
  <2>8. Counted(p, counts[p].relay_received_count, S)'
    <3>1. CASE p = r
      <4>1. Counted(p, counts[p].relay_received_count + 1, S \cup {n})
        BY <1>1, <1>2, <1>5, <2>6, CountedMore DEF S
      <4> QED
        BY <2>4, <2>7, <3>1, <4>1 DEF Counted
    <3>2. CASE p # r
      BY <1>1, <2>4, <2>7, <3>2 DEF Counted, S
    <3> QED
      BY <3>1, <3>2
  <2> QED
    BY <1>1, <1>3, <2>3, <2>4, <2>7, <2>8 DEF Counted, S
<1>11. ASSUME NEW r \in Peer, Crash(r)
       PROVE  Tally(p)'
  <2>1. UNCHANGED inbox /\ r \in Fragile /\ counts' = [counts EXCEPT ![r] = NoCounts]
    BY <1>11 DEF Crash
  <2>2. SentStays
    BY <1>11 DEF Crash, SentStays, Finished
  <2>3. CASE p = r
    <3>1. /\ counts'[p].direct_sent_count = 0 /\ counts'[p].relay_sent_count = 0
          /\ counts'[p].direct_received_count = 0 /\ counts'[p].relay_received_count = 0
      BY <1>1, <2>1, <2>3 DEF NoCounts, Counter
    <3>2. /\ Counted(p, 0, Sent(p, "sent_relay"))
          /\ Counted(p, 0, Received(p, DELIVERY_MODE_DIRECT_TCP))
          /\ Counted(p, 0, Received(p, DELIVERY_MODE_RELAY))
      BY <1>2, <2>1, <2>3, CountedNone
    <3> QED
      BY <1>3, <1>4, <2>1, <2>2, <3>1, <3>2 DEF Counted
  <2>4. CASE p # r
    <3>1. counts'[p] = counts[p]
      BY <1>1, <2>1, <2>4
    <3> QED
      BY <1>1, <1>3, <1>4, <2>1, <2>2, <3>1 DEF Counted
  <2> QED
    BY <2>3, <2>4
<1> QED
  BY <1>6, <1>7, <1>8, <1>9, <1>10, <1>11, CountsNext

-----------------------------------------------------------------------------
(***************************************************************************)
(* The invariant holds, and the properties follow from it.                 *)
(***************************************************************************)

LEMMA PartsInit == Init => Parts
<1> SUFFICES ASSUME Init
             PROVE  Parts
  OBVIOUS
<1> USE DEF Init, Relay!Init
<1>1. Begun = {}
  BY DEF Begun
<1>2. Shape
  BY DEF Shape, Steps, NoCounts
<1>3. \A m \in Message : \A how : /\ ~Relayed(m) /\ ~Stored(m, how)
                                  /\ \A p \in Peer : ~StoredAt(p, m, how)
  BY CallPeers DEF Relayed, Stored, StoredAt, CopiesAt
<1>4. SessionsAreOwn /\ OneEnvelopePerSession /\ NothingTwice
  BY DEF SessionsAreOwn, OneEnvelopePerSession, NothingTwice
<1>5. SendsAreNew /\ PostsAreNew /\ ModesAreKept
  BY <1>3 DEF SendsAreNew, PostsAreNew, ModesAreKept
<1>6. EnvelopesAreAccepted /\ StoredWhere /\ OnePlace
  <2>1. EnvelopesAreAccepted
    BY <1>3 DEF EnvelopesAreAccepted
  <2>2. StoredWhere
    BY <1>3 DEF StoredWhere
  <2>3. OnePlace
    BY <1>3 DEF OnePlace
  <2> QED
    BY <2>1, <2>2, <2>3
<1>7. CountersTally
  <2>1. \A p \in Peer : /\ Sent(p, "sent_relay") = {}
                        /\ Received(p, DELIVERY_MODE_DIRECT_TCP) = {}
                        /\ Received(p, DELIVERY_MODE_RELAY) = {}
    BY <1>3 DEF Sent, Received
  <2>2. \A p \in Peer : /\ counts[p].direct_sent_count = 0 /\ counts[p].relay_sent_count = 0
                        /\ counts[p].direct_received_count = 0
                        /\ counts[p].relay_received_count = 0
    BY DEF NoCounts, Counter
  <2>3. IsFiniteSet({}) /\ Cardinality({}) = 0
    BY FS_EmptySet
  <2> HIDE DEF Init, Relay!Init
  <2> QED
    BY <1>1, <2>1, <2>2, <2>3 DEF CountersTally, Counted
<1> QED
  BY <1>2, <1>4, <1>5, <1>6, <1>7 DEF Parts

LEMMA PartsNext == Parts /\ [Next]_vars => Parts'
BY ShapeNext, SessionsAreOwnNext, OneEnvelopePerSessionNext, SendsAreNewNext,
   PostsAreNewNext, ModesAreKeptNext, EnvelopesAreAcceptedNext, NothingTwiceNext,
   StoredWhereNext, OnePlaceNext, CountersTallyNext
DEF Parts

LEMMA PartsHold == Spec => []Parts
BY PartsInit, PartsNext, PTL DEF Spec

\* No counter is ahead of the calls made.
LEMMA PartsType == Parts => TypeOK
<1> SUFFICES ASSUME Parts
             PROVE  TypeOK
  OBVIOUS
<1>1. ASSUME NEW p \in Peer
      PROVE  \A c \in Counter : counts[p][c] <= Cardinality(Begun)
  <2>1. /\ counts[p].direct_sent_count = 0
        /\ counts[p].relay_sent_count <= Cardinality(Sent(p, "sent_relay"))
        /\ counts[p].direct_received_count <=
              Cardinality(Received(p, DELIVERY_MODE_DIRECT_TCP))
        /\ counts[p].relay_received_count <= Cardinality(Received(p, DELIVERY_MODE_RELAY))
    BY DEF Parts, CountersTally, Counted
  <2>2. \A S \in {Sent(p, "sent_relay"), Received(p, DELIVERY_MODE_DIRECT_TCP),
                  Received(p, DELIVERY_MODE_RELAY)} :
           Cardinality(S) \in Nat /\ Cardinality(S) <= Cardinality(Begun)
    BY CountedAreBegun DEF Parts, CountersTally
  <2>3. Cardinality(Begun) \in Nat
    BY FS_CardinalityType DEF Parts, CountersTally
  <2>4. counts[p] \in [Counter -> Nat]
    BY DEF Parts, Shape
  <2> QED
    BY <2>1, <2>2, <2>3, <2>4 DEF Counter
<1> QED
  BY <1>1 DEF Parts, Shape, TypeOK

\* The inductive invariant of the delivery, for every instance: calls have sessions of
\* their own, nothing is posted or sent twice, envelopes are at one place, and the
\* counters tally with what was stored and told.
THEOREM DeliveryInvariantHolds == Spec => []DeliveryInvariant
<1>1. Parts => DeliveryInvariant
  BY PartsType DEF Parts, DeliveryInvariant
<1> QED
  BY <1>1, PartsHold, PTL

\* The variables of the delivery keep their types, and no counter runs ahead of the
\* calls that were made.
THEOREM DeliveryTypeCorrect == Spec => []TypeOK
BY PartsType, PartsHold, PTL

\* A message its sender was told is sent over a direct connection is, whatever is killed,
\* lost or late, from then on in the inbox file of a gateway that listens where its target
\* is said to: wherever addresses lead, and so in the target's if they lead to it alone.
THEOREM SentDirectStored == Spec => []SentDirectIsStored
<1>1. ASSUME Parts, NEW m \in Message, step[m] = "sent_direct"
      PROVE  \E p \in Listeners[Recipient(m)] : StoredAt(p, m, DELIVERY_MODE_DIRECT_TCP)
  <2>1. PICK p \in Peer : StoredAt(p, m, DELIVERY_MODE_DIRECT_TCP)
    BY <1>1 DEF Parts, PostsAreNew, Stored
  <2>2. p \in Listeners[Recipient(m)]
    BY <1>1, <2>1 DEF Parts, StoredWhere
  <2> QED
    BY <2>1, <2>2
<1>2. Parts => SentDirectIsStored
  BY <1>1 DEF SentDirectIsStored
<1> QED
  BY <1>2, PartsHold, PTL

LEMMA CopiesAreStored ==
    \A m, how : Copies(m, how) # {} <=> Stored(m, how)
<1> SUFFICES ASSUME NEW m, NEW how
             PROVE  Copies(m, how) # {} <=> Stored(m, how)
  OBVIOUS
<1>1. ASSUME NEW c \in Copies(m, how)
      PROVE  Stored(m, how)
  <2>1. PICK p \in Peer : c \in {p} \X CopiesAt(p, m, how)
    BY DEF Copies
  <2> QED
    BY <2>1 DEF Stored, StoredAt
<1>2. ASSUME NEW p \in Peer, NEW i \in CopiesAt(p, m, how)
      PROVE  <<p, i>> \in Copies(m, how)
  BY DEF Copies
<1> QED
  BY <1>1, <1>2 DEF Stored, StoredAt

\* The mode a user has forced is kept on every path: what is forced direct never gets
\* to the relay, and what is relay-only is never posted.
THEOREM ForcedModesKept == Spec => []ForcedModeIsKept
<1>1. ASSUME Parts, NEW m \in Message, ModeOf(m) = "direct", NEW s \in Session
      PROVE  EnvelopeOf(m) \notin ToSet(accepted[Recipient(m)][s])
  <2> DEFINE log == accepted[Recipient(m)][s]
  <2>1. CASE log = <<>>
    BY <2>1 DEF ToSet
  <2>2. ASSUME NEW n \in Message, session[n] = s, Recipient(n) = Recipient(m),
               log = <<EnvelopeOf(n)>>
        PROVE  EnvelopeOf(m) \notin ToSet(log)
    <3>1. Relayed(n)
      BY <2>2, DeliveryAssumption DEF Relayed
    <3>2. n # m
      BY <1>1, <3>1 DEF Parts, ModesAreKept
    <3>3. ToSet(log) = {EnvelopeOf(n)}
      BY <2>2 DEF ToSet
    <3> QED
      BY <3>2, <3>3, EnvelopesDiffer
  <2> QED
    BY <1>1, <2>1, <2>2, CallPeers DEF Parts, OneEnvelopePerSession
<1>2. Parts => \A m \in Message : ModeOf(m) = "relay_only" =>
                  step[m] # "posting" /\ Copies(m, DELIVERY_MODE_DIRECT_TCP) = {}
  BY CopiesAreStored DEF Parts, ModesAreKept
<1>3. Parts => ForcedModeIsKept
  BY <1>1, <1>2 DEF ForcedModeIsKept
<1> QED
  BY <1>3, PartsHold, PTL

\* Each path stores a message at most once, and both paths only when the sender is in
\* auto mode and its POST failed.
THEOREM DuplicatesByFallback == Spec => []DuplicatesOnlyByFallback
<1>1. ASSUME Parts, NEW m \in Message,
             NEW how \in {DELIVERY_MODE_DIRECT_TCP, DELIVERY_MODE_RELAY}
      PROVE  Cardinality(Copies(m, how)) <= 1
  <2>1. \A i, j \in Copies(m, how) : i = j
    <3> SUFFICES ASSUME NEW p \in Peer, NEW i \in CopiesAt(p, m, how),
                        NEW q \in Peer, NEW j \in CopiesAt(q, m, how)
                 PROVE  p = q /\ i = j
      BY DEF Copies
    <3>1. p = q
      BY <1>1 DEF Parts, StoredWhere, StoredAt
    <3> QED
      BY <1>1, <3>1 DEF Parts, NothingTwice, CopiesAt
  <2>2. CASE Copies(m, how) = {}
    BY <2>2, FS_EmptySet
  <2>3. ASSUME NEW i \in Copies(m, how)
        PROVE  Cardinality(Copies(m, how)) <= 1
    <3>1. Copies(m, how) = {i}
      BY <2>1
    <3>2. Cardinality({i}) = 1
      BY FS_Singleton
    <3> QED
      BY <3>1, <3>2
  <2> QED
    BY <2>2, <2>3
<1>2. ASSUME Parts, NEW m \in Message, Stored(m, DELIVERY_MODE_DIRECT_TCP),
             Stored(m, DELIVERY_MODE_RELAY)
      PROVE  ModeOf(m) = "auto" /\ m \in given_up
  <2>1. Relayed(m)
    BY <1>2 DEF Parts, EnvelopesAreAccepted
  <2>2. m \in given_up
    BY <1>2, <2>1 DEF Parts, PostsAreNew, Relayed
  <2>3. ModeOf(m) # "direct" /\ ModeOf(m) # "relay_only"
    BY <1>2, <2>1 DEF Parts, ModesAreKept
  <2> QED
    BY <2>2, <2>3, CallPeers, DeliveryAssumption DEF ModeOf, ModesOfCommunication
<1>3. Parts => DuplicatesOnlyByFallback
  BY <1>1, <1>2, CopiesAreStored DEF DuplicatesOnlyByFallback
<1> QED
  BY <1>3, PartsHold, PTL

\* An envelope the hub has accepted is in exactly one place, however requests, answers
\* and processes are lost, and one it has not accepted is nowhere.
THEOREM AcceptedIsSomewhere == Spec => []EnvelopesAreSomewhere
<1>1. ASSUME Parts, NEW m \in Message
      PROVE  LET e == EnvelopeOf(m)
                 p == Recipient(m)
                 places == {place \in {"hub", "batch", "inbox", "lost"} :
                              CASE place = "hub" -> e \in New(p)
                                [] place = "batch" -> e \in ToSet(batch[p])
                                [] place = "inbox" -> StoredAt(p, m, DELIVERY_MODE_RELAY)
                                [] place = "lost" -> e \in lost}
             IN IF session[m] # NoSession /\ e \in ToSet(accepted[p][session[m]])
                THEN Cardinality(places) = 1 ELSE places = {}
  <2> DEFINE e == EnvelopeOf(m)
             p == Recipient(m)
             places == {place \in {"hub", "batch", "inbox", "lost"} :
                          CASE place = "hub" -> e \in New(p)
                            [] place = "batch" -> e \in ToSet(batch[p])
                            [] place = "inbox" -> StoredAt(p, m, DELIVERY_MODE_RELAY)
                            [] place = "lost" -> e \in lost}
  <2>1. \A place : place \in places <=>
           \/ place = "hub" /\ e \in New(p)
           \/ place = "batch" /\ InBatch(m)
           \/ place = "inbox" /\ StoredAt(p, m, DELIVERY_MODE_RELAY)
           \/ place = "lost" /\ e \in lost
    BY DEF InBatch
  <2>0. StoredAt(p, m, DELIVERY_MODE_RELAY) <=> Stored(m, DELIVERY_MODE_RELAY)
    BY <1>1, CallPeers DEF Parts, StoredWhere, Stored
  <2>2. e \in New(p) <=> WaitsAtHub(m)
    BY <1>1, NewIsWaiting, EnvelopesDiffer, CallPeers DEF Parts
  <2>3. session[m] # NoSession /\ e \in ToSet(accepted[p][session[m]]) <=> Relayed(m)
    <3>1. ToSet(<<>>) = {} /\ ToSet(<<e>>) = {e}
      BY DEF ToSet
    <3>2. Relayed(m) => accepted[p][session[m]] = <<e>>
      BY <1>1, CallPeers DEF Parts, Shape, SessionsAreOwn, OneEnvelopePerSession, Relayed
    <3> QED
      BY <3>1, <3>2 DEF Relayed
  <2> HIDE DEF places
  <2>4. CASE Relayed(m)
    <3>1. \E x : places = {x}
      BY <1>1, <2>0, <2>1, <2>2, <2>4 DEF Parts, OnePlace
    <3>2. Cardinality(places) = 1
      BY <3>1, FS_Singleton
    <3> QED
      BY <2>3, <2>4, <3>2 DEF places
  <2>5. CASE ~Relayed(m)
    <3>1. places = {}
      BY <1>1, <2>0, <2>1, <2>2, <2>5, BeyondIsRelayed DEF WaitsAtHub
    <3> QED
      BY <2>3, <2>5, <3>1 DEF places
  <2> QED
    BY <2>4, <2>5
<1>2. Parts => EnvelopesAreSomewhere
  BY <1>1 DEF EnvelopesAreSomewhere
<1> QED
  BY <1>2, PartsHold, PTL

\* Three counters of a gateway that was never killed say exactly how many calls were told
\* "sent" over the relay and how many messages are stored for it; the fourth stays at
\* zero, however many were sent over a direct connection.
THEOREM CountersAreExact == Spec => []CountersTally
<1>1. Parts => CountersTally
  BY DEF Parts
<1> QED
  BY <1>1, PartsHold, PTL

\* What the gateways do with the relay is what the Mailbox allows, so that the hub, which
\* implements the Mailbox, can be put in its place.
THEOREM DeliveryUsesMailbox == Spec => Relay!Spec
<1>1. Init => Relay!Init
  BY DEF Init
<1>2. ASSUME Parts, [Next]_vars
      PROVE  [Relay!Next]_Relay!vars
  <2> USE DEF Relay!Next
  <2>1. CASE QuietStep
    BY <2>1, QuietMoves DEF Relay!vars
  <2>2. ASSUME NEW m \in Message, NEW s \in Session, ConnectRelay(m, s) \/ ConnectAnswerLost(m, s)
        PROVE  Relay!Next
    <3>1. Relay!OpenSession({}, s)
      BY <2>2 DEF ConnectRelay, ConnectAnswerLost
    <3> QED
      BY <3>1
  <2>3. ASSUME NEW m \in Message, RelaySendAccepted(m)
        PROVE  Relay!Next
    <3>1. Relay!Accept({}, session[m], Recipient(m)) /\ session[m] \in Session
      BY <1>2, <2>3, AcceptedEnvelope DEF RelaySendAccepted, Parts
    <3> QED
      BY <3>1, CallPeers
  <2>4. ASSUME NEW p \in Peer, Poll(p) \/ PollAnswerLost(p)
        PROVE  Relay!Next
    <3>1. Relay!Hand({}, p, {})
      BY <2>4 DEF Poll, PollAnswerLost
    <3> QED
      BY <3>1
  <2>5. ASSUME NEW s \in Session, Lapse(s)
        PROVE  Relay!Next
    <3>1. Relay!Lapse({s})
      BY <2>5 DEF Lapse
    <3> QED
      BY <3>1
  <2>6. \A m \in Message, at \in Peer : PostArrives(m, at) => UNCHANGED Relay!vars
    BY DEF PostArrives, relayVars, Relay!vars
  <2>7. \A p \in Peer : receive_relay_message(p) \/ Crash(p) => UNCHANGED Relay!vars
    BY DEF receive_relay_message, Crash, relayVars, Relay!vars
  <2> QED
    BY <1>2, <2>1, <2>2, <2>3, <2>4, <2>5, <2>6, <2>7, Cases
<1> QED
  BY <1>1, <1>2, PartsHold, PTL DEF Spec, Relay!Spec
=============================================================================
