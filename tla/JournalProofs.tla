---------------------------- MODULE JournalProofs ----------------------------
(***************************************************************************)
(* Proofs about Journal and EventFeed, for any tasks, polls, window of     *)
(* events and bounds: the inductive invariants JournalInvariant and, on    *)
(* top of it, FeedInvariant, and with them the safety properties of both.  *)
(***************************************************************************)
EXTENDS EventFeed, SelectionProofs, SequenceTheorems, FiniteSetTheorems

-----------------------------------------------------------------------------
(* The steps of a call.                                                    *)

StepName == ({"state"} \X {"number", "push"}) \cup (File \X Part) \cup {<<"event_tx", "send">>}

\* The steps of record_event and of what precedes it for a message, by the number of
\* steps that are left of each.
RecordStep ==
    << <<"event_tx", "send">>, <<"events", "newline">>, <<"events", "tail">>,
       <<"events", "head">>, <<"state", "number">> >>
MessageStep ==
    << <<"state", "push">>, <<"inbox", "newline">>, <<"inbox", "tail">>, <<"inbox", "head">> >>

LEMMA JoinOf ==
    ASSUME NEW s \in Seq(StepName), NEW t \in Seq(StepName)
    PROVE  /\ s \o t \in Seq(StepName) /\ Len(s \o t) = Len(s) + Len(t)
           /\ \A i \in 1..Len(s) : (s \o t)[i] = s[i]
           /\ \A i \in 1..Len(t) : (s \o t)[Len(s) + i] = t[i]
<1>1. s \o t \in Seq(StepName) /\ Len(s \o t) = Len(s) + Len(t)
  OBVIOUS
<1>2. \A i \in 1..Len(s) : (s \o t)[i] = s[i]
  OBVIOUS
<1>3. \A i \in 1..Len(t) : (s \o t)[Len(s) + i] = t[i]
  OBVIOUS
<1> QED
  BY <1>1, <1>2, <1>3

LEMMA ThreeSteps ==
    ASSUME NEW a \in StepName, NEW b \in StepName, NEW c \in StepName
    PROVE  /\ <<a, b, c>> \in Seq(StepName) /\ Len(<<a, b, c>>) = 3
           /\ <<a, b, c>>[1] = a /\ <<a, b, c>>[2] = b /\ <<a, b, c>>[3] = c
OBVIOUS

LEMMA OneStep ==
    ASSUME NEW a \in StepName
    PROVE  <<a>> \in Seq(StepName) /\ Len(<<a>>) = 1 /\ <<a>>[1] = a
OBVIOUS

LEMMA LineIs ==
    ASSUME NEW f \in File
    PROVE  /\ append_json_line(f) \in Seq(StepName) /\ Len(append_json_line(f)) = 3
           /\ append_json_line(f)[1] = <<f, "head">>
           /\ append_json_line(f)[2] = <<f, "tail">>
           /\ append_json_line(f)[3] = <<f, "newline">>
<1>1. <<f, "head">> \in StepName /\ <<f, "tail">> \in StepName /\ <<f, "newline">> \in StepName
  BY DEF StepName, Part
<1> QED
  BY <1>1, ThreeSteps DEF append_json_line

LEMMA RecordIs ==
    /\ record_event \in Seq(StepName) /\ Len(record_event) = 5
    /\ \A r \in 1..5 : record_event[6 - r] = RecordStep[r]
<1> DEFINE a == << <<"state", "number">> >>
           b == append_json_line("events")
           c == << <<"event_tx", "send">> >>
           d == a \o b
           e == d \o c
<1>1. a \in Seq(StepName) /\ Len(a) = 1 /\ a[1] = <<"state", "number">>
  BY OneStep DEF StepName
<1>2. /\ b \in Seq(StepName) /\ Len(b) = 3 /\ b[1] = <<"events", "head">>
      /\ b[2] = <<"events", "tail">> /\ b[3] = <<"events", "newline">>
  BY LineIs DEF File
<1>3. c \in Seq(StepName) /\ Len(c) = 1 /\ c[1] = <<"event_tx", "send">>
  BY OneStep DEF StepName
<1> HIDE DEF a, b, c
<1>4. /\ d \in Seq(StepName) /\ Len(d) = Len(a) + Len(b)
      /\ \A i \in 1..Len(a) : d[i] = a[i]
      /\ \A i \in 1..Len(b) : d[Len(a) + i] = b[i]
  BY <1>1, <1>2, JoinOf
<1> HIDE DEF d
<1>5. Len(d) = 4 /\ d[1] = a[1] /\ d[2] = b[1] /\ d[3] = b[2] /\ d[4] = b[3]
  BY <1>1, <1>2, <1>4
<1>6. /\ e \in Seq(StepName) /\ Len(e) = Len(d) + Len(c)
      /\ \A i \in 1..Len(d) : e[i] = d[i]
      /\ \A i \in 1..Len(c) : e[Len(d) + i] = c[i]
  BY <1>3, <1>4, JoinOf
<1> HIDE DEF e
<1>7. /\ Len(e) = 5 /\ e[1] = d[1] /\ e[2] = d[2] /\ e[3] = d[3] /\ e[4] = d[4]
      /\ e[5] = c[1]
  BY <1>3, <1>5, <1>6
<1>8. \A r \in 1..5 : e[6 - r] = RecordStep[r]
  <2>1. /\ RecordStep[1] = e[5] /\ RecordStep[2] = e[4] /\ RecordStep[3] = e[3]
        /\ RecordStep[4] = e[2] /\ RecordStep[5] = e[1]
    BY <1>1, <1>2, <1>3, <1>5, <1>7 DEF RecordStep
  <2>2. \A r \in 1..5 : r = 1 \/ r = 2 \/ r = 3 \/ r = 4 \/ r = 5
    OBVIOUS
  <2> QED
    BY <2>1, <2>2
<1> QED
  BY <1>6, <1>7, <1>8 DEF record_event, a, b, c, d, e

\* The first part of the code of a message.
MessageSteps == append_json_line("inbox") \o << <<"state", "push">> >>

LEMMA MessageIs ==
    /\ MessageSteps \in Seq(StepName) /\ Len(MessageSteps) = 4
    /\ \A r \in 1..4 : MessageSteps[5 - r] = MessageStep[r]
<1> DEFINE b == append_json_line("inbox")
           c == << <<"state", "push">> >>
           e == b \o c
<1>1. /\ b \in Seq(StepName) /\ Len(b) = 3 /\ b[1] = <<"inbox", "head">>
      /\ b[2] = <<"inbox", "tail">> /\ b[3] = <<"inbox", "newline">>
  BY LineIs DEF File
<1>2. c \in Seq(StepName) /\ Len(c) = 1 /\ c[1] = <<"state", "push">>
  BY OneStep DEF StepName
<1> HIDE DEF b, c
<1>3. /\ e \in Seq(StepName) /\ Len(e) = Len(b) + Len(c)
      /\ \A i \in 1..Len(b) : e[i] = b[i]
      /\ \A i \in 1..Len(c) : e[Len(b) + i] = c[i]
  BY <1>1, <1>2, JoinOf
<1> HIDE DEF e
<1>4. Len(e) = 4 /\ e[1] = b[1] /\ e[2] = b[2] /\ e[3] = b[3] /\ e[4] = c[1]
  BY <1>1, <1>2, <1>3
<1>5. \A r \in 1..4 : e[5 - r] = MessageStep[r]
  <2>1. /\ MessageStep[1] = e[4] /\ MessageStep[2] = e[3] /\ MessageStep[3] = e[2]
        /\ MessageStep[4] = e[1]
    BY <1>1, <1>2, <1>4 DEF MessageStep
  <2>2. \A r \in 1..4 : r = 1 \/ r = 2 \/ r = 3 \/ r = 4
    OBVIOUS
  <2> QED
    BY <2>1, <2>2
<1> QED
  BY <1>3, <1>4, <1>5 DEF MessageSteps, b, c, e

\* The kinds of calls, the number of their steps, and each of them by the number of steps
\* left.
Kind == {"event", "direct", "relay"}
NumberOf(kind) == CASE kind = "event" -> 5 [] kind = "direct" -> 9 [] kind = "relay" -> 14
StepOf(kind, r) ==
    CASE r <= 5 -> RecordStep[r]
      [] r > 5 /\ r <= 9 /\ kind = "direct" -> MessageStep[r - 5]
      [] r > 5 /\ r <= 10 /\ kind = "relay" -> RecordStep[r - 5]
      [] r > 10 /\ kind = "relay" -> MessageStep[r - 10]

LEMMA StepsAre ==
    ASSUME NEW kind \in Kind
    PROVE  /\ Steps(kind) \in Seq(StepName) /\ Len(Steps(kind)) = NumberOf(kind)
           /\ \A r \in 1..NumberOf(kind) :
                 Steps(kind)[NumberOf(kind) + 1 - r] = StepOf(kind, r)
<1> DEFINE a == record_event
           b == MessageSteps
           c == b \o a
           d == c \o a
<1>1. /\ a \in Seq(StepName) /\ Len(a) = 5
      /\ \A r \in 1..5 : a[6 - r] = RecordStep[r]
  BY RecordIs
<1>2. /\ b \in Seq(StepName) /\ Len(b) = 4
      /\ \A r \in 1..4 : b[5 - r] = MessageStep[r]
  BY MessageIs
<1>3. persist_received_message = c
  <2>1. /\ append_json_line("inbox") \in Seq(StepName)
        /\ << <<"state", "push">> >> \in Seq(StepName)
    BY DEF append_json_line, StepName, File, Part
  <2> QED
    BY DEF persist_received_message, MessageSteps
<1> HIDE DEF a, b
<1>4. /\ c \in Seq(StepName) /\ Len(c) = 9
      /\ \A i \in 1..4 : c[i] = b[i]
      /\ \A i \in 1..5 : c[4 + i] = a[i]
  <2>1. /\ c \in Seq(StepName) /\ Len(c) = Len(b) + Len(a)
        /\ \A i \in 1..Len(b) : c[i] = b[i]
        /\ \A i \in 1..Len(a) : c[Len(b) + i] = a[i]
    BY <1>1, <1>2, JoinOf
  <2> HIDE DEF c
  <2> QED
    BY <2>1, <1>1, <1>2
<1>5. /\ \A r \in 1..5 : c[10 - r] = RecordStep[r]
      /\ \A r \in 6..9 : c[10 - r] = MessageStep[r - 5]
  <2>1. ASSUME NEW r \in 1..5
        PROVE  c[10 - r] = RecordStep[r]
    <3>1. 6 - r \in 1..5 /\ 10 - r = 4 + (6 - r)
      OBVIOUS
    <3> QED
      BY <3>1, <1>1, <1>4, ZenonT(30)
  <2>2. ASSUME NEW r \in 6..9
        PROVE  c[10 - r] = MessageStep[r - 5]
    <3>1. r - 5 \in 1..4 /\ 10 - r = 5 - (r - 5) /\ 10 - r \in 1..4
      OBVIOUS
    <3> QED
      BY <3>1, <1>2, <1>4, ZenonT(30)
  <2> QED
    BY <2>1, <2>2
<1> HIDE DEF c
<1>6. /\ d \in Seq(StepName) /\ Len(d) = 14
      /\ \A i \in 1..9 : d[i] = c[i]
      /\ \A i \in 1..5 : d[9 + i] = a[i]
  <2>1. /\ d \in Seq(StepName) /\ Len(d) = Len(c) + Len(a)
        /\ \A i \in 1..Len(c) : d[i] = c[i]
        /\ \A i \in 1..Len(a) : d[Len(c) + i] = a[i]
    BY <1>1, <1>4, JoinOf
  <2> HIDE DEF d
  <2> QED
    BY <2>1, <1>1, <1>4
<1> HIDE DEF d
<1>7. /\ \A r \in 1..5 : d[15 - r] = RecordStep[r]
      /\ \A r \in 6..14 : d[15 - r] = c[10 - (r - 5)]
  <2>1. ASSUME NEW r \in 1..5
        PROVE  d[15 - r] = RecordStep[r]
    <3>1. 6 - r \in 1..5 /\ 15 - r = 9 + (6 - r)
      OBVIOUS
    <3> QED
      BY <3>1, <1>1, <1>6
  <2>2. ASSUME NEW r \in 6..14
        PROVE  d[15 - r] = c[10 - (r - 5)]
    <3>1. 15 - r = 10 - (r - 5) /\ 15 - r \in 1..9
      OBVIOUS
    <3> QED
      BY <3>1, <1>6
  <2> QED
    BY <2>1, <2>2
<1>8. CASE kind = "event"
  <2>1. Steps(kind) = a /\ NumberOf(kind) = 5
    BY <1>8 DEF Steps, NumberOf, a
  <2> QED
    BY <2>1, <1>1 DEF StepOf
<1>9. CASE kind = "direct"
  <2>1. Steps(kind) = c /\ NumberOf(kind) = 9
    BY <1>3, <1>9 DEF Steps, NumberOf
  <2>2. \A r \in 1..9 : c[10 - r] = StepOf("direct", r)
    <3> SUFFICES ASSUME NEW r \in 1..9
                 PROVE  c[10 - r] = StepOf("direct", r)
      OBVIOUS
    <3>1. CASE r \in 1..5
      BY <3>1, <1>5 DEF StepOf
    <3>2. CASE r \in 6..9
      BY <3>2, <1>5 DEF StepOf
    <3> QED
      BY <3>1, <3>2
  <2> QED
    BY <2>1, <2>2, <1>4, <1>9
<1>10. CASE kind = "relay"
  <2>1. Steps(kind) = d /\ NumberOf(kind) = 14
    BY <1>3, <1>10 DEF Steps, NumberOf, a, d
  <2>2. \A r \in 1..14 : d[15 - r] = StepOf("relay", r)
    <3> SUFFICES ASSUME NEW r \in 1..14
                 PROVE  d[15 - r] = StepOf("relay", r)
      OBVIOUS
    <3>1. CASE r \in 1..5
      BY <3>1, <1>7 DEF StepOf
    <3>2. CASE r \in 6..10
      <4>1. r - 5 \in 1..5 /\ r \in 6..14
        BY <3>2
      <4>2. d[15 - r] = RecordStep[r - 5]
        BY <4>1, <1>5, <1>7
      <4> QED
        BY <4>2, <3>2 DEF StepOf
    <3>3. CASE r \in 11..14
      <4>1. r - 5 \in 6..9 /\ r \in 6..14 /\ (r - 5) - 5 = r - 10
        BY <3>3
      <4>2. d[15 - r] = MessageStep[r - 10]
        BY <4>1, <1>5, <1>7
      <4> QED
        BY <4>2, <3>3 DEF StepOf
    <3> QED
      BY <3>1, <3>2, <3>3
  <2> QED
    BY <2>1, <2>2, <1>6, <1>10
<1> QED
  BY <1>8, <1>9, <1>10 DEF Kind

-----------------------------------------------------------------------------
(* What is left of a call.                                                 *)

\* A suffix of the steps of a call, told by how many of them are left.
Fits(s, kind) ==
    /\ s \in Seq(StepName) /\ Len(s) <= NumberOf(kind)
    /\ \A i \in 1..Len(s) : s[i] = StepOf(kind, Len(s) - i + 1)

LEMMA NumberOfIsNat ==
    ASSUME NEW kind \in Kind
    PROVE  NumberOf(kind) \in Nat
BY DEF Kind, NumberOf

LEMMA NothingFits ==
    ASSUME NEW kind \in Kind
    PROVE  Fits(<<>>, kind)
<1>1. NumberOf(kind) \in Nat
  BY NumberOfIsNat
<1> QED
  BY <1>1 DEF Fits

LEMMA StepsFit ==
    ASSUME NEW kind \in Kind
    PROVE  Fits(Steps(kind), kind)
<1> DEFINE s == Steps(kind)
           n == NumberOf(kind)
<1>1. /\ s \in Seq(StepName) /\ Len(s) = n /\ n \in Nat
      /\ \A r \in 1..n : s[n + 1 - r] = StepOf(kind, r)
  BY StepsAre, NumberOfIsNat
<1> HIDE DEF s, n
<1>2. ASSUME NEW i \in 1..n
      PROVE  s[i] = StepOf(kind, n - i + 1)
  <2>1. n - i + 1 \in 1..n /\ n + 1 - (n - i + 1) = i
    BY <1>1
  <2> QED
    BY <1>1, <2>1
<1>3. Len(s) <= n
  BY <1>1
<1> QED
  BY <1>1, <1>2, <1>3 DEF Fits, s, n

LEMMA RestFits ==
    ASSUME NEW kind \in Kind, NEW s, Fits(s, kind), s # <<>>
    PROVE  /\ Len(s) \in 1..NumberOf(kind) /\ Head(s) = StepOf(kind, Len(s))
           /\ Fits(Tail(s), kind)
           /\ Len(s) = 1 => Tail(s) = <<>>
           /\ Len(s) > 1 => Tail(s) # <<>> /\ Head(Tail(s)) = StepOf(kind, Len(s) - 1)
<1> DEFINE n == Len(s)
           t == Tail(s)
<1>1. s \in Seq(StepName) /\ n \in Nat /\ n > 0 /\ n <= NumberOf(kind) /\ NumberOf(kind) \in Nat
  BY NumberOfIsNat DEF Fits
<1>2. /\ t \in Seq(StepName) /\ Len(t) = n - 1
      /\ \A i \in 1..(n - 1) : t[i] = s[i + 1]
  BY <1>1
<1>3. Head(s) = StepOf(kind, n)
  <2>1. Head(s) = s[1] /\ 1 \in 1..n /\ n - 1 + 1 = n
    BY <1>1
  <2> QED
    BY <2>1 DEF Fits
<1>4. \A i \in 1..(n - 1) : t[i] = StepOf(kind, (n - 1) - i + 1)
  <2> SUFFICES ASSUME NEW i \in 1..(n - 1)
               PROVE  t[i] = StepOf(kind, (n - 1) - i + 1)
    OBVIOUS
  <2>1. i + 1 \in 1..n /\ n - (i + 1) + 1 = (n - 1) - i + 1
    BY <1>1
  <2>2. s[i + 1] = StepOf(kind, n - (i + 1) + 1)
    BY <2>1 DEF Fits
  <2> QED
    BY <1>2, <2>1, <2>2
<1>5. Fits(t, kind)
  <2>1. Len(t) <= NumberOf(kind)
    BY <1>1, <1>2
  <2> HIDE DEF t, n
  <2> QED
    BY <1>2, <1>4, <2>1 DEF Fits
<1>6. ASSUME n = 1
      PROVE  t = <<>>
  <2> HIDE DEF t, n
  <2>1. Len(t) = 0
    BY <1>2, <1>6
  <2> QED
    BY <1>2, <2>1
<1>7. ASSUME n > 1
      PROVE  t # <<>> /\ Head(t) = StepOf(kind, n - 1)
  <2>1. Len(t) > 0 /\ 1 \in 1..(n - 1) /\ (n - 1) - 1 + 1 = n - 1
    BY <1>1, <1>2, <1>7
  <2> HIDE DEF t, n
  <2>2. t # <<>> /\ Head(t) = t[1]
    BY <1>2, <2>1
  <2> QED
    BY <1>4, <2>1, <2>2
<1> QED
  BY <1>1, <1>3, <1>5, <1>6, <1>7

LEMMA FittingIsSuffix ==
    ASSUME NEW kind \in Kind, NEW s, Fits(s, kind)
    PROVE  IsSuffix(s, Steps(kind))
<1> DEFINE t == Steps(kind)
           n == Len(s)
           m == NumberOf(kind)
           p == Reverse(s)
           q == Reverse(t)
<1>1. /\ s \in Seq(StepName) /\ n \in Nat /\ n <= m /\ m \in Nat
      /\ t \in Seq(StepName) /\ Len(t) = m
  BY NumberOfIsNat, StepsAre DEF Fits
<1>2. p = [i \in 1..n |-> s[(n - i) + 1]] /\ q = [i \in 1..m |-> t[(m - i) + 1]]
  BY <1>1 DEF Reverse
<1>3. \A i \in 1..n : s[(n - i) + 1] = StepOf(kind, i)
  <2> SUFFICES ASSUME NEW i \in 1..n
               PROVE  s[(n - i) + 1] = StepOf(kind, i)
    OBVIOUS
  <2>1. (n - i) + 1 \in 1..n /\ n - ((n - i) + 1) + 1 = i
    BY <1>1
  <2> QED
    BY <2>1 DEF Fits
<1>4. \A i \in 1..n : t[(m - i) + 1] = StepOf(kind, i)
  <2> SUFFICES ASSUME NEW i \in 1..n
               PROVE  t[(m - i) + 1] = StepOf(kind, i)
    OBVIOUS
  <2>1. i \in 1..m /\ m + 1 - i = (m - i) + 1
    BY <1>1
  <2>2. t[m + 1 - i] = StepOf(kind, i)
    BY <2>1, StepsAre
  <2> QED
    BY <2>1, <2>2
<1>5. /\ p \in Seq(StepName) /\ Len(p) = n /\ q \in Seq(StepName) /\ Len(q) = m
  <2>1. \A i \in 1..n : s[(n - i) + 1] \in StepName
    BY <1>1
  <2>2. \A i \in 1..m : t[(m - i) + 1] \in StepName
    BY <1>1
  <2> HIDE DEF n, m, t
  <2> QED
    BY <1>1, <1>2, <2>1, <2>2
<1>6. \A i \in 1..n : p[i] = q[i]
  <2> HIDE DEF n, m, t, p, q
  <2> QED
    BY <1>1, <1>2, <1>3, <1>4
<1> HIDE DEF n, m, t, p, q
<1>7. SubSeq(p, 1, n) = SubSeq(q, 1, n)
  BY <1>1, <1>5, <1>6
<1> QED
  BY <1>1, <1>5, <1>7 DEF IsSuffix, IsPrefix, t, p, q, n, m

LEMMA RecordSteps ==
    /\ RecordStep[1] = <<"event_tx", "send">> /\ RecordStep[2] = <<"events", "newline">>
    /\ RecordStep[3] = <<"events", "tail">> /\ RecordStep[4] = <<"events", "head">>
    /\ RecordStep[5] = <<"state", "number">>
BY DEF RecordStep

LEMMA MessageStepsAre ==
    /\ MessageStep[1] = <<"state", "push">> /\ MessageStep[2] = <<"inbox", "newline">>
    /\ MessageStep[3] = <<"inbox", "tail">> /\ MessageStep[4] = <<"inbox", "head">>
BY DEF MessageStep

\* What follows a step.
Following(step) ==
    CASE step = <<"state", "number">> -> <<"events", "head">>
      [] step = <<"events", "head">> -> <<"events", "tail">>
      [] step = <<"events", "tail">> -> <<"events", "newline">>
      [] step = <<"events", "newline">> -> <<"event_tx", "send">>
      [] step = <<"inbox", "head">> -> <<"inbox", "tail">>
      [] step = <<"inbox", "tail">> -> <<"inbox", "newline">>
      [] step = <<"inbox", "newline">> -> <<"state", "push">>
      [] OTHER -> <<"state", "number">>

LEMMA FollowingIs ==
    /\ Following(<<"state", "number">>) = <<"events", "head">>
    /\ Following(<<"events", "head">>) = <<"events", "tail">>
    /\ Following(<<"events", "tail">>) = <<"events", "newline">>
    /\ Following(<<"events", "newline">>) = <<"event_tx", "send">>
    /\ Following(<<"inbox", "head">>) = <<"inbox", "tail">>
    /\ Following(<<"inbox", "tail">>) = <<"inbox", "newline">>
    /\ Following(<<"inbox", "newline">>) = <<"state", "push">>
    /\ Following(<<"state", "push">>) = <<"state", "number">>
    /\ Following(<<"event_tx", "send">>) = <<"state", "number">>
BY DEF Following

LEMMA FollowingInLine ==
    \A f \in File : /\ Following(<<f, "head">>) = <<f, "tail">>
                   /\ Following(<<f, "tail">>) = <<f, "newline">>
BY FollowingIs DEF File

LEMMA OrderOfSteps ==
    ASSUME NEW kind \in Kind, NEW r \in 1..NumberOf(kind)
    PROVE  /\ r > 1 => StepOf(kind, r - 1) = Following(StepOf(kind, r))
           /\ r = 1 => StepOf(kind, r) = <<"event_tx", "send">>
<1>1. CASE r \in 1..5
  <2>1. /\ StepOf(kind, r) = RecordStep[r]
        /\ r > 1 => StepOf(kind, r - 1) = RecordStep[r - 1]
    BY <1>1 DEF StepOf
  <2>2. r = 1 \/ r = 2 \/ r = 3 \/ r = 4 \/ r = 5
    BY <1>1
  <2> QED
    BY <2>1, <2>2, RecordSteps, FollowingIs
<1>2. CASE kind = "direct" /\ r \in 6..9
  <2>1. r = 6 \/ r = 7 \/ r = 8 \/ r = 9
    BY <1>2
  <2>2. /\ StepOf(kind, 5) = RecordStep[5] /\ StepOf(kind, 6) = MessageStep[1]
        /\ StepOf(kind, 7) = MessageStep[2] /\ StepOf(kind, 8) = MessageStep[3]
        /\ StepOf(kind, 9) = MessageStep[4]
    BY <1>2 DEF StepOf
  <2> QED
    BY <2>1, <2>2, RecordSteps, MessageStepsAre, FollowingIs, SMTT(30)
<1>3. CASE kind = "relay" /\ r \in 6..14
  <2>1. /\ StepOf(kind, 5) = RecordStep[5] /\ StepOf(kind, 6) = RecordStep[1]
        /\ StepOf(kind, 7) = RecordStep[2] /\ StepOf(kind, 8) = RecordStep[3]
        /\ StepOf(kind, 9) = RecordStep[4] /\ StepOf(kind, 10) = RecordStep[5]
    BY <1>3 DEF StepOf
  <2>2. /\ StepOf(kind, 11) = MessageStep[1] /\ StepOf(kind, 12) = MessageStep[2]
        /\ StepOf(kind, 13) = MessageStep[3] /\ StepOf(kind, 14) = MessageStep[4]
    BY <1>3 DEF StepOf
  <2>3. CASE r \in 6..10
    <3>1. r = 6 \/ r = 7 \/ r = 8 \/ r = 9 \/ r = 10
      BY <2>3
    <3> QED
      BY <3>1, <2>1, RecordSteps, FollowingIs
  <2>4. CASE r \in 11..14
    <3>1. r = 11 \/ r = 12 \/ r = 13 \/ r = 14
      BY <2>4
    <3>2. /\ StepOf(kind, 10) = <<"state", "number">> /\ StepOf(kind, 11) = <<"state", "push">>
          /\ StepOf(kind, 12) = <<"inbox", "newline">>
          /\ StepOf(kind, 13) = <<"inbox", "tail">> /\ StepOf(kind, 14) = <<"inbox", "head">>
      BY <2>1, <2>2, RecordSteps, MessageStepsAre
    <3> QED
      BY <3>1, <3>2, FollowingIs
  <2> QED
    BY <1>3, <2>3, <2>4
<1>4. \/ r \in 1..5
      \/ kind = "direct" /\ r \in 6..9
      \/ kind = "relay" /\ r \in 6..14
  <2>1. CASE kind = "event"
    <3>1. NumberOf(kind) = 5
      BY <2>1 DEF NumberOf
    <3> QED
      BY <2>1, <3>1
  <2>2. CASE kind = "direct"
    <3>1. NumberOf(kind) = 9
      BY <2>2 DEF NumberOf
    <3> QED
      BY <2>2, <3>1
  <2>3. CASE kind = "relay"
    <3>1. NumberOf(kind) = 14
      BY <2>3 DEF NumberOf
    <3> QED
      BY <2>3, <3>1
  <2> QED
    BY <2>1, <2>2, <2>3 DEF Kind
<1> QED
  BY <1>1, <1>2, <1>3, <1>4

LEMMA FirstSteps ==
    /\ record_event # <<>> /\ Head(record_event) = <<"state", "number">>
    /\ \A kind \in Kind : Fits(record_event, kind)
    /\ \A kind \in {"direct", "relay"} :
          Steps(kind) # <<>> /\ Head(Steps(kind)) = <<"inbox", "head">>
<1>1. record_event # <<>> /\ Head(record_event) = <<"state", "number">>
  <2>1. record_event \in Seq(StepName) /\ Len(record_event) = 5 /\ 6 - 5 = 1 /\ 5 \in 1..5
    BY RecordIs
  <2>2. record_event[1] = <<"state", "number">>
    BY <2>1, RecordIs, RecordSteps
  <2> QED
    BY <2>1, <2>2
<1>2. ASSUME NEW kind \in Kind
      PROVE  Fits(record_event, kind)
  <2>1. record_event \in Seq(StepName) /\ Len(record_event) = 5 /\ 5 <= NumberOf(kind)
    BY RecordIs DEF Kind, NumberOf
  <2>2. ASSUME NEW i \in 1..5
        PROVE  record_event[i] = StepOf(kind, 5 - i + 1)
    <3>1. 5 - i + 1 \in 1..5 /\ 6 - (5 - i + 1) = i
      OBVIOUS
    <3>2. record_event[i] = RecordStep[5 - i + 1]
      BY <3>1, RecordIs
    <3> QED
      BY <3>1, <3>2 DEF StepOf
  <2> QED
    BY <2>1, <2>2 DEF Fits
<1>3. ASSUME NEW kind \in {"direct", "relay"}
      PROVE  Steps(kind) # <<>> /\ Head(Steps(kind)) = <<"inbox", "head">>
  <2> DEFINE s == Steps(kind)
             n == NumberOf(kind)
  <2>1. kind \in Kind /\ n \in 1..14 /\ n + 1 - n = 1 /\ n \in 1..n
    BY DEF Kind, NumberOf
  <2>2. s \in Seq(StepName) /\ Len(s) = n /\ s[n + 1 - n] = StepOf(kind, n)
    BY <2>1, StepsAre
  <2>3. StepOf(kind, n) = <<"inbox", "head">>
    <3>1. CASE kind = "direct"
      BY <3>1, MessageStepsAre DEF NumberOf, StepOf
    <3>2. CASE kind = "relay"
      BY <3>2, MessageStepsAre DEF NumberOf, StepOf
    <3> QED
      BY <3>1, <3>2
  <2> HIDE DEF s, n
  <2>4. s # <<>> /\ Head(s) = s[1]
    BY <2>1, <2>2
  <2> QED
    BY <2>1, <2>2, <2>3, <2>4 DEF s
<1> QED
  BY <1>1, <1>2, <1>3

-----------------------------------------------------------------------------
(* What the lines of a file hold.                                          *)

LEMMA ValuesOfSome ==
    ASSUME NEW s \in Seq(Written), NEW part \in Part
    PROVE  ValuesOf(s, part) \in Seq(Value)
<1> DEFINE lines == Selection(s, {i \in DOMAIN s : s[i].part = part})
<1>1. lines \in Seq(Written)
  BY SelectionKeeps
<1> HIDE DEF lines
<1>2. \A i \in DOMAIN lines : lines[i] \in Written
  BY <1>1
<1>3. DOMAIN lines = 1..Len(lines) /\ Len(lines) \in Nat
  BY <1>1
<1>4. \A w \in Written : w.value \in Value
  BY DEF Written
<1>5. [i \in DOMAIN lines |-> lines[i].value] \in Seq(Value)
  BY <1>2, <1>3, <1>4
<1> QED
  BY <1>5 DEF ValuesOf, lines

LEMMA ValuesOfNone ==
    ASSUME NEW part
    PROVE  ValuesOf(<<>>, part) = <<>>
<1> DEFINE lines == Selection(<<>>, {i \in DOMAIN <<>> : <<>>[i].part = part})
<1>1. lines = <<>>
  BY SelectionOfEmpty
<1> HIDE DEF lines
<1>2. [i \in DOMAIN lines |-> lines[i].value] = <<>>
  BY <1>1
<1> QED
  BY <1>2 DEF ValuesOf, lines

LEMMA ValuesOfMore ==
    ASSUME NEW s \in Seq(Written), NEW w \in Written, NEW part \in Part
    PROVE  ValuesOf(Append(s, w), part) =
               IF w.part = part THEN Append(ValuesOf(s, part), w.value) ELSE ValuesOf(s, part)
<1> DEFINE t == Append(s, w)
           I == {i \in DOMAIN s : s[i].part = part}
           J == {i \in DOMAIN t : t[i].part = part}
           old == Selection(s, I)
           new == Selection(t, J)
<1>1. /\ t \in Seq(Written) /\ Len(t) = Len(s) + 1 /\ Len(s) \in Nat
      /\ \A k \in 1..Len(s) : t[k] = s[k]
      /\ t[Len(s) + 1] = w
  BY AppendFacts
<1>2. DOMAIN s = 1..Len(s) /\ DOMAIN t = 1..Len(t)
  <2> HIDE DEF t
  <2> QED
    BY <1>1
<1>3. \A k \in 1..Len(s) : k \in I <=> k \in J
  <2> HIDE DEF t
  <2> QED
    BY <1>1, <1>2
<1>4. Len(s) + 1 \in J <=> w.part = part
  <2> HIDE DEF t
  <2> QED
    BY <1>1, <1>2
<1>5. new = IF Len(s) + 1 \in J THEN Append(old, w) ELSE old
  <2> HIDE DEF I, J
  <2> QED
    BY <1>3, SelectionOfAppend
<1>6. old \in Seq(Written)
  BY SelectionKeeps
<1>7. ValuesOf(t, part) = [i \in DOMAIN new |-> new[i].value]
  BY DEF ValuesOf
<1>8. ValuesOf(s, part) = [i \in DOMAIN old |-> old[i].value]
  BY DEF ValuesOf
<1> HIDE DEF old, new, I, J, t
<1>9. CASE w.part # part
  BY <1>4, <1>5, <1>7, <1>8, <1>9 DEF t
<1>10. CASE w.part = part
  <2> DEFINE n == Len(old)
             x == ValuesOf(s, part)
             y == ValuesOf(t, part)
  <2>1. /\ new \in Seq(Written) /\ Len(new) = n + 1 /\ n \in Nat
        /\ \A k \in 1..n : new[k] = old[k]
        /\ new[n + 1] = w
    <3>1. new = Append(old, w)
      BY <1>4, <1>5, <1>10
    <3> QED
      BY <1>6, <3>1, AppendFacts
  <2>2. x \in Seq(Value) /\ w.value \in Value
    BY ValuesOfSome DEF Written
  <2>3. DOMAIN old = 1..n /\ DOMAIN new = 1..(n + 1)
    BY <1>6, <2>1
  <2>4. /\ Len(x) = n /\ \A k \in 1..n : x[k] = old[k].value
    <3> HIDE DEF x
    <3>1. DOMAIN x = 1..n /\ \A k \in 1..n : x[k] = old[k].value
      BY <1>8, <2>3 DEF x
    <3> QED
      BY <2>1, <2>2, <3>1
  <2>5. /\ y \in Seq(Value) /\ Len(y) = n + 1
        /\ \A k \in 1..(n + 1) : y[k] = new[k].value
    <3>1. y \in Seq(Value)
      BY <1>1, ValuesOfSome
    <3> HIDE DEF y
    <3>2. DOMAIN y = 1..(n + 1) /\ \A k \in 1..(n + 1) : y[k] = new[k].value
      BY <1>7, <2>3 DEF y
    <3> QED
      BY <2>1, <3>1, <3>2
  <2> DEFINE z == Append(x, w.value)
  <2> HIDE DEF x, y
  <2>6. /\ z \in Seq(Value) /\ Len(z) = n + 1
        /\ \A k \in 1..n : z[k] = x[k]
        /\ z[n + 1] = w.value
    <3>1. /\ z \in Seq(Value) /\ Len(z) = Len(x) + 1
          /\ \A k \in 1..Len(x) : z[k] = x[k]
          /\ z[Len(x) + 1] = w.value
      BY <2>2, AppendFacts
    <3> HIDE DEF z
    <3> QED
      BY <2>4, <3>1
  <2> HIDE DEF z, n
  <2>7. \A k \in 1..(n + 1) : y[k] = z[k]
    <3> SUFFICES ASSUME NEW k \in 1..(n + 1)
                 PROVE  y[k] = z[k]
      OBVIOUS
    <3>1. k \in 1..n \/ k = n + 1
      BY <2>1
    <3> QED
      BY <3>1, <2>1, <2>4, <2>5, <2>6
  <2>8. y = z
    BY <2>1, <2>5, <2>6, <2>7
  <2> QED
    BY <1>10, <2>8 DEF x, y, z, t
<1> QED
  BY <1>9, <1>10

LEMMA SetOfNone == ToSet(<<>>) = {}
BY DEF ToSet

LEMMA SetOfMore ==
    ASSUME NEW X, NEW s \in Seq(X), NEW x \in X
    PROVE  ToSet(Append(s, x)) = ToSet(s) \cup {x}
<1> DEFINE t == Append(s, x)
<1>1. /\ t \in Seq(X) /\ Len(t) = Len(s) + 1 /\ Len(s) \in Nat
      /\ \A k \in 1..Len(s) : t[k] = s[k]
      /\ t[Len(s) + 1] = x
  BY AppendFacts
<1> HIDE DEF t
<1>2. DOMAIN s = 1..Len(s) /\ DOMAIN t = 1..(Len(s) + 1)
  BY <1>1
<1>3. \A k \in 1..(Len(s) + 1) : k \in 1..Len(s) \/ k = Len(s) + 1
  BY <1>1
<1>4. Len(s) + 1 \in 1..(Len(s) + 1) /\ \A k \in 1..Len(s) : k \in 1..(Len(s) + 1)
  BY <1>1
<1>5. ToSet(t) \subseteq ToSet(s) \cup {x}
  BY <1>1, <1>2, <1>3 DEF ToSet
<1>6. ToSet(s) \cup {x} \subseteq ToSet(t)
  BY <1>1, <1>2, <1>4 DEF ToSet
<1> QED
  BY <1>5, <1>6 DEF t

LEMMA SetOfSome ==
    ASSUME NEW X, NEW s \in Seq(X)
    PROVE  /\ ToSet(s) \subseteq X
           /\ s # <<>> => Last(s) \in X /\ Last(s) \in ToSet(s)
           /\ s = <<>> => ToSet(s) = {}
<1>1. DOMAIN s = 1..Len(s) /\ Len(s) \in Nat
  OBVIOUS
<1>2. s # <<>> => Len(s) \in 1..Len(s)
  OBVIOUS
<1>3. \A i \in 1..Len(s) : s[i] \in X
  OBVIOUS
<1> QED
  BY <1>1, <1>2, <1>3 DEF ToSet, Last

-----------------------------------------------------------------------------
(* How the tasks go on.                                                    *)

Job == [kind : Kind, value : Value]

Types ==
    /\ phase \in {"down", "starting", "up", "stopping", "farewell"}
    /\ events \in Seq(Value) /\ inbox \in Seq(Value)
    /\ next_event_id \in Nat \ {0}
    /\ file \in [File -> Seq(Written)]
    /\ job \in [Task -> Job]
    /\ run \in 0..MaxRuns
    /\ received \in 0..MaxReceived
    /\ failures \in 0..MaxFailures
    /\ announced \subseteq Value
    /\ clean \in BOOLEAN /\ broken \subseteq File

Fitting ==
    /\ todo \in [Task -> Seq(StepName)]
    /\ \A t \in Task : Fits(todo[t], job[t].kind)

LEMMA TypesAndFitting ==
    Types /\ Fitting => TypeOK
<1> SUFFICES ASSUME Types, Fitting
             PROVE  TypeOK
  OBVIOUS
<1>1. ASSUME NEW t \in Task
      PROVE  IsSuffix(todo[t], Steps(job[t].kind))
  <2>1. job[t] \in Job
    BY DEF Types
  <2>2. job[t].kind \in Kind
    BY <2>1 DEF Job
  <2> QED
    BY <2>2, FittingIsSuffix DEF Fitting
<1>2. job \in [Task -> [kind : {"event", "direct", "relay"}, value : Value]]
  BY DEF Types, Job, Kind
<1> QED
  BY <1>1, <1>2 DEF Types, TypeOK

Same(u) == todo'[u] = todo[u] /\ job'[u] = job[u]

LEMMA Begins ==
    ASSUME Types, Fitting, NEW t \in Task, NEW s, NEW j \in Job, Fits(s, j.kind),
           todo' = [todo EXCEPT ![t] = s], job' = [job EXCEPT ![t] = j]
    PROVE  /\ Fitting' /\ job' \in [Task -> Job]
           /\ todo'[t] = s /\ job'[t] = j /\ \A u \in Task \ {t} : Same(u)
<1>1. todo \in [Task -> Seq(StepName)] /\ job \in [Task -> Job] /\ s \in Seq(StepName)
  BY DEF Types, Fitting, Fits
<1>2. job' \in [Task -> Job] /\ job'[t] = j /\ \A u \in Task \ {t} : job'[u] = job[u]
  BY <1>1
<1>3. /\ todo' \in [Task -> Seq(StepName)] /\ todo'[t] = s
      /\ \A u \in Task \ {t} : todo'[u] = todo[u]
  BY <1>1
<1>4. \A u \in Task : Fits(todo'[u], job'[u].kind)
  <2> SUFFICES ASSUME NEW u \in Task
               PROVE  Fits(todo'[u], job'[u].kind)
    OBVIOUS
  <2>1. CASE u = t
    BY <2>1, <1>2, <1>3
  <2>2. CASE u # t
    <3>1. todo'[u] = todo[u] /\ job'[u] = job[u]
      BY <2>2, <1>2, <1>3
    <3> QED
      BY <3>1 DEF Fitting
  <2> QED
    BY <2>1, <2>2
<1>5. Fitting'
  BY <1>3, <1>4 DEF Fitting
<1> QED
  BY <1>2, <1>3, <1>5 DEF Same

Number1 == <<"state", "number">>
Send == <<"event_tx", "send">>

LEMMA Advances ==
    ASSUME Types, Fitting, NEW t \in Task, NEW step, At(t, step),
           todo' = [todo EXCEPT ![t] = Tail(@)], job' \in [Task -> Job],
           job'[t].kind = job[t].kind, \A u \in Task \ {t} : job'[u] = job[u]
    PROVE  /\ Fitting' /\ \A u \in Task \ {t} : Same(u)
           /\ step # Send => todo'[t] # <<>> /\ Head(todo'[t]) = Following(step)
           /\ todo'[t] = <<>> \/ Head(todo'[t]) = Following(step)
<1>1. todo \in [Task -> Seq(StepName)] /\ Fits(todo[t], job[t].kind)
  BY DEF Fitting
<1>2. todo'[t] = Tail(todo[t]) /\ \A u \in Task \ {t} : todo'[u] = todo[u]
  BY <1>1
<1>3. job[t] \in Job
  BY DEF Types
<1>4. job[t].kind \in Kind
  BY <1>3 DEF Job
<1> DEFINE kind == job[t].kind
           s == todo[t]
           n == Len(s)
           rest == Tail(s)
<1>5. s # <<>> /\ Head(s) = step
  BY DEF At, Idle
<1>6. /\ n \in 1..NumberOf(kind) /\ step = StepOf(kind, n)
      /\ Fits(rest, kind)
      /\ n = 1 => rest = <<>>
      /\ n > 1 => rest # <<>> /\ Head(rest) = StepOf(kind, n - 1)
  BY <1>1, <1>4, <1>5, RestFits
<1> HIDE DEF n
<1>7. /\ n > 1 => StepOf(kind, n - 1) = Following(step)
      /\ n = 1 => step = Send
  BY <1>4, <1>6, OrderOfSteps DEF Send
<1>8. n = 1 \/ n > 1
  <2>1. NumberOf(kind) \in Nat
    BY <1>4, NumberOfIsNat
  <2> QED
    BY <2>1, <1>6
<1>9. /\ step # Send => rest # <<>> /\ Head(rest) = Following(step)
      /\ rest = <<>> \/ Head(rest) = Following(step)
  BY <1>6, <1>7, <1>8
<1>10. Fitting'
  <2>1. rest \in Seq(StepName)
    BY <1>6 DEF Fits
  <2>2. todo' \in [Task -> Seq(StepName)]
    BY <1>1, <2>1
  <2>3. \A u \in Task : Fits(todo'[u], job'[u].kind)
    <3> SUFFICES ASSUME NEW u \in Task
                 PROVE  Fits(todo'[u], job'[u].kind)
      OBVIOUS
    <3>1. CASE u = t
      BY <3>1, <1>2, <1>6
    <3>2. CASE u # t
      <4>1. todo'[u] = todo[u] /\ job'[u] = job[u]
        BY <3>2, <1>2
      <4> QED
        BY <4>1 DEF Fitting
    <3> QED
      BY <3>1, <3>2
  <2> QED
    BY <2>2, <2>3 DEF Fitting
<1> QED
  BY <1>2, <1>9, <1>10 DEF Same

LEMMA Forgets ==
    ASSUME Forget
    PROVE  Fitting' /\ job' \in [Task -> Job] /\ \A t \in Task : Idle(t)'
<1>1. [kind |-> "event", value |-> Nothing] \in Job
  BY DEF Job, Kind, Value, Nothing
<1>2. job' \in [Task -> Job]
  BY <1>1 DEF Forget
<1>3. todo' \in [Task -> Seq(StepName)] /\ \A t \in Task : todo'[t] = <<>>
  BY DEF Forget
<1>4. \A t \in Task : Fits(todo'[t], job'[t].kind)
  <2> SUFFICES ASSUME NEW t \in Task
               PROVE  Fits(todo'[t], job'[t].kind)
    OBVIOUS
  <2>1. job'[t] \in Job
    BY <1>2
  <2>2. job'[t].kind \in Kind
    BY <2>1 DEF Job
  <2> QED
    BY <2>2, <1>3, NothingFits
<1> QED
  BY <1>2, <1>3, <1>4 DEF Fitting, Idle

LEMMA NoChange ==
    ASSUME Fitting, Types, todo' = todo, job' = job
    PROVE  Fitting' /\ job' \in [Task -> Job] /\ \A u \in Task : Same(u)
BY DEF Fitting, Types, Same

LEMMA LoadedIs ==
    ASSUME Types
    PROVE  load_json_lines("events") \in Seq(Value) /\ load_json_lines("inbox") \in Seq(Value)
<1>1. /\ file["events"] \in Seq(Written) /\ file["inbox"] \in Seq(Written) /\ "tail" \in Part
  BY DEF Types, File, Part
<1> QED
  BY <1>1, ValuesOfSome DEF load_json_lines

LEMMA MainBegins ==
    ASSUME Types, Fitting, job' = [job EXCEPT ![Main] = [kind |-> "event", value |-> Nothing]],
           todo' = [todo EXCEPT ![Main] = record_event]
    PROVE  /\ Fitting' /\ job' \in [Task -> Job]
           /\ At(Main, Number1)' /\ \A u \in Task \ {Main} : Same(u)
<1> DEFINE j == [kind |-> "event", value |-> Nothing]
<1>1. j \in Job /\ j.kind \in Kind
  BY DEF Job, Kind, Value, Nothing
<1> HIDE DEF j
<1>2. job' = [job EXCEPT ![Main] = j] /\ Fits(record_event, j.kind) /\ Main \in Task
  BY <1>1, FirstSteps, JournalAssumption DEF j
<1>3. /\ Fitting' /\ job' \in [Task -> Job]
      /\ todo'[Main] = record_event /\ \A u \in Task \ {Main} : Same(u)
  BY <1>1, <1>2, Begins
<1>4. At(Main, Number1)'
  BY <1>3, FirstSteps DEF At, Idle, Number1
<1> QED
  BY <1>3, <1>4

LEMMA StartMoves ==
    ASSUME Types, Fitting, Start
    PROVE  Types' /\ Fitting' /\ At(Main, Number1)' /\ \A u \in Task \ {Main} : Same(u)
<1>1. /\ Fitting' /\ job' \in [Task -> Job]
      /\ At(Main, Number1)' /\ \A u \in Task \ {Main} : Same(u)
  BY MainBegins DEF Start
<1>2. events' \in Seq(Value) /\ inbox' \in Seq(Value)
  BY LoadedIs DEF Start
<1>3. next_event_id' \in Nat \ {0}
  <2>1. CASE events' = <<>>
    BY <2>1 DEF Start
  <2>2. CASE events' # <<>>
    <3>1. Last(events') \in Value
      BY <1>2, <2>2, SetOfSome
    <3>2. Last(events').id \in Nat
      BY <3>1 DEF Value
    <3>3. next_event_id' = Last(events').id + 1
      BY <2>2 DEF Start
    <3> QED
      BY <3>2, <3>3
  <2> QED
    BY <2>1, <2>2
<1>4. run' \in 0..MaxRuns
  BY JournalAssumption DEF Start, Types
<1>5. phase' = "starting" /\ UNCHANGED <<file, received, failures, announced, clean, broken>>
  BY DEF Start
<1>6. Types'
  BY <1>1, <1>2, <1>3, <1>4, <1>5 DEF Types
<1> QED
  BY <1>1, <1>6

LEMMA ServeMoves ==
    ASSUME Types, Fitting, Serve \/ Stop
    PROVE  Types' /\ Fitting' /\ \A u \in Task : Same(u)
<1>1. /\ todo' = todo /\ job' = job /\ phase' \in {"up", "stopping"}
      /\ UNCHANGED <<events, next_event_id, inbox, file, run, received, failures, announced,
                     clean, broken>>
  BY DEF Serve, Stop, memory, bounds
<1>2. Fitting' /\ job' \in [Task -> Job] /\ \A u \in Task : Same(u)
  BY <1>1, NoChange
<1>3. Types'
  BY <1>1, <1>2 DEF Types
<1> QED
  BY <1>2, <1>3

LEMMA FarewellMoves ==
    ASSUME Types, Fitting, Farewell
    PROVE  Types' /\ Fitting' /\ At(Main, Number1)' /\ \A u \in Task \ {Main} : Same(u)
<1>1. /\ Fitting' /\ job' \in [Task -> Job]
      /\ At(Main, Number1)' /\ \A u \in Task \ {Main} : Same(u)
  BY MainBegins DEF Farewell
<1>2. /\ phase' = "farewell"
      /\ UNCHANGED <<events, next_event_id, inbox, file, run, received, failures, announced,
                     clean, broken>>
  BY DEF Farewell, memory, bounds
<1>3. Types'
  BY <1>1, <1>2 DEF Types
<1> QED
  BY <1>1, <1>3

\* Nothing is left in memory.
LEMMA ForgetMoves ==
    ASSUME Types, Forget, phase' = "down", UNCHANGED <<file, run, received, announced>>,
           failures' \in 0..MaxFailures, clean' \in BOOLEAN, broken' \subseteq File
    PROVE  /\ Types' /\ Fitting' /\ \A t \in Task : Idle(t)'
           /\ events' = <<>> /\ inbox' = <<>>
<1>1. Fitting' /\ job' \in [Task -> Job] /\ \A t \in Task : Idle(t)'
  BY Forgets
<1>2. events' = <<>> /\ next_event_id' = 1 /\ inbox' = <<>>
  BY DEF Forget
<1>3. events' \in Seq(Value) /\ inbox' \in Seq(Value) /\ next_event_id' \in Nat \ {0}
  BY <1>2
<1>4. Types'
  BY <1>1, <1>3 DEF Types
<1> QED
  BY <1>1, <1>2, <1>4

LEMMA ExitMoves ==
    ASSUME Types, Fitting, Exit
    PROVE  /\ Types' /\ Fitting' /\ \A t \in Task : Idle(t)'
           /\ events' = <<>> /\ inbox' = <<>>
BY ForgetMoves DEF Exit, bounds, Types

LEMMA KillMoves ==
    ASSUME Types, Fitting, Kill
    PROVE  /\ Types' /\ Fitting' /\ \A t \in Task : Idle(t)'
           /\ events' = <<>> /\ inbox' = <<>>
<1>1. /\ Forget /\ phase' = "down" /\ UNCHANGED <<file, run, received, announced>>
      /\ failures' = failures /\ clean' = FALSE
  BY DEF Kill, bounds
<1>2. broken' \subseteq File
  BY DEF Kill, Types
<1>3. failures' \in 0..MaxFailures /\ clean' \in BOOLEAN
  BY <1>1 DEF Types
<1> QED
  BY <1>1, <1>2, <1>3, ForgetMoves

LEMMA BeginMoves ==
    ASSUME Types, Fitting, NEW t \in Task, NEW kind \in Kind, NEW value \in Value,
           Begin(t, kind, value), received' \in 0..MaxReceived
    PROVE  /\ Types' /\ Fitting' /\ \A u \in Task \ {t} : Same(u)
           /\ ~Idle(t)' /\ Head(todo'[t]) \in {Number1, <<"inbox", "head">>}
<1> DEFINE j == [kind |-> kind, value |-> value]
<1>1. j \in Job /\ j.kind = kind
  BY DEF Job
<1> HIDE DEF j
<1>2. job' = [job EXCEPT ![t] = j] /\ Fits(Steps(kind), j.kind)
      /\ todo' = [todo EXCEPT ![t] = Steps(kind)]
  BY <1>1, StepsFit DEF j, Begin
<1>3. /\ Fitting' /\ job' \in [Task -> Job]
      /\ todo'[t] = Steps(kind) /\ \A u \in Task \ {t} : Same(u)
  BY <1>1, <1>2, Begins
<1>4. Steps(kind) # <<>> /\ Head(Steps(kind)) \in {Number1, <<"inbox", "head">>}
  <2>1. CASE kind = "event"
    BY <2>1, FirstSteps DEF Steps, Number1
  <2>2. CASE kind \in {"direct", "relay"}
    BY <2>2, FirstSteps
  <2> QED
    BY <2>1, <2>2 DEF Kind
<1>5. UNCHANGED <<phase, events, next_event_id, inbox, file, run, failures, announced, clean,
                  broken>>
  BY DEF Begin, memory
<1>6. Types'
  BY <1>3, <1>5 DEF Types
<1> QED
  BY <1>3, <1>4, <1>6 DEF Idle

LEMMA SetOfRest ==
    ASSUME NEW X, NEW s \in Seq(X), NEW m \in 1..Len(s)
    PROVE  SubSeq(s, m, Len(s)) \in Seq(X) /\ ToSet(SubSeq(s, m, Len(s))) \subseteq ToSet(s)
<1> DEFINE t == SubSeq(s, m, Len(s))
<1>1. /\ t \in Seq(X) /\ Len(t) = Len(s) - m + 1 /\ Len(s) \in Nat
      /\ \A i \in 1..(Len(s) - m + 1) : t[i] = s[m + i - 1]
  OBVIOUS
<1> HIDE DEF t
<1>2. DOMAIN t = 1..(Len(s) - m + 1) /\ DOMAIN s = 1..Len(s)
  BY <1>1
<1>3. \A i \in 1..(Len(s) - m + 1) : m + i - 1 \in 1..Len(s)
  BY <1>1
<1>4. ToSet(t) \subseteq ToSet(s)
  BY <1>1, <1>2, <1>3 DEF ToSet
<1> QED
  BY <1>1, <1>4 DEF t

LEMMA NumberMoves ==
    ASSUME Types, Fitting, NEW t \in Task, Number(t),
           NEW event, event = [id |-> next_event_id, run |-> run]
    PROVE  /\ Types' /\ Fitting' /\ \A u \in Task \ {t} : Same(u)
           /\ At(t, <<"events", "head">>)' /\ job'[t].value = event /\ event \in Value
           /\ event.id = next_event_id
           /\ ToSet(events') \subseteq ToSet(events) \cup {event}
<1>1. event \in Value /\ event.id = next_event_id
  <2>1. next_event_id \in Nat /\ run \in Nat
    BY JournalAssumption DEF Types
  <2> QED
    BY <2>1 DEF Value
<1> DEFINE more == Append(events, event)
<1>2. /\ At(t, Number1) /\ next_event_id' = next_event_id + 1
      /\ events' = IF Len(more) > MAX_EVENTS
                   THEN SubSeq(more, Len(more) - MAX_EVENTS + 1, Len(more))
                   ELSE more
      /\ job' = [job EXCEPT ![t].value = event]
      /\ todo' = [todo EXCEPT ![t] = Tail(@)]
      /\ UNCHANGED <<phase, inbox, file, run, received, failures, announced, clean, broken>>
  BY DEF Number, Number1, bounds
<1>3. more \in Seq(Value) /\ ToSet(more) = ToSet(events) \cup {event} /\ Len(more) \in Nat
  <2>1. events \in Seq(Value)
    BY DEF Types
  <2> QED
    BY <1>1, <2>1, AppendFacts, SetOfMore
<1> HIDE DEF more
<1>4. events' \in Seq(Value) /\ ToSet(events') \subseteq ToSet(more)
  <2>1. CASE Len(more) > MAX_EVENTS
    <3>1. Len(more) - MAX_EVENTS + 1 \in 1..Len(more)
      BY <1>3, <2>1, JournalAssumption
    <3> QED
      BY <1>2, <1>3, <2>1, <3>1, SetOfRest
  <2>2. CASE ~(Len(more) > MAX_EVENTS)
    BY <1>2, <1>3, <2>2
  <2> QED
    BY <2>1, <2>2
<1>5. /\ job' \in [Task -> Job] /\ job'[t].kind = job[t].kind /\ job'[t].value = event
      /\ \A u \in Task \ {t} : job'[u] = job[u]
  <2>1. job \in [Task -> Job]
    BY DEF Types
  <2>2. job' = [job EXCEPT ![t] = [job[t] EXCEPT !.value = event]]
    BY <1>2
  <2>3. job[t] \in Job
    BY <2>1
  <2>4. \A j \in Job : /\ [j EXCEPT !.value = event] \in Job
                       /\ [j EXCEPT !.value = event].kind = j.kind
                       /\ [j EXCEPT !.value = event].value = event
    BY <1>1 DEF Job
  <2> QED
    BY <2>1, <2>2, <2>3, <2>4
<1>6. /\ Fitting' /\ \A u \in Task \ {t} : Same(u)
      /\ todo'[t] # <<>> /\ Head(todo'[t]) = Following(Number1)
  <2>1. Number1 # Send
    BY DEF Number1, Send
  <2> QED
    BY <1>2, <1>5, <2>1, Advances
<1>7. At(t, <<"events", "head">>)'
  BY <1>6, FollowingIs DEF At, Idle, Number1
<1>8. next_event_id' \in Nat \ {0}
  BY <1>2 DEF Types
<1>9. Types'
  BY <1>2, <1>4, <1>5, <1>8 DEF Types
<1> QED
  BY <1>1, <1>3, <1>4, <1>5, <1>6, <1>7, <1>9

\* The write of one part of a line.
Writes(t, f, part) ==
    /\ At(t, <<f, part>>)
    /\ file' = [file EXCEPT ![f] = Append(@, [part |-> part, value |-> job[t].value])]
    /\ broken' = broken \cup (IF \E u \in Task \ {t} : InLine(u, f) THEN {f} ELSE {})
    /\ todo' = [todo EXCEPT ![t] = Tail(@)]
    /\ UNCHANGED <<phase, memory, job, bounds, announced, clean>>

LEMMA WriteIsWrites ==
    ASSUME NEW t \in Task, NEW f \in File, Write(t, f)
    PROVE  \E part \in Part : Writes(t, f, part)
BY DEF Write, Writes

LEMMA WriteMoves ==
    ASSUME Types, Fitting, NEW t \in Task, NEW f \in File, NEW part \in Part, Writes(t, f, part)
    PROVE  /\ Types' /\ Fitting' /\ \A u \in Task \ {t} : Same(u)
           /\ todo'[t] # <<>> /\ Head(todo'[t]) = Following(<<f, part>>) /\ job' = job
           /\ [part |-> part, value |-> job[t].value] \in Written
           /\ file'[f] = Append(file[f], [part |-> part, value |-> job[t].value])
           /\ \A g \in File \ {f} : file'[g] = file[g]
           /\ job[t].value \in Value
<1> DEFINE w == [part |-> part, value |-> job[t].value]
<1>1. /\ At(t, <<f, part>>) /\ file' = [file EXCEPT ![f] = Append(@, w)]
      /\ todo' = [todo EXCEPT ![t] = Tail(@)] /\ job' = job
      /\ UNCHANGED <<phase, events, next_event_id, inbox, run, received, failures, announced,
                     clean>>
  BY DEF Writes, memory, bounds
<1>2. job \in [Task -> Job] /\ file \in [File -> Seq(Written)]
  BY DEF Types
<1>3. job[t].value \in Value
  <2>1. job[t] \in Job
    BY <1>2
  <2> QED
    BY <2>1 DEF Job
<1>4. w \in Written
  BY <1>3 DEF Written
<1> HIDE DEF w
<1>5. file' \in [File -> Seq(Written)]
  <2>1. Append(file[f], w) \in Seq(Written)
    BY <1>2, <1>4, AppendFacts
  <2> QED
    BY <1>1, <1>2, <2>1
<1>6. file'[f] = Append(file[f], w) /\ \A g \in File \ {f} : file'[g] = file[g]
  BY <1>1, <1>2
<1>7. /\ Fitting' /\ \A u \in Task \ {t} : Same(u)
      /\ todo'[t] # <<>> /\ Head(todo'[t]) = Following(<<f, part>>)
  <2>1. <<f, part>> # Send
    BY DEF Send, File
  <2> QED
    BY <1>1, <1>2, <2>1, Advances
<1>8. broken' \subseteq File
  BY DEF Writes, Types
<1>9. Types'
  BY <1>1, <1>2, <1>5, <1>8 DEF Types
<1> QED
  BY <1>1, <1>3, <1>4, <1>6, <1>7, <1>9 DEF w

LEMMA PushMoves ==
    ASSUME Types, Fitting, NEW t \in Task, Push(t)
    PROVE  /\ Types' /\ Fitting' /\ \A u \in Task \ {t} : Same(u)
           /\ At(t, Number1)' /\ job' = job /\ job[t].value \in Value
           /\ ToSet(inbox') = ToSet(inbox) \cup {job[t].value}
<1>1. /\ At(t, <<"state", "push">>) /\ inbox' = Append(inbox, job[t].value)
      /\ todo' = [todo EXCEPT ![t] = Tail(@)] /\ job' = job
      /\ UNCHANGED <<phase, events, next_event_id, file, run, received, failures, announced,
                     clean, broken>>
  BY DEF Push, bounds
<1>2. job \in [Task -> Job] /\ inbox \in Seq(Value)
  BY DEF Types
<1>3. job[t].value \in Value
  <2>1. job[t] \in Job
    BY <1>2
  <2> QED
    BY <2>1 DEF Job
<1>4. inbox' \in Seq(Value) /\ ToSet(inbox') = ToSet(inbox) \cup {job[t].value}
  BY <1>1, <1>2, <1>3, AppendFacts, SetOfMore
<1>5. /\ Fitting' /\ \A u \in Task \ {t} : Same(u)
      /\ todo'[t] # <<>> /\ Head(todo'[t]) = Following(<<"state", "push">>)
  <2>1. <<"state", "push">> # Send
    BY DEF Send
  <2> QED
    BY <1>1, <1>2, <2>1, Advances
<1>6. At(t, Number1)'
  BY <1>5, FollowingIs DEF At, Idle, Number1
<1>7. Types'
  BY <1>1, <1>2, <1>4 DEF Types
<1> QED
  BY <1>1, <1>3, <1>4, <1>5, <1>6, <1>7

LEMMA AnnounceMoves ==
    ASSUME Types, Fitting, NEW t \in Task, Announce(t)
    PROVE  /\ Types' /\ Fitting' /\ \A u \in Task \ {t} : Same(u)
           /\ Idle(t)' \/ At(t, Number1)'
           /\ job' = job /\ job[t].value \in Value
<1>1. /\ At(t, Send) /\ announced' = announced \cup {job[t].value}
      /\ todo' = [todo EXCEPT ![t] = Tail(@)] /\ job' = job
      /\ UNCHANGED <<phase, events, next_event_id, inbox, file, run, received, failures,
                     clean, broken>>
  BY DEF Announce, bounds, memory, Send
<1>2. job \in [Task -> Job] /\ announced \subseteq Value
  BY DEF Types
<1>3. job[t].value \in Value
  <2>1. job[t] \in Job
    BY <1>2
  <2> QED
    BY <2>1 DEF Job
<1>4. /\ Fitting' /\ \A u \in Task \ {t} : Same(u)
      /\ todo'[t] = <<>> \/ Head(todo'[t]) = Following(Send)
  BY <1>1, <1>2, Advances
<1>5. Idle(t)' \/ At(t, Number1)'
  BY <1>4, FollowingIs DEF At, Idle, Number1, Send
<1>6. announced' \subseteq Value
  BY <1>1, <1>2, <1>3
<1>7. Types'
  BY <1>1, <1>2, <1>6 DEF Types
<1> QED
  BY <1>1, <1>3, <1>4, <1>5, <1>7

LEMMA FailedMoves ==
    ASSUME Types, Fitting, NEW t \in Task, NEW f \in File, FailedWrite(t, f)
    PROVE  /\ Types' /\ Fitting'
           /\ \/ /\ phase \in {"starting", "farewell"} /\ phase' = "down"
                 /\ \A u \in Task : Idle(u)'
                 /\ events' = <<>> /\ inbox' = <<>>
              \/ /\ UNCHANGED <<phase, events, next_event_id, inbox>>
                 /\ phase \notin {"starting", "farewell"}
                 /\ Idle(t)' \/ At(t, Number1)'
                 /\ \A u \in Task \ {t} : Same(u)
<1>1. UNCHANGED <<file, run, received, announced>> /\ clean' = FALSE
  BY DEF FailedWrite
<1>2. failures' \in 0..MaxFailures
  BY JournalAssumption DEF FailedWrite, Types
<1>3. broken' \subseteq File
  BY DEF FailedWrite, Types
<1>4. CASE phase \in {"starting", "farewell"}
  <2>1. phase' = "down" /\ Forget
    BY <1>4 DEF FailedWrite
  <2> QED
    BY <1>1, <1>2, <1>3, <1>4, <2>1, ForgetMoves
<1>5. CASE phase \notin {"starting", "farewell"}
  <2> DEFINE j == [kind |-> "event", value |-> Nothing]
             s == IF job[t].kind = "relay" THEN record_event ELSE <<>>
  <2>1. job' = [job EXCEPT ![t] = j] /\ todo' = [todo EXCEPT ![t] = s]
    BY <1>5 DEF FailedWrite
  <2>2. UNCHANGED <<phase, events, next_event_id, inbox>>
    BY <1>5 DEF FailedWrite, memory
  <2>3. j \in Job /\ j.kind \in Kind
    BY DEF Job, Kind, Value, Nothing
  <2> HIDE DEF j
  <2>4. Fits(s, j.kind)
    BY <2>3, FirstSteps, NothingFits
  <2>5. s = <<>> \/ (s # <<>> /\ Head(s) = Number1)
    BY FirstSteps DEF Number1
  <2> HIDE DEF s
  <2>6. /\ Fitting' /\ job' \in [Task -> Job]
        /\ todo'[t] = s /\ \A u \in Task \ {t} : Same(u)
    BY <2>1, <2>3, <2>4, Begins
  <2>7. Idle(t)' \/ At(t, Number1)'
    BY <2>5, <2>6 DEF At, Idle
  <2>8. Types'
    BY <1>1, <1>2, <1>3, <2>2, <2>6 DEF Types
  <2> QED
    BY <1>5, <2>2, <2>6, <2>7, <2>8
<1> QED
  BY <1>4, <1>5

LEMMA SameSteps ==
    ASSUME NEW u \in Task, Same(u)
    PROVE  /\ \A step : At(u, step)' <=> At(u, step)
           /\ Idle(u)' <=> Idle(u)
           /\ \A f : InLine(u, f)' <=> InLine(u, f)
           /\ EventInHand(u)' <=> EventInHand(u)
           /\ job'[u].value = job[u].value
BY DEF Same, At, Idle, InLine, EventInHand

LEMMA OneStepAtATime ==
    /\ \A t \in Task : \A a, b : At(t, a) /\ At(t, b) => a = b
    /\ \A t \in Task : \A a : At(t, a) => ~Idle(t)
BY DEF At, Idle

\* Tasks that give an event its number, or have nothing to do, are in no line and have no
\* event in hand.
Outside(step) ==
    \A f \in File : step # <<f, "tail">> /\ step # <<f, "newline">>

LEMMA OutsideLines ==
    /\ Outside(Number1) /\ Outside(Send) /\ Outside(<<"state", "push">>)
    /\ \A f \in File : Outside(<<f, "head">>)
    /\ \A t \in Task, f \in File : \A step : At(t, step) /\ Outside(step) => ~InLine(t, f)
    /\ \A t \in Task, f \in File : Idle(t) => ~InLine(t, f)
<1>1. Outside(Number1) /\ Outside(Send) /\ Outside(<<"state", "push">>)
  BY DEF Outside, Number1, Send, File
<1>2. \A f \in File : Outside(<<f, "head">>)
  BY DEF Outside
<1>3. \A t \in Task, f \in File : \A step : At(t, step) /\ Outside(step) => ~InLine(t, f)
  BY DEF InLine, At, Outside
<1>4. \A t \in Task, f \in File : Idle(t) => ~InLine(t, f)
  BY DEF InLine, At
<1> QED
  BY <1>1, <1>2, <1>3, <1>4

LEMMA InHand ==
    ASSUME NEW t \in Task
    PROVE  /\ At(t, Number1) \/ Idle(t) \/ At(t, <<"state", "push">>) => ~EventInHand(t)
           /\ \A part \in Part : At(t, <<"inbox", part>>) => ~EventInHand(t)
           /\ \A part \in Part : At(t, <<"events", part>>) => EventInHand(t)
           /\ At(t, Send) => EventInHand(t)
<1>1. At(t, Number1) \/ Idle(t) \/ At(t, <<"state", "push">>) => ~EventInHand(t)
  BY DEF At, EventInHand, Number1, Part
<1>2. \A part \in Part : At(t, <<"inbox", part>>) => ~EventInHand(t)
  BY DEF At, EventInHand, Part
<1>3. \A part \in Part : At(t, <<"events", part>>) => EventInHand(t)
  BY DEF EventInHand
<1>4. At(t, Send) => EventInHand(t)
  BY DEF EventInHand, Send
<1> QED
  BY <1>1, <1>2, <1>3, <1>4

-----------------------------------------------------------------------------
(* Who is at work.                                                         *)

\* A task that takes a step is at work, and so the runtime is not down, and only Main
\* works as it starts and bids farewell.
LEMMA AtWork ==
    ASSUME NobodyElse, NEW t \in Task, NEW step, At(t, step)
    PROVE  phase # "down" /\ (phase \in {"starting", "farewell"} => t = Main)
<1>1. ~Idle(t)
  BY OneStepAtATime
<1> QED
  BY <1>1 DEF NobodyElse

LEMMA OthersStayIdle ==
    ASSUME NobodyElse, NEW t \in Task, \A u \in Task \ {t} : Same(u), phase' = phase,
           phase # "down", phase \in {"starting", "farewell"} => t = Main
    PROVE  NobodyElse'
<1>1. \A u \in Task \ {t} : Idle(u)' <=> Idle(u)
  BY DEF Same, Idle
<1> QED
  BY <1>1 DEF NobodyElse

LEMMA NobodyElseKept ==
    ASSUME Types, Fitting, NobodyElse, JournalNext
    PROVE  NobodyElse'
<1>1. CASE Start \/ Farewell
  <2>1. /\ \A u \in Task \ {Main} : Same(u)
        /\ phase' \in {"starting", "farewell"} /\ phase \in {"down", "stopping"}
    BY <1>1, StartMoves, FarewellMoves DEF Start, Farewell
  <2>2. \A u \in Task : Idle(u)
    BY <1>1 DEF Start, Farewell, NobodyElse
  <2>3. \A u \in Task \ {Main} : Idle(u)'
    BY <2>1, <2>2 DEF Same, Idle
  <2> QED
    BY <2>1, <2>3 DEF NobodyElse
<1>2. CASE Serve \/ Stop
  BY <1>2 DEF Serve, Stop, NobodyElse
<1>3. CASE Exit \/ Kill
  <2>1. (\A u \in Task : Idle(u)') /\ phase' = "down" /\ events' = <<>> /\ inbox' = <<>>
    BY <1>3, ExitMoves, KillMoves DEF Exit, Kill
  <2> QED
    BY <2>1 DEF NobodyElse
<1>4. ASSUME NEW t \in Task, Record(t) \/ \E kind \in {"direct", "relay"} : Receive(t, kind)
      PROVE  NobodyElse'
  <2>1. \E kind, value : Begin(t, kind, value)
    BY <1>4 DEF Record, Receive
  <2>2. /\ phase \in {"up", "stopping"} /\ phase' = phase
    BY <2>1 DEF Begin
  <2> QED
    BY <2>2 DEF NobodyElse
<1>5. ASSUME NEW t \in Task, Step(t)
      PROVE  NobodyElse'
  <2>1. /\ \A u \in Task \ {t} : Same(u)
        /\ phase' = phase /\ \E step : At(t, step)
    <3>1. CASE Number(t)
      BY <3>1, NumberMoves DEF Number
    <3>2. CASE Push(t)
      BY <3>2, PushMoves DEF Push
    <3>3. CASE Announce(t)
      BY <3>3, AnnounceMoves DEF Announce
    <3>4. CASE \E f \in File : Write(t, f)
      <4>1. PICK f \in File : Write(t, f)
        BY <3>4
      <4>2. PICK part \in Part : Writes(t, f, part)
        BY <4>1, WriteIsWrites
      <4> QED
        BY <4>2, WriteMoves DEF Writes
    <3> QED
      BY <1>5, <3>1, <3>2, <3>3, <3>4 DEF Step
  <2> QED
    BY <2>1, AtWork, OthersStayIdle
<1>6. ASSUME NEW t \in Task, NEW f \in File, FailedWrite(t, f)
      PROVE  NobodyElse'
  <2>1. PICK step : At(t, step)
    BY <1>6 DEF FailedWrite
  <2>2. phase # "down" /\ (phase \in {"starting", "farewell"} => t = Main)
    BY <2>1, AtWork
  <2>3. CASE phase' = "down" /\ (\A u \in Task : Idle(u)') /\ events' = <<>> /\ inbox' = <<>>
    BY <2>3 DEF NobodyElse
  <2>4. CASE phase' = phase /\ \A u \in Task \ {t} : Same(u)
    BY <2>2, <2>4, OthersStayIdle
  <2> QED
    BY <1>6, <2>3, <2>4, FailedMoves
<1> QED
  BY <1>1, <1>2, <1>3, <1>4, <1>5, <1>6 DEF JournalNext

\* Every call begins alike.
LEMMA CallsBegin ==
    ASSUME Types, NEW t \in Task,
           Record(t) \/ \E kind \in {"direct", "relay"} : Receive(t, kind)
    PROVE  \E kind \in Kind, value \in Value :
              Begin(t, kind, value) /\ received' \in 0..MaxReceived
<1>1. CASE Record(t)
  <2>1. Nothing \in Value /\ "event" \in Kind
    BY DEF Nothing, Value, Kind
  <2>2. Begin(t, "event", Nothing) /\ received' \in 0..MaxReceived
    BY <1>1 DEF Record, Types
  <2> QED
    BY <2>1, <2>2
<1>2. ASSUME NEW kind \in {"direct", "relay"}, Receive(t, kind)
      PROVE  \E k \in Kind, value \in Value :
                Begin(t, k, value) /\ received' \in 0..MaxReceived
  <2>1. received' \in 0..MaxReceived /\ received' \in Nat /\ run \in Nat
    BY <1>2, JournalAssumption DEF Receive, Types
  <2>2. [id |-> received', run |-> run] \in Value /\ kind \in Kind
    BY <2>1 DEF Value, Kind
  <2>3. Begin(t, kind, [id |-> received', run |-> run])
    BY <1>2 DEF Receive
  <2> QED
    BY <2>1, <2>2, <2>3
<1> QED
  BY <1>1, <1>2

-----------------------------------------------------------------------------
(* What is told is written.                                                *)

ValueSet(f, part) == ToSet(ValuesOf(file[f], part))

LEMMA ValueSets ==
    /\ \A f : Lines(f) = ValueSet(f, "newline")
    /\ \A f : ToSet(ValuesOf(file[f], "tail")) = ValueSet(f, "tail")
    /\ \A f : ToSet(load_json_lines(f)) = ValueSet(f, "tail")
BY DEF Lines, ValueSet, load_json_lines

LEMMA WriteAdds ==
    ASSUME Types, Fitting, NEW t \in Task, NEW f \in File, NEW part \in Part, Writes(t, f, part)
    PROVE  /\ \A p \in Part : ValuesOf(file[f], p)' =
                  IF p = part THEN Append(ValuesOf(file[f], p), job[t].value)
                  ELSE ValuesOf(file[f], p)
           /\ \A p \in Part : ValueSet(f, p)' =
                  IF p = part THEN ValueSet(f, p) \cup {job[t].value} ELSE ValueSet(f, p)
           /\ \A g \in File \ {f} : \A p \in Part : ValuesOf(file[g], p)' = ValuesOf(file[g], p)
           /\ \A g \in File \ {f} : \A p \in Part : ValueSet(g, p)' = ValueSet(g, p)
<1> DEFINE w == [part |-> part, value |-> job[t].value]
<1>1. /\ file'[f] = Append(file[f], w) /\ \A g \in File \ {f} : file'[g] = file[g]
      /\ w \in Written /\ file[f] \in Seq(Written) /\ job[t].value \in Value
      /\ w.part = part /\ w.value = job[t].value
  BY WriteMoves DEF Types
<1> HIDE DEF w
<1>2. \A p \in Part : ValuesOf(file'[f], p) =
          IF p = part THEN Append(ValuesOf(file[f], p), job[t].value) ELSE ValuesOf(file[f], p)
  <2> DEFINE s == file[f]
             v == job[t].value
  <2>1. s \in Seq(Written) /\ w \in Written /\ w.part = part /\ w.value = v
    BY <1>1
  <2>2. file'[f] = Append(s, w)
    BY <1>1
  <2> HIDE DEF s, v
  <2>3. \A p \in Part : ValuesOf(Append(s, w), p) =
          IF w.part = p THEN Append(ValuesOf(s, p), w.value) ELSE ValuesOf(s, p)
    BY <2>1, ValuesOfMore
  <2>4. \A p \in Part : ValuesOf(file'[f], p) =
          IF p = part THEN Append(ValuesOf(s, p), v) ELSE ValuesOf(s, p)
    BY <2>1, <2>2, <2>3
  <2> QED
    BY <2>4 DEF s, v
<1>3. ASSUME NEW p \in Part
      PROVE  ToSet(ValuesOf(file'[f], p)) =
                IF p = part THEN ToSet(ValuesOf(file[f], p)) \cup {job[t].value}
                ELSE ToSet(ValuesOf(file[f], p))
  <2>1. ValuesOf(file[f], p) \in Seq(Value)
    BY <1>1, ValuesOfSome
  <2>2. ToSet(Append(ValuesOf(file[f], p), job[t].value)) =
            ToSet(ValuesOf(file[f], p)) \cup {job[t].value}
    BY <1>1, <2>1, SetOfMore
  <2> QED
    BY <1>2, <2>2
<1>4. \A g \in File \ {f} : \A p \in Part : ValuesOf(file'[g], p) = ValuesOf(file[g], p)
  BY <1>1
<1> QED
  BY <1>2, <1>3, <1>4 DEF ValueSet

WrittenFor(t) ==
    /\ At(t, <<"inbox", "newline">>) \/ At(t, <<"state", "push">>) =>
          job[t].value \in ValueSet("inbox", "tail")
    /\ At(t, Send) => job[t].value \in ValueSet("events", "newline")

LEMMA WrittenForAll ==
    /\ WrittenBefore <=> \A t \in Task : WrittenFor(t)
    /\ WrittenBefore' <=> \A t \in Task : WrittenFor(t)'
BY DEF WrittenBefore, WrittenFor, Send, ValueSet, Lines

FilesGrow == \A g \in File : \A p \in Part : ValueSet(g, p) \subseteq ValueSet(g, p)'

LEMMA FilesKept ==
    ASSUME file' = file
    PROVE  /\ FilesGrow
           /\ \A g : \A p : ValueSet(g, p)' = ValueSet(g, p)
           /\ \A g : load_json_lines(g)' = load_json_lines(g)
BY DEF FilesGrow, ValueSet, load_json_lines

LEMMA WrittenForKept ==
    ASSUME NEW t \in Task, Same(t), WrittenFor(t), FilesGrow
    PROVE  WrittenFor(t)'
<1>1. /\ ValueSet("inbox", "tail") \subseteq ValueSet("inbox", "tail")'
      /\ ValueSet("events", "newline") \subseteq ValueSet("events", "newline")'
  BY DEF FilesGrow, File, Part
<1>2. job'[t] = job[t] /\ \A step : At(t, step)' <=> At(t, step)
  BY SameSteps DEF Same
<1> QED
  BY <1>1, <1>2 DEF WrittenFor

EarlySteps == {Number1, <<"inbox", "head">>, <<"events", "head">>}

LEMMA WrittenForEarly ==
    ASSUME NEW t \in Task, ~Idle(t)' => Head(todo'[t]) \in EarlySteps
    PROVE  WrittenFor(t)'
BY DEF WrittenFor, EarlySteps, At, Idle, Number1, Send

\* One task goes on, and does not come to tell anything by that.
LEMMA WrittenBeforeKept ==
    ASSUME WrittenBefore, FilesGrow, NEW t \in Task, \A u \in Task \ {t} : Same(u),
           WrittenFor(t)'
    PROVE  WrittenBefore'
<1>1. \A u \in Task : WrittenFor(u)'
  BY WrittenForAll, WrittenForKept
<1> QED
  BY <1>1, WrittenForAll

LEMMA ToldKept ==
    ASSUME ToldIsWritten, FilesGrow, ToSet(inbox') \subseteq ToSet(inbox),
           announced' \subseteq announced
    PROVE  ToldIsWritten'
<1>1. /\ ValueSet("inbox", "tail") \subseteq ValueSet("inbox", "tail")'
      /\ ValueSet("events", "newline") \subseteq ValueSet("events", "newline")'
  BY DEF FilesGrow, File, Part
<1>2. /\ ToSet(inbox) \subseteq ValueSet("inbox", "tail")
      /\ announced \subseteq ValueSet("events", "newline")
  BY ValueSets DEF ToldIsWritten
<1>3. /\ ToSet(inbox)' \subseteq ValueSet("inbox", "tail")'
      /\ announced' \subseteq ValueSet("events", "newline")'
  BY <1>1, <1>2
<1> QED
  BY <1>3 DEF ToldIsWritten, ValueSet, Lines

LEMMA ToldByWrite ==
    ASSUME Types, Fitting, WrittenBefore, ToldIsWritten,
           NEW t \in Task, NEW f \in File, NEW part \in Part, Writes(t, f, part)
    PROVE  WrittenBefore' /\ ToldIsWritten'
<1>1. /\ \A u \in Task \ {t} : Same(u)
      /\ todo'[t] # <<>> /\ Head(todo'[t]) = Following(<<f, part>>)
      /\ job' = job
  BY WriteMoves
<1>2. At(t, <<f, part>>) /\ UNCHANGED <<inbox, announced>>
  BY DEF Writes, memory
<1>3. FilesGrow
  BY WriteAdds DEF FilesGrow
<1>4. WrittenFor(t)'
  <2>1. CASE f = "events" /\ part = "newline"
    <3>1. At(t, Send)'
      BY <1>1, <2>1, FollowingIs DEF At, Idle, Send
    <3>2. job'[t].value \in ValueSet("events", "newline")'
      BY <1>1, <2>1, WriteAdds DEF Part
    <3>3. ~At(t, <<"inbox", "newline">>)' /\ ~At(t, <<"state", "push">>)'
      BY <3>1 DEF At, Send
    <3> QED
      BY <3>2, <3>3 DEF WrittenFor
  <2>2. CASE f = "inbox" /\ part = "tail"
    <3>1. At(t, <<"inbox", "newline">>)'
      BY <1>1, <2>2, FollowingIs DEF At, Idle
    <3>2. job'[t].value \in ValueSet("inbox", "tail")'
      BY <1>1, <2>2, WriteAdds DEF Part
    <3>3. ~At(t, Send)'
      BY <3>1 DEF At, Send
    <3> QED
      BY <3>2, <3>3 DEF WrittenFor
  <2>3. CASE f = "inbox" /\ part = "newline"
    <3>1. At(t, <<"state", "push">>)'
      BY <1>1, <2>3, FollowingIs DEF At, Idle
    <3>2. job[t].value \in ValueSet("inbox", "tail")
      BY <1>2, <2>3, WrittenForAll DEF WrittenFor
    <3>3. job'[t].value \in ValueSet("inbox", "tail")'
      BY <1>1, <1>3, <3>2 DEF FilesGrow, File, Part
    <3>4. ~At(t, Send)'
      BY <3>1 DEF At, Send
    <3> QED
      BY <3>3, <3>4 DEF WrittenFor
  <2>4. CASE part = "head" \/ (f = "events" /\ part = "tail")
    <3>1. Head(todo'[t]) \in {<<"events", "tail">>, <<"events", "newline">>, <<"inbox", "tail">>}
      BY <1>1, <2>4, FollowingIs DEF File
    <3> QED
      BY <1>1, <3>1 DEF WrittenFor, At, Idle, Send
  <2> QED
    BY <2>1, <2>2, <2>3, <2>4 DEF File, Part
<1>5. WrittenBefore'
  BY <1>1, <1>3, <1>4, WrittenBeforeKept
<1>6. ToldIsWritten'
  BY <1>2, <1>3, ToldKept
<1> QED
  BY <1>5, <1>6

LEMMA ToldInvariant ==
    ASSUME Types, Fitting, WrittenBefore, ToldIsWritten, JournalNext
    PROVE  WrittenBefore' /\ ToldIsWritten'
<1>1. CASE Start
  <2>1. /\ \A u \in Task \ {Main} : Same(u)
        /\ At(Main, Number1)' /\ UNCHANGED <<file, announced>>
        /\ inbox' = load_json_lines("inbox")
    BY <1>1, StartMoves DEF Start
  <2>2. WrittenFor(Main)'
    BY <2>1, WrittenForEarly, JournalAssumption DEF At, EarlySteps
  <2>3. WrittenBefore'
    BY <2>1, <2>2, FilesKept, WrittenBeforeKept, JournalAssumption
  <2>4. /\ ToSet(inbox)' = ToSet(ValuesOf(file["inbox"], "tail"))'
        /\ announced' \subseteq Lines("events")'
    BY <2>1 DEF load_json_lines, ToldIsWritten, Lines
  <2> QED
    BY <2>3, <2>4 DEF ToldIsWritten
<1>2. CASE Farewell \/ Serve \/ Stop
  <2>1. /\ \A u \in Task \ {Main} : Same(u)
        /\ UNCHANGED <<file, announced, inbox>>
        /\ Same(Main) \/ At(Main, Number1)'
    BY <1>2, FarewellMoves, ServeMoves, JournalAssumption DEF Farewell, Serve, Stop, memory
  <2>2. WrittenFor(Main)'
    <3>1. CASE Same(Main)
      BY <2>1, <3>1, FilesKept, WrittenForKept, WrittenForAll, JournalAssumption
    <3>2. CASE At(Main, Number1)'
      BY <3>2, WrittenForEarly, JournalAssumption DEF At, EarlySteps
    <3> QED
      BY <2>1, <3>1, <3>2
  <2>3. WrittenBefore'
    BY <2>1, <2>2, FilesKept, WrittenBeforeKept, JournalAssumption
  <2>4. ToldIsWritten'
    BY <2>1, FilesKept, ToldKept
  <2> QED
    BY <2>3, <2>4
<1>3. CASE Exit \/ Kill
  <2>1. (\A u \in Task : Idle(u)') /\ inbox' = <<>> /\ UNCHANGED <<file, announced>>
    BY <1>3, ExitMoves, KillMoves DEF Exit, Kill
  <2>2. WrittenBefore'
    BY <2>1, WrittenForEarly, WrittenForAll
  <2>3. ToSet(inbox') = {}
    BY <2>1, SetOfNone
  <2>4. ToldIsWritten'
    BY <2>1, <2>3, FilesKept, ToldKept
  <2> QED
    BY <2>2, <2>4
<1>4. ASSUME NEW t \in Task, Record(t) \/ \E kind \in {"direct", "relay"} : Receive(t, kind)
      PROVE  WrittenBefore' /\ ToldIsWritten'
  <2>1. PICK kind \in Kind, value \in Value : Begin(t, kind, value) /\ received' \in 0..MaxReceived
    BY <1>4, CallsBegin
  <2>2. /\ \A u \in Task \ {t} : Same(u)
        /\ Head(todo'[t]) \in EarlySteps /\ UNCHANGED <<file, announced, inbox>>
    BY <2>1, BeginMoves DEF Begin, EarlySteps, memory
  <2>3. WrittenBefore'
    BY <2>2, FilesKept, WrittenForEarly, WrittenBeforeKept
  <2>4. ToldIsWritten'
    BY <2>2, FilesKept, ToldKept
  <2> QED
    BY <2>3, <2>4
<1>5. ASSUME NEW t \in Task, Number(t)
      PROVE  WrittenBefore' /\ ToldIsWritten'
  <2>1. /\ \A u \in Task \ {t} : Same(u)
        /\ At(t, <<"events", "head">>)' /\ UNCHANGED <<file, announced, inbox>>
    BY <1>5, NumberMoves DEF Number
  <2>2. WrittenFor(t)'
    BY <2>1, WrittenForEarly DEF At, EarlySteps
  <2>3. WrittenBefore'
    BY <2>1, <2>2, FilesKept, WrittenBeforeKept
  <2>4. ToldIsWritten'
    BY <2>1, FilesKept, ToldKept
  <2> QED
    BY <2>3, <2>4
<1>6. ASSUME NEW t \in Task, NEW f \in File, Write(t, f)
      PROVE  WrittenBefore' /\ ToldIsWritten'
  <2>1. PICK part \in Part : Writes(t, f, part)
    BY <1>6, WriteIsWrites
  <2> QED
    BY <2>1, ToldByWrite
<1>7. ASSUME NEW t \in Task, Push(t)
      PROVE  WrittenBefore' /\ ToldIsWritten'
  <2>1. /\ \A u \in Task \ {t} : Same(u)
        /\ At(t, Number1)' /\ UNCHANGED <<file, announced>>
        /\ ToSet(inbox') = ToSet(inbox) \cup {job[t].value}
        /\ At(t, <<"state", "push">>)
    BY <1>7, PushMoves DEF Push
  <2>2. WrittenFor(t)'
    BY <2>1, WrittenForEarly DEF At, EarlySteps
  <2>3. WrittenBefore'
    BY <2>1, <2>2, FilesKept, WrittenBeforeKept
  <2>4. job[t].value \in ValueSet("inbox", "tail")
    BY <2>1, WrittenForAll DEF WrittenFor
  <2>5. ToSet(inbox') \subseteq ValueSet("inbox", "tail")
    BY <2>1, <2>4, ValueSets DEF ToldIsWritten
  <2>6. ToldIsWritten'
    BY <2>1, <2>5 DEF ToldIsWritten, ValueSet, Lines
  <2> QED
    BY <2>3, <2>6
<1>8. ASSUME NEW t \in Task, Announce(t)
      PROVE  WrittenBefore' /\ ToldIsWritten'
  <2>1. /\ \A u \in Task \ {t} : Same(u)
        /\ Idle(t)' \/ At(t, Number1)'
        /\ UNCHANGED <<file, inbox>>
        /\ announced' = announced \cup {job[t].value}
        /\ At(t, Send)
    BY <1>8, AnnounceMoves DEF Announce, memory, Send
  <2>2. WrittenFor(t)'
    BY <2>1, WrittenForEarly DEF At, EarlySteps
  <2>3. WrittenBefore'
    BY <2>1, <2>2, FilesKept, WrittenBeforeKept
  <2>4. job[t].value \in ValueSet("events", "newline")
    BY <2>1, WrittenForAll DEF WrittenFor
  <2>5. announced' \subseteq Lines("events")
    BY <2>1, <2>4, ValueSets DEF ToldIsWritten
  <2>6. ToldIsWritten'
    BY <2>1, <2>5 DEF ToldIsWritten, Lines
  <2> QED
    BY <2>3, <2>6
<1>9. ASSUME NEW t \in Task, NEW f \in File, FailedWrite(t, f)
      PROVE  WrittenBefore' /\ ToldIsWritten'
  <2>1. UNCHANGED <<file, announced>>
    BY <1>9 DEF FailedWrite
  <2>2. \/ (\A u \in Task : Idle(u)') /\ inbox' = <<>>
        \/ /\ inbox' = inbox /\ \A u \in Task \ {t} : Same(u)
           /\ Idle(t)' \/ At(t, Number1)'
    BY <1>9, FailedMoves
  <2>3. CASE (\A u \in Task : Idle(u)') /\ inbox' = <<>>
    <3>1. WrittenBefore'
      BY <2>3, WrittenForEarly, WrittenForAll
    <3>2. ToSet(inbox') = {}
      BY <2>3, SetOfNone
    <3> QED
      BY <2>1, <3>1, <3>2, FilesKept, ToldKept
  <2>4. CASE /\ inbox' = inbox /\ \A u \in Task \ {t} : Same(u)
             /\ Idle(t)' \/ At(t, Number1)'
    <3>1. WrittenFor(t)'
      BY <2>4, WrittenForEarly DEF At, EarlySteps
    <3>2. WrittenBefore'
      BY <2>1, <2>4, <3>1, FilesKept, WrittenBeforeKept
    <3> QED
      BY <2>1, <2>4, <3>2, FilesKept, ToldKept
  <2> QED
    BY <2>2, <2>3, <2>4
<1> QED
  BY <1>1, <1>2, <1>3, <1>4, <1>5, <1>6, <1>7, <1>8, <1>9 DEF JournalNext, Step

-----------------------------------------------------------------------------
(* Lines stay whole.                                                       *)

LEMMA WrittenIs ==
    ASSUME NEW a \in Written, NEW b \in Written
    PROVE  /\ a.part \in Part /\ a.value \in Value
           /\ a = b <=> a.part = b.part /\ a.value = b.value
           /\ a.part = "head" /\ b.part = "tail" =>
                 /\ b = [a EXCEPT !.part = "tail"] <=> a.value = b.value
                 /\ a = [b EXCEPT !.part = "head"] <=> a.value = b.value
<1>1. a.part \in Part /\ a.value \in Value
  BY DEF Written
<1>2. a = b <=> a.part = b.part /\ a.value = b.value
  BY DEF Written
<1>3. ASSUME a.part = "head", b.part = "tail"
      PROVE  b = [a EXCEPT !.part = "tail"] <=> a.value = b.value
  <2> DEFINE c == [a EXCEPT !.part = "tail"]
  <2>1. c \in Written /\ c.part = "tail" /\ c.value = a.value
    BY DEF Written, Part
  <2>2. b = c <=> b.part = c.part /\ b.value = c.value
    BY <2>1 DEF Written
  <2> HIDE DEF c
  <2>3. b = c <=> a.value = b.value
    BY <1>3, <2>1, <2>2
  <2> QED
    BY <2>3 DEF c
<1>4. ASSUME a.part = "head", b.part = "tail"
      PROVE  a = [b EXCEPT !.part = "head"] <=> a.value = b.value
  <2> DEFINE c == [b EXCEPT !.part = "head"]
  <2>1. c \in Written /\ c.part = "head" /\ c.value = b.value
    BY DEF Written, Part
  <2>2. a = c <=> a.part = c.part /\ a.value = c.value
    BY <2>1 DEF Written
  <2> HIDE DEF c
  <2>3. a = c <=> a.value = b.value
    BY <1>4, <2>1, <2>2
  <2> QED
    BY <2>3 DEF c
<1> QED
  BY <1>1, <1>2, <1>3, <1>4

\* Sound, without the update of records.
SoundAt(s, i) ==
    /\ s[i].part = "head" =>
           /\ i > 1 => s[i - 1].part = "newline"
           /\ i < Len(s) => s[i + 1].part = "tail" /\ s[i + 1].value = s[i].value
    /\ s[i].part = "tail" =>
           i > 1 /\ s[i - 1].part = "head" /\ s[i - 1].value = s[i].value

LEMMA SoundIs ==
    ASSUME NEW s \in Seq(Written)
    PROVE  Sound(s) <=> \A i \in 1..Len(s) : SoundAt(s, i)
<1>1. DOMAIN s = 1..Len(s) /\ Len(s) \in Nat /\ \A i \in 1..Len(s) : s[i] \in Written
  OBVIOUS
<1>2. ASSUME NEW i \in 1..Len(s), i < Len(s), s[i].part = "head"
      PROVE  s[i + 1] = [s[i] EXCEPT !.part = "tail"] <=>
                s[i + 1].part = "tail" /\ s[i + 1].value = s[i].value
  <2> DEFINE a == s[i]
             b == s[i + 1]
             c == [a EXCEPT !.part = "tail"]
  <2>1. a \in Written /\ b \in Written
    BY <1>1, <1>2
  <2> HIDE DEF a, b
  <2>2. c.part = "tail"
    BY <2>1 DEF Written
  <2>3. b = c => b.part = "tail"
    BY <2>2
  <2>4. b.part = "tail" => (b = c <=> a.value = b.value)
    BY <1>2, <2>1, WrittenIs DEF a
  <2> HIDE DEF c
  <2>5. b = c <=> b.part = "tail" /\ b.value = a.value
    BY <2>3, <2>4
  <2> QED
    BY <2>5 DEF a, b, c
<1>3. ASSUME NEW i \in 1..Len(s), i > 1, s[i].part = "tail"
      PROVE  s[i - 1] = [s[i] EXCEPT !.part = "head"] <=>
                s[i - 1].part = "head" /\ s[i - 1].value = s[i].value
  <2> DEFINE a == s[i - 1]
             b == s[i]
             c == [b EXCEPT !.part = "head"]
  <2>1. a \in Written /\ b \in Written
    BY <1>1, <1>3
  <2> HIDE DEF a, b
  <2>2. c.part = "head"
    BY <2>1 DEF Written
  <2>3. a = c => a.part = "head"
    BY <2>2
  <2>4. a.part = "head" => (a = c <=> a.value = b.value)
    BY <1>3, <2>1, WrittenIs DEF b
  <2> HIDE DEF c
  <2>5. a = c <=> a.part = "head" /\ a.value = b.value
    BY <2>3, <2>4
  <2> QED
    BY <2>5 DEF a, b, c
<1>4. ASSUME Sound(s), NEW i \in 1..Len(s)
      PROVE  SoundAt(s, i)
  BY <1>1, <1>2, <1>3, <1>4 DEF Sound, SoundAt
<1>5. ASSUME \A i \in 1..Len(s) : SoundAt(s, i)
      PROVE  Sound(s)
  BY <1>1, <1>2, <1>3, <1>5 DEF Sound, SoundAt
<1> QED
  BY <1>4, <1>5

LEMMA SoundMore ==
    ASSUME NEW s \in Seq(Written), NEW w \in Written, Sound(s),
           \/ w.part = "head" /\ (s # <<>> => Last(s).part = "newline")
           \/ w.part = "tail" /\ s # <<>> /\ Last(s).part = "head" /\ Last(s).value = w.value
           \/ w.part = "newline" /\ s # <<>> /\ Last(s).part = "tail"
    PROVE  Sound(Append(s, w))
<1> DEFINE t == Append(s, w)
           n == Len(s)
<1>1. /\ t \in Seq(Written) /\ Len(t) = n + 1 /\ n \in Nat
      /\ \A k \in 1..n : t[k] = s[k]
      /\ t[n + 1] = w
  BY AppendFacts
<1>2. s # <<>> <=> n > 0
  OBVIOUS
<1>3. Last(s) = s[n]
  BY DEF Last
<1>4. \A i \in 1..n : SoundAt(s, i)
  BY SoundIs
<1> HIDE DEF t, n
<1>5. ASSUME NEW i \in 1..n
      PROVE  SoundAt(t, i)
  <2>1. t[i] = s[i] /\ (i > 1 => t[i - 1] = s[i - 1]) /\ (i < n => t[i + 1] = s[i + 1])
    BY <1>1
  <2>2. i < n \/ i = n
    BY <1>1
  <2>3. CASE i < n
    BY <1>1, <1>4, <2>1, <2>3 DEF SoundAt, n
  <2>4. CASE i = n
    <3>1. t[i + 1] = w /\ s[i] = Last(s) /\ s # <<>>
      BY <1>1, <1>2, <1>3, <2>4
    <3>2. s[i].part = "head" => w.part = "tail" /\ w.value = s[i].value
      BY <3>1
    <3>3. /\ s[i].part = "head" => (i > 1 => s[i - 1].part = "newline")
          /\ s[i].part = "tail" =>
                 i > 1 /\ s[i - 1].part = "head" /\ s[i - 1].value = s[i].value
      BY <1>4 DEF SoundAt
    <3> QED
      BY <2>1, <3>1, <3>2, <3>3 DEF SoundAt
  <2> QED
    BY <2>2, <2>3, <2>4
<1>6. SoundAt(t, n + 1)
  <2>1. t[n + 1] = w /\ ~(n + 1 < Len(t))
    BY <1>1
  <2>2. s # <<>> => t[(n + 1) - 1] = Last(s) /\ n + 1 > 1
    BY <1>1, <1>2, <1>3
  <2>3. n + 1 > 1 => s # <<>>
    BY <1>1, <1>2
  <2> QED
    BY <2>1, <2>2, <2>3 DEF SoundAt
<1>7. \A i \in 1..(n + 1) : i \in 1..n \/ i = n + 1
  BY <1>1
<1>8. \A i \in 1..Len(t) : SoundAt(t, i)
  BY <1>1, <1>5, <1>6, <1>7
<1> QED
  BY <1>1, <1>8, SoundIs DEF t

LEMMA SoundIsReadable ==
    ASSUME NEW s \in Seq(Written), Sound(s), s = <<>> \/ Last(s).part = "newline"
    PROVE  readable(s)
<1>1. DOMAIN s = 1..Len(s) /\ Len(s) \in Nat
  OBVIOUS
<1>2. \A i \in 1..Len(s) : s[i].part = "head" => i < Len(s)
  <2> SUFFICES ASSUME NEW i \in 1..Len(s), s[i].part = "head"
               PROVE  i < Len(s)
    OBVIOUS
  <2>1. s # <<>>
    OBVIOUS
  <2>2. i # Len(s)
    BY <2>1 DEF Last
  <2>3. \A n \in Nat : \A k \in 1..n : k # n => k < n
    OBVIOUS
  <2>4. Len(s) \in Nat
    BY <1>1
  <2> QED
    BY <2>2, <2>3, <2>4
<1> QED
  BY <1>1, <1>2 DEF Sound, readable

LEMMA EndsKept ==
    ASSUME NEW f \in File, EndsWell(f), file'[f] = file[f],
           \A u \in Task : Same(u) \/ (~InLine(u, f) /\ ~InLine(u, f)')
    PROVE  EndsWell(f)'
<1>1. \A u \in Task : /\ InLine(u, f)' <=> InLine(u, f)
                      /\ At(u, <<f, "tail">>)' <=> At(u, <<f, "tail">>)
                      /\ At(u, <<f, "newline">>)' <=> At(u, <<f, "newline">>)
                      /\ At(u, <<f, "tail">>) => job'[u].value = job[u].value
  BY SameSteps DEF InLine
<1>2. \A t, u \in Task : InLine(t, f)' /\ InLine(u, f)' => t = u
  BY <1>1 DEF EndsWell
<1>3. (\A t \in Task : ~InLine(t, f)') => file'[f] = <<>> \/ Last(file'[f]).part = "newline"
  BY <1>1 DEF EndsWell
<1>4. \A t \in Task :
         /\ At(t, <<f, "tail">>)' =>
               file'[f] # <<>> /\ Last(file'[f]) = [part |-> "head", value |-> job'[t].value]
         /\ At(t, <<f, "newline">>)' => file'[f] # <<>> /\ Last(file'[f]).part = "tail"
  BY <1>1 DEF EndsWell
<1> QED
  BY <1>2, <1>3, <1>4 DEF EndsWell

LEMMA LinesKept ==
    ASSUME Types, LinesAreWhole, file' = file, broken \subseteq broken',
           \A f \in File \ broken' : \A u \in Task : Same(u) \/ (~InLine(u, f) /\ ~InLine(u, f)')
    PROVE  LinesAreWhole'
<1>1. ASSUME NEW f \in File \ broken'
      PROVE  Sound(file'[f]) /\ EndsWell(f)'
  <2>1. f \in File \ broken /\ file'[f] = file[f]
    OBVIOUS
  <2>2. Sound(file[f]) /\ EndsWell(f)
    BY <2>1 DEF LinesAreWhole
  <2> QED
    BY <2>1, <2>2, EndsKept
<1>2. \A f \in File \ broken' : Sound(file'[f]) /\ EndsWell(f)'
  BY <1>1
<1> QED
  BY <1>2 DEF LinesAreWhole

\* What a write does to the file it goes to, when no other task is in a line of it.
LEMMA LineWritten ==
    ASSUME Types, Fitting, NEW t \in Task, NEW f \in File, NEW part \in Part, Writes(t, f, part),
           Sound(file[f]), EndsWell(f), \A u \in Task \ {t} : ~InLine(u, f)
    PROVE  Sound(file'[f]) /\ EndsWell(f)'
<1> DEFINE s == file[f]
           w == [part |-> part, value |-> job[t].value]
           r == file'[f]
<1>1. /\ \A u \in Task \ {t} : Same(u)
      /\ todo'[t] # <<>> /\ Head(todo'[t]) = Following(<<f, part>>) /\ job' = job
      /\ w \in Written /\ r = Append(s, w) /\ s \in Seq(Written)
      /\ At(t, <<f, part>>) /\ w.part = part /\ w.value = job[t].value
  <2>1. /\ \A u \in Task \ {t} : Same(u)
        /\ todo'[t] # <<>> /\ Head(todo'[t]) = Following(<<f, part>>) /\ job' = job
        /\ w \in Written /\ r = Append(s, w)
    BY WriteMoves
  <2>2. s \in Seq(Written)
    BY DEF Types
  <2>3. At(t, <<f, part>>)
    BY DEF Writes
  <2> QED
    BY <2>1, <2>2, <2>3
<1>2. \A u \in Task \ {t} : ~InLine(u, f)'
  BY <1>1, SameSteps
<1>3. r \in Seq(Written) /\ r # <<>> /\ Last(r) = w
  <2> HIDE DEF s, w
  <2>1. /\ Append(s, w) \in Seq(Written) /\ Len(Append(s, w)) = Len(s) + 1 /\ Len(s) \in Nat
        /\ Append(s, w)[Len(s) + 1] = w
    BY <1>1, AppendFacts
  <2>2. r \in Seq(Written) /\ Len(r) = Len(s) + 1 /\ r[Len(s) + 1] = w
    BY <1>1, <2>1
  <2> HIDE DEF r
  <2>3. Len(r) # 0 /\ Last(r) = w
    BY <2>1, <2>2 DEF Last
  <2> QED
    BY <2>2, <2>3
<1>4. CASE part = "head"
  <2>1. ~InLine(t, f)
    BY <1>1, <1>4 DEF InLine, At
  <2>2. s # <<>> => Last(s).part = "newline"
    BY <2>1 DEF EndsWell
  <2>3. Sound(r)
    <3>1. Sound(s)
      OBVIOUS
    <3> HIDE DEF s, w, r
    <3>2. w.part = "head" /\ (s # <<>> => Last(s).part = "newline")
      BY <1>1, <1>4, <2>2
    <3>3. s \in Seq(Written) /\ w \in Written
      BY <1>1
    <3>4. Sound(Append(s, w))
      BY <3>1, <3>2, <3>3, SoundMore
    <3> QED
      BY <1>1, <3>4
  <2>4. At(t, <<f, "tail">>)' /\ ~At(t, <<f, "newline">>)' /\ InLine(t, f)'
    <3>1. todo'[t] # <<>> /\ Head(todo'[t]) = <<f, "tail">>
      BY <1>1, <1>4, FollowingInLine
    <3>2. <<f, "tail">> # <<f, "newline">>
      OBVIOUS
    <3> QED
      BY <3>1, <3>2 DEF At, Idle, InLine
  <2>5. Last(r) = [part |-> "head", value |-> job'[t].value]
    BY <1>1, <1>3, <1>4
  <2>6. EndsWell(f)'
    BY <1>2, <1>3, <2>4, <2>5 DEF EndsWell, InLine
  <2> QED
    BY <2>3, <2>6
<1>5. CASE part = "tail"
  <2>1. s # <<>> /\ Last(s) = [part |-> "head", value |-> job[t].value]
    BY <1>1, <1>5 DEF EndsWell
  <2>2. Last(s).part = "head" /\ Last(s).value = w.value
    BY <1>1, <2>1
  <2>3. Sound(r)
    <3>1. Sound(s)
      OBVIOUS
    <3> HIDE DEF s, w, r
    <3>2. w.part = "tail" /\ s # <<>> /\ Last(s).part = "head" /\ Last(s).value = w.value
      BY <1>1, <1>5, <2>1, <2>2 DEF s
    <3>3. s \in Seq(Written) /\ w \in Written
      BY <1>1
    <3>4. Sound(Append(s, w))
      BY <3>1, <3>2, <3>3, SoundMore
    <3> QED
      BY <1>1, <3>4
  <2>4. At(t, <<f, "newline">>)' /\ ~At(t, <<f, "tail">>)' /\ InLine(t, f)'
    <3>1. todo'[t] # <<>> /\ Head(todo'[t]) = <<f, "newline">>
      BY <1>1, <1>5, FollowingInLine
    <3>2. <<f, "tail">> # <<f, "newline">>
      OBVIOUS
    <3> QED
      BY <3>1, <3>2 DEF At, Idle, InLine
  <2>5. Last(r).part = "tail"
    BY <1>1, <1>3, <1>5
  <2>6. EndsWell(f)'
    BY <1>2, <1>3, <2>4, <2>5 DEF EndsWell, InLine
  <2> QED
    BY <2>3, <2>6
<1>6. CASE part = "newline"
  <2>1. s # <<>> /\ Last(s).part = "tail"
    BY <1>1, <1>6 DEF EndsWell
  <2>2. Sound(r)
    <3>1. Sound(s)
      OBVIOUS
    <3> HIDE DEF s, w
    <3>2. Sound(Append(s, w))
      BY <1>1, <1>6, <2>1, <3>1, SoundMore
    <3> QED
      BY <1>1, <3>2
  <2>3. \A u \in Task : ~InLine(u, f)'
    <3>1. Head(todo'[t]) \in {Send, <<"state", "push">>}
      BY <1>1, <1>6, FollowingIs DEF File, Send
    <3>2. ~InLine(t, f)'
      BY <3>1 DEF InLine, At, Send
    <3> QED
      BY <1>2, <3>2
  <2>4. Last(r).part = "newline"
    BY <1>1, <1>3, <1>6
  <2>5. EndsWell(f)'
    BY <2>3, <2>4 DEF EndsWell, InLine
  <2> QED
    BY <2>2, <2>5
<1> QED
  BY <1>4, <1>5, <1>6 DEF Part

LEMMA LinesByWrite ==
    ASSUME Types, Fitting, LinesAreWhole,
           NEW t \in Task, NEW f \in File, NEW part \in Part, Writes(t, f, part)
    PROVE  LinesAreWhole'
<1>1. /\ \A u \in Task \ {t} : Same(u)
      /\ todo'[t] # <<>> /\ Head(todo'[t]) = Following(<<f, part>>)
      /\ \A g \in File \ {f} : file'[g] = file[g]
      /\ At(t, <<f, part>>)
      /\ broken' = broken \cup (IF \E u \in Task \ {t} : InLine(u, f) THEN {f} ELSE {})
  BY WriteMoves DEF Writes
<1>2. ASSUME NEW g \in File \ broken'
      PROVE  Sound(file'[g]) /\ EndsWell(g)'
  <2>1. Sound(file[g]) /\ EndsWell(g)
    BY <1>1 DEF LinesAreWhole
  <2>2. CASE g = f
    <3>1. \A u \in Task \ {t} : ~InLine(u, f)
      BY <1>1, <2>2
    <3> QED
      BY <2>1, <2>2, <3>1, LineWritten
  <2>3. CASE g # f
    <3>1. ~InLine(t, g)
      BY <1>1, <2>3 DEF InLine, At
    <3>2. Head(todo'[t]) \in {<<f, "tail">>, <<f, "newline">>, Send, <<"state", "push">>}
      BY <1>1, FollowingIs DEF File, Part, Send
    <3>3. ~InLine(t, g)'
      BY <2>3, <3>2 DEF InLine, At, Send, File
    <3>4. file'[g] = file[g]
      BY <1>1, <2>3
    <3>5. \A u \in Task : Same(u) \/ (~InLine(u, g) /\ ~InLine(u, g)')
      BY <1>1, <3>1, <3>3
    <3> QED
      BY <2>1, <3>4, <3>5, EndsKept
  <2> QED
    BY <2>2, <2>3
<1>3. \A g \in File \ broken' : Sound(file'[g]) /\ EndsWell(g)'
  BY <1>2
<1> QED
  BY <1>3 DEF LinesAreWhole

\* A task that takes a step outside the lines.
LEMMA LinesByOther ==
    ASSUME Types, LinesAreWhole, file' = file, broken' = broken, NEW t \in Task,
           \A u \in Task \ {t} : Same(u),
           Idle(t) \/ \E step : At(t, step) /\ Outside(step),
           Idle(t)' \/ Head(todo'[t]) \in EarlySteps
    PROVE  LinesAreWhole'
<1>1. \A f \in File : ~InLine(t, f)
  BY OutsideLines
<1>2. \A f \in File : ~InLine(t, f)'
  BY DEF InLine, At, Idle, EarlySteps, Number1, File
<1> QED
  BY <1>1, <1>2, LinesKept

LEMMA LinesInvariant ==
    ASSUME Types, Fitting, NobodyElse, LinesAreWhole, JournalNext
    PROVE  LinesAreWhole'
<1>1. CASE Start \/ Farewell
  <2>1. /\ \A u \in Task \ {Main} : Same(u)
        /\ At(Main, Number1)' /\ UNCHANGED <<file, broken>>
        /\ Idle(Main)
    BY <1>1, StartMoves, FarewellMoves, JournalAssumption DEF Start, Farewell, NobodyElse
  <2>2. Head(todo'[Main]) \in EarlySteps
    BY <2>1 DEF At, EarlySteps
  <2> QED
    BY <2>1, <2>2, LinesByOther, JournalAssumption
<1>2. CASE Serve \/ Stop
  <2>1. UNCHANGED <<file, broken>> /\ \A u \in Task : Same(u)
    BY <1>2, ServeMoves DEF Serve, Stop
  <2> QED
    BY <2>1, LinesKept
<1>3. CASE Exit
  <2>1. /\ \A u \in Task : Idle(u)' /\ Idle(u)
        /\ UNCHANGED <<file, broken>>
    BY <1>3, ExitMoves DEF Exit, NobodyElse
  <2>2. \A u \in Task, f \in File : ~InLine(u, f) /\ ~InLine(u, f)'
    BY <2>1 DEF InLine, At
  <2> QED
    BY <2>1, <2>2, LinesKept
<1>4. CASE Kill
  <2>1. /\ \A u \in Task : Idle(u)'
        /\ file' = file /\ broken' = broken \cup {f \in File : \E t \in Task : InLine(t, f)}
    BY <1>4, KillMoves DEF Kill
  <2>2. \A f \in File \ broken' : \A u \in Task : ~InLine(u, f) /\ ~InLine(u, f)'
    BY <2>1 DEF InLine, At
  <2> QED
    BY <2>1, <2>2, LinesKept
<1>5. ASSUME NEW t \in Task, Record(t) \/ \E kind \in {"direct", "relay"} : Receive(t, kind)
      PROVE  LinesAreWhole'
  <2>1. PICK kind \in Kind, value \in Value : Begin(t, kind, value) /\ received' \in 0..MaxReceived
    BY <1>5, CallsBegin
  <2>2. /\ \A u \in Task \ {t} : Same(u)
        /\ Idle(t) /\ Head(todo'[t]) \in EarlySteps /\ UNCHANGED <<file, broken>>
    BY <2>1, BeginMoves DEF Begin, EarlySteps
  <2> QED
    BY <2>2, LinesByOther
<1>6. ASSUME NEW t \in Task, Number(t) \/ Push(t) \/ Announce(t)
      PROVE  LinesAreWhole'
  <2>1. /\ \A u \in Task \ {t} : Same(u)
        /\ UNCHANGED <<file, broken>>
        /\ Idle(t)' \/ At(t, Number1)' \/ At(t, <<"events", "head">>)'
    BY <1>6, NumberMoves, PushMoves, AnnounceMoves DEF Number, Push, Announce
  <2>2. \E step : At(t, step) /\ Outside(step)
    BY <1>6, OutsideLines DEF Number, Push, Announce, Number1, Send
  <2>3. Idle(t)' \/ Head(todo'[t]) \in EarlySteps
    BY <2>1 DEF At, EarlySteps
  <2> QED
    BY <2>1, <2>2, <2>3, LinesByOther
<1>7. ASSUME NEW t \in Task, NEW f \in File, Write(t, f)
      PROVE  LinesAreWhole'
  <2>1. PICK part \in Part : Writes(t, f, part)
    BY <1>7, WriteIsWrites
  <2> QED
    BY <2>1, LinesByWrite
<1>8. ASSUME NEW t \in Task, NEW f \in File, FailedWrite(t, f)
      PROVE  LinesAreWhole'
  <2>1. file' = file /\ broken' = broken \cup {g \in File : InLine(t, g)}
    BY <1>8 DEF FailedWrite
  <2>2. \A g \in File \ broken' : ~InLine(t, g)
    BY <2>1
  <2>3. \/ phase \in {"starting", "farewell"} /\ \A u \in Task : Idle(u)'
        \/ (Idle(t)' \/ At(t, Number1)') /\ \A u \in Task \ {t} : Same(u)
    BY <1>8, FailedMoves
  <2>4. phase \in {"starting", "farewell"} => t = Main
    BY <1>8, AtWork DEF FailedWrite
  <2>5. \A u \in Task \ {t} : Same(u) \/ (Idle(u) /\ Idle(u)')
    BY <2>3, <2>4 DEF NobodyElse
  <2>6. Idle(t)' \/ At(t, Number1)'
    BY <2>3
  <2>7. \A g \in File : ~InLine(t, g)'
    BY <2>6 DEF InLine, At, Idle, Number1, File
  <2>8. \A g \in File \ broken' : \A u \in Task : Same(u) \/ (~InLine(u, g) /\ ~InLine(u, g)')
    <3> SUFFICES ASSUME NEW g \in File \ broken', NEW u \in Task, ~Same(u)
                 PROVE  ~InLine(u, g) /\ ~InLine(u, g)'
      OBVIOUS
    <3>1. CASE u = t
      BY <2>2, <2>7, <3>1
    <3>2. CASE u # t
      BY <2>5, <3>2 DEF InLine, At
    <3> QED
      BY <3>1, <3>2
  <2> QED
    BY <2>1, <2>8, LinesKept
<1> QED
  BY <1>1, <1>2, <1>3, <1>4, <1>5, <1>6, <1>7, <1>8 DEF JournalNext, Step

-----------------------------------------------------------------------------
(* Ids stay the names of events.                                           *)

LEMMA KnownIs ==
    /\ \A x : x \in KnownEvents <=>
           \/ x \in ToSet(events) \/ x \in ValueSet("events", "tail") \/ x \in announced
           \/ \E u \in Task : EventInHand(u) /\ x = job[u].value
    /\ \A x : x \in KnownEvents' <=>
           \/ x \in ToSet(events)' \/ x \in ValueSet("events", "tail")' \/ x \in announced'
           \/ \E u \in Task : EventInHand(u)' /\ x = job'[u].value
<1>1. \A x : x \in KnownEvents <=>
           \/ x \in ToSet(events) \/ x \in ValueSet("events", "tail") \/ x \in announced
           \/ \E u \in Task : EventInHand(u) /\ x = job[u].value
  BY DEF KnownEvents, ValueSet, load_json_lines
<1>2. \A x : x \in KnownEvents' <=>
           \/ x \in ToSet(events)' \/ x \in ValueSet("events", "tail")' \/ x \in announced'
           \/ \E u \in Task : EventInHand(u)' /\ x = job'[u].value
  BY DEF KnownEvents, ValueSet, load_json_lines
<1> QED
  BY <1>1, <1>2

LEMMA KnownAreValues ==
    ASSUME Types, NEW x \in KnownEvents
    PROVE  x \in Value /\ x.id \in Nat
<1>1. ToSet(events) \subseteq Value
  BY SetOfSome DEF Types
<1>2. ValueSet("events", "tail") \subseteq Value
  <2>1. load_json_lines("events") \in Seq(Value)
    BY LoadedIs
  <2>2. ToSet(load_json_lines("events")) \subseteq Value
    BY <2>1, SetOfSome
  <2> QED
    BY <2>2, ValueSets
<1>3. \A u \in Task : job[u].value \in Value
  <2>1. \A u \in Task : job[u] \in Job
    BY DEF Types
  <2> QED
    BY <2>1 DEF Job
<1>4. x \in Value
  BY <1>1, <1>2, <1>3, KnownIs DEF Types
<1> QED
  BY <1>4 DEF Value

\* Nothing comes to be known but what is new, X, when one task goes on.
LEMMA KnownGrows ==
    ASSUME NEW t \in Task, \A u \in Task \ {t} : Same(u), NEW X,
           ToSet(events)' \subseteq KnownEvents \cup X,
           ValueSet("events", "tail")' \subseteq KnownEvents \cup X,
           announced' \subseteq KnownEvents \cup X,
           EventInHand(t)' => job'[t].value \in KnownEvents \cup X
    PROVE  KnownEvents' \subseteq KnownEvents \cup X
<1>1. ASSUME NEW u \in Task, EventInHand(u)'
      PROVE  job'[u].value \in KnownEvents \cup X
  <2>1. CASE u = t
    BY <1>1, <2>1
  <2>2. CASE u # t
    <3>1. EventInHand(u) /\ job'[u].value = job[u].value
      BY <1>1, <2>2, SameSteps
    <3> QED
      BY <3>1, KnownIs
  <2> QED
    BY <2>1, <2>2
<1> QED
  BY <1>1, KnownIs

\* Main has written the last event, or nothing was given an id for it yet.
Settled ==
    Idle(Main) \/ At(Main, <<"events", "newline">>) \/ At(Main, Send)

FarewellWell ==
    IF Settled
    THEN /\ load_json_lines("events") # <<>>
         /\ Last(load_json_lines("events")).id = next_event_id - 1
    ELSE EventInHand(Main) => job[Main].value.id = next_event_id - 1

DownWell ==
    \A a \in KnownEvents : /\ load_json_lines("events") # <<>>
                           /\ a.id <= Last(load_json_lines("events")).id

LEMMA FreshIs ==
    /\ IdsAreFresh <=>
          /\ \A a, b \in KnownEvents : a.id = b.id => a = b
          /\ phase # "down" => \A a \in KnownEvents : a.id < next_event_id
          /\ phase = "farewell" => FarewellWell
          /\ phase = "down" => DownWell
    /\ IdsAreFresh' <=>
          /\ \A a, b \in KnownEvents' : a.id = b.id => a = b
          /\ phase' # "down" => \A a \in KnownEvents' : a.id < next_event_id'
          /\ phase' = "farewell" => FarewellWell'
          /\ phase' = "down" => DownWell'
<1>1. IdsAreFresh <=>
          /\ \A a, b \in KnownEvents : a.id = b.id => a = b
          /\ phase # "down" => \A a \in KnownEvents : a.id < next_event_id
          /\ phase = "farewell" => FarewellWell
          /\ phase = "down" => DownWell
  BY Zenon DEF IdsAreFresh, LastIsHighest, FarewellWell, DownWell, Settled, Send
<1>2. IdsAreFresh' <=>
          /\ \A a, b \in KnownEvents' : a.id = b.id => a = b
          /\ phase' # "down" => \A a \in KnownEvents' : a.id < next_event_id'
          /\ phase' = "farewell" => FarewellWell'
          /\ phase' = "down" => DownWell'
  BY Zenon DEF IdsAreFresh, LastIsHighest, FarewellWell, DownWell, Settled, Send
<1> QED
  BY <1>1, <1>2

\* No id is given, and nothing new is known.
LEMMA FreshKept ==
    ASSUME IdsAreFresh, phase # "down", phase' # "down", next_event_id' = next_event_id,
           KnownEvents' \subseteq KnownEvents, phase' = "farewell" => FarewellWell'
    PROVE  IdsAreFresh'
BY FreshIs

LEMMA FreshByStart ==
    ASSUME Types, Fitting, NobodyElse, IdsAreFresh, Start
    PROVE  IdsAreFresh'
<1> DEFINE W == load_json_lines("events")
<1>1. /\ \A u \in Task \ {Main} : Same(u)
      /\ At(Main, Number1)' /\ Main \in Task
      /\ UNCHANGED <<file, announced>> /\ events' = W
      /\ next_event_id' = IF events' = <<>> THEN 1 ELSE Last(events').id + 1
      /\ phase = "down" /\ phase' = "starting"
  BY StartMoves, JournalAssumption DEF Start
<1>2. ~EventInHand(Main)'
  BY <1>1 DEF EventInHand, At, Number1, Part
<1>3. ValueSet("events", "tail")' = ValueSet("events", "tail")
  BY <1>1, FilesKept
<1>4. ToSet(events)' = ValueSet("events", "tail")
  BY <1>1, ValueSets
<1>5. KnownEvents' \subseteq KnownEvents
  <2>1. /\ ToSet(events)' \subseteq KnownEvents /\ announced' \subseteq KnownEvents
        /\ ValueSet("events", "tail")' \subseteq KnownEvents
    BY <1>1, <1>3, <1>4, KnownIs
  <2>2. KnownEvents' \subseteq KnownEvents \cup {}
    BY <1>1, <1>2, <2>1, KnownGrows
  <2> QED
    BY <2>2
<1>6. DownWell
  BY <1>1, FreshIs
<1>7. \A a \in KnownEvents' : a.id < next_event_id'
  <2> SUFFICES ASSUME NEW a \in KnownEvents'
               PROVE  a.id < next_event_id'
    OBVIOUS
  <2>1. a.id \in Nat /\ W # <<>> /\ a.id <= Last(W).id
    BY <1>5, <1>6, KnownAreValues DEF DownWell
  <2>2. Last(W).id \in Nat
    <3>1. W \in Seq(Value)
      BY LoadedIs
    <3>2. Last(W) \in Value
      BY <2>1, <3>1, SetOfSome
    <3> QED
      BY <3>2 DEF Value
  <2>3. next_event_id' = Last(W).id + 1
    BY <1>1, <2>1
  <2> QED
    BY <2>1, <2>2, <2>3
<1>8. \A a, b \in KnownEvents' : a.id = b.id => a = b
  BY <1>5, FreshIs
<1> QED
  BY <1>1, <1>7, <1>8, FreshIs

LEMMA FreshByStop ==
    ASSUME Types, Fitting, NobodyElse, IdsAreFresh, Serve \/ Stop \/ Farewell
    PROVE  IdsAreFresh'
<1>1. /\ \A u \in Task \ {Main} : Same(u)
      /\ Same(Main) \/ At(Main, Number1)'
      /\ Main \in Task /\ UNCHANGED <<file, announced, events, next_event_id>>
      /\ phase' = "farewell" => At(Main, Number1)'
      /\ phase # "down" /\ phase' # "down"
  BY ServeMoves, FarewellMoves, JournalAssumption DEF Serve, Stop, Farewell, memory
<1>2. At(Main, Number1)' => ~EventInHand(Main)' /\ ~Settled'
  BY DEF EventInHand, Settled, At, Idle, Number1, Send, Part
<1>3. EventInHand(Main)' => job'[Main].value \in KnownEvents
  <2>1. CASE Same(Main)
    <3>1. EventInHand(Main)' => EventInHand(Main) /\ job'[Main].value = job[Main].value
      BY <1>1, <2>1, SameSteps
    <3> QED
      BY <1>1, <3>1, KnownIs
  <2>2. CASE At(Main, Number1)'
    BY <1>2, <2>2
  <2> QED
    BY <1>1, <2>1, <2>2
<1>4. KnownEvents' \subseteq KnownEvents
  <2>1. /\ ToSet(events)' \subseteq KnownEvents /\ announced' \subseteq KnownEvents
        /\ ValueSet("events", "tail")' \subseteq KnownEvents
    BY <1>1, FilesKept, KnownIs
  <2>2. KnownEvents' \subseteq KnownEvents \cup {}
    BY <1>1, <1>3, <2>1, KnownGrows
  <2> QED
    BY <2>2
<1>5. phase' = "farewell" => FarewellWell'
  BY <1>1, <1>2 DEF FarewellWell
<1> QED
  BY <1>1, <1>4, <1>5, FreshKept

LEMMA FreshByExit ==
    ASSUME Types, Fitting, NobodyElse, IdsAreFresh, Exit
    PROVE  IdsAreFresh'
<1> DEFINE W == load_json_lines("events")
<1>1. /\ \A u \in Task : Idle(u)'
      /\ events' = <<>> /\ UNCHANGED <<file, announced>>
      /\ phase = "farewell" /\ phase' = "down" /\ Idle(Main)
  BY ExitMoves DEF Exit
<1>2. KnownEvents' \subseteq KnownEvents
  <2>1. \A u \in Task : ~EventInHand(u)'
    BY <1>1 DEF EventInHand, At
  <2>2. ToSet(events)' = {}
    BY <1>1, SetOfNone
  <2>3. ValueSet("events", "tail")' = ValueSet("events", "tail")
    BY <1>1, FilesKept
  <2> QED
    BY <1>1, <2>1, <2>2, <2>3, KnownIs
<1>3. W # <<>> /\ Last(W).id = next_event_id - 1
  BY <1>1, FreshIs DEF FarewellWell, Settled
<1>4. W' = W
  BY <1>1, FilesKept
<1>5. ASSUME NEW a \in KnownEvents'
      PROVE  a.id <= Last(W).id
  <2>1. a.id \in Nat /\ a.id < next_event_id /\ next_event_id \in Nat
    BY <1>1, <1>2, KnownAreValues, FreshIs DEF Types
  <2> QED
    BY <1>3, <2>1
<1>6. DownWell'
  BY <1>3, <1>4, <1>5 DEF DownWell
<1>7. \A a, b \in KnownEvents' : a.id = b.id => a = b
  BY <1>2, FreshIs
<1> QED
  BY <1>1, <1>6, <1>7, FreshIs

LEMMA FreshByCall ==
    ASSUME Types, Fitting, NobodyElse, IdsAreFresh, NEW t \in Task,
           Record(t) \/ \E kind \in {"direct", "relay"} : Receive(t, kind)
    PROVE  IdsAreFresh'
<1>1. PICK kind \in Kind, value \in Value : Begin(t, kind, value) /\ received' \in 0..MaxReceived
  BY CallsBegin
<1>2. /\ \A u \in Task \ {t} : Same(u)
      /\ Head(todo'[t]) \in {Number1, <<"inbox", "head">>}
      /\ UNCHANGED <<file, announced, events, next_event_id, phase>>
      /\ phase \in {"up", "stopping"}
  BY <1>1, BeginMoves DEF Begin, memory
<1>3. ~EventInHand(t)'
  BY <1>2 DEF EventInHand, At, Number1, Part
<1>4. KnownEvents' \subseteq KnownEvents
  <2>1. /\ ToSet(events)' \subseteq KnownEvents /\ announced' \subseteq KnownEvents
        /\ ValueSet("events", "tail")' \subseteq KnownEvents
    BY <1>2, FilesKept, KnownIs
  <2>2. KnownEvents' \subseteq KnownEvents \cup {}
    BY <1>2, <1>3, <2>1, KnownGrows
  <2> QED
    BY <2>2
<1> QED
  BY <1>2, <1>4, FreshKept

LEMMA FreshByNumber ==
    ASSUME Types, Fitting, NobodyElse, IdsAreFresh, NEW t \in Task, Number(t)
    PROVE  IdsAreFresh'
<1>1. PICK event : event = [id |-> next_event_id, run |-> run]
  OBVIOUS
<1>2. /\ \A u \in Task \ {t} : Same(u)
      /\ At(t, <<"events", "head">>)' /\ job'[t].value = event /\ event \in Value
      /\ event.id = next_event_id
      /\ ToSet(events') \subseteq ToSet(events) \cup {event}
  BY <1>1, NumberMoves
<1>3. /\ UNCHANGED <<file, announced, phase>> /\ next_event_id' = next_event_id + 1
      /\ At(t, Number1)
  BY DEF Number, Number1
<1>4. phase # "down" /\ (phase = "farewell" => t = Main)
  BY <1>3, AtWork
<1>5. KnownEvents' \subseteq KnownEvents \cup {event}
  <2>1. /\ ToSet(events)' \subseteq KnownEvents \cup {event}
        /\ announced' \subseteq KnownEvents \cup {event}
        /\ ValueSet("events", "tail")' \subseteq KnownEvents \cup {event}
    BY <1>2, <1>3, FilesKept, KnownIs
  <2>2. job'[t].value \in KnownEvents \cup {event}
    BY <1>2
  <2> QED
    BY <1>2, <2>1, <2>2, KnownGrows
<1>6. \A a \in KnownEvents : a.id \in Nat /\ a.id < next_event_id
  BY <1>4, KnownAreValues, FreshIs
<1>7. next_event_id \in Nat
  BY DEF Types
<1>8. \A a, b \in KnownEvents' : a.id = b.id => a = b
  <2> SUFFICES ASSUME NEW a \in KnownEvents', NEW b \in KnownEvents', a.id = b.id
               PROVE  a = b
    OBVIOUS
  <2>1. CASE a = event /\ b = event
    BY <2>1
  <2>2. CASE a \in KnownEvents /\ b \in KnownEvents
    BY <2>2, FreshIs
  <2>3. CASE a \in KnownEvents /\ b = event
    BY <2>3, <1>2, <1>6, <1>7
  <2>4. CASE a = event /\ b \in KnownEvents
    BY <2>4, <1>2, <1>6, <1>7
  <2> QED
    BY <1>5, <2>1, <2>2, <2>3, <2>4
<1>9. \A a \in KnownEvents' : a.id < next_event_id'
  <2> SUFFICES ASSUME NEW a \in KnownEvents'
               PROVE  a.id < next_event_id'
    OBVIOUS
  <2>1. CASE a = event
    BY <2>1, <1>2, <1>3, <1>7
  <2>2. CASE a \in KnownEvents
    BY <2>2, <1>3, <1>6, <1>7
  <2> QED
    BY <1>5, <2>1, <2>2
<1>10. ASSUME phase' = "farewell"
       PROVE  FarewellWell'
  <2>1. t = Main
    BY <1>3, <1>4, <1>10
  <2>2. ~Settled'
    BY <1>2, <2>1 DEF Settled, At, Idle, Send
  <2>3. job'[Main].value.id = next_event_id' - 1
    BY <1>2, <1>3, <1>7, <2>1
  <2> QED
    BY <2>2, <2>3 DEF FarewellWell
<1>11. phase' # "down"
  BY <1>3, <1>4
<1> QED
  BY <1>8, <1>9, <1>10, <1>11, FreshIs

LEMMA FreshByInboxWrite ==
    ASSUME Types, Fitting, NobodyElse, IdsAreFresh,
           NEW t \in Task, NEW part \in Part, Writes(t, "inbox", part)
    PROVE  IdsAreFresh'
<1>1. /\ \A u \in Task \ {t} : Same(u)
      /\ todo'[t] # <<>> /\ Head(todo'[t]) = Following(<<"inbox", part>>)
      /\ file'["events"] = file["events"]
  BY WriteMoves DEF File
<1>2. /\ UNCHANGED <<events, announced, phase, next_event_id>> /\ At(t, <<"inbox", part>>)
  BY DEF Writes, memory
<1>3. phase # "down" /\ (phase = "farewell" => t = Main)
  BY <1>2, AtWork
<1>4. Head(todo'[t]) \in {<<"inbox", "tail">>, <<"inbox", "newline">>, <<"state", "push">>}
  BY <1>1, FollowingIs DEF Part
<1>5. ~EventInHand(t)'
  BY <1>4 DEF EventInHand, At
<1>6. KnownEvents' \subseteq KnownEvents
  <2>1. /\ ToSet(events)' \subseteq KnownEvents /\ announced' \subseteq KnownEvents
        /\ ValueSet("events", "tail")' \subseteq KnownEvents
    BY <1>1, <1>2, KnownIs DEF ValueSet
  <2>2. KnownEvents' \subseteq KnownEvents \cup {}
    BY <1>1, <1>5, <2>1, KnownGrows
  <2> QED
    BY <2>2
<1>7. ASSUME phase' = "farewell"
      PROVE  FarewellWell'
  <2>1. t = Main
    BY <1>2, <1>3, <1>7
  <2>2. ~Settled'
    BY <1>1, <1>4, <2>1 DEF Settled, At, Idle, Send
  <2> QED
    BY <1>5, <2>1, <2>2 DEF FarewellWell
<1>8. phase' # "down"
  BY <1>2, <1>3
<1> QED
  BY <1>2, <1>3, <1>6, <1>7, <1>8, FreshKept

LEMMA FreshByEventWrite ==
    ASSUME Types, Fitting, NobodyElse, IdsAreFresh,
           NEW t \in Task, NEW part \in Part, Writes(t, "events", part)
    PROVE  IdsAreFresh'
<1> DEFINE W == load_json_lines("events")
<1>1. /\ \A u \in Task \ {t} : Same(u)
      /\ todo'[t] # <<>> /\ Head(todo'[t]) = Following(<<"events", part>>)
      /\ job' = job /\ job[t].value \in Value
  BY WriteMoves DEF File
<1>2. /\ UNCHANGED <<events, announced, phase, next_event_id>> /\ At(t, <<"events", part>>)
  BY DEF Writes, memory
<1>3. phase # "down" /\ (phase = "farewell" => t = Main)
  BY <1>2, AtWork
<1>4. W' = IF part = "tail" THEN Append(W, job[t].value) ELSE W
  <2>1. "tail" \in Part /\ "events" \in File
    BY DEF Part, File
  <2>2. ValuesOf(file["events"], "tail")' =
            IF "tail" = part THEN Append(ValuesOf(file["events"], "tail"), job[t].value)
            ELSE ValuesOf(file["events"], "tail")
    BY <2>1, WriteAdds
  <2> QED
    BY <2>2 DEF load_json_lines
<1>5. ValueSet("events", "tail")' \subseteq ValueSet("events", "tail") \cup {job[t].value}
  BY WriteAdds DEF Part, File
<1>6. EventInHand(t) /\ job[t].value \in KnownEvents
  BY <1>2, InHand, KnownIs
<1>7. KnownEvents' \subseteq KnownEvents
  <2>1. /\ ToSet(events)' \subseteq KnownEvents /\ announced' \subseteq KnownEvents
        /\ ValueSet("events", "tail")' \subseteq KnownEvents
        /\ job'[t].value \in KnownEvents
    BY <1>1, <1>2, <1>5, <1>6, KnownIs
  <2>2. KnownEvents' \subseteq KnownEvents \cup {}
    BY <1>1, <2>1, KnownGrows
  <2> QED
    BY <2>2
<1>8. ASSUME phase' = "farewell"
      PROVE  FarewellWell'
  <2>1. t = Main /\ FarewellWell
    BY <1>2, <1>3, <1>8, FreshIs
  <2>2. CASE part = "head"
    <3>1. ~Settled
      BY <1>2, <2>1, <2>2 DEF Settled, At, Idle, Send
    <3>2. Head(todo'[t]) = <<"events", "tail">>
      BY <1>1, <2>2, FollowingIs
    <3>3. ~Settled'
      BY <1>1, <2>1, <3>2 DEF Settled, At, Idle, Send
    <3>4. job'[Main].value.id = next_event_id' - 1
      BY <1>1, <1>2, <1>6, <2>1, <3>1 DEF FarewellWell
    <3> QED
      BY <3>3, <3>4 DEF FarewellWell
  <2>3. CASE part = "tail"
    <3>1. ~Settled
      BY <1>2, <2>1, <2>3 DEF Settled, At, Idle, Send
    <3>2. Head(todo'[t]) = <<"events", "newline">>
      BY <1>1, <2>3, FollowingIs
    <3>3. Settled'
      BY <1>1, <2>1, <3>2 DEF Settled, At, Idle
    <3>4. job[Main].value.id = next_event_id' - 1
      BY <1>2, <1>6, <2>1, <3>1 DEF FarewellWell
    <3>5. W' # <<>> /\ Last(W') = job[Main].value
      <4>1. W \in Seq(Value) /\ W' = Append(W, job[Main].value) /\ job[Main].value \in Value
        BY <1>1, <1>4, <2>1, <2>3, LoadedIs
      <4>2. PICK r, v, X : r = W /\ v = job[Main].value /\ X = W'
        OBVIOUS
      <4>3. r \in Seq(Value) /\ X = Append(r, v) /\ v \in Value
        BY <4>1, <4>2
      <4>4. X # <<>> /\ Last(X) = v
        <5>1. /\ X \in Seq(Value) /\ Len(X) = Len(r) + 1 /\ Len(r) \in Nat
              /\ X[Len(r) + 1] = v
          BY <4>3, AppendFacts
        <5> QED
          BY <5>1 DEF Last
      <4> QED
        BY <4>2, <4>4
    <3> QED
      BY <3>3, <3>4, <3>5 DEF FarewellWell
  <2>4. CASE part = "newline"
    <3>1. Settled
      BY <1>2, <2>1, <2>4 DEF Settled
    <3>2. Head(todo'[t]) = Send
      BY <1>1, <2>4, FollowingIs DEF Send
    <3>3. Settled'
      BY <1>1, <2>1, <3>2 DEF Settled, At, Idle
    <3>4. W' = W
      BY <1>4, <2>4
    <3> QED
      BY <1>2, <2>1, <3>1, <3>3, <3>4 DEF FarewellWell
  <2> QED
    BY <2>2, <2>3, <2>4 DEF Part
<1>9. phase' # "down"
  BY <1>2, <1>3
<1> QED
  BY <1>2, <1>3, <1>7, <1>8, <1>9, FreshKept

LEMMA FreshByPush ==
    ASSUME Types, Fitting, NobodyElse, IdsAreFresh, NEW t \in Task, Push(t)
    PROVE  IdsAreFresh'
<1>1. /\ \A u \in Task \ {t} : Same(u)
      /\ At(t, Number1)'
  BY PushMoves
<1>2. /\ UNCHANGED <<file, events, announced, phase, next_event_id>> /\ At(t, <<"state", "push">>)
  BY DEF Push
<1>3. phase # "down" /\ (phase = "farewell" => t = Main)
  BY <1>2, AtWork
<1>4. ~EventInHand(t)'
  BY <1>1 DEF EventInHand, At, Number1, Part
<1>5. KnownEvents' \subseteq KnownEvents
  <2>1. /\ ToSet(events)' \subseteq KnownEvents /\ announced' \subseteq KnownEvents
        /\ ValueSet("events", "tail")' \subseteq KnownEvents
    BY <1>2, FilesKept, KnownIs
  <2>2. KnownEvents' \subseteq KnownEvents \cup {}
    BY <1>1, <1>4, <2>1, KnownGrows
  <2> QED
    BY <2>2
<1>6. ASSUME phase' = "farewell"
      PROVE  FarewellWell'
  <2>1. t = Main
    BY <1>2, <1>3, <1>6
  <2>2. ~Settled'
    BY <1>1, <2>1 DEF Settled, At, Idle, Number1, Send
  <2> QED
    BY <1>4, <2>1, <2>2 DEF FarewellWell
<1>7. phase' # "down"
  BY <1>2, <1>3
<1> QED
  BY <1>2, <1>3, <1>5, <1>6, <1>7, FreshKept

LEMMA FreshByAnnounce ==
    ASSUME Types, Fitting, NobodyElse, IdsAreFresh, NEW t \in Task, Announce(t)
    PROVE  IdsAreFresh'
<1> DEFINE W == load_json_lines("events")
<1>1. /\ \A u \in Task \ {t} : Same(u)
      /\ Idle(t)' \/ At(t, Number1)'
  BY AnnounceMoves
<1>2. /\ UNCHANGED <<file, events, phase, next_event_id>> /\ At(t, Send)
      /\ announced' = announced \cup {job[t].value}
  BY DEF Announce, memory, Send
<1>3. phase # "down" /\ (phase = "farewell" => t = Main)
  BY <1>2, AtWork
<1>4. ~EventInHand(t)'
  BY <1>1 DEF EventInHand, At, Idle, Number1, Part
<1>5. job[t].value \in KnownEvents
  BY <1>2, InHand, KnownIs
<1>6. KnownEvents' \subseteq KnownEvents
  <2>1. /\ ToSet(events)' \subseteq KnownEvents /\ announced' \subseteq KnownEvents
        /\ ValueSet("events", "tail")' \subseteq KnownEvents
    BY <1>2, <1>5, FilesKept, KnownIs
  <2>2. KnownEvents' \subseteq KnownEvents \cup {}
    BY <1>1, <1>4, <2>1, KnownGrows
  <2> QED
    BY <2>2
<1>7. ASSUME phase' = "farewell"
      PROVE  FarewellWell'
  <2>1. t = Main /\ FarewellWell /\ Settled
    BY <1>2, <1>3, <1>7, FreshIs DEF Settled
  <2>2. W' = W
    BY <1>2, FilesKept
  <2>3. CASE Settled'
    BY <1>2, <2>1, <2>2, <2>3 DEF FarewellWell
  <2>4. CASE ~Settled'
    BY <1>4, <2>1, <2>4 DEF FarewellWell
  <2> QED
    BY <2>3, <2>4
<1>8. phase' # "down"
  BY <1>2, <1>3
<1> QED
  BY <1>2, <1>3, <1>6, <1>7, <1>8, FreshKept

LEMMA StaysClean ==
    ASSUME JournalNext, clean'
    PROVE  clean
<1>1. CASE Start \/ Serve \/ Stop \/ Farewell \/ Exit
  BY <1>1 DEF Start, Serve, Stop, Farewell, Exit
<1>2. CASE Kill
  BY <1>2 DEF Kill
<1>3. ASSUME NEW t \in Task, Record(t) \/ \E kind \in {"direct", "relay"} : Receive(t, kind)
      PROVE  clean
  BY <1>3 DEF Record, Receive, Begin
<1>4. ASSUME NEW t \in Task, Step(t)
      PROVE  clean
  BY <1>4 DEF Step, Number, Push, Announce, Write
<1>5. ASSUME NEW t \in Task, NEW f \in File, FailedWrite(t, f)
      PROVE  clean
  BY <1>5 DEF FailedWrite
<1> QED
  BY <1>1, <1>2, <1>3, <1>4, <1>5 DEF JournalNext

LEMMA FreshInvariant ==
    ASSUME Types, Fitting, NobodyElse, clean => IdsAreFresh, JournalNext
    PROVE  clean' => IdsAreFresh'
<1> SUFFICES ASSUME clean'
             PROVE  IdsAreFresh'
  OBVIOUS
<1>1. clean
  BY StaysClean
<1>2. IdsAreFresh
  BY <1>1
<1>3. CASE Start \/ Serve \/ Stop \/ Farewell \/ Exit
  BY <1>2, <1>3, FreshByStart, FreshByStop, FreshByExit
<1>4. CASE Kill
  BY <1>4 DEF Kill
<1>5. ASSUME NEW t \in Task, Record(t) \/ \E kind \in {"direct", "relay"} : Receive(t, kind)
      PROVE  IdsAreFresh'
  BY <1>2, <1>5, FreshByCall
<1>6. ASSUME NEW t \in Task, Number(t) \/ Push(t) \/ Announce(t)
      PROVE  IdsAreFresh'
  BY <1>2, <1>6, FreshByNumber, FreshByPush, FreshByAnnounce
<1>7. ASSUME NEW t \in Task, NEW f \in File, Write(t, f)
      PROVE  IdsAreFresh'
  <2>1. PICK part \in Part : Writes(t, f, part)
    BY <1>7, WriteIsWrites
  <2>2. f = "events" \/ f = "inbox"
    BY DEF File
  <2> QED
    BY <1>2, <2>1, <2>2, FreshByEventWrite, FreshByInboxWrite
<1>8. ASSUME NEW t \in Task, NEW f \in File, FailedWrite(t, f)
      PROVE  IdsAreFresh'
  BY <1>8 DEF FailedWrite
<1> QED
  BY <1>3, <1>4, <1>5, <1>6, <1>7, <1>8 DEF JournalNext, Step

-----------------------------------------------------------------------------
(* The theorems.                                                           *)

\* JournalInvariant, with what is left of each call told by Fitting.
Invariant ==
    /\ Types /\ Fitting /\ NobodyElse /\ WrittenBefore /\ ToldIsWritten /\ LinesAreWhole
    /\ clean => IdsAreFresh

LEMMA AtFirst ==
    JournalInit => Invariant
<1> SUFFICES ASSUME JournalInit
             PROVE  Invariant
  OBVIOUS
<1>1. [kind |-> "event", value |-> Nothing] \in Job /\ "event" \in Kind
  BY DEF Job, Kind, Value, Nothing
<1>2. \A t \in Task : Idle(t)
  BY DEF JournalInit, Idle
<1>3. Types
  <2>1. /\ phase = "down" /\ events = <<>> /\ inbox = <<>> /\ next_event_id = 1
        /\ run = 0 /\ received = 0 /\ failures = 0 /\ announced = {} /\ clean = TRUE /\ broken = {}
    BY DEF JournalInit
  <2>2. job \in [Task -> Job]
    BY <1>1 DEF JournalInit
  <2>3. file \in [File -> Seq(Written)]
    BY DEF JournalInit
  <2>4. run \in 0..MaxRuns /\ received \in 0..MaxReceived /\ failures \in 0..MaxFailures
    BY <2>1, JournalAssumption
  <2> QED
    BY <2>1, <2>2, <2>3, <2>4 DEF Types
<1>4. Fitting
  <2>1. todo \in [Task -> Seq(StepName)]
    BY DEF JournalInit
  <2>2. \A t \in Task : todo[t] = <<>> /\ job[t].kind = "event"
    BY DEF JournalInit
  <2> QED
    BY <1>1, <2>1, <2>2, NothingFits DEF Fitting
<1>5. NobodyElse
  BY <1>2 DEF NobodyElse, JournalInit
<1>6. \A t \in Task : \A step : ~At(t, step)
  BY <1>2 DEF At
<1>7. WrittenBefore
  BY <1>6 DEF WrittenBefore
<1>8. ToldIsWritten
  BY SetOfNone DEF ToldIsWritten, JournalInit
<1>9. LinesAreWhole
  <2> SUFFICES ASSUME NEW f \in File
               PROVE  Sound(file[f]) /\ EndsWell(f)
    BY DEF LinesAreWhole
  <2>1. file[f] = <<>>
    BY DEF JournalInit
  <2>2. Sound(file[f])
    BY <2>1 DEF Sound
  <2>3. EndsWell(f)
    BY <1>6, <2>1 DEF EndsWell, InLine
  <2> QED
    BY <2>2, <2>3
<1>10. IdsAreFresh
  <2>1. ToSet(events) = {} /\ announced = {} /\ phase = "down"
    BY SetOfNone DEF JournalInit
  <2>2. ValueSet("events", "tail") = {}
    <3>1. file["events"] = <<>>
      BY DEF JournalInit, File
    <3>2. ValuesOf(file["events"], "tail") = <<>>
      BY <3>1, ValuesOfNone
    <3> QED
      BY <3>2, SetOfNone DEF ValueSet
  <2>3. \A u \in Task : ~EventInHand(u)
    BY <1>6 DEF EventInHand
  <2>4. \A x : x \notin KnownEvents
    BY <2>1, <2>2, <2>3, KnownIs
  <2>5. DownWell
    BY <2>4 DEF DownWell
  <2> QED
    BY <2>1, <2>4, <2>5, FreshIs
<1> QED
  BY <1>3, <1>4, <1>5, <1>7, <1>8, <1>9, <1>10 DEF Invariant

LEMMA TypesKept ==
    ASSUME Types, Fitting, JournalNext
    PROVE  Types' /\ Fitting'
<1>1. CASE Start \/ Serve \/ Stop \/ Farewell \/ Exit \/ Kill
  BY <1>1, StartMoves, ServeMoves, FarewellMoves, ExitMoves, KillMoves
<1>2. ASSUME NEW t \in Task, Record(t) \/ \E kind \in {"direct", "relay"} : Receive(t, kind)
      PROVE  Types' /\ Fitting'
  <2>1. PICK kind \in Kind, value \in Value : Begin(t, kind, value) /\ received' \in 0..MaxReceived
    BY <1>2, CallsBegin
  <2> QED
    BY <2>1, BeginMoves
<1>3. ASSUME NEW t \in Task, Number(t) \/ Push(t) \/ Announce(t)
      PROVE  Types' /\ Fitting'
  BY <1>3, NumberMoves, PushMoves, AnnounceMoves
<1>4. ASSUME NEW t \in Task, NEW f \in File, Write(t, f)
      PROVE  Types' /\ Fitting'
  BY <1>4, WriteIsWrites, WriteMoves
<1>5. ASSUME NEW t \in Task, NEW f \in File, FailedWrite(t, f)
      PROVE  Types' /\ Fitting'
  BY <1>5, FailedMoves
<1> QED
  BY <1>1, <1>2, <1>3, <1>4, <1>5 DEF JournalNext, Step

LEMMA AtRest ==
    ASSUME Invariant, UNCHANGED journalVars
    PROVE  Invariant'
<1>1. UNCHANGED <<phase, events, next_event_id, inbox, file, job, todo, run, received, failures,
                  announced, clean, broken>>
  BY DEF journalVars, memory, bounds
<1>2. \A u \in Task : Same(u)
  BY <1>1 DEF Same
<1>3. Types' /\ Fitting'
  BY <1>1 DEF Invariant, Types, Fitting
<1>4. NobodyElse'
  BY <1>1 DEF Invariant, NobodyElse, Idle
<1>5. WrittenBefore'
  BY <1>2, WrittenForAll, WrittenForKept, FilesKept, <1>1 DEF Invariant
<1>6. ToldIsWritten'
  BY <1>1 DEF Invariant, ToldIsWritten, Lines
<1>7. LinesAreWhole'
  BY <1>1, <1>2, LinesKept DEF Invariant
<1>8. clean' => IdsAreFresh'
  <2> SUFFICES ASSUME clean'
               PROVE  IdsAreFresh'
    OBVIOUS
  <2>1. IdsAreFresh
    BY <1>1 DEF Invariant
  <2>3. KnownEvents' = KnownEvents
    BY <1>1 DEF KnownEvents, load_json_lines, EventInHand, At, Idle
  <2>4. load_json_lines("events")' = load_json_lines("events")
    BY <1>1, FilesKept
  <2>5. FarewellWell => FarewellWell'
    BY <1>1, <2>4 DEF FarewellWell, Settled, EventInHand, At, Idle
  <2>6. DownWell => DownWell'
    BY <2>3, <2>4 DEF DownWell
  <2> QED
    BY <1>1, <2>1, <2>3, <2>5, <2>6, FreshIs
<1> QED
  BY <1>3, <1>4, <1>5, <1>6, <1>7, <1>8 DEF Invariant

LEMMA InvariantImplies ==
    Invariant => JournalInvariant
BY TypesAndFitting DEF Invariant, JournalInvariant

LEMMA InvariantKept ==
    ASSUME Invariant, [JournalNext]_journalVars
    PROVE  Invariant'
<1>1. CASE JournalNext
  <2>1. /\ Types /\ Fitting /\ NobodyElse /\ WrittenBefore /\ ToldIsWritten /\ LinesAreWhole
        /\ clean => IdsAreFresh
    BY DEF Invariant
  <2>2. Types' /\ Fitting'
    BY <1>1, <2>1, TypesKept
  <2>3. NobodyElse'
    BY <1>1, <2>1, NobodyElseKept
  <2>4. WrittenBefore' /\ ToldIsWritten'
    BY <1>1, <2>1, ToldInvariant
  <2>5. LinesAreWhole'
    BY <1>1, <2>1, LinesInvariant
  <2>6. clean' => IdsAreFresh'
    BY <1>1, <2>1, FreshInvariant
  <2> QED
    BY <2>2, <2>3, <2>4, <2>5, <2>6 DEF Invariant
<1>2. CASE UNCHANGED journalVars
  BY <1>2, AtRest
<1> QED
  BY <1>1, <1>2

LEMMA InvariantHolds ==
    JournalSpec => []Invariant
<1>1. Invariant /\ [JournalNext]_journalVars => Invariant'
  BY InvariantKept
<1> QED
  BY <1>1, AtFirst, PTL DEF JournalSpec

\* The inductive invariant of the journals holds in every run, for any tasks, window of
\* events and bounds.
THEOREM JournalInvariantHolds == JournalSpec => []JournalInvariant
BY InvariantHolds, InvariantImplies, PTL

\* Every variable of the journals keeps to its type: what is left of a call is always an
\* end of its code, and what is read back from a file is always a sequence of values.
THEOREM JournalTypeCorrect == JournalSpec => []TypeOK
<1>1. Invariant => TypeOK
  BY TypesAndFitting DEF Invariant
<1> QED
  BY <1>1, InvariantHolds, PTL

\* A message is shown in the inbox, and an event announced, only when its line is in the
\* file, whatever is killed or fails in between (persist_received_message, record_event).
THEOREM ToldSurvives == JournalSpec => []ToldIsWritten
<1>1. Invariant => ToldIsWritten
  BY DEF Invariant
<1> QED
  BY <1>1, InvariantHolds, PTL

\* As long as every run is stopped in order, no id is given to two events, in memory, in
\* the file or announced: the next run takes up after the last line of the file
\* (start, record_event).
THEOREM IdsStayNames == JournalSpec => []IdsNameEvents
<1>1. Invariant => IdsNameEvents
  <2> SUFFICES ASSUME Invariant, clean,
                      NEW a \in ToSet(events) \cup ToSet(load_json_lines("events")) \cup announced,
                      NEW b \in ToSet(events) \cup ToSet(load_json_lines("events")) \cup announced,
                      a.id = b.id
               PROVE  a = b
    BY DEF IdsNameEvents
  <2>1. a \in KnownEvents /\ b \in KnownEvents
    BY DEF KnownEvents
  <2>2. IdsAreFresh
    BY DEF Invariant
  <2> QED
    BY <2>1, <2>2, FreshIs
<1> QED
  BY <1>1, InvariantHolds, PTL

\* A file that start cannot read was cut off by a kill or a failed write, or written to by
\* two tasks at once: nothing else damages it (append_json_line, load_json_lines).
THEOREM DamageNeedsCause == JournalSpec => []DamageHasCause
<1>1. Invariant => DamageHasCause
  <2> SUFFICES ASSUME Invariant, NEW f \in File \ broken, \A t \in Task : ~InLine(t, f)
               PROVE  readable(file[f])
    BY DEF DamageHasCause
  <2>1. Sound(file[f]) /\ EndsWell(f) /\ file[f] \in Seq(Written)
    BY DEF Invariant, LinesAreWhole, Types
  <2>2. file[f] = <<>> \/ Last(file[f]).part = "newline"
    BY <2>1 DEF EndsWell
  <2> QED
    BY <2>1, <2>2, SoundIsReadable
<1> QED
  BY <1>1, InvariantHolds, PTL

-----------------------------------------------------------------------------
(* The journal in order: what the page of EventFeed stands on.             *)

LEMMA JournalIs ==
    ASSUME Types
    PROVE  /\ journal \in Seq(Value) /\ Len(journal) \in Nat /\ DOMAIN journal = 1..Len(journal)
           /\ \A i \in 1..Len(journal) : journal[i] \in Value /\ journal[i] \in ToSet(journal)
           /\ ToSet(journal) = ValueSet("events", "tail")
<1>1. journal \in Seq(Value)
  BY LoadedIs DEF journal
<1>2. Len(journal) \in Nat /\ DOMAIN journal = 1..Len(journal)
  BY <1>1
<1>3. \A i \in 1..Len(journal) : journal[i] \in Value /\ journal[i] \in ToSet(journal)
  BY <1>1, <1>2 DEF ToSet
<1> QED
  BY <1>1, <1>2, <1>3, ValueSets DEF journal

LEMMA UnwrittenInHand ==
    \A t \in Unwritten : t \in Task /\ EventInHand(t) /\ ~Idle(t)
BY DEF Unwritten, EventInHand, Part, At

LEMMA GivenIsKnown ==
    Given \subseteq KnownEvents
<1>1. ToSet(journal) \subseteq KnownEvents
  BY DEF KnownEvents, journal
<1>2. \A t \in Unwritten : job[t].value \in KnownEvents
  BY UnwrittenInHand, KnownIs
<1> QED
  BY <1>1, <1>2 DEF Given

LEMMA NextIdIs ==
    ASSUME Types
    PROVE  /\ NextId \in Nat \ {0}
           /\ phase # "down" => NextId = next_event_id
           /\ phase = "down" /\ journal # <<>> => NextId = Last(journal).id + 1
           /\ phase = "down" /\ journal = <<>> => NextId = 1
<1>1. phase # "down" => NextId = next_event_id
  BY DEF NextId
<1>2. phase = "down" /\ journal # <<>> => NextId = Last(journal).id + 1
  BY DEF NextId
<1>3. phase = "down" /\ journal = <<>> => NextId = 1
  BY DEF NextId
<1>4. journal # <<>> => Last(journal).id \in Nat
  <2>1. journal # <<>> => Last(journal) \in Value
    BY JournalIs, SetOfSome
  <2> QED
    BY <2>1 DEF Value
<1>5. NextId \in Nat \ {0}
  <2>1. CASE phase # "down"
    BY <1>1, <2>1 DEF Types
  <2>2. CASE phase = "down" /\ journal # <<>>
    BY <1>2, <1>4, <2>2
  <2>3. CASE phase = "down" /\ journal = <<>>
    BY <1>3, <2>3
  <2> QED
    BY <2>1, <2>2, <2>3
<1> QED
  BY <1>1, <1>2, <1>3, <1>5

\* The ids of what was given are below the next one, and no two are the same.
LEMMA GivenIds ==
    ASSUME Types, IdsAreFresh
    PROVE  /\ \A e \in Given : e \in Value /\ e.id \in Nat /\ e.run \in Nat /\ e.id < NextId
           /\ \A a, b \in Given : a.id = b.id => a = b
<1>1. \A a, b \in Given : a.id = b.id => a = b
  BY GivenIsKnown, FreshIs
<1>2. \A e \in Given : e \in Value /\ e.id \in Nat /\ e.run \in Nat
  BY GivenIsKnown, KnownAreValues DEF Value
<1>3. ASSUME NEW e \in Given
      PROVE  e.id < NextId
  <2>1. e \in KnownEvents /\ e.id \in Nat
    BY GivenIsKnown, <1>2
  <2>2. CASE phase # "down"
    BY <2>1, <2>2, FreshIs, NextIdIs
  <2>3. CASE phase = "down"
    <3>1. journal # <<>> /\ e.id <= Last(journal).id
      BY <2>1, <2>3, FreshIs DEF DownWell, journal
    <3>2. NextId = Last(journal).id + 1 /\ NextId \in Nat
      BY <2>3, <3>1, NextIdIs
    <3>3. Last(journal).id \in Nat
      <4>1. Last(journal) \in Value
        BY <3>1, JournalIs, SetOfSome
      <4> QED
        BY <4>1 DEF Value
    <3> QED
      BY <2>1, <3>1, <3>2, <3>3
  <2> QED
    BY <2>2, <2>3
<1> QED
  BY <1>1, <1>2, <1>3

\* A step that gives no id and writes no event: the journal stays as it is.
Quiet ==
    /\ journal' = journal /\ Unwritten' = Unwritten
    /\ \A t \in Unwritten : job'[t].value = job[t].value
    /\ NextId' = NextId /\ run' = run
    /\ \/ phase' = "down"
       \/ phase # "down" /\ events' = events /\ next_event_id' = next_event_id

LEMMA QuietGiven ==
    ASSUME Quiet
    PROVE  Given' = Given
<1>1. {job[t].value : t \in Unwritten}' = {job[t].value : t \in Unwritten}
  BY DEF Quiet
<1>2. ToSet(journal)' = ToSet(journal)
  BY DEF Quiet
<1> QED
  BY <1>1, <1>2 DEF Given

LEMMA QuietOld ==
    ASSUME Quiet
    PROVE  \A e : Old(e)' <=> Old(e)
BY DEF Quiet, Old

LEMMA QuietKeepsOrder ==
    ASSUME Quiet, JournalInOrder
    PROVE  JournalInOrder'
<1>1. Given' = Given /\ \A e : Old(e)' <=> Old(e)
  BY QuietGiven, QuietOld
<1>2. OneLineEach'
  <2>1. OneLineEach
    BY DEF JournalInOrder
  <2>2. Cardinality(Unwritten)' = Cardinality(Unwritten)
    BY DEF Quiet
  <2> QED
    BY <1>1, <2>1, <2>2 DEF OneLineEach, Quiet
<1>3. ASSUME phase' # "down"
      PROVE  /\ phase # "down" /\ UNCHANGED <<journal, run, events, next_event_id>>
  BY <1>3 DEF Quiet
<1>4. MemoryIsInOrder'
  BY <1>1, <1>3 DEF JournalInOrder, MemoryIsInOrder, InPlace, Place
<1>5. OnlyOldForgotten'
  BY <1>1, <1>3 DEF JournalInOrder, OnlyOldForgotten
<1> QED
  BY <1>2, <1>4, <1>5 DEF JournalInOrder

LEMMA NextIdUp ==
    /\ phase # "down" => NextId = next_event_id
    /\ phase' # "down" => NextId' = next_event_id'
BY DEF NextId

LEMMA JournalKept ==
    ASSUME file'["events"] = file["events"]
    PROVE  journal' = journal
BY DEF journal, load_json_lines

Unwritten1(t) == At(t, <<"events", "head">>) \/ At(t, <<"events", "tail">>)

LEMMA UnwrittenIs ==
    /\ \A t : t \in Unwritten <=> t \in Task /\ Unwritten1(t)
    /\ \A t : t \in Unwritten' <=> t \in Task /\ Unwritten1(t)'
BY DEF Unwritten, Unwritten1

LEMMA UnwrittenOthers ==
    ASSUME NEW t \in Task, \A u \in Task \ {t} : Same(u)
    PROVE  \A u \in Task \ {t} : /\ u \in Unwritten' <=> u \in Unwritten
                                 /\ job'[u].value = job[u].value
<1> SUFFICES ASSUME NEW u \in Task \ {t}
             PROVE  /\ u \in Unwritten' <=> u \in Unwritten
                    /\ job'[u].value = job[u].value
  OBVIOUS
<1>1. /\ \A step : At(u, step)' <=> At(u, step)
      /\ job'[u].value = job[u].value
  BY SameSteps
<1> QED
  BY <1>1, UnwrittenIs DEF Unwritten1

LEMMA UnwrittenKept ==
    ASSUME NEW t \in Task, \A u \in Task \ {t} : Same(u),
           Unwritten1(t)' <=> Unwritten1(t), Unwritten1(t) => job'[t].value = job[t].value
    PROVE  /\ Unwritten' = Unwritten
           /\ \A u \in Unwritten : job'[u].value = job[u].value
<1>1. \A u : u \in Unwritten' <=> u \in Unwritten
  BY UnwrittenIs, UnwrittenOthers
<1>2. \A u \in Unwritten : job'[u].value = job[u].value
  BY UnwrittenIs, UnwrittenOthers
<1> QED
  BY <1>1, <1>2

LEMMA QuietOne ==
    ASSUME NEW t \in Task, \A u \in Task \ {t} : Same(u),
           Unwritten1(t)' <=> Unwritten1(t), Unwritten1(t) => job'[t].value = job[t].value,
           journal' = journal, UNCHANGED <<run, events, next_event_id>>,
           phase # "down", phase' # "down"
    PROVE  Quiet
BY UnwrittenKept, NextIdUp DEF Quiet

LEMMA QuietStops ==
    ASSUME Types, Fitting, NobodyElse, Serve \/ Stop \/ Farewell
    PROVE  Quiet
<1>1. /\ \A u \in Task \ {Main} : Same(u)
      /\ Main \in Task /\ UNCHANGED <<file, run, events, next_event_id>>
      /\ phase # "down" /\ phase' # "down"
      /\ Same(Main) \/ (Idle(Main) /\ At(Main, Number1)')
  BY ServeMoves, FarewellMoves, JournalAssumption DEF Serve, Stop, Farewell, memory, bounds
<1>2. (Unwritten1(Main)' <=> Unwritten1(Main)) /\ (Unwritten1(Main) => job'[Main].value = job[Main].value)
  <2>1. CASE Same(Main)
    BY <1>1, <2>1, SameSteps DEF Unwritten1
  <2>2. CASE Idle(Main) /\ At(Main, Number1)'
    BY <2>2 DEF Unwritten1, At, Number1
  <2> QED
    BY <1>1, <2>1, <2>2
<1>3. journal' = journal
  BY <1>1, JournalKept
<1> QED
  BY <1>1, <1>2, <1>3, QuietOne

LEMMA QuietExit ==
    ASSUME Types, Fitting, NobodyElse, IdsAreFresh, Exit
    PROVE  Quiet
<1>1. /\ \A u \in Task : Idle(u)'
      /\ UNCHANGED <<file, run>> /\ phase = "farewell" /\ phase' = "down" /\ Idle(Main)
  BY ExitMoves DEF Exit, bounds
<1>2. \A u \in Task : Idle(u)
  BY <1>1 DEF NobodyElse
<1>3. Unwritten' = {} /\ Unwritten = {}
  BY <1>1, <1>2, UnwrittenIs DEF Unwritten1, At
<1>4. journal' = journal
  BY <1>1, JournalKept
<1>5. journal # <<>> /\ Last(journal).id = next_event_id - 1
  BY <1>1, FreshIs DEF FarewellWell, Settled, journal
<1>6. NextId' = Last(journal).id + 1
  BY <1>1, <1>4, <1>5 DEF NextId
<1>7. NextId = next_event_id /\ next_event_id \in Nat
  BY <1>1, NextIdUp DEF Types
<1>8. NextId' = NextId
  BY <1>5, <1>6, <1>7
<1> QED
  BY <1>1, <1>3, <1>4, <1>8 DEF Quiet

LEMMA QuietCalls ==
    ASSUME Types, Fitting, NobodyElse, NEW t \in Task,
           Record(t) \/ \E kind \in {"direct", "relay"} : Receive(t, kind)
    PROVE  Quiet
<1>1. PICK kind \in Kind, value \in Value : Begin(t, kind, value) /\ received' \in 0..MaxReceived
  BY CallsBegin
<1>2. /\ \A u \in Task \ {t} : Same(u)
      /\ Head(todo'[t]) \in {Number1, <<"inbox", "head">>}
      /\ UNCHANGED <<file, run, events, next_event_id, phase>>
      /\ phase \in {"up", "stopping"} /\ Idle(t)
  BY <1>1, BeginMoves DEF Begin, memory
<1>3. ~Unwritten1(t) /\ ~Unwritten1(t)'
  BY <1>2 DEF Unwritten1, At, Number1
<1>4. journal' = journal
  BY <1>2, JournalKept
<1> QED
  BY <1>2, <1>3, <1>4, QuietOne

LEMMA QuietPush ==
    ASSUME Types, Fitting, NobodyElse, NEW t \in Task, Push(t) \/ Announce(t)
    PROVE  Quiet
<1>1. /\ \A u \in Task \ {t} : Same(u)
      /\ Idle(t)' \/ At(t, Number1)'
      /\ UNCHANGED <<file, run, events, next_event_id, phase>>
      /\ At(t, <<"state", "push">>) \/ At(t, Send)
  BY PushMoves, AnnounceMoves DEF Push, Announce, memory, bounds, Send
<1>2. phase # "down"
  BY <1>1, AtWork
<1>3. ~Unwritten1(t) /\ ~Unwritten1(t)'
  BY <1>1 DEF Unwritten1, At, Number1, Send, Idle
<1>4. journal' = journal
  BY <1>1, JournalKept
<1> QED
  BY <1>1, <1>2, <1>3, <1>4, QuietOne

LEMMA QuietWrites ==
    ASSUME Types, Fitting, NobodyElse, NEW t \in Task, NEW f \in File, NEW part \in Part,
           Writes(t, f, part), f = "inbox" \/ part # "tail"
    PROVE  Quiet
<1>1. /\ \A u \in Task \ {t} : Same(u)
      /\ todo'[t] # <<>> /\ Head(todo'[t]) = Following(<<f, part>>) /\ job' = job
      /\ UNCHANGED <<run, events, next_event_id, phase>>
      /\ At(t, <<f, part>>)
  BY WriteMoves DEF Writes, memory, bounds
<1>2. phase # "down"
  BY <1>1, AtWork
<1>3. Unwritten1(t)' <=> Unwritten1(t)
  <2>1. CASE f = "inbox"
    <3>1. Head(todo'[t]) \in {<<"inbox", "tail">>, <<"inbox", "newline">>, <<"state", "push">>}
      BY <1>1, <2>1, FollowingIs DEF Part
    <3> QED
      BY <1>1, <2>1, <3>1 DEF Unwritten1, At
  <2>2. CASE f = "events" /\ part = "head"
    <3>1. Head(todo'[t]) = <<"events", "tail">>
      BY <1>1, <2>2, FollowingIs
    <3> QED
      BY <1>1, <2>2, <3>1 DEF Unwritten1, At, Idle
  <2>3. CASE f = "events" /\ part = "newline"
    <3>1. Head(todo'[t]) = Send
      BY <1>1, <2>3, FollowingIs DEF Send
    <3> QED
      BY <1>1, <2>3, <3>1 DEF Unwritten1, At, Send
  <2> QED
    BY <2>1, <2>2, <2>3 DEF File, Part
<1>4. journal' = journal
  <2>1. "events" \in File /\ "tail" \in Part
    BY DEF File, Part
  <2>2. ValuesOf(file["events"], "tail")' = ValuesOf(file["events"], "tail")
    <3>1. CASE f = "inbox"
      BY <2>1, <3>1, WriteAdds
    <3>2. CASE f = "events"
      BY <2>1, <3>2, WriteAdds
    <3> QED
      BY <3>1, <3>2 DEF File
  <2> QED
    BY <2>2 DEF journal, load_json_lines
<1> QED
  BY <1>1, <1>2, <1>3, <1>4, QuietOne

LEMMA NextIdIsNat ==
    Types => NextId \in Nat
BY NextIdIs

\* What a step can do to the journal: it goes on, and what was old stays old.
Grows ==
    /\ NextId' >= NextId /\ run' >= run
    /\ \A i \in 1..Len(journal) : i \in 1..Len(journal') /\ journal'[i] = journal[i]

LEMMA OldGrows ==
    ASSUME Types, Types', Grows, NEW e \in Value, Old(e)
    PROVE  Old(e)'
<1>1. /\ NextId \in Nat /\ NextId' \in Nat /\ NextId' >= NextId
      /\ run \in Nat /\ run' \in Nat /\ run' >= run
      /\ e.id \in Nat /\ e.run \in Nat /\ MAX_EVENTS \in Nat
      /\ DOMAIN journal = 1..Len(journal) /\ DOMAIN journal' = 1..Len(journal')
      /\ Len(journal) \in Nat /\ Len(journal') \in Nat
  <2>1. NextId \in Nat /\ NextId' \in Nat
    <3>1. (Types => NextId \in Nat)'
      BY NextIdIsNat, PTL
    <3> QED
      BY <3>1, NextIdIsNat
  <2>2. DOMAIN journal = 1..Len(journal) /\ DOMAIN journal' = 1..Len(journal')
      /\ Len(journal) \in Nat /\ Len(journal') \in Nat
    BY JournalIs
  <2> QED
    BY <2>1, <2>2, JournalAssumption DEF Grows, Types, Value
<1>2. CASE e.id + MAX_EVENTS < NextId
  <2>1. e.id + MAX_EVENTS < NextId'
    BY <1>1, <1>2
  <2> QED
    BY <2>1 DEF Old
<1>3. CASE e.run < run /\ \E i \in DOMAIN journal : journal[i] = e /\ i + MAX_EVENTS < NextId
  <2>1. PICK i \in 1..Len(journal) : journal[i] = e /\ i + MAX_EVENTS < NextId
    BY <1>1, <1>3
  <2>2. i \in 1..Len(journal') /\ journal'[i] = e
    BY <2>1 DEF Grows
  <2>3. e.run < run' /\ i + MAX_EVENTS < NextId'
    BY <1>1, <1>3, <2>1
  <2> QED
    BY <1>1, <2>2, <2>3 DEF Old
<1> QED
  BY <1>2, <1>3 DEF Old

\* Start reads the journal into memory: each event is at the place of its line.
LEMMA StartOrder ==
    ASSUME Types, Fitting, NobodyElse, JournalInOrder, Start
    PROVE  /\ JournalInOrder' /\ Grows /\ Given' = Given
<1>1. /\ Types' /\ \A u \in Task \ {Main} : Same(u)
      /\ At(Main, Number1)' /\ Main \in Task
      /\ UNCHANGED file /\ phase = "down" /\ phase' = "starting"
      /\ events' = journal /\ run' = run + 1
      /\ next_event_id' = IF events' = <<>> THEN 1 ELSE Last(events').id + 1
  BY StartMoves, JournalAssumption DEF Start, journal
<1>2. journal' = journal
  BY <1>1, JournalKept
<1>3. /\ journal \in Seq(Value) /\ Len(journal) \in Nat /\ DOMAIN journal = 1..Len(journal)
      /\ \A i \in 1..Len(journal) : journal[i] \in Value /\ journal[i] \in ToSet(journal)
  BY JournalIs
<1>4. run \in Nat /\ run' \in Nat
  BY JournalAssumption, <1>1 DEF Types
<1>5. Unwritten = {} /\ Unwritten' = {}
  <2>1. \A u \in Task : Idle(u)
    BY <1>1 DEF NobodyElse
  <2>2. \A u \in Task \ {Main} : Idle(u)'
    BY <1>1, <2>1 DEF Same, Idle
  <2>3. ~Unwritten1(Main)'
    BY <1>1 DEF Unwritten1, At, Number1
  <2> QED
    BY <2>1, <2>2, <2>3, UnwrittenIs DEF Unwritten1, At
<1>6. NextId \in Nat \ {0} /\ NextId' = NextId /\ NextId' = next_event_id'
  <2>1. NextId \in Nat \ {0} /\ (journal # <<>> => NextId = Last(journal).id + 1)
        /\ (journal = <<>> => NextId = 1)
    BY <1>1, NextIdIs
  <2>2. NextId' = next_event_id'
    BY <1>1, NextIdUp
  <2> QED
    BY <1>1, <2>1, <2>2
<1>7. Given' = ToSet(journal) /\ Given = ToSet(journal)
  BY <1>2, <1>5 DEF Given
<1>8. /\ OneLineEach /\ Len(journal) = NextId - 1
      /\ \A e \in Given : e.run \in Nat /\ e.run <= run
  <2>1. OneLineEach
    BY DEF JournalInOrder
  <2>2. Cardinality(Unwritten) = 0
    BY <1>5, FS_EmptySet
  <2>3. Len(journal) = NextId - 1
    <3>1. Len(journal) + Cardinality(Unwritten) = NextId - 1
      BY <2>1 DEF OneLineEach
    <3>2. Len(journal) + 0 = NextId - 1 /\ Len(journal) \in Int
      BY <3>1, <2>2, <1>3
    <3> QED
      BY <3>2
  <2>4. \A e \in Given : e.run \in Nat
    <3>1. ToSet(journal) \subseteq Value
      BY <1>3, SetOfSome
    <3> QED
      BY <1>7, <3>1 DEF Value
  <2> QED
    BY <2>1, <2>3, <2>4 DEF OneLineEach
<1>9. OneLineEach'
  <2>1. \A i, j \in DOMAIN journal : journal[i] = journal[j] => i = j
    BY <1>8 DEF OneLineEach
  <2>2. Cardinality(Unwritten') = 0
    BY <1>5, FS_EmptySet
  <2>3. Len(journal') + Cardinality(Unwritten') = NextId' - 1
    <3>1. Len(journal') + 0 = NextId' - 1
      <4>1. Len(journal) + 0 = NextId - 1
        BY <1>3, <1>8
      <4> QED
        BY <4>1, <1>2, <1>6
    <3> QED
      BY <3>1, <2>2
  <2>4. \A e \in Given' : e.run <= run'
    BY <1>1, <1>4, <1>7, <1>8
  <2> QED
    BY <1>2, <1>5, <2>1, <2>3, <2>4 DEF OneLineEach
<1>10. MemoryIsInOrder'
  <2>1. ASSUME NEW i \in 1..Len(journal)
        PROVE  InPlace(i)'
    <3>1. (next_event_id' - 1) - (Len(events') - i) = i
      BY <1>1, <1>3, <1>6, <1>8, SMTT(30)
    <3>2. journal[i] \in Given
      BY <1>3, <1>7
    <3>3. events'[i].run < run'
      BY <1>1, <1>4, <1>8, <3>2
    <3>4. Place(i)' = i
      BY <3>1 DEF Place
    <3> QED
      BY <1>1, <1>2, <1>3, <3>3, <3>4 DEF InPlace
  <2>2. events' # <<>> => Last(events').id = next_event_id' - 1
    <3> SUFFICES ASSUME events' # <<>>
                 PROVE  Last(events').id = next_event_id' - 1
      OBVIOUS
    <3>1. next_event_id' = Last(events').id + 1
      BY <1>1
    <3>2. Last(events') \in Value
      BY <1>1, <1>3, SetOfSome
    <3> QED
      BY <3>1, <3>2 DEF Value
  <2> QED
    BY <1>1, <1>3, <1>7, <2>1, <2>2 DEF MemoryIsInOrder
<1>11. OnlyOldForgotten'
  BY <1>1, <1>7 DEF OnlyOldForgotten
<1>12. Grows
  BY <1>1, <1>2, <1>4, <1>6 DEF Grows
<1> QED
  BY <1>7, <1>9, <1>10, <1>11, <1>12 DEF JournalInOrder

\* What SubSeq leaves when the first d values go.
LEMMA FirstGo ==
    ASSUME NEW X, NEW s \in Seq(X), NEW d \in 0..Len(s)
    PROVE  /\ SubSeq(s, d + 1, Len(s)) \in Seq(X) /\ Len(s) \in Nat
           /\ Len(SubSeq(s, d + 1, Len(s))) = Len(s) - d
           /\ \A i \in 1..Len(s) - d : SubSeq(s, d + 1, Len(s))[i] = s[i + d]
<1>1. SubSeq(s, d + 1, Len(s)) \in Seq(X) /\ Len(s) \in Nat
  OBVIOUS
<1>2. Len(SubSeq(s, d + 1, Len(s))) = Len(s) - d
  OBVIOUS
<1>3. ASSUME NEW i \in 1..Len(s) - d
      PROVE  SubSeq(s, d + 1, Len(s))[i] = s[i + d]
  <2>1. SubSeq(s, d + 1, Len(s))[i] = s[(d + 1) + i - 1]
    BY <1>3
  <2>2. (d + 1) + i - 1 = i + d
    BY <1>3
  <2> QED
    BY <2>1, <2>2
<1> QED
  BY <1>1, <1>2, <1>3

\* The window of events moves on by d places when an event is appended.
Moves(s, x, w, d) ==
    /\ d > 0 => d = Len(s) + 1 - MAX_EVENTS
    /\ w \in Seq(Value) /\ Len(w) = Len(s) + 1 - d
    /\ \A i \in 1..Len(s) - d : w[i] = s[i + d]
    /\ w[Len(s) + 1 - d] = x

LEMMA WindowMoves ==
    ASSUME NEW s \in Seq(Value), NEW x \in Value, NEW w, NEW more, more = Append(s, x),
           w = IF Len(more) > MAX_EVENTS
               THEN SubSeq(more, Len(more) - MAX_EVENTS + 1, Len(more)) ELSE more
    PROVE  \E d \in 0..Len(s) : Moves(s, x, w, d)
<1>1. PICK n : n = Len(s)
  OBVIOUS
<1>2. /\ n \in Nat /\ MAX_EVENTS \in Nat \ {0} /\ more \in Seq(Value) /\ Len(more) = n + 1
      /\ \A i \in 1..n : more[i] = s[i]
      /\ more[n + 1] = x
  BY <1>1, AppendFacts, JournalAssumption
<1>3. ASSUME NEW d \in 0..n, w \in Seq(Value), Len(w) = n + 1 - d, d > 0 => d = n + 1 - MAX_EVENTS,
             \A i \in 1..n + 1 - d : w[i] = more[i + d]
      PROVE  Moves(s, x, w, d)
  <2>1. \A i \in 1..n - d : w[i] = s[i + d]
    <3> SUFFICES ASSUME NEW i \in 1..n - d
                 PROVE  w[i] = s[i + d]
      OBVIOUS
    <3>1. i \in 1..n + 1 - d /\ i + d \in 1..n
      BY <1>2, <1>3
    <3> QED
      BY <3>1, <1>2, <1>3
  <2>2. w[n + 1 - d] = x
    <3>1. PICK k : k = n + 1 - d
      OBVIOUS
    <3>2. k \in 1..n + 1 - d /\ k + d = n + 1
      BY <1>2, <1>3, <3>1
    <3>3. w[k] = more[k + d]
      BY <1>3, <3>2
    <3> QED
      BY <3>1, <3>2, <3>3, <1>2
  <2> QED
    BY <1>1, <1>3, <2>1, <2>2 DEF Moves
<1>4. CASE ~(n + 1 > MAX_EVENTS)
  <2>1. w = more
    BY <1>2, <1>4
  <2>2. PICK d : d = 0
    OBVIOUS
  <2>3. d \in 0..n /\ n + 1 - d = n + 1 /\ (d > 0 => d = n + 1 - MAX_EVENTS)
    BY <1>2, <2>2
  <2>4. w \in Seq(Value) /\ Len(w) = n + 1 - d
    BY <1>2, <2>1, <2>3
  <2>5. \A i \in 1..n + 1 - d : w[i] = more[i + d]
    <3> SUFFICES ASSUME NEW i \in 1..n + 1 - d
                 PROVE  w[i] = more[i + d]
      OBVIOUS
    <3>1. i + d = i
      BY <2>2, <2>3
    <3> QED
      BY <2>1, <3>1
  <2>6. Moves(s, x, w, d)
    BY <2>3, <2>4, <2>5, <1>3
  <2> QED
    BY <2>3, <2>6, <1>1
<1>5. CASE n + 1 > MAX_EVENTS
  <2>1. PICK d : d = n + 1 - MAX_EVENTS
    OBVIOUS
  <2>2. d \in 0..n /\ d \in 0..n + 1 /\ n + 1 - MAX_EVENTS + 1 = d + 1
    BY <1>2, <1>5, <2>1
  <2>3. w = SubSeq(more, d + 1, Len(more))
    <3>1. Len(more) > MAX_EVENTS /\ Len(more) - MAX_EVENTS + 1 = d + 1
      BY <1>2, <1>5, <2>1
    <3> QED
      BY <3>1
  <2>4. d \in 0..Len(more)
    BY <1>2, <2>2
  <2>5. /\ w \in Seq(Value) /\ Len(w) = Len(more) - d
        /\ \A i \in 1..Len(more) - d : w[i] = more[i + d]
    <3>1. more \in Seq(Value) /\ d \in 0..Len(more)
      BY <1>2, <2>4
    <3>2. /\ SubSeq(more, d + 1, Len(more)) \in Seq(Value)
          /\ Len(SubSeq(more, d + 1, Len(more))) = Len(more) - d
          /\ \A i \in 1..Len(more) - d : SubSeq(more, d + 1, Len(more))[i] = more[i + d]
      BY <3>1, FirstGo
    <3> QED
      BY <2>3, <3>2
  <2>6. Len(w) = n + 1 - d /\ \A i \in 1..n + 1 - d : w[i] = more[i + d]
    <3>1. Len(more) - d = n + 1 - d
      BY <1>2, <2>2
    <3> QED
      BY <2>5, <3>1
  <2>7. Moves(s, x, w, d)
    <3>1. w \in Seq(Value) /\ (d > 0 => d = n + 1 - MAX_EVENTS) /\ d \in 0..n
      BY <2>1, <2>2, <2>5
    <3> QED
      BY <3>1, <2>6, <1>3
  <2> QED
    BY <2>2, <2>7, <1>1
<1> QED
  BY <1>4, <1>5

\* An event that gets its id is on no line yet, and in the hand of its task.
LEMMA NumberGives ==
    ASSUME Types, Fitting, NobodyElse, IdsAreFresh, JournalInOrder,
           NEW t \in Task, Number(t), NEW event, event = [id |-> next_event_id, run |-> run]
    PROVE  /\ journal' = journal /\ Given' = Given \cup {event} /\ event \notin Given
           /\ NextId = next_event_id /\ NextId' = next_event_id' /\ NextId' = NextId + 1
           /\ phase # "down" /\ phase' = phase /\ run' = run
           /\ event \in Value /\ event.id = NextId /\ event.run = run
           /\ Types' /\ OneLineEach'
<1>1. /\ Types' /\ \A u \in Task \ {t} : Same(u)
      /\ At(t, <<"events", "head">>)' /\ job'[t].value = event /\ event \in Value
      /\ event.id = next_event_id /\ event.run = run
      /\ At(t, Number1) /\ UNCHANGED <<phase, file, run>> /\ next_event_id' = next_event_id + 1
  BY NumberMoves DEF Number, Number1, bounds
<1>2. journal' = journal
  BY <1>1, JournalKept
<1>3. phase # "down"
  BY <1>1, AtWork
<1>4. /\ NextId = next_event_id /\ NextId' = next_event_id' /\ NextId' = NextId + 1
      /\ NextId \in Nat \ {0}
  BY <1>1, <1>3, NextIdUp DEF Types
<1>5. /\ \A u \in Unwritten : u \in Task
      /\ t \notin Unwritten /\ Unwritten' = Unwritten \cup {t}
      /\ \A u \in Unwritten : job'[u].value = job[u].value
  <2>1. ~Unwritten1(t)
    BY <1>1 DEF Unwritten1, At, Number1
  <2>2. Unwritten1(t)'
    BY <1>1 DEF Unwritten1
  <2>3. t \notin Unwritten /\ t \in Unwritten'
    BY <2>1, <2>2, UnwrittenIs
  <2>4. \A u \in Task \ {t} : /\ u \in Unwritten' <=> u \in Unwritten
                              /\ job'[u].value = job[u].value
    BY <1>1, UnwrittenOthers
  <2>5. \A u \in Unwritten : u \in Task
    BY UnwrittenIs
  <2>6. \A u \in Unwritten' : u \in Task
    BY UnwrittenIs
  <2> QED
    BY <2>3, <2>4, <2>5, <2>6
<1>6. event \notin Given
  <2>1. \A e \in Given : e.id \in Nat /\ e.id < NextId
    BY GivenIds
  <2> QED
    BY <2>1, <1>1, <1>4
<1>7. Given' = Given \cup {event}
  <2>1. Given' = ToSet(journal)' \cup {job'[u].value : u \in Unwritten'}
    BY DEF Given
  <2>2. {job'[u].value : u \in Unwritten'} = {job[u].value : u \in Unwritten} \cup {event}
    BY <1>1, <1>5
  <2>3. ToSet(journal)' = ToSet(journal)
    BY <1>2
  <2> QED
    BY <2>1, <2>2, <2>3 DEF Given
<1>8. OneLineEach
  BY DEF JournalInOrder
<1>9. /\ \A u \in Unwritten : job[u].value \in Given
      /\ ToSet(journal) \subseteq Given
  BY DEF Given
<1>10. OneLineEach'
  <2>1. \A i, j \in DOMAIN journal' : journal'[i] = journal'[j] => i = j
    BY <1>2, <1>8 DEF OneLineEach
  <2>2. \A u \in Unwritten' : job'[u].value \notin ToSet(journal)'
    <3> SUFFICES ASSUME NEW u \in Unwritten'
                 PROVE  job'[u].value \notin ToSet(journal)
      BY <1>2
    <3>1. CASE u = t
      BY <3>1, <1>1, <1>6, <1>9
    <3>2. CASE u \in Unwritten
      BY <3>2, <1>5, <1>8 DEF OneLineEach
    <3> QED
      BY <1>5, <3>1, <3>2
  <2>3. \A u, v \in Unwritten' : job'[u].value = job'[v].value => u = v
    <3> SUFFICES ASSUME NEW u \in Unwritten', NEW v \in Unwritten', job'[u].value = job'[v].value
                 PROVE  u = v
      OBVIOUS
    <3>1. CASE u \in Unwritten /\ v \in Unwritten
      BY <3>1, <1>5, <1>8 DEF OneLineEach
    <3>2. CASE u = t /\ v \in Unwritten
      BY <3>2, <1>1, <1>5, <1>6, <1>9
    <3>3. CASE v = t /\ u \in Unwritten
      BY <3>3, <1>1, <1>5, <1>6, <1>9
    <3> QED
      BY <1>5, <3>1, <3>2, <3>3
  <2>4. Len(journal)' + Cardinality(Unwritten)' = NextId' - 1
    <3>1. Unwritten \in SUBSET Task
      BY <1>5
    <3>2. IsFiniteSet(Unwritten)
      BY <3>1, FS_Subset, FeedAssumption
    <3>3. Cardinality(Unwritten \cup {t}) = Cardinality(Unwritten) + 1
      BY <3>2, <1>5, FS_AddElement
    <3>4. Cardinality(Unwritten)' = Cardinality(Unwritten) + 1
      BY <3>3, <1>5
    <3>5. Cardinality(Unwritten) \in Nat
      BY <3>2, FS_CardinalityType
    <3>6. Len(journal) \in Nat /\ Len(journal)' = Len(journal)
      BY <1>2, JournalIs
    <3>7. Len(journal) + Cardinality(Unwritten) = NextId - 1
      BY <1>8 DEF OneLineEach
    <3>8. Len(journal) + (Cardinality(Unwritten) + 1) = (NextId + 1) - 1
      BY <3>5, <3>6, <3>7, <1>4
    <3> QED
      BY <3>4, <3>6, <3>8, <1>4
  <2>5. \A e \in Given' : e.run <= run'
    <3>1. run \in Nat
      BY JournalAssumption DEF Types
    <3> QED
      BY <3>1, <1>1, <1>7, <1>8 DEF OneLineEach
  <2> QED
    BY <2>1, <2>2, <2>3, <2>4, <2>5 DEF OneLineEach
<1> QED
  BY <1>1, <1>2, <1>3, <1>4, <1>6, <1>7, <1>10

\* What is given stays given, and what comes to be given has a new id.
Adds ==
    /\ Given \subseteq Given'
    /\ \A e \in Given' : e \in Given \/ e.id >= NextId

LEMMA NumberOrder ==
    ASSUME Types, Fitting, NobodyElse, IdsAreFresh, JournalInOrder, NEW t \in Task, Number(t)
    PROVE  JournalInOrder' /\ Grows /\ Adds
<1>1. PICK event : event = [id |-> next_event_id, run |-> run]
  OBVIOUS
<1>2. /\ journal' = journal /\ Given' = Given \cup {event} /\ event \notin Given
      /\ NextId = next_event_id /\ NextId' = next_event_id' /\ NextId' = NextId + 1
      /\ phase # "down" /\ phase' = phase /\ run' = run
      /\ event \in Value /\ event.id = NextId /\ event.run = run
      /\ Types' /\ OneLineEach'
  BY <1>1, NumberGives
<1>3. /\ next_event_id \in Nat \ {0} /\ run \in Nat /\ events \in Seq(Value)
      /\ MAX_EVENTS \in Nat \ {0}
      /\ Len(journal) \in Nat /\ DOMAIN journal = 1..Len(journal)
  BY JournalIs, JournalAssumption DEF Types
<1> DEFINE n == Len(events)
           m == Len(events')
<1>4. PICK d \in 0..n : Moves(events, event, events', d)
  <2>1. PICK s, w, more : s = events /\ w = events' /\ more = Append(s, event)
    OBVIOUS
  <2>2. w = IF Len(more) > MAX_EVENTS
            THEN SubSeq(more, Len(more) - MAX_EVENTS + 1, Len(more)) ELSE more
    <3>1. more = Append(events, [id |-> next_event_id, run |-> run])
      BY <1>1, <2>1
    <3>2. events' = IF Len(more) > MAX_EVENTS
                    THEN SubSeq(more, Len(more) - MAX_EVENTS + 1, Len(more)) ELSE more
      BY <3>1, Zenon DEF Number
    <3> QED
      BY <3>2, <2>1, Zenon
  <2>3. s \in Seq(Value) /\ event \in Value /\ more = Append(s, event)
    BY <1>2, <1>3, <2>1
  <2>4. \E d \in 0..Len(s) : Moves(s, event, w, d)
    BY <2>2, <2>3, WindowMoves
  <2> QED
    BY <2>1, <2>4, Zenon
<1>5. /\ d > 0 => d = n + 1 - MAX_EVENTS
      /\ events' \in Seq(Value) /\ m = n + 1 - d
      /\ \A i \in 1..n - d : events'[i] = events[i + d]
      /\ events'[n + 1 - d] = event
  BY <1>4, Zenon DEF Moves
<1>6. n \in Nat /\ DOMAIN events = 1..n /\ m \in Nat /\ DOMAIN events' = 1..m /\ m \in 1..m
  <2>1. n \in Nat /\ DOMAIN events = 1..n
    BY <1>3
  <2>2. m \in Nat /\ DOMAIN events' = 1..m
    BY <1>4, <1>5
  <2> QED
    BY <1>4, <1>5, <2>1, <2>2
<1>7. events'[m] = event
  BY <1>4, <1>5
<1>8. MemoryIsInOrder /\ OnlyOldForgotten
  BY DEF JournalInOrder
<1>9. /\ \A i : Place(i) = (next_event_id - 1) - (n - i)
      /\ \A i : Place(i)' = (next_event_id' - 1) - (m - i)
  BY DEF Place
<1> HIDE DEF n, m
<1>10. MemoryIsInOrder'
  <2>1. ASSUME NEW i \in 1..m
        PROVE  InPlace(i)'
    <3>1. CASE i = m
      <4>1. Place(i)' = NextId
        BY <1>2, <1>3, <1>6, <1>9, <3>1
      <4> QED
        BY <1>2, <1>7, <3>1, <4>1 DEF InPlace
    <3>2. CASE i # m
      <4>1. PICK k : k = i + d
        OBVIOUS
      <4>2. i \in 1..n - d /\ k \in 1..n
        BY <1>4, <1>5, <1>6, <3>2, <4>1
      <4>3. events'[i] = events[k]
        BY <1>4, <1>5, <4>1, <4>2
      <4>4. Place(i)' = Place(k)
        BY <1>2, <1>3, <1>4, <1>5, <1>6, <1>9, <4>1, <4>2
      <4>5. InPlace(k)
        BY <1>2, <1>6, <1>8, <4>2 DEF MemoryIsInOrder
      <4> QED
        BY <1>2, <4>3, <4>4, <4>5 DEF InPlace
    <3> QED
      BY <3>1, <3>2
  <2>2. Last(events').id = next_event_id' - 1
    <3>1. Last(events') = event
      BY <1>7 DEF Last, m
    <3> QED
      BY <3>1, <1>2, <1>3
  <2>3. ToSet(events)' \subseteq Given'
    <3>1. ToSet(events)' \subseteq ToSet(events) \cup {event}
      BY <1>1, NumberMoves
    <3> QED
      BY <3>1, <1>2, <1>8 DEF MemoryIsInOrder
  <2> QED
    BY <1>6, <2>1, <2>2, <2>3 DEF MemoryIsInOrder
<1>11. Grows
  BY <1>2, <1>3 DEF Grows
<1>12. Adds
  BY <1>2, <1>3 DEF Adds
<1>13. OnlyOldForgotten'
  <2> SUFFICES ASSUME NEW e \in Given'
               PROVE  e \in ToSet(events)' \/ Old(e)'
    BY DEF OnlyOldForgotten
  <2>0. \A i \in 1..m : events'[i] \in ToSet(events)'
    BY <1>6 DEF ToSet
  <2>1. CASE e = event
    BY <2>0, <2>1, <1>6, <1>7
  <2>2. CASE e \in Given /\ Old(e)
    <3>1. e \in Value
      BY <2>2, GivenIds
    <3> QED
      BY <2>2, <3>1, <1>2, <1>11, OldGrows
  <2>3. CASE e \in ToSet(events)
    <3>1. PICK k \in 1..n : e = events[k]
      BY <2>3, <1>6 DEF ToSet
    <3>2. CASE k > d
      <4>1. PICK i : i = k - d
        OBVIOUS
      <4>2. i \in 1..n - d /\ i \in 1..m /\ i + d = k
        BY <1>4, <1>5, <1>6, <3>1, <3>2, <4>1
      <4>3. events'[i] = e
        BY <1>4, <1>5, <3>1, <4>2
      <4> QED
        BY <2>0, <4>2, <4>3
    <3>3. CASE ~(k > d)
      <4>1. d > 0 /\ d = n + 1 - MAX_EVENTS /\ k <= d
        BY <1>4, <1>5, <3>1, <3>3
      <4>2. InPlace(k)
        BY <1>2, <1>6, <1>8, <3>1 DEF MemoryIsInOrder
      <4>3. PICK p : p = Place(k)
        OBVIOUS
      <4>4. p \in Int /\ p + MAX_EVENTS < NextId'
        BY <1>2, <1>3, <1>6, <1>9, <3>1, <4>1, <4>3
      <4>5. CASE e.run = run /\ e.id = p
        BY <4>4, <4>5 DEF Old
      <4>6. CASE e.run < run /\ p \in DOMAIN journal /\ journal[p] = e
        BY <1>2, <4>4, <4>6 DEF Old
      <4> QED
        BY <3>1, <4>2, <4>3, <4>5, <4>6 DEF InPlace
    <3> QED
      BY <3>2, <3>3
  <2> QED
    BY <1>2, <1>8, <2>1, <2>2, <2>3 DEF OnlyOldForgotten
<1> QED
  BY <1>2, <1>10, <1>11, <1>12, <1>13 DEF JournalInOrder

\* The line of an event: it leaves the hand of its task for the end of the journal.
LEMMA TailOrder ==
    ASSUME Types, Fitting, NobodyElse, IdsAreFresh, JournalInOrder,
           NEW t \in Task, Writes(t, "events", "tail")
    PROVE  JournalInOrder' /\ Grows /\ Adds
<1> DEFINE v == job[t].value
           n == Len(journal)
<1>1. /\ \A u \in Task \ {t} : Same(u)
      /\ Types' /\ job' = job /\ v \in Value
      /\ todo'[t] # <<>> /\ Head(todo'[t]) = <<"events", "newline">>
      /\ At(t, <<"events", "tail">>)
      /\ UNCHANGED <<phase, events, next_event_id, run>>
  <2>1. "events" \in File /\ "tail" \in Part
    BY DEF File, Part
  <2> QED
    BY <2>1, WriteMoves, FollowingIs DEF Writes, memory, bounds
<1>2. phase # "down" /\ phase' # "down"
  BY <1>1, AtWork
<1>3. NextId' = NextId /\ NextId \in Nat
  BY <1>1, <1>2, NextIdUp, NextIdIs
<1>4. journal' = Append(journal, v)
  <2>1. "tail" \in Part /\ "events" \in File
    BY DEF Part, File
  <2>2. ValuesOf(file["events"], "tail")' = Append(ValuesOf(file["events"], "tail"), job[t].value)
    BY <2>1, WriteAdds
  <2> QED
    BY <2>2 DEF journal, load_json_lines
<1>5. /\ journal \in Seq(Value) /\ n \in Nat /\ DOMAIN journal = 1..n
      /\ \A i \in 1..n : journal[i] \in ToSet(journal)
  BY JournalIs
<1>6. /\ Len(journal') = n + 1 /\ DOMAIN journal' = 1..n + 1
      /\ \A i \in 1..n : journal'[i] = journal[i]
      /\ journal'[n + 1] = v
      /\ ToSet(journal)' = ToSet(journal) \cup {v}
  <2>1. PICK r, x, X : r = journal /\ x = v /\ X = journal'
    OBVIOUS
  <2>2. r \in Seq(Value) /\ x \in Value /\ X = Append(r, x)
    BY <1>1, <1>4, <1>5, <2>1
  <2>3. /\ X \in Seq(Value) /\ Len(X) = Len(r) + 1 /\ Len(r) \in Nat
        /\ \A i \in 1..Len(r) : X[i] = r[i]
        /\ X[Len(r) + 1] = x
    BY <2>2, AppendFacts
  <2>4. DOMAIN X = 1..Len(r) + 1
    BY <2>3
  <2>5. ToSet(X) = ToSet(r) \cup {x}
    BY <2>2, SetOfMore
  <2> QED
    BY <2>1, <2>3, <2>4, <2>5
<1> HIDE DEF n
<1>7. /\ t \in Unwritten /\ Unwritten' = Unwritten \ {t}
      /\ \A u \in Unwritten : u \in Task
  <2>1. Unwritten1(t) /\ ~Unwritten1(t)'
    BY <1>1 DEF Unwritten1, At
  <2>2. \A u \in Task \ {t} : u \in Unwritten' <=> u \in Unwritten
    BY <1>1, UnwrittenOthers
  <2>3. (t \in Unwritten) /\ t \notin Unwritten'
    BY <2>1, UnwrittenIs
  <2>4. \A u : u \in Unwritten' \/ u \in Unwritten => u \in Task
    BY UnwrittenIs
  <2> QED
    BY <2>2, <2>3, <2>4
<1>8. OneLineEach /\ MemoryIsInOrder /\ OnlyOldForgotten
  BY DEF JournalInOrder
<1>9. Given' = Given
  <2>1. Given' = ToSet(journal)' \cup {job'[u].value : u \in Unwritten'}
    BY DEF Given
  <2>2. {job'[u].value : u \in Unwritten'} \cup {v} = {job[u].value : u \in Unwritten}
    BY <1>1, <1>7
  <2>3. Given = ToSet(journal) \cup {job[u].value : u \in Unwritten}
    BY DEF Given
  <2> HIDE DEF v
  <2> QED
    BY <2>1, <2>2, <2>3, <1>6
<1>10. v \notin ToSet(journal)
  BY <1>7, <1>8 DEF OneLineEach
<1>11. OneLineEach'
  <2>1. \A i, j \in DOMAIN journal' : journal'[i] = journal'[j] => i = j
    <3> SUFFICES ASSUME NEW i \in 1..n + 1, NEW j \in 1..n + 1, journal'[i] = journal'[j]
                 PROVE  i = j
      BY <1>6
    <3>1. i \in 1..n \/ i = n + 1
      BY <1>5
    <3>2. j \in 1..n \/ j = n + 1
      BY <1>5
    <3>3. CASE i \in 1..n /\ j \in 1..n
      BY <3>3, <1>5, <1>6, <1>8 DEF OneLineEach
    <3>4. CASE i \in 1..n /\ j = n + 1
      BY <3>4, <1>5, <1>6, <1>10
    <3>5. CASE i = n + 1 /\ j \in 1..n
      BY <3>5, <1>5, <1>6, <1>10
    <3>6. CASE i = n + 1 /\ j = n + 1
      BY <3>6
    <3> QED
      BY <3>1, <3>2, <3>3, <3>4, <3>5, <3>6
  <2>2. \A u \in Unwritten' : job'[u].value \notin ToSet(journal)'
    <3>1. \A u \in Unwritten' : u \in Unwritten /\ u # t
      BY <1>7
    <3>2. \A u \in Unwritten' : job[u].value # v
      BY <3>1, <1>7, <1>8 DEF OneLineEach
    <3>3. \A u \in Unwritten' : job[u].value \notin ToSet(journal)
      BY <3>1, <1>8 DEF OneLineEach
    <3> HIDE DEF v
    <3> QED
      BY <3>2, <3>3, <1>1, <1>6
  <2>3. \A u, w \in Unwritten' : job'[u].value = job'[w].value => u = w
    BY <1>1, <1>7, <1>8 DEF OneLineEach
  <2>4. Len(journal)' + Cardinality(Unwritten)' = NextId' - 1
    <3>1. Unwritten \in SUBSET Task
      BY <1>7
    <3>2. IsFiniteSet(Unwritten)
      BY <3>1, FS_Subset, FeedAssumption
    <3>3. Cardinality(Unwritten \ {t}) = Cardinality(Unwritten) - 1
      BY <3>2, <1>7, FS_RemoveElement
    <3>4. Cardinality(Unwritten)' = Cardinality(Unwritten) - 1
      BY <3>3, <1>7
    <3>5. Cardinality(Unwritten) \in Nat
      BY <3>2, FS_CardinalityType
    <3>6. n + Cardinality(Unwritten) = NextId - 1
      BY <1>8 DEF OneLineEach, n
    <3>7. (n + 1) + (Cardinality(Unwritten) - 1) = NextId - 1
      BY <3>5, <3>6, <1>3, <1>5
    <3> QED
      BY <3>4, <3>7, <1>3, <1>6
  <2>5. \A e \in Given' : e.run <= run'
    BY <1>1, <1>8, <1>9 DEF OneLineEach
  <2> QED
    BY <2>1, <2>2, <2>3, <2>4, <2>5 DEF OneLineEach
<1>12. Grows
  <2>1. run \in Nat
    BY JournalAssumption DEF Types
  <2>2. \A i \in 1..n : i \in 1..n + 1
    BY <1>5
  <2> QED
    BY <2>1, <2>2, <1>1, <1>3, <1>6 DEF Grows, n
<1>13. Adds
  BY <1>9 DEF Adds
<1>14. MemoryIsInOrder'
  <2>1. ASSUME NEW i \in DOMAIN events
        PROVE  InPlace(i)'
    <3>1. InPlace(i)
      BY <1>2, <1>8, <2>1 DEF MemoryIsInOrder
    <3>2. Place(i)' = Place(i)
      BY <1>1 DEF Place
    <3>3. Place(i) \in DOMAIN journal =>
             Place(i) \in DOMAIN journal' /\ journal'[Place(i)] = journal[Place(i)]
      BY <1>5, <1>6
    <3> QED
      BY <1>1, <3>1, <3>2, <3>3 DEF InPlace
  <2> QED
    BY <1>1, <1>2, <1>8, <1>9, <2>1 DEF MemoryIsInOrder
<1>15. OnlyOldForgotten'
  <2>1. \A e \in Given : e \in ToSet(events) \/ Old(e)
    BY <1>2, <1>8 DEF OnlyOldForgotten
  <2>2. \A e \in Given : Old(e) => Old(e)'
    BY <1>1, <1>12, OldGrows, GivenIds
  <2> QED
    BY <1>1, <1>9, <2>1, <2>2 DEF OnlyOldForgotten
<1> QED
  BY <1>11, <1>12, <1>13, <1>14, <1>15 DEF JournalInOrder

LEMMA QuietGrows ==
    ASSUME Types, Quiet
    PROVE  Grows /\ Adds
<1>1. NextId \in Nat /\ run \in Nat
  BY NextIdIs, JournalAssumption DEF Types
<1>2. Grows
  BY <1>1 DEF Quiet, Grows
<1>3. Adds
  BY QuietGiven DEF Adds
<1> QED
  BY <1>2, <1>3

LEMMA RestIsQuiet ==
    ASSUME UNCHANGED journalVars
    PROVE  Quiet
<1>1. UNCHANGED <<phase, events, next_event_id, file, job, todo, run>>
  BY DEF journalVars, memory, bounds
<1>2. journal' = journal
  BY <1>1, JournalKept
<1>3. Unwritten' = Unwritten
  BY <1>1 DEF Unwritten, At, Idle
<1>4. NextId' = NextId
  BY <1>1, <1>2 DEF NextId
<1> QED
  BY <1>1, <1>2, <1>3, <1>4 DEF Quiet

LEMMA OrderInvariant ==
    ASSUME Types, Fitting, NobodyElse, IdsAreFresh, JournalInOrder, JournalNext, clean'
    PROVE  JournalInOrder' /\ Grows /\ Adds
<1>1. CASE Start
  <2>1. JournalInOrder' /\ Grows /\ Given' = Given
    BY <1>1, StartOrder
  <2> QED
    BY <2>1 DEF Adds
<1>2. CASE Quiet
  BY <1>2, QuietKeepsOrder, QuietGrows
<1>3. CASE Serve \/ Stop \/ Farewell \/ Exit
  BY <1>2, <1>3, QuietStops, QuietExit
<1>4. CASE Kill
  BY <1>4 DEF Kill
<1>5. ASSUME NEW t \in Task, Record(t) \/ \E kind \in {"direct", "relay"} : Receive(t, kind)
      PROVE  JournalInOrder' /\ Grows /\ Adds
  BY <1>2, <1>5, QuietCalls
<1>6. ASSUME NEW t \in Task, Number(t)
      PROVE  JournalInOrder' /\ Grows /\ Adds
  BY <1>6, NumberOrder
<1>7. ASSUME NEW t \in Task, Push(t) \/ Announce(t)
      PROVE  JournalInOrder' /\ Grows /\ Adds
  BY <1>2, <1>7, QuietPush
<1>8. ASSUME NEW t \in Task, NEW f \in File, Write(t, f)
      PROVE  JournalInOrder' /\ Grows /\ Adds
  <2>1. PICK part \in Part : Writes(t, f, part)
    BY <1>8, WriteIsWrites
  <2>2. CASE f = "inbox" \/ part # "tail"
    BY <1>2, <2>1, <2>2, QuietWrites
  <2>3. CASE f = "events" /\ part = "tail"
    BY <2>1, <2>3, TailOrder
  <2> QED
    BY <2>2, <2>3 DEF File
<1>9. ASSUME NEW t \in Task, NEW f \in File, FailedWrite(t, f)
      PROVE  JournalInOrder' /\ Grows /\ Adds
  BY <1>9 DEF FailedWrite
<1> QED
  BY <1>1, <1>3, <1>4, <1>5, <1>6, <1>7, <1>8, <1>9 DEF JournalNext, Step

-----------------------------------------------------------------------------
(* The page.                                                               *)

FeedTypes ==
    /\ sinceEventId \in Nat
    /\ polls \in [Poll -> [at : {"none", "sent", "answered"}, since : Nat, events : Seq(Value)]]
    /\ shown \subseteq Value
    /\ overlap \in BOOLEAN

FeedOrder == JournalInOrder /\ CursorsPassable /\ OnePollAtATime

\* Passable, after the step.
PassableThen(id, seen) ==
    id < NextId' /\ \A e \in Given' : e.id <= id => e \in seen \/ Old(e)'

LEMMA GivenHaveIds ==
    Types => \A x \in Given : x.id \in Nat
BY GivenIsKnown, KnownAreValues

LEMMA StaysPassable ==
    ASSUME Types, Types', IdsAreFresh, Grows, Adds
    PROVE  \A id \in Nat : \A seen : Passable(id, seen) => PassableThen(id, seen)
<1> SUFFICES ASSUME NEW id \in Nat, NEW seen, Passable(id, seen)
             PROVE  PassableThen(id, seen)
  OBVIOUS
<1>1. NextId \in Nat /\ NextId' \in Nat /\ NextId' >= NextId
  <2>1. (Types => NextId \in Nat)'
    BY NextIdIsNat, PTL
  <2> QED
    BY <2>1, NextIdIsNat DEF Grows
<1>2. id < NextId /\ id < NextId'
  BY <1>1 DEF Passable
<1>3. ASSUME NEW e \in Given', e.id <= id
      PROVE  e \in seen \/ Old(e)'
  <2>1. CASE e \in Given
    <3>1. e \in Value
      BY <2>1, GivenIds
    <3>2. e \in seen \/ Old(e)
      BY <1>3, <2>1 DEF Passable
    <3> QED
      BY <3>1, <3>2, OldGrows
  <2>2. CASE e \notin Given /\ e.id >= NextId
    <3>1. e.id \in Nat
      <4>1. (Types => \A x \in Given : x.id \in Nat)'
        BY GivenHaveIds, PTL
      <4> QED
        BY <4>1
    <3> QED
      BY <1>1, <1>2, <1>3, <2>2, <3>1
  <2> QED
    BY <2>1, <2>2 DEF Adds
<1> QED
  BY <1>2, <1>3 DEF PassableThen

\* Whoever was shown more can pass as much.
LEMMA PassableMore ==
    ASSUME NEW id, NEW seen, NEW more, seen \subseteq more, PassableThen(id, seen)
    PROVE  PassableThen(id, more)
BY DEF PassableThen

LEMMA CursorsThen ==
    ASSUME PassableThen(sinceEventId', shown'),
           \A p \in Poll : polls'[p].at # "none" => PassableThen(polls'[p].since, shown'),
           \A p \in Poll : polls'[p].events # <<>> =>
              /\ PassableThen(Last(polls'[p].events).id, shown' \cup ToSet(polls'[p].events))
              /\ \A e \in ToSet(polls'[p].events) :
                    polls'[p].since < e.id /\ e.id <= Last(polls'[p].events).id
    PROVE  CursorsPassable'
BY DEF CursorsPassable, Passable, PassableThen

\* What the cursors may pass while the page does nothing.
LEMMA CursorsStay ==
    ASSUME Types, Types', IdsAreFresh, Grows, Adds, FeedTypes, CursorsPassable
    PROVE  /\ PassableThen(sinceEventId, shown)
           /\ \A p \in Poll : polls[p].at # "none" => PassableThen(polls[p].since, shown)
           /\ \A p \in Poll : polls[p].events # <<>> =>
              /\ PassableThen(Last(polls[p].events).id, shown \cup ToSet(polls[p].events))
              /\ \A e \in ToSet(polls[p].events) :
                    polls[p].since < e.id /\ e.id <= Last(polls[p].events).id
<1>1. \A id \in Nat : \A seen : Passable(id, seen) => PassableThen(id, seen)
  BY StaysPassable
<1>2. \A p \in Poll : polls[p].events \in Seq(Value) /\ polls[p].since \in Nat
  BY DEF FeedTypes
<1>3. \A p \in Poll : polls[p].events # <<>> => Last(polls[p].events).id \in Nat
  <2>1. \A p \in Poll : polls[p].events # <<>> => Last(polls[p].events) \in Value
    BY <1>2, SetOfSome
  <2> QED
    BY <2>1 DEF Value
<1>4. PassableThen(sinceEventId, shown)
  BY <1>1 DEF CursorsPassable, FeedTypes
<1>5. \A p \in Poll : polls[p].at # "none" => PassableThen(polls[p].since, shown)
  BY <1>1, <1>2 DEF CursorsPassable
<1>6. ASSUME NEW p \in Poll, polls[p].events # <<>>
      PROVE  /\ PassableThen(Last(polls[p].events).id, shown \cup ToSet(polls[p].events))
             /\ \A e \in ToSet(polls[p].events) :
                    polls[p].since < e.id /\ e.id <= Last(polls[p].events).id
  <2>1. /\ Passable(Last(polls[p].events).id, shown \cup ToSet(polls[p].events))
        /\ \A e \in ToSet(polls[p].events) :
                    polls[p].since < e.id /\ e.id <= Last(polls[p].events).id
    BY <1>6 DEF CursorsPassable
  <2> QED
    BY <1>1, <1>3, <1>6, <2>1
<1> QED
  BY <1>4, <1>5, <1>6

Polls == [at : {"none", "sent", "answered"}, since : Nat, events : Seq(Value)]

\* The last of the elements kept is the last one, if that is kept.
LEMMA LastIsKept ==
    ASSUME NEW X, NEW s \in Seq(X), NEW I
    PROVE  /\ Selection(s, I) \in Seq(X)
           /\ \A x : x \in ToSet(Selection(s, I)) <=> \E i \in 1..Len(s) : i \in I /\ x = s[i]
           /\ Len(s) \in I /\ s # <<>> =>
                 Selection(s, I) # <<>> /\ Last(Selection(s, I)) = s[Len(s)]
<1>1. PICK kept, p, n, m : /\ kept = Selection(s, I) /\ Kept(s, I, kept, p, n)
                           /\ n = Len(s) /\ m = Len(p)
  BY SelectionKeeps
<1>2. kept \in Seq(X) /\ n \in Nat
  BY <1>1, SelectionKeeps
<1>3. /\ m \in Nat /\ Len(kept) = m /\ DOMAIN kept = 1..m
      /\ \A k \in 1..m : p[k] \in I /\ p[k] \in 1..n /\ kept[k] = s[p[k]]
      /\ \A k, l \in 1..m : k < l => p[k] < p[l]
      /\ \A i \in 1..n : i \in I => \E k \in 1..m : p[k] = i
  <2>1. p \in Seq(Nat) /\ Len(p) = Len(kept)
    BY <1>1 DEF Kept
  <2>2. m \in Nat /\ Len(kept) = m /\ DOMAIN kept = 1..m
    BY <1>1, <1>2, <2>1
  <2> QED
    BY <1>1, <2>2, Zenon DEF Kept
<1>4. \A x : x \in ToSet(kept) <=> \E i \in 1..n : i \in I /\ x = s[i]
  <2>1. \A x : x \in ToSet(kept) <=> \E k \in 1..m : x = kept[k]
    BY <1>3 DEF ToSet
  <2> QED
    BY <1>3, <2>1
<1>5. ASSUME n \in I, s # <<>>
      PROVE  kept # <<>> /\ Last(kept) = s[n]
  <2>1. n \in 1..n
    BY <1>1, <1>2, <1>5
  <2>2. PICK k \in 1..m : p[k] = n
    BY <1>3, <1>5, <2>1
  <2>3. m \in 1..m
    BY <1>3, <2>2
  <2>4. k = m
    <3> SUFFICES ASSUME k < m
                 PROVE  FALSE
      BY <1>3, <2>2
    <3>1. p[k] < p[m] /\ p[m] \in 1..n
      BY <1>3, <2>2, <2>3
    <3> QED
      BY <2>2, <3>1, <1>2
  <2>5. kept[m] = s[n]
    BY <1>3, <2>2, <2>4
  <2>6. Last(kept) = kept[m]
    BY <1>3 DEF Last
  <2>7. kept # <<>>
    BY <1>3, <2>3
  <2> QED
    BY <2>5, <2>6, <2>7
<1> QED
  BY <1>1, <1>2, <1>4, <1>5

\* What events_since answers: the newer events in memory, and with any of them the last one.
LEMMA AnswerIs ==
    ASSUME Types, NEW since \in Nat, NEW answer, answer = events_since(since)
    PROVE  /\ answer \in Seq(Value)
           /\ \A x : x \in ToSet(answer) <=> x \in ToSet(events) /\ x.id > since
           /\ \A x \in ToSet(answer) : x \in Value
           /\ (events # <<>> /\ Last(events).id > since) =>
                 answer # <<>> /\ Last(answer) = Last(events)
<1> DEFINE I == {i \in DOMAIN events : events[i].id > since}
<1>1. events \in Seq(Value) /\ answer = Selection(events, I)
  BY DEF Types, events_since
<1>2. DOMAIN events = 1..Len(events) /\ Len(events) \in Nat
  BY <1>1
<1>3. \A i : i \in I <=> i \in 1..Len(events) /\ events[i].id > since
  BY <1>2
<1> HIDE DEF I
<1>4. /\ answer \in Seq(Value)
      /\ \A x : x \in ToSet(answer) <=> \E i \in 1..Len(events) : i \in I /\ x = events[i]
      /\ Len(events) \in I /\ events # <<>> =>
                 answer # <<>> /\ Last(answer) = events[Len(events)]
  BY <1>1, LastIsKept
<1>5. \A x : x \in ToSet(answer) <=> x \in ToSet(events) /\ x.id > since
  <2>1. \A x : x \in ToSet(events) <=> \E i \in 1..Len(events) : x = events[i]
    BY <1>2 DEF ToSet
  <2> QED
    BY <1>3, <1>4, <2>1
<1>6. \A x \in ToSet(answer) : x \in Value
  BY <1>4, SetOfSome
<1>7. ASSUME events # <<>>, Last(events).id > since
      PROVE  answer # <<>> /\ Last(answer) = Last(events)
  <2>1. Last(events) = events[Len(events)]
    BY DEF Last
  <2>2. Len(events) \in 1..Len(events)
    BY <1>1, <1>2, <1>7
  <2> QED
    BY <1>3, <1>4, <1>7, <2>1, <2>2
<1> QED
  BY <1>4, <1>5, <1>6, <1>7

\* A step of the page leaves the journal as it is.
LEMMA PageStep ==
    ASSUME Types, IdsAreFresh, FeedTypes, FeedOrder, UNCHANGED journalVars
    PROVE  /\ Types' /\ JournalInOrder'
           /\ \A id, seen : Passable(id, seen) => PassableThen(id, seen)
<1>1. Quiet
  BY RestIsQuiet
<1>2. JournalInOrder'
  BY <1>1, QuietKeepsOrder DEF FeedOrder
<1>3. Given' = Given /\ NextId' = NextId /\ \A e : Old(e)' <=> Old(e)
  BY <1>1, QuietGiven, QuietOld DEF Quiet
<1>4. Types'
  BY DEF journalVars, memory, bounds, Types
<1> QED
  BY <1>2, <1>3, <1>4 DEF Passable, PassableThen

LEMMA AskOrder ==
    ASSUME Types, IdsAreFresh, FeedTypes, FeedOrder, NEW p \in Poll, Ask(p)
    PROVE  FeedOrder'
<1>1. /\ polls' = [polls EXCEPT ![p] = [at |-> "sent", since |-> sinceEventId, events |-> <<>>]]
      /\ polls[p].at = "none"
      /\ overlap' = (overlap \/ \E q \in Poll : polls[q].at # "none")
      /\ UNCHANGED journalVars /\ UNCHANGED <<sinceEventId, shown>>
      /\ polls \in [Poll -> Polls]
  BY DEF Ask, FeedTypes, Polls
<1>2. /\ polls'[p].at = "sent" /\ polls'[p].since = sinceEventId /\ polls'[p].events = <<>>
      /\ \A q \in Poll \ {p} : polls'[q] = polls[q]
  BY <1>1
<1>3. /\ JournalInOrder' /\ \A id, seen : Passable(id, seen) => PassableThen(id, seen)
  BY <1>1, PageStep
<1>4. CursorsPassable /\ OnePollAtATime
  BY DEF FeedOrder
<1>5. CursorsPassable'
  <2>1. PassableThen(sinceEventId', shown')
    BY <1>1, <1>3, <1>4 DEF CursorsPassable
  <2>2. \A q \in Poll : polls'[q].at # "none" => PassableThen(polls'[q].since, shown')
    BY <1>1, <1>2, <1>3, <1>4, <2>1 DEF CursorsPassable
  <2>3. ASSUME NEW q \in Poll, polls'[q].events # <<>>
        PROVE  /\ PassableThen(Last(polls'[q].events).id, shown' \cup ToSet(polls'[q].events))
               /\ \A e \in ToSet(polls'[q].events) :
                    polls'[q].since < e.id /\ e.id <= Last(polls'[q].events).id
    <3>1. polls'[q] = polls[q]
      BY <1>2, <2>3
    <3> QED
      BY <1>1, <1>3, <1>4, <2>3, <3>1 DEF CursorsPassable
  <2> QED
    BY <2>1, <2>2, <2>3, CursorsThen
<1>6. OnePollAtATime'
  <2> SUFFICES ASSUME ~overlap'
               PROVE  /\ \A q, r \in Poll : polls'[q].at # "none" /\ polls'[r].at # "none" => q = r
                      /\ \A q \in Poll : polls'[q].at # "none" => polls'[q].since = sinceEventId'
                      /\ \A e \in shown' : e.id <= sinceEventId'
    BY DEF OnePollAtATime
  <2>1. ~overlap /\ \A q \in Poll : polls[q].at = "none"
    BY <1>1
  <2> QED
    BY <1>1, <1>2, <1>4, <2>1 DEF OnePollAtATime
<1> QED
  BY <1>3, <1>5, <1>6 DEF FeedOrder

LEMMA AnswerTypes ==
    ASSUME Types, FeedTypes, NEW p \in Poll, Answer(p)
    PROVE  /\ polls' \in [Poll -> Polls] /\ polls'[p].at = "answered"
           /\ polls'[p].since = polls[p].since /\ polls'[p].events = events_since(polls[p].since)
           /\ \A q \in Poll \ {p} : polls'[q] = polls[q]
<1>1. PICK answer, since : answer = events_since(since) /\ since = polls[p].since
  OBVIOUS
<1>2. /\ polls \in [Poll -> Polls] /\ since \in Nat /\ polls[p].at = "sent" /\ phase # "down"
      /\ UNCHANGED journalVars /\ UNCHANGED <<sinceEventId, shown, overlap>>
      /\ polls' = [polls EXCEPT ![p].at = "answered", ![p].events = answer]
  BY <1>1 DEF Answer, FeedTypes, Polls
<1>3. /\ answer \in Seq(Value)
      /\ \A x : x \in ToSet(answer) <=> x \in ToSet(events) /\ x.id > since
      /\ \A x \in ToSet(answer) : x \in Value
      /\ (events # <<>> /\ Last(events).id > since) =>
                 answer # <<>> /\ Last(answer) = Last(events)
  BY <1>1, <1>2, AnswerIs
<1>4. /\ polls'[p].at = "answered" /\ polls'[p].since = since /\ polls'[p].events = answer
      /\ polls' \in [Poll -> Polls] /\ \A q \in Poll \ {p} : polls'[q] = polls[q]
  <2>1. PICK P : P = polls[p]
    OBVIOUS
  <2>2. P \in Polls /\ P.since = since
    BY <1>1, <1>2, <2>1
  <2>3. PICK Q : Q = [P EXCEPT !.at = "answered", !.events = answer]
    OBVIOUS
  <2>4. Q \in Polls /\ Q.at = "answered" /\ Q.since = since /\ Q.events = answer
    <3>1. \A r \in Polls : LET c == [r EXCEPT !.at = "answered", !.events = answer]
                         IN  /\ c \in Polls /\ c.at = "answered"
                             /\ c.since = r.since /\ c.events = answer
      BY <1>3 DEF Polls
    <3> QED
      BY <2>2, <2>3, <3>1
  <2>5. polls' = [polls EXCEPT ![p] = Q]
    BY <1>2, <2>1, <2>3
  <2> QED
    BY <1>2, <2>4, <2>5
<1> QED
  BY <1>1, <1>4

LEMMA AnswerOrder ==
    ASSUME Types, IdsAreFresh, FeedTypes, FeedOrder, NEW p \in Poll, Answer(p)
    PROVE  FeedOrder'
<1>1. PICK answer, since : answer = events_since(since) /\ since = polls[p].since
  OBVIOUS
<1>2. /\ polls \in [Poll -> Polls] /\ since \in Nat /\ polls[p].at = "sent" /\ phase # "down"
      /\ UNCHANGED journalVars /\ UNCHANGED <<sinceEventId, shown, overlap>>
      /\ polls' = [polls EXCEPT ![p].at = "answered", ![p].events = answer]
  BY <1>1 DEF Answer, FeedTypes, Polls
<1>3. /\ answer \in Seq(Value)
      /\ \A x : x \in ToSet(answer) <=> x \in ToSet(events) /\ x.id > since
      /\ \A x \in ToSet(answer) : x \in Value
      /\ (events # <<>> /\ Last(events).id > since) =>
                 answer # <<>> /\ Last(answer) = Last(events)
  BY <1>1, <1>2, AnswerIs
<1>4. /\ polls'[p].at = "answered" /\ polls'[p].since = since /\ polls'[p].events = answer
      /\ polls' \in [Poll -> Polls] /\ \A q \in Poll \ {p} : polls'[q] = polls[q]
  BY <1>1, AnswerTypes
<1>5. /\ JournalInOrder' /\ \A id, seen : Passable(id, seen) => PassableThen(id, seen)
  BY <1>2, PageStep
<1>6. CursorsPassable /\ OnePollAtATime /\ JournalInOrder
  BY DEF FeedOrder
<1>7. Passable(since, shown)
  BY <1>1, <1>2, <1>6 DEF CursorsPassable
<1>8. ASSUME answer # <<>>
      PROVE  /\ Passable(Last(answer).id, shown \cup ToSet(answer))
             /\ \A e \in ToSet(answer) : since < e.id /\ e.id <= Last(answer).id
  <2>1. /\ NextId = next_event_id /\ NextId \in Nat \ {0}
        /\ \A e \in Given : e.id \in Nat /\ e.id < NextId
    BY <1>2, NextIdUp, NextIdIs, GivenIds
  <2>2. /\ \A e \in ToSet(events) : e.id \in Nat /\ e.id < NextId
    <3>1. \A e \in ToSet(events) : e \in KnownEvents
      BY KnownIs
    <3> QED
      BY <3>1, <1>2, <2>1, FreshIs, KnownAreValues
  <2>3. PICK x : x \in ToSet(answer)
    <3>1. answer \in Seq(Value)
      BY <1>3
    <3> QED
      BY <3>1, <1>8, SetOfSome
  <2>4. x \in ToSet(events) /\ x.id > since /\ x.id < NextId /\ x.id \in Nat
    BY <1>3, <2>2, <2>3
  <2>5. events # <<>>
    <3>1. events \in Seq(Value)
      BY DEF Types
    <3>2. x \in ToSet(events)
      BY <2>4
    <3> QED
      BY <3>1, <3>2, SetOfSome
  <2>6. Last(events).id = NextId - 1
    BY <1>2, <1>6, <2>1, <2>5 DEF JournalInOrder, MemoryIsInOrder
  <2>7. Last(answer).id = NextId - 1
    BY <1>2, <1>3, <2>1, <2>4, <2>5, <2>6
  <2>8. Last(answer).id < NextId
    BY <2>1, <2>7
  <2>9. ASSUME NEW e \in Given, e.id <= Last(answer).id
        PROVE  e \in shown \cup ToSet(answer) \/ Old(e)
    <3>1. e \in ToSet(events) \/ Old(e)
      BY <1>2, <1>6 DEF JournalInOrder, OnlyOldForgotten
    <3>2. CASE e \in ToSet(events) /\ e.id > since
      BY <1>3, <3>2
    <3>3. CASE e.id <= since
      BY <1>7, <3>3 DEF Passable
    <3>4. e.id > since \/ e.id <= since
      BY <1>2, <2>1
    <3> QED
      BY <3>1, <3>2, <3>3, <3>4
  <2>10. \A e \in ToSet(answer) : since < e.id /\ e.id <= Last(answer).id
    <3> SUFFICES ASSUME NEW e \in ToSet(answer)
                 PROVE  since < e.id /\ e.id <= Last(answer).id
      OBVIOUS
    <3>1. e \in ToSet(events) /\ e.id > since
      BY <1>3
    <3>2. e.id \in Nat /\ e.id < NextId
      BY <2>2, <3>1
    <3> QED
      BY <1>2, <2>1, <2>7, <3>1, <3>2
  <2> QED
    BY <2>8, <2>9, <2>10 DEF Passable
<1>9. CursorsPassable'
  <2>1. PassableThen(sinceEventId', shown')
    BY <1>2, <1>5, <1>6 DEF CursorsPassable
  <2>2. ASSUME NEW q \in Poll, polls'[q].at # "none"
        PROVE  PassableThen(polls'[q].since, shown')
    <3>1. CASE q = p
      BY <1>2, <1>4, <1>5, <1>7, <3>1
    <3>2. CASE q # p
      BY <1>2, <1>4, <1>5, <1>6, <2>2, <3>2 DEF CursorsPassable
    <3> QED
      BY <3>1, <3>2
  <2>3. ASSUME NEW q \in Poll, polls'[q].events # <<>>
        PROVE  /\ PassableThen(Last(polls'[q].events).id, shown' \cup ToSet(polls'[q].events))
               /\ \A e \in ToSet(polls'[q].events) :
                    polls'[q].since < e.id /\ e.id <= Last(polls'[q].events).id
    <3>1. CASE q = p
      BY <1>2, <1>4, <1>5, <1>8, <2>3, <3>1
    <3>2. CASE q # p
      <4>1. polls'[q] = polls[q]
        BY <1>4, <3>2
      <4> QED
        BY <1>2, <1>5, <1>6, <2>3, <4>1 DEF CursorsPassable
    <3> QED
      BY <3>1, <3>2
  <2> QED
    BY <2>1, <2>2, <2>3, CursorsThen
<1>10. OnePollAtATime'
  <2>1. \A q \in Poll : /\ polls'[q].at # "none" <=> polls[q].at # "none"
                        /\ polls'[q].since = polls[q].since
    BY <1>1, <1>2, <1>4
  <2> QED
    BY <1>2, <1>6, <2>1 DEF OnePollAtATime
<1> QED
  BY <1>4, <1>5, <1>9, <1>10 DEF FeedOrder

LEMMA ShowOrder ==
    ASSUME Types, IdsAreFresh, FeedTypes, FeedOrder, NEW p \in Poll, Show(p)
    PROVE  FeedOrder'
<1>1. PICK answer : answer = polls[p].events
  OBVIOUS
<1>2. /\ polls \in [Poll -> Polls] /\ polls[p].at = "answered" /\ sinceEventId \in Nat
      /\ UNCHANGED journalVars /\ overlap' = overlap
      /\ polls' = [polls EXCEPT ![p] = NoPoll]
      /\ shown' = shown \cup ToSet(answer)
      /\ sinceEventId' = IF answer = <<>> THEN sinceEventId ELSE Last(answer).id
  BY <1>1 DEF Show, FeedTypes, Polls
<1>3. /\ polls'[p].at = "none" /\ polls'[p].events = <<>>
      /\ \A q \in Poll \ {p} : polls'[q] = polls[q]
  BY <1>2 DEF NoPoll
<1>4. answer \in Seq(Value) /\ polls[p].since \in Nat
  BY <1>1, <1>2 DEF Polls
<1>5. /\ JournalInOrder' /\ \A id, seen : Passable(id, seen) => PassableThen(id, seen)
  BY <1>2, PageStep
<1>6. CursorsPassable /\ OnePollAtATime
  BY DEF FeedOrder
<1>7. shown \subseteq shown'
  BY <1>2
<1>8. CursorsPassable'
  <2>1. PassableThen(sinceEventId', shown')
    <3>1. CASE answer = <<>>
      <4>1. PassableThen(sinceEventId, shown)
        BY <1>5, <1>6 DEF CursorsPassable
      <4> QED
        BY <1>2, <1>7, <3>1, <4>1, PassableMore
    <3>2. CASE answer # <<>>
      BY <1>1, <1>2, <1>5, <1>6, <3>2 DEF CursorsPassable
    <3> QED
      BY <3>1, <3>2
  <2>2. ASSUME NEW q \in Poll, polls'[q].at # "none"
        PROVE  PassableThen(polls'[q].since, shown')
    <3>1. polls'[q] = polls[q]
      BY <1>3, <2>2
    <3>2. PassableThen(polls[q].since, shown)
      BY <1>5, <1>6, <2>2, <3>1 DEF CursorsPassable
    <3> QED
      BY <1>7, <3>1, <3>2, PassableMore
  <2>3. ASSUME NEW q \in Poll, polls'[q].events # <<>>
        PROVE  /\ PassableThen(Last(polls'[q].events).id, shown' \cup ToSet(polls'[q].events))
               /\ \A e \in ToSet(polls'[q].events) :
                    polls'[q].since < e.id /\ e.id <= Last(polls'[q].events).id
    <3>1. polls'[q] = polls[q]
      BY <1>3, <2>3
    <3>2. /\ PassableThen(Last(polls[q].events).id, shown \cup ToSet(polls[q].events))
          /\ \A e \in ToSet(polls[q].events) :
                    polls[q].since < e.id /\ e.id <= Last(polls[q].events).id
      BY <1>5, <1>6, <2>3, <3>1 DEF CursorsPassable
    <3>3. shown \cup ToSet(polls[q].events) \subseteq shown' \cup ToSet(polls[q].events)
      BY <1>7
    <3> QED
      BY <3>1, <3>2, <3>3, PassableMore
  <2> QED
    BY <2>1, <2>2, <2>3, CursorsThen
<1>9. OnePollAtATime'
  <2> SUFFICES ASSUME ~overlap'
               PROVE  /\ \A q, r \in Poll : polls'[q].at # "none" /\ polls'[r].at # "none" => q = r
                      /\ \A q \in Poll : polls'[q].at # "none" => polls'[q].since = sinceEventId'
                      /\ \A e \in shown' : e.id <= sinceEventId'
    BY DEF OnePollAtATime
  <2>1. /\ \A q, r \in Poll : polls[q].at # "none" /\ polls[r].at # "none" => q = r
        /\ polls[p].since = sinceEventId
        /\ \A e \in shown : e.id <= sinceEventId
    BY <1>2, <1>6 DEF OnePollAtATime
  <2>2. \A q \in Poll : polls'[q].at = "none"
    BY <1>2, <1>3, <2>1
  <2>3. \A e \in shown' : e.id <= sinceEventId'
    <3>1. CASE answer = <<>>
      <4>1. ToSet(answer) = {}
        BY <1>4, <3>1, SetOfSome
      <4> QED
        BY <1>2, <2>1, <3>1, <4>1
    <3>2. CASE answer # <<>>
      <4>1. \A e \in ToSet(answer) : sinceEventId < e.id /\ e.id <= Last(answer).id
        BY <1>1, <1>6, <2>1, <3>2 DEF CursorsPassable
      <4>2. Last(answer) \in ToSet(answer) /\ Last(answer) \in Value
        BY <1>4, <3>2, SetOfSome
      <4>3. Last(answer).id \in Nat /\ sinceEventId < Last(answer).id
        BY <4>1, <4>2 DEF Value
      <4>4. ASSUME NEW e \in shown
            PROVE  e.id <= Last(answer).id
        <5>1. e.id \in Nat /\ e.id <= sinceEventId
          BY <2>1, <4>4 DEF FeedTypes, Value
        <5> QED
          BY <1>2, <4>3, <5>1
      <4> QED
        BY <1>2, <3>2, <4>1, <4>4
    <3> QED
      BY <3>1, <3>2
  <2> QED
    BY <2>2, <2>3
<1> QED
  BY <1>5, <1>8, <1>9 DEF FeedOrder

LEMMA FailOrder ==
    ASSUME Types, IdsAreFresh, FeedTypes, FeedOrder, NEW p \in Poll, PollFails(p)
    PROVE  FeedOrder'
<1>1. /\ polls \in [Poll -> Polls]
      /\ UNCHANGED journalVars /\ UNCHANGED <<sinceEventId, shown, overlap>>
      /\ polls' = [polls EXCEPT ![p] = NoPoll]
  BY DEF PollFails, FeedTypes, Polls
<1>2. /\ polls'[p].at = "none" /\ polls'[p].events = <<>>
      /\ \A q \in Poll \ {p} : polls'[q] = polls[q]
  BY <1>1 DEF NoPoll
<1>3. /\ JournalInOrder' /\ \A id, seen : Passable(id, seen) => PassableThen(id, seen)
  BY <1>1, PageStep
<1>4. CursorsPassable /\ OnePollAtATime
  BY DEF FeedOrder
<1>5. CursorsPassable'
  <2>1. PassableThen(sinceEventId', shown')
    BY <1>1, <1>3, <1>4 DEF CursorsPassable
  <2>2. ASSUME NEW q \in Poll, polls'[q].at # "none"
        PROVE  PassableThen(polls'[q].since, shown')
    <3>1. polls'[q] = polls[q]
      BY <1>2, <2>2
    <3> QED
      BY <1>1, <1>3, <1>4, <2>2, <3>1 DEF CursorsPassable
  <2>3. ASSUME NEW q \in Poll, polls'[q].events # <<>>
        PROVE  /\ PassableThen(Last(polls'[q].events).id, shown' \cup ToSet(polls'[q].events))
               /\ \A e \in ToSet(polls'[q].events) :
                    polls'[q].since < e.id /\ e.id <= Last(polls'[q].events).id
    <3>1. polls'[q] = polls[q]
      BY <1>2, <2>3
    <3> QED
      BY <1>1, <1>3, <1>4, <2>3, <3>1 DEF CursorsPassable
  <2> QED
    BY <2>1, <2>2, <2>3, CursorsThen
<1>6. OnePollAtATime'
  <2>1. \A q \in Poll : polls'[q].at # "none" => polls'[q] = polls[q]
    BY <1>2
  <2> QED
    BY <1>1, <1>4, <2>1 DEF OnePollAtATime
<1> QED
  BY <1>3, <1>5, <1>6 DEF FeedOrder

\* What the gateway does while the page waits.
LEMMA JournalStep ==
    ASSUME Types, Types', Fitting, NobodyElse, IdsAreFresh, FeedTypes, FeedOrder,
           JournalNext, UNCHANGED feedVars, clean'
    PROVE  FeedOrder'
<1>1. JournalInOrder' /\ Grows /\ Adds
  BY OrderInvariant DEF FeedOrder
<1>2. UNCHANGED <<sinceEventId, polls, shown, overlap>>
  BY DEF feedVars
<1>3. CursorsPassable'
  BY <1>1, <1>2, CursorsStay, CursorsThen DEF FeedOrder
<1>4. OnePollAtATime'
  BY <1>2 DEF OnePollAtATime, FeedOrder
<1> QED
  BY <1>1, <1>3, <1>4 DEF FeedOrder

LEMMA FeedTypesKept ==
    ASSUME Types, FeedTypes, [Next]_vars
    PROVE  FeedTypes'
<1>0. polls \in [Poll -> Polls] /\ sinceEventId \in Nat /\ shown \subseteq Value
  BY DEF FeedTypes, Polls
<1>1. CASE UNCHANGED feedVars
  BY <1>1 DEF feedVars, FeedTypes
<1>2. CASE UNCHANGED vars
  BY <1>1, <1>2 DEF vars
<1>3. ASSUME NEW p \in Poll, Ask(p)
      PROVE  FeedTypes'
  <2>1. [at |-> "sent", since |-> sinceEventId, events |-> <<>>] \in Polls
    BY <1>0 DEF Polls
  <2>2. polls' \in [Poll -> Polls]
    BY <1>0, <1>3, <2>1 DEF Ask
  <2>3. overlap' \in BOOLEAN
    BY <1>3 DEF Ask, FeedTypes
  <2> QED
    BY <1>0, <1>3, <2>2, <2>3 DEF Ask, FeedTypes, Polls
<1>4. ASSUME NEW p \in Poll, Answer(p)
      PROVE  FeedTypes'
  <2>1. polls' \in [Poll -> Polls]
    BY <1>4, AnswerTypes
  <2> QED
    BY <1>4, <2>1 DEF Answer, FeedTypes, Polls
<1>5. NoPoll \in Polls
  BY DEF NoPoll, Polls
<1>6. ASSUME NEW p \in Poll, Show(p)
      PROVE  FeedTypes'
  <2>1. PICK answer : answer = polls[p].events
    OBVIOUS
  <2>2. answer \in Seq(Value)
    BY <1>0, <2>1 DEF Polls
  <2>3. ToSet(answer) \subseteq Value /\ (answer # <<>> => Last(answer) \in Value)
    BY <2>2, SetOfSome
  <2>4. shown' \subseteq Value /\ sinceEventId' \in Nat
    <3>1. answer # <<>> => Last(answer).id \in Nat
      BY <2>3 DEF Value
    <3> QED
      BY <1>0, <1>6, <2>1, <2>3, <3>1 DEF Show
  <2>5. polls' \in [Poll -> Polls] /\ overlap' = overlap
    BY <1>0, <1>5, <1>6 DEF Show
  <2> QED
    BY <2>4, <2>5 DEF FeedTypes, Polls
<1>7. ASSUME NEW p \in Poll, PollFails(p)
      PROVE  FeedTypes'
  <2>1. polls' \in [Poll -> Polls] /\ UNCHANGED <<sinceEventId, shown, overlap>>
    BY <1>0, <1>5, <1>7 DEF PollFails
  <2> QED
    BY <2>1 DEF FeedTypes, Polls
<1> QED
  BY <1>1, <1>2, <1>3, <1>4, <1>6, <1>7 DEF Next

FeedInv ==
    /\ Invariant /\ FeedTypes
    /\ clean => FeedOrder

LEMMA FeedAtFirst ==
    Init => FeedInv
<1> SUFFICES ASSUME Init
             PROVE  FeedInv
  OBVIOUS
<1>1. Invariant
  BY AtFirst DEF Init
<1>2. FeedTypes
  <2>1. NoPoll \in Polls
    BY DEF NoPoll, Polls
  <2> QED
    BY <2>1 DEF Init, FeedTypes, Polls
<1>3. /\ phase = "down" /\ events = <<>> /\ run = 0 /\ file["events"] = <<>>
      /\ \A t \in Task : Idle(t)
  <2>1. "events" \in File
    BY DEF File
  <2> QED
    BY <2>1 DEF Init, JournalInit, Idle
<1>4. journal = <<>> /\ ToSet(journal) = {}
  <2>1. journal = <<>>
    BY <1>3, ValuesOfNone DEF journal, load_json_lines
  <2> QED
    BY <2>1, SetOfNone
<1>5. Unwritten = {} /\ Given = {} /\ NextId = 1
  <2>1. Unwritten = {}
    BY <1>3, UnwrittenIs DEF Unwritten1, At
  <2> QED
    BY <1>3, <1>4, <2>1 DEF Given, NextId
<1>6. JournalInOrder
  <2>1. Cardinality(Unwritten) = 0 /\ Len(journal) = 0
    BY <1>4, <1>5, FS_EmptySet
  <2>2. Len(journal) + Cardinality(Unwritten) = NextId - 1
    BY <1>5, <2>1
  <2>3. OneLineEach
    BY <1>4, <1>5, <2>2 DEF OneLineEach
  <2> QED
    BY <1>3, <2>3 DEF JournalInOrder, MemoryIsInOrder, OnlyOldForgotten
<1>7. /\ sinceEventId = 0 /\ overlap = FALSE /\ shown = {}
      /\ \A p \in Poll : polls[p].at = "none" /\ polls[p].events = <<>>
  BY DEF Init, NoPoll
<1>8. CursorsPassable
  BY <1>5, <1>7 DEF CursorsPassable, Passable
<1>9. OnePollAtATime
  BY <1>7 DEF OnePollAtATime
<1> QED
  BY <1>1, <1>2, <1>6, <1>8, <1>9 DEF FeedInv, FeedOrder

LEMMA FeedKept ==
    ASSUME FeedInv, [Next]_vars
    PROVE  FeedInv'
<1>1. Invariant /\ FeedTypes /\ Types /\ Fitting /\ NobodyElse
  BY DEF FeedInv, Invariant
<1>2. [JournalNext]_journalVars
  BY DEF Next, vars, Ask, Answer, Show, PollFails
<1>3. Invariant' /\ Types'
  BY <1>1, <1>2, InvariantKept DEF Invariant
<1>4. FeedTypes'
  BY <1>1, FeedTypesKept
<1>5. ASSUME clean'
      PROVE  FeedOrder'
  <2>1. clean
    <3>1. CASE JournalNext
      BY <1>5, <3>1, StaysClean
    <3>2. CASE UNCHANGED journalVars
      BY <1>5, <3>2 DEF journalVars
    <3> QED
      BY <1>2, <3>1, <3>2
  <2>2. IdsAreFresh /\ FeedOrder
    BY <2>1 DEF FeedInv, Invariant
  <2>3. CASE JournalNext /\ UNCHANGED feedVars
    BY <1>1, <1>3, <1>5, <2>2, <2>3, JournalStep
  <2>4. ASSUME NEW p \in Poll, Ask(p) \/ Answer(p) \/ Show(p) \/ PollFails(p)
        PROVE  FeedOrder'
    BY <1>1, <2>2, <2>4, AskOrder, AnswerOrder, ShowOrder, FailOrder
  <2>5. CASE UNCHANGED vars
    <3>1. UNCHANGED journalVars /\ UNCHANGED <<sinceEventId, polls, shown, overlap>>
      BY <2>5 DEF vars, feedVars
    <3>2. Grows /\ Adds /\ JournalInOrder'
      BY <1>1, <2>2, <3>1, RestIsQuiet, QuietGrows, QuietKeepsOrder DEF FeedOrder
    <3>3. CursorsPassable'
      BY <1>1, <1>3, <2>2, <3>1, <3>2, CursorsStay, CursorsThen DEF FeedOrder
    <3>4. OnePollAtATime'
      BY <2>2, <3>1 DEF OnePollAtATime, FeedOrder
    <3> QED
      BY <3>2, <3>3, <3>4 DEF FeedOrder
  <2> QED
    BY <2>3, <2>4, <2>5 DEF Next
<1> QED
  BY <1>3, <1>4, <1>5 DEF FeedInv

LEMMA FeedInvHolds ==
    Spec => []FeedInv
<1>1. FeedInv /\ [Next]_vars => FeedInv'
  BY FeedKept
<1> QED
  BY <1>1, FeedAtFirst, PTL DEF Spec

\* The inductive invariant of the page on its journal: as long as every run was stopped in
\* order, the memory holds the end of the journal, each event is on one line, and no cursor
\* is ahead of what was shown but for events that are old by then.
THEOREM FeedInvariantHolds == Spec => []FeedInvariant
<1>1. FeedInv => FeedInvariant
  BY InvariantImplies
     DEF FeedInv, FeedInvariant, FeedOrder, FeedTypes, FeedTypeOK, JournalInvariant
<1> QED
  BY <1>1, FeedInvHolds, PTL

\* Every variable of the journal and of the page keeps to its type, whatever is killed,
\* fails or overlaps.
THEOREM FeedTypeCorrect == Spec => []FeedTypeOK
<1>1. FeedInvariant => FeedTypeOK
  BY DEF FeedInvariant
<1> QED
  BY <1>1, FeedInvariantHolds, PTL

\* The page never passes one of the last MAX_EVENTS events without showing it, for any
\* number of polls under way, of tasks that record, and of orderly restarts (poll of
\* app.js, events_since, record_event, start).
THEOREM CursorNeverPasses == Spec => []CursorPassesNothing
<1>1. FeedInv => CursorPassesNothing
  <2> SUFFICES ASSUME FeedInv, clean, NEW i \in DOMAIN events,
                      events[i].id <= sinceEventId,
                      next_event_id - events[i].id <= MAX_EVENTS,
                      Len(events) - i < MAX_EVENTS
               PROVE  events[i] \in shown
    BY DEF CursorPassesNothing
  <2>1. /\ Types /\ FeedTypes /\ OneLineEach /\ MemoryIsInOrder /\ NobodyElse
        /\ Passable(sinceEventId, shown)
    BY DEF FeedInv, Invariant, FeedOrder, JournalInOrder, CursorsPassable
  <2>2. /\ events \in Seq(Value) /\ next_event_id \in Nat \ {0} /\ run \in Nat
        /\ MAX_EVENTS \in Nat \ {0} /\ sinceEventId \in Nat
    BY <2>1, JournalAssumption DEF Types, FeedTypes
  <2>3. i \in 1..Len(events) /\ Len(events) \in Nat /\ events[i] \in Value
    BY <2>2
  <2>4. phase # "down"
    <3>1. events # <<>>
      BY <2>3
    <3> QED
      BY <2>1, <3>1 DEF NobodyElse
  <2>5. events[i] \in Given /\ InPlace(i) /\ NextId = next_event_id
    <3>1. events[i] \in ToSet(events)
      BY <2>3 DEF ToSet
    <3> QED
      BY <2>1, <2>4, <3>1, NextIdUp DEF MemoryIsInOrder
  <2>6. PICK e, k : e = events[i] /\ k = Place(i)
    OBVIOUS
  <2>7. /\ e \in Given /\ e.id \in Nat /\ e.run \in Nat
        /\ e.id <= sinceEventId /\ next_event_id - e.id <= MAX_EVENTS
    BY <2>3, <2>5, <2>6 DEF Value
  <2>8. ~(e.id + MAX_EVENTS < NextId)
    BY <2>2, <2>5, <2>7
  <2>9. ASSUME e.run < run, NEW j \in DOMAIN journal, journal[j] = e, j + MAX_EVENTS < NextId
        PROVE  FALSE
    <3>1. k \in DOMAIN journal /\ journal[k] = e
      BY <2>2, <2>5, <2>6, <2>7, <2>9 DEF InPlace
    <3>2. j = k
      BY <2>1, <2>9, <3>1 DEF OneLineEach
    <3>3. DOMAIN journal = 1..Len(journal)
      BY <2>1, JournalIs
    <3>4. k = (next_event_id - 1) - (Len(events) - i)
      BY <2>6 DEF Place
    <3>5. k + MAX_EVENTS >= next_event_id
      BY <2>2, <2>3, <3>4
    <3> QED
      BY <2>2, <2>3, <2>5, <2>9, <3>2, <3>4, <3>5
  <2>10. ~Old(e)
    BY <2>8, <2>9 DEF Old
  <2>11. e \in shown
    BY <2>1, <2>7, <2>10 DEF Passable
  <2> QED
    BY <2>6, <2>11
<1> QED
  BY <1>1, FeedInvHolds, PTL

\* A page whose polls never overlapped shows nothing twice and never moves its cursor back,
\* as long as the gateway was not killed: a poll answers with what is after the cursor it
\* was sent with, and that is still the cursor when the answer is shown.
THEOREM RepeatsNeedTwoPolls == Spec => RepeatsNeedOverlap
<1> DEFINE Good == \A p \in Poll :
                      (Show(p) /\ clean /\ ~overlap) =>
                          /\ ToSet(polls[p].events) \cap shown = {}
                          /\ sinceEventId' >= sinceEventId
<1>1. FeedInv => Good
  <2> SUFFICES ASSUME FeedInv, NEW p \in Poll, Show(p), clean, ~overlap
               PROVE  /\ ToSet(polls[p].events) \cap shown = {}
                      /\ sinceEventId' >= sinceEventId
    OBVIOUS
  <2>1. FeedTypes /\ CursorsPassable /\ OnePollAtATime
    BY DEF FeedInv, FeedOrder
  <2>2. PICK answer : answer = polls[p].events
    OBVIOUS
  <2>3. /\ answer \in Seq(Value) /\ polls[p].since = sinceEventId
        /\ sinceEventId \in Nat /\ shown \subseteq Value
        /\ \A e \in shown : e.id <= sinceEventId
        /\ sinceEventId' = IF answer = <<>> THEN sinceEventId ELSE Last(answer).id
    BY <2>1, <2>2 DEF OnePollAtATime, FeedTypes, Show
  <2>4. CASE answer = <<>>
    <3>1. ToSet(answer) = {}
      BY <2>3, <2>4, SetOfSome
    <3> QED
      BY <2>2, <2>3, <2>4, <3>1
  <2>5. CASE answer # <<>>
    <3>1. \A e \in ToSet(answer) : sinceEventId < e.id
      BY <2>1, <2>2, <2>3, <2>5 DEF CursorsPassable
    <3>2. Last(answer) \in ToSet(answer) /\ Last(answer) \in Value
      BY <2>3, <2>5, SetOfSome
    <3>3. sinceEventId' >= sinceEventId
      BY <2>3, <2>5, <3>1, <3>2 DEF Value
    <3>4. ASSUME NEW e \in ToSet(answer), e \in shown
          PROVE  FALSE
      BY <2>3, <3>1, <3>4 DEF Value
    <3> QED
      BY <2>2, <3>3, <3>4
  <2> QED
    BY <2>4, <2>5
<1>2. RepeatsNeedOverlap <=> [][Good]_vars
  BY DEF RepeatsNeedOverlap
<1> HIDE DEF Good
<1> QED
  BY <1>1, <1>2, FeedInvHolds, PTL
=============================================================================
