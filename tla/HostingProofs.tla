---------------------------- MODULE HostingProofs ----------------------------
(***************************************************************************)
(* Proofs about Hosting, for any threads, programs, configurations and     *)
(* number of calls: the inductive invariant HostingInvariant, and with it  *)
(* the safety properties of the module.                                    *)
(*                                                                         *)
(* The steps that are left of a call are in a fixed order and without      *)
(* repetition, so that the set of them (Left) says all there is to know.   *)
(* The first part is about sequences of steps; each action then adds to    *)
(* these sets, or takes the first step away.                               *)
(***************************************************************************)
EXTENDS Hosting, SequenceTheorems, TLAPS

-----------------------------------------------------------------------------
(* Steps in order.                                                         *)

LEMMA StepNames ==
    StepName = {"ui", "hub", "discovery", "direct", "load", "register", "lock",
                "close_ui", "drain_ui", "close_direct", "drain_loops", "farewell",
                "close_hub", "drop", "install", "unlock", "read", "serve"}
BY DEF StepName, Rank

LEMMA NamedSteps ==
    /\ "ui" \in StepName /\ "hub" \in StepName /\ "discovery" \in StepName
    /\ "direct" \in StepName /\ "load" \in StepName /\ "register" \in StepName
    /\ "lock" \in StepName /\ "close_ui" \in StepName /\ "drain_ui" \in StepName
    /\ "close_direct" \in StepName /\ "drain_loops" \in StepName
    /\ "farewell" \in StepName /\ "close_hub" \in StepName /\ "drop" \in StepName
    /\ "install" \in StepName /\ "unlock" \in StepName /\ "read" \in StepName
    /\ "serve" \in StepName
BY StepNames

LEMMA Ranks ==
    /\ Rank["ui"] = 1 /\ Rank["hub"] = 2 /\ Rank["discovery"] = 3 /\ Rank["direct"] = 4
    /\ Rank["load"] = 5 /\ Rank["register"] = 6 /\ Rank["lock"] = 7
    /\ Rank["close_ui"] = 8 /\ Rank["drain_ui"] = 9 /\ Rank["close_direct"] = 10
    /\ Rank["drain_loops"] = 11 /\ Rank["farewell"] = 12 /\ Rank["close_hub"] = 13
    /\ Rank["drop"] = 14 /\ Rank["install"] = 15 /\ Rank["unlock"] = 16
    /\ Rank["read"] = 17 /\ Rank["serve"] = 18
BY DEF Rank

LEMMA StoppingRanks == \A x \in StopSteps \cup {"drop"} : Rank[x] \in 8..14
<1>1. \A x \in StopSteps \cup {"drop"} :
          \/ x = "close_ui" \/ x = "drain_ui" \/ x = "close_direct" \/ x = "drain_loops"
          \/ x = "farewell" \/ x = "close_hub" \/ x = "drop"
  BY DEF StopSteps
<1> QED
  BY <1>1, Ranks

LEMMA LastRanks == \A x \in {"install", "unlock", "read", "serve"} : Rank[x] \in 15..18
<1>1. \A x \in {"install", "unlock", "read", "serve"} :
          x = "install" \/ x = "unlock" \/ x = "read" \/ x = "serve"
  OBVIOUS
<1> QED
  BY <1>1, Ranks

LEMMA RanksAreNumbers == \A x \in StepName : Rank[x] \in Nat
BY StepNames, Ranks

LEMMA RangeIs ==
    ASSUME NEW s \in Seq(StepName)
    PROVE  /\ Range(s) \subseteq StepName
           /\ \A i \in DOMAIN s : s[i] \in Range(s)
           /\ \A x \in Range(s) : \E i \in DOMAIN s : s[i] = x
           /\ Range(s) = {} <=> s = <<>>
           /\ s # <<>> => Head(s) \in Range(s)
<1>1. /\ \A i \in DOMAIN s : s[i] \in StepName
      /\ s = <<>> <=> DOMAIN s = {}
      /\ s # <<>> => 1 \in DOMAIN s /\ Head(s) = s[1]
  OBVIOUS
<1>2. \A x : x \in Range(s) <=> \E i \in DOMAIN s : s[i] = x
  BY DEF Range
<1> QED
  BY <1>1, <1>2

\* Taking the first step leaves the others, which are later ones.
LEMMA TailOf ==
    ASSUME NEW s \in Seq(StepName), s # <<>>, InOrder(s)
    PROVE  /\ Tail(s) \in Seq(StepName) /\ InOrder(Tail(s))
           /\ Range(Tail(s)) = Range(s) \ {Head(s)}
           /\ \A x \in Range(Tail(s)) : Rank[Head(s)] < Rank[x]
<1>1. /\ Tail(s) \in Seq(StepName) /\ Len(Tail(s)) = Len(s) - 1
      /\ \A i \in 1..Len(s) - 1 : Tail(s)[i] = s[i + 1]
      /\ Len(s) \in Nat \ {0} /\ DOMAIN s = 1..Len(s) /\ Head(s) = s[1]
      /\ DOMAIN Tail(s) = 1..Len(s) - 1
  OBVIOUS
<1>2. InOrder(Tail(s))
  BY <1>1 DEF InOrder
<1>3. ASSUME NEW i \in 1..Len(s) - 1
      PROVE  Rank[Head(s)] < Rank[Tail(s)[i]] /\ Tail(s)[i] \in Range(s)
  BY <1>1 DEF InOrder, Range
<1>4. \A x \in Range(Tail(s)) : Rank[Head(s)] < Rank[x] /\ x \in Range(s)
  BY <1>1, <1>3 DEF Range
<1>5. \A x \in Range(s) \ {Head(s)} : x \in Range(Tail(s))
  <2> SUFFICES ASSUME NEW x \in Range(s), x # Head(s) PROVE x \in Range(Tail(s))
    OBVIOUS
  <2>1. PICK i \in 1..Len(s) : s[i] = x
    BY <1>1 DEF Range
  <2>2. i - 1 \in 1..Len(s) - 1 /\ Tail(s)[i - 1] = x
    BY <2>1, <1>1
  <2> QED
    BY <2>2, <1>1 DEF Range
<1>6. Rank[Head(s)] \in Nat
  BY <1>1, RanksAreNumbers
<1> QED
  BY <1>1, <1>2, <1>4, <1>5, <1>6

\* One sequence of steps after another.
LEMMA JoinOf ==
    ASSUME NEW s \in Seq(StepName), NEW t \in Seq(StepName), InOrder(s), InOrder(t),
           \A x \in Range(s), y \in Range(t) : Rank[x] < Rank[y]
    PROVE  /\ s \o t \in Seq(StepName) /\ InOrder(s \o t)
           /\ Range(s \o t) = Range(s) \cup Range(t)
<1>1. /\ s \o t \in Seq(StepName) /\ Len(s \o t) = Len(s) + Len(t)
      /\ DOMAIN (s \o t) = 1..Len(s) + Len(t)
      /\ \A i \in 1..Len(s) + Len(t) :
            (s \o t)[i] = IF i <= Len(s) THEN s[i] ELSE t[i - Len(s)]
      /\ Len(s) \in Nat /\ DOMAIN s = 1..Len(s)
      /\ Len(t) \in Nat /\ DOMAIN t = 1..Len(t)
  OBVIOUS
<1>2. \A i \in 1..Len(s) : (s \o t)[i] = s[i]
  BY <1>1
<1>3. \A i \in 1..Len(t) : (s \o t)[Len(s) + i] = t[i]
  BY <1>1
<1>4. \A i \in 1..Len(s) + Len(t) : i \notin 1..Len(s) => i - Len(s) \in 1..Len(t)
  BY <1>1
<1>5. \A i \in 1..Len(s) + Len(t) : i \notin 1..Len(s) => (s \o t)[i] = t[i - Len(s)]
  BY <1>1
<1>6. InOrder(s \o t)
  <2> SUFFICES ASSUME NEW i \in 1..Len(s) + Len(t), NEW j \in 1..Len(s) + Len(t), i < j
               PROVE  Rank[(s \o t)[i]] < Rank[(s \o t)[j]]
    BY <1>1 DEF InOrder
  <2>1. CASE j \in 1..Len(s)
    BY <2>1, <1>1, <1>2 DEF InOrder
  <2>2. CASE i \in 1..Len(s) /\ j \notin 1..Len(s)
    BY <2>2, <1>1, <1>2, <1>4, <1>5 DEF Range
  <2>3. CASE i \notin 1..Len(s)
    <3>1. j \notin 1..Len(s)
      BY <2>3, <1>1
    <3>2. /\ i - Len(s) \in 1..Len(t) /\ j - Len(s) \in 1..Len(t)
          /\ i - Len(s) < j - Len(s)
      BY <2>3, <3>1, <1>1, <1>4
    <3> QED
      BY <2>3, <3>1, <3>2, <1>1, <1>5 DEF InOrder
  <2> QED
    BY <2>1, <2>2, <2>3
<1>7. Range(s \o t) \subseteq Range(s) \cup Range(t)
  BY <1>1, <1>2, <1>4, <1>5 DEF Range
<1>8. Range(s) \subseteq Range(s \o t)
  BY <1>1, <1>2 DEF Range
<1>9. Range(t) \subseteq Range(s \o t)
  <2> SUFFICES ASSUME NEW i \in 1..Len(t) PROVE t[i] \in Range(s \o t)
    BY <1>1 DEF Range
  <2>1. Len(s) + i \in DOMAIN (s \o t) /\ (s \o t)[Len(s) + i] = t[i]
    BY <1>1, <1>3
  <2> QED
    BY <2>1 DEF Range
<1> QED
  BY <1>1, <1>6, <1>7, <1>8, <1>9

LEMMA NoSteps == <<>> \in Seq(StepName) /\ InOrder(<<>>) /\ Range(<<>>) = {}
BY DEF InOrder, Range

LEMMA OneStep ==
    ASSUME NEW a \in StepName
    PROVE  /\ <<a>> \in Seq(StepName) /\ <<a>> # <<>> /\ InOrder(<<a>>)
           /\ Range(<<a>>) = {a}
BY DEF InOrder, Range

LEMMA TwoSteps ==
    ASSUME NEW a \in StepName, NEW b \in StepName, Rank[a] < Rank[b]
    PROVE  /\ <<a, b>> \in Seq(StepName) /\ <<a, b>> # <<>> /\ InOrder(<<a, b>>)
           /\ Range(<<a, b>>) = {a, b}
BY DEF InOrder, Range

LEMMA ThreeSteps ==
    ASSUME NEW a \in StepName, NEW b \in StepName, NEW c \in StepName,
           Rank[a] < Rank[b], Rank[b] < Rank[c]
    PROVE  /\ <<a, b, c>> \in Seq(StepName) /\ InOrder(<<a, b, c>>)
           /\ Range(<<a, b, c>>) = {a, b, c}
<1>1. Rank[a] < Rank[c]
  BY RanksAreNumbers
<1>2. \A i \in 1..3 : i = 1 \/ i = 2 \/ i = 3
  OBVIOUS
<1> QED
  BY <1>1, <1>2 DEF InOrder, Range

HubSteps(m, steps) == IF runs_hub(m) THEN steps ELSE {}
GatewaySteps(m, steps) == IF runs_gateway(m) THEN steps ELSE {}

\* What a start still has to do when it begins, and a stop.
LEMMA StartOf ==
    ASSUME NEW m
    PROVE  /\ start(m) \in Seq(StepName) /\ InOrder(start(m))
           /\ Range(start(m)) = HubSteps(m, {"hub", "discovery"})
                                    \cup GatewaySteps(m, {"direct", "load", "register"})
<1> DEFINE s == Steps(runs_hub(m), <<"hub", "discovery">>)
           t == Steps(runs_gateway(m), <<"direct", "load", "register">>)
<1>1. /\ s \in Seq(StepName) /\ InOrder(s)
      /\ Range(s) = HubSteps(m, {"hub", "discovery"})
  <2>1. /\ <<"hub", "discovery">> \in Seq(StepName)
        /\ InOrder(<<"hub", "discovery">>)
        /\ Range(<<"hub", "discovery">>) = {"hub", "discovery"}
    BY TwoSteps, NamedSteps, Ranks
  <2>2. CASE runs_hub(m)
    BY <2>1, <2>2 DEF Steps, HubSteps
  <2>3. CASE ~runs_hub(m)
    BY NoSteps, <2>3 DEF Steps, HubSteps
  <2> QED
    BY <2>2, <2>3
<1>2. /\ t \in Seq(StepName) /\ InOrder(t)
      /\ Range(t) = GatewaySteps(m, {"direct", "load", "register"})
  <2>1. /\ <<"direct", "load", "register">> \in Seq(StepName)
        /\ InOrder(<<"direct", "load", "register">>)
        /\ Range(<<"direct", "load", "register">>) = {"direct", "load", "register"}
    BY ThreeSteps, NamedSteps, Ranks
  <2>2. CASE runs_gateway(m)
    BY <2>1, <2>2 DEF Steps, GatewaySteps
  <2>3. CASE ~runs_gateway(m)
    BY NoSteps, <2>3 DEF Steps, GatewaySteps
  <2> QED
    BY <2>2, <2>3
<1>3. \A x \in Range(s), y \in Range(t) : Rank[x] < Rank[y]
  <2>1. \A x \in Range(s) : x \in {"hub", "discovery"}
    BY <1>1 DEF HubSteps
  <2>2. \A y \in Range(t) : y \in {"direct", "load", "register"}
    BY <1>2 DEF GatewaySteps
  <2>3. \A x \in Range(s) : Rank[x] \in 2..3
    BY <2>1, Ranks
  <2>4. \A y \in Range(t) : Rank[y] \in 4..6
    BY <2>2, Ranks
  <2> QED
    BY <2>3, <2>4
<1>4. start(m) = s \o t
  BY DEF start
<1> HIDE DEF s, t
<1> QED
  BY <1>1, <1>2, <1>3, <1>4, JoinOf

LEMMA StopOf ==
    ASSUME NEW m
    PROVE  /\ stop(m) \in Seq(StepName) /\ InOrder(stop(m))
           /\ Range(stop(m)) =
                 GatewaySteps(m, {"close_direct", "drain_loops", "farewell"})
                     \cup HubSteps(m, {"close_hub"})
<1> DEFINE s == Steps(runs_gateway(m), <<"close_direct", "drain_loops", "farewell">>)
           t == Steps(runs_hub(m), <<"close_hub">>)
<1>1. /\ s \in Seq(StepName) /\ InOrder(s)
      /\ Range(s) = GatewaySteps(m, {"close_direct", "drain_loops", "farewell"})
  <2>1. /\ <<"close_direct", "drain_loops", "farewell">> \in Seq(StepName)
        /\ InOrder(<<"close_direct", "drain_loops", "farewell">>)
        /\ Range(<<"close_direct", "drain_loops", "farewell">>) = {"close_direct", "drain_loops", "farewell"}
    BY ThreeSteps, NamedSteps, Ranks
  <2>2. CASE runs_gateway(m)
    BY <2>1, <2>2 DEF Steps, GatewaySteps
  <2>3. CASE ~runs_gateway(m)
    BY NoSteps, <2>3 DEF Steps, GatewaySteps
  <2> QED
    BY <2>2, <2>3
<1>2. /\ t \in Seq(StepName) /\ InOrder(t)
      /\ Range(t) = HubSteps(m, {"close_hub"})
  <2>1. /\ <<"close_hub">> \in Seq(StepName)
        /\ InOrder(<<"close_hub">>)
        /\ Range(<<"close_hub">>) = {"close_hub"}
    BY OneStep, NamedSteps, Ranks
  <2>2. CASE runs_hub(m)
    BY <2>1, <2>2 DEF Steps, HubSteps
  <2>3. CASE ~runs_hub(m)
    BY NoSteps, <2>3 DEF Steps, HubSteps
  <2> QED
    BY <2>2, <2>3
<1>3. \A x \in Range(s), y \in Range(t) : Rank[x] < Rank[y]
  <2>1. \A x \in Range(s) : x \in {"close_direct", "drain_loops", "farewell"}
    BY <1>1 DEF GatewaySteps
  <2>2. \A y \in Range(t) : y \in {"close_hub"}
    BY <1>2 DEF HubSteps
  <2>3. \A x \in Range(s) : Rank[x] \in 10..12
    BY <2>1, Ranks
  <2>4. \A y \in Range(t) : Rank[y] \in 13..13
    BY <2>2, Ranks
  <2> QED
    BY <2>3, <2>4
<1>4. stop(m) = s \o t
  BY DEF stop
<1> HIDE DEF s, t
<1> QED
  BY <1>1, <1>2, <1>3, <1>4, JoinOf

StoppingSteps(m) ==
    {"drop"} \cup GatewaySteps(m, {"close_direct", "drain_loops", "farewell"})
             \cup HubSteps(m, {"close_hub"})

LEMMA StopAndDropOf ==
    ASSUME NEW m
    PROVE  /\ stop(m) \o <<"drop">> \in Seq(StepName) /\ InOrder(stop(m) \o <<"drop">>)
           /\ Range(stop(m) \o <<"drop">>) = StoppingSteps(m)
<1>1. <<"drop">> \in Seq(StepName) /\ InOrder(<<"drop">>) /\ Range(<<"drop">>) = {"drop"}
  BY OneStep, NamedSteps
<1>2. \A x \in Range(stop(m)), y \in Range(<<"drop">>) : Rank[x] < Rank[y]
  <2>1. \A x \in Range(stop(m)) : x \in {"close_direct", "drain_loops", "farewell", "close_hub"}
    BY StopOf DEF HubSteps, GatewaySteps
  <2>2. \A y \in Range(<<"drop">>) : y \in {"drop"}
    BY <1>1
  <2>3. \A x \in Range(stop(m)) : Rank[x] \in 10..13
    BY <2>1, Ranks
  <2>4. \A y \in Range(<<"drop">>) : Rank[y] \in 14..14
    BY <2>2, Ranks
  <2> QED
    BY <2>3, <2>4
<1>3. /\ stop(m) \o <<"drop">> \in Seq(StepName) /\ InOrder(stop(m) \o <<"drop">>)
      /\ Range(stop(m) \o <<"drop">>) = Range(stop(m)) \cup Range(<<"drop">>)
  BY <1>1, <1>2, StopOf, JoinOf
<1> QED
  BY <1>1, <1>3, StopOf DEF StoppingSteps

\* Between the lock step of a call and its last step, the runtime in the slot is stopped.
LEMMA ReplaceOf ==
    ASSUME NEW r, NEW rest \in Seq(StepName), InOrder(rest),
           Range(rest) \subseteq {"install", "unlock", "read", "serve"}
    PROVE  /\ stop_and_drop(r) \o rest \in Seq(StepName)
           /\ InOrder(stop_and_drop(r) \o rest)
           /\ Range(stop_and_drop(r) \o rest) =
                 {"close_ui", "drain_ui"} \cup StoppingSteps(config[r].mode) \cup Range(rest)
<1> DEFINE m == config[r].mode
           s == <<"close_ui", "drain_ui">>
           t == stop(m) \o <<"drop">>
<1>1. s \in Seq(StepName) /\ InOrder(s) /\ Range(s) = {"close_ui", "drain_ui"}
  BY TwoSteps, NamedSteps, Ranks
<1>2. t \in Seq(StepName) /\ InOrder(t) /\ Range(t) = StoppingSteps(m)
  BY StopAndDropOf
<1>3. \A x \in Range(s), y \in Range(t) : Rank[x] < Rank[y]
  <2>1. \A x \in Range(s) : x \in {"close_ui", "drain_ui"}
    BY <1>1
  <2>2. \A y \in Range(t) : y \in {"close_direct", "drain_loops", "farewell", "close_hub", "drop"}
    BY <1>2 DEF StoppingSteps, HubSteps, GatewaySteps
  <2>3. \A x \in Range(s) : Rank[x] \in 8..9
    BY <2>1, Ranks
  <2>4. \A y \in Range(t) : Rank[y] \in 10..14
    <3>1. \A y \in Range(t) : \/ y = "close_direct" \/ y = "drain_loops"
                              \/ y = "farewell" \/ y = "close_hub" \/ y = "drop"
      BY <2>2
    <3> QED
      BY <3>1, Ranks, SMTT(30)
  <2> QED
    BY <2>3, <2>4, SMTT(30)
<1>4. stop_and_drop(r) = s \o t
  <2>1. stop(m) \in Seq(StepName) /\ <<"drop">> \in Seq(StepName)
    BY StopOf, OneStep, NamedSteps
  <2> QED
    BY <2>1, <1>1 DEF stop_and_drop
<1> HIDE DEF s, t, m
<1>5. /\ s \o t \in Seq(StepName) /\ InOrder(s \o t)
      /\ Range(s \o t) = Range(s) \cup Range(t)
  BY <1>1, <1>2, <1>3, JoinOf
<1>6. \A x \in Range(s \o t), y \in Range(rest) : Rank[x] < Rank[y]
  <2>1. \A x \in Range(s \o t) : x \in StopSteps \cup {"drop"}
    BY <1>1, <1>2, <1>5 DEF StopSteps, StoppingSteps, HubSteps, GatewaySteps
  <2>2. \A y \in Range(rest) : y \in {"install", "unlock", "read", "serve"}
    OBVIOUS
  <2>3. \A x \in Range(s \o t) : Rank[x] \in 8..14
    BY <2>1, StoppingRanks
  <2>4. \A y \in Range(rest) : Rank[y] \in 15..18
    BY <2>2, LastRanks
  <2> QED
    BY <2>3, <2>4
<1>7. /\ (s \o t) \o rest \in Seq(StepName) /\ InOrder((s \o t) \o rest)
      /\ Range((s \o t) \o rest) = Range(s \o t) \cup Range(rest)
  BY <1>5, <1>6, JoinOf
<1> QED
  BY <1>1, <1>2, <1>4, <1>5, <1>7 DEF m

-----------------------------------------------------------------------------
(* What the invariant is about, in one place.                              *)

Hands(h) == {New(h), Old(h)}

LEMMA Runtimes ==
    ASSUME TypeOK
    PROVE  /\ DOMAIN config = 1..Len(config) /\ DOMAIN config \subseteq Runtime
           /\ None \notin Runtime
           /\ \A r \in DOMAIN config : config[r] \in Config
           /\ \A r \in DOMAIN config : config[r].mode \in Mode
BY HostingAssumption DEF TypeOK, Runtime, HostingAssumption

\* A call that has nothing left to do is no call.
LEMMA IdleIsEmpty ==
    ASSUME NEW h \in Host, CallIsWellFormed(h)
    PROVE  call[h] = Idle <=> Left(h) = {}
BY NoSteps DEF CallIsWellFormed, Left, Idle

LEMMA IdleIsEmptyNext ==
    ASSUME NEW h \in Host, CallIsWellFormed(h)'
    PROVE  call'[h] = Idle <=> Left(h)' = {}
BY NoSteps DEF CallIsWellFormed, Left, Idle

\* What a host may do to the rest of the machine in the middle of a call: it changes what
\* its own runtimes have, and lets go only of one that has stopped.
OthersStay(h) ==
    /\ DOMAIN call' = Host
    /\ \A g \in Host \ {h} : call'[g] = call[g]

OtherRuntimesStay(h) ==
    /\ bound' \in [Runtime -> SUBSET Socket]
    /\ writing' \subseteq DOMAIN config
    /\ tasks' \in [Runtime -> [ui : Task, loops : Task]]
    /\ \A q \in Runtime \ Hands(h) :
          /\ bound'[q] = bound[q] /\ tasks'[q] = tasks[q]
          /\ q \in writing' <=> q \in writing

HostMoves(h) ==
    /\ UNCHANGED <<config, slot, lock, calls>>
    /\ OthersStay(h) /\ OtherRuntimesStay(h)
    /\ CallIsWellFormed(h)' /\ StartIsOnItsWay(h)'
    /\ New(h)' \in Hands(h) \cup {None} /\ Old(h)' \in Hands(h) \cup {None}
    /\ New(h)' # None => New(h)' # Old(h)'
    /\ \A r \in Runtime : r \in Hands(h) /\ r \notin Hands(h)' => ~Runs(r)'
    /\ "read" \in Left(h) => "read" \in Left(h)'
    /\ h \in Thread => ((Left(h)' # {} /\ "lock" \notin Left(h)')
                            <=> (Left(h) # {} /\ "lock" \notin Left(h)))
    /\ AddressesAreTakenOnce'

LEMMA HostMovesKeep ==
    ASSUME HostingInvariant, NEW h \in Host, HostMoves(h)
    PROVE  HostingInvariant'
<1>1. TypeOK /\ DOMAIN config \subseteq Runtime /\ None \notin Runtime
  BY Runtimes DEF HostingInvariant
<1>2. \A g \in Host \ {h} : Left(g)' = Left(g) /\ New(g)' = New(g) /\ Old(g)' = Old(g)
  BY DEF HostMoves, OthersStay, Left, New, Old
<1>3. \A g \in Host : CallIsWellFormed(g) /\ CallIsWellFormed(g)'
  <2>1. \A g \in Host : CallIsWellFormed(g)
    BY DEF HostingInvariant
  <2>2. ASSUME NEW g \in Host \ {h} PROVE CallIsWellFormed(g)'
    <3>1. call'[g] = call[g] /\ config' = config
      BY DEF HostMoves, OthersStay
    <3> QED
      BY <2>1, <3>1, <1>2 DEF CallIsWellFormed
  <2> QED
    BY <2>1, <2>2 DEF HostMoves
<1>4. \A g \in Host : {New(g), Old(g)} \subseteq DOMAIN config \cup {None}
  BY <1>3 DEF CallIsWellFormed, New, Old
<1>5. \A g \in Host \ {h} : \A r \in Hands(g) : r # None => r \in Runtime \ Hands(h)
  BY <1>1, <1>4 DEF HostingInvariant, HandsApart, Hands
<1>6. \A g \in Host : StartIsOnItsWay(g)'
  <2>1. ASSUME NEW g \in Host \ {h} PROVE StartIsOnItsWay(g)'
    <3>1. StartIsOnItsWay(g) /\ Left(g)' = Left(g) /\ New(g)' = New(g) /\ config' = config
      BY <1>2 DEF HostingInvariant, HostMoves
    <3>2. New(g) # None => /\ bound'[New(g)] = bound[New(g)]
                           /\ New(g) \in writing' <=> New(g) \in writing
      BY <1>5 DEF HostMoves, OtherRuntimesStay, Hands
    <3> QED
      BY <3>1, <3>2 DEF StartIsOnItsWay, SocketsFor
  <2> QED
    BY <2>1 DEF HostMoves
<1>7. SlotIsComplete'
  <2>1. SlotIsComplete /\ slot' = slot /\ config' = config /\ lock' = lock
    BY DEF HostingInvariant, HostMoves
  <2>2. slot # None => slot \in Runtime \ Hands(h)
    <3>1. slot # None => slot # New(h) /\ slot # Old(h)
      <4>1. HandsApart
        BY DEF HostingInvariant
      <4> QED
        BY <4>1 DEF HandsApart
    <3>2. slot # None => slot \in Runtime
      BY <1>1, <2>1 DEF SlotIsComplete
    <3> QED
      BY <3>1, <3>2 DEF Hands
  <2>3. slot # None => bound'[slot] = bound[slot] /\ (slot \in writing' <=> slot \in writing)
    BY <2>2 DEF HostMoves, OtherRuntimesStay
  <2>4. lock # None /\ "read" \in Left(lock) => "read" \in Left(lock)'
    BY <1>1, <1>2 DEF HostMoves, TypeOK, Host
  <2> QED
    BY <2>1, <2>3, <2>4 DEF SlotIsComplete
<1>8. HandsApart'
  <2>1. /\ HandsApart /\ slot' = slot
        /\ New(h)' \in {New(h), Old(h), None} /\ Old(h)' \in {New(h), Old(h), None}
        /\ New(h)' # None => New(h)' # Old(h)'
    BY DEF HostingInvariant, HostMoves, Hands
  <2>2. \A g \in Host : /\ New(g)' \in {New(g), Old(g), None}
                        /\ Old(g)' \in {New(g), Old(g), None}
    BY <1>2, <2>1
  <2>3. ASSUME NEW g \in Host
        PROVE  /\ New(g)' # None => New(g)' # Old(g)' /\ New(g)' # slot'
               /\ Old(g)' # None => Old(g)' # slot'
    <3>1. New(g)' # None => New(g)' # Old(g)'
      BY <1>2, <2>1 DEF HandsApart
    <3> QED
      BY <2>1, <2>2, <3>1 DEF HandsApart
  <2>4. ASSUME NEW f \in Host, NEW g \in Host, f # g
        PROVE  {New(f)', Old(f)'} \cap {New(g)', Old(g)'} \subseteq {None}
    <3>1. {New(f), Old(f)} \cap {New(g), Old(g)} \subseteq {None}
      BY <2>1, <2>4 DEF HandsApart
    <3> QED
      BY <2>2, <3>1
  <2> QED
    BY <2>3, <2>4 DEF HandsApart
<1>9. AllInHand'
  <2> SUFFICES ASSUME NEW r \in Runtime, Runs(r)', r # slot'
               PROVE  \E g \in Host : r \in Hands(g)'
    BY DEF AllInHand, Hands
  <2>1. CASE r \in Hands(h)
    BY <2>1 DEF HostMoves
  <2>2. CASE r \notin Hands(h)
    <3>1. Runs(r)
      BY <2>2 DEF HostMoves, OtherRuntimesStay, Runs
    <3>2. PICK g \in Host : r \in Hands(g)
      BY <3>1 DEF HostingInvariant, AllInHand, Hands, HostMoves
    <3> QED
      BY <3>2, <2>2, <1>2 DEF Hands
  <2> QED
    BY <2>1, <2>2
<1>10. TypeOK'
  <2>1. \A t \in Thread : lock' = t <=> call'[t] # Idle /\ "lock" \notin Left(t)'
    <3> SUFFICES ASSUME NEW t \in Thread
                 PROVE  lock' = t <=> call'[t] # Idle /\ "lock" \notin Left(t)'
      OBVIOUS
    <3>1. lock = t <=> Left(t) # {} /\ "lock" \notin Left(t)
      BY <1>1, <1>3, IdleIsEmpty DEF TypeOK, Left, Host
    <3>2. lock' = lock
      BY DEF HostMoves
    <3>3. (Left(t)' # {} /\ "lock" \notin Left(t)') <=> (Left(t) # {} /\ "lock" \notin Left(t))
      BY <1>2 DEF HostMoves, Host
    <3>4. call'[t] = Idle <=> Left(t)' = {}
      BY <1>3, IdleIsEmptyNext DEF Host
    <3> QED
      BY <3>1, <3>2, <3>3, <3>4
  <2>2. \A g \in Host : {call'[g].new, call'[g].old} \subseteq DOMAIN config' \cup {None}
    BY <1>3 DEF CallIsWellFormed
  <2>3. /\ UNCHANGED <<config, slot, lock, calls>>
        /\ DOMAIN call' = Host
        /\ bound' \in [Runtime -> SUBSET Socket]
        /\ writing' \subseteq DOMAIN config'
        /\ tasks' \in [Runtime -> [ui : Task, loops : Task]]
    BY DEF HostMoves, OthersStay, OtherRuntimesStay
  <2> QED
    BY <1>1, <2>1, <2>2, <2>3 DEF TypeOK, Left
<1> QED
  BY <1>3, <1>6, <1>7, <1>8, <1>9, <1>10 DEF HostingInvariant, HostMoves

-----------------------------------------------------------------------------
(* One step of a call is taken.                                            *)

LEMMA AdvanceOf ==
    ASSUME NEW h \in Host, DOMAIN call = Host, CallIsWellFormed(h),
           NEW step, At(h, step), call' = Advanced(h)
    PROVE  /\ OthersStay(h)
           /\ step \in Left(h) /\ Left(h)' = Left(h) \ {step}
           /\ New(h)' = New(h) /\ Old(h)' = Old(h)
           /\ call'[h] \in [todo : Seq(StepName), new : DOMAIN config \cup {None},
                            old : DOMAIN config \cup {None}]
           /\ InOrder(call'[h].todo)
           /\ \A x \in Left(h)' : Rank[step] < Rank[x]
<1> DEFINE s == call[h].todo
<1>1. s \in Seq(StepName) /\ InOrder(s) /\ s # <<>> /\ Head(s) = step
  BY DEF CallIsWellFormed, At
<1>2. /\ call'[h].todo = Tail(s) /\ call'[h].new = call[h].new
      /\ call'[h].old = call[h].old
      /\ call'[h] \in [todo : {Tail(s)}, new : {call[h].new}, old : {call[h].old}]
  BY DEF Advanced, CallIsWellFormed
<1>3. OthersStay(h)
  BY DEF Advanced, OthersStay
<1> HIDE DEF s
<1>4. /\ Tail(s) \in Seq(StepName) /\ InOrder(Tail(s))
      /\ Range(Tail(s)) = Range(s) \ {step}
      /\ \A x \in Range(Tail(s)) : Rank[step] < Rank[x]
  BY <1>1, TailOf
<1>5. step \in Range(s)
  BY <1>1, RangeIs
<1>6. call[h].new \in DOMAIN config \cup {None} /\ call[h].old \in DOMAIN config \cup {None}
  BY DEF CallIsWellFormed
<1>7. call'[h] \in [todo : Seq(StepName), new : DOMAIN config \cup {None},
                    old : DOMAIN config \cup {None}]
  BY <1>2, <1>4, <1>6
<1>8. Left(h) = Range(s) /\ Left(h)' = Range(Tail(s)) /\ New(h)' = New(h) /\ Old(h)' = Old(h)
  BY <1>2 DEF Left, New, Old, s
<1> QED
  BY <1>2, <1>3, <1>4, <1>5, <1>7, <1>8

\* All that is in the middle of a call, but for the steps that let go of a runtime.
LEMMA AdvanceIsWellFormed ==
    ASSUME TypeOK, NEW h \in Host, CallIsWellFormed(h),
           NEW step \in StartSteps \cup StopSteps \cup {"lock"}, At(h, step),
           call' = Advanced(h), config' = config
    PROVE  /\ CallIsWellFormed(h)'
           /\ "read" \in Left(h) => "read" \in Left(h)'
           /\ step # "lock" => ("lock" \in Left(h)' <=> "lock" \in Left(h))
           /\ Left(h)' # {} /\ Left(h) # {}
<1>1. /\ step \in Left(h) /\ Left(h)' = Left(h) \ {step}
      /\ New(h)' = New(h) /\ Old(h)' = Old(h)
      /\ call'[h] \in [todo : Seq(StepName), new : DOMAIN config \cup {None},
                       old : DOMAIN config \cup {None}]
      /\ InOrder(call'[h].todo)
      /\ \A x \in Left(h)' : Rank[step] < Rank[x]
  BY AdvanceOf DEF TypeOK
<1>2. step \notin {"drop", "install", "unlock", "read", "serve"}
  BY DEF StartSteps, StopSteps, Socket
<1>3. Left(h)' # {}
  <2>1. CASE step \in StartSteps
    BY <2>1, <1>1, <1>2 DEF CallIsWellFormed, StartSteps, Socket
  <2>2. CASE step \in StopSteps
    BY <2>2, <1>1, <1>2 DEF CallIsWellFormed, StopSteps
  <2>3. CASE step = "lock"
    BY <2>3, <1>1, <1>2 DEF CallIsWellFormed, Host
  <2> QED
    BY <2>1, <2>2, <2>3
<1>4. \A x \in Left(h)' \cap StartSteps :
          New(h)' # None /\ ("lock" \in Left(h)' \/ "serve" \in Left(h)')
  <2>1. CASE step = "lock"
    <3>1. Left(h)' \cap StartSteps = {}
      BY <2>1, <1>1, Ranks, SMTT(30) DEF StartSteps, Socket
    <3> QED
      BY <3>1
  <2>2. CASE step # "lock"
    BY <2>2, <1>1, <1>2 DEF CallIsWellFormed
  <2> QED
    BY <2>1, <2>2
<1>5. \A x \in Left(h)' \cap StopSteps : "drop" \in Left(h)'
  BY <1>1, <1>2 DEF CallIsWellFormed
<1>6. /\ Old(h)' # None <=> "drop" \in Left(h)'
      /\ New(h)' # None <=> "install" \in Left(h)' \/ "serve" \in Left(h)'
      /\ "lock" \in Left(h)' \/ "serve" \in Left(h)' => "drop" \notin Left(h)'
  BY <1>1, <1>2 DEF CallIsWellFormed
<1>7. h \in Thread =>
          /\ "serve" \notin Left(h)'
          /\ Left(h)' # {} =>
                "install" \in Left(h)' \/ "unlock" \in Left(h)' \/ "read" \in Left(h)'
          /\ "install" \in Left(h)' => "unlock" \notin Left(h)'
          /\ "read" \in Left(h)' => Left(h)' \subseteq {"lock", "read"}
  BY <1>1, <1>2 DEF CallIsWellFormed
<1>8. h \in Chat =>
          /\ "ui" \notin Left(h)' /\ "close_ui" \notin Left(h)' /\ "drain_ui" \notin Left(h)'
          /\ "lock" \notin Left(h)' /\ "install" \notin Left(h)'
          /\ "unlock" \notin Left(h)' /\ "read" \notin Left(h)'
          /\ Left(h)' # {} => "serve" \in Left(h)' \/ "drop" \in Left(h)'
  BY <1>1, <1>2 DEF CallIsWellFormed
<1>9. CallIsWellFormed(h)'
  BY <1>1, <1>3, <1>4, <1>5, <1>6, <1>7, <1>8 DEF CallIsWellFormed
<1> QED
  BY <1>1, <1>2, <1>3, <1>9

LEMMA ClashIsMutual ==
    \A a, b : <<a, b>> \in Clash => <<b, a>> \in Clash
BY HostingAssumption DEF HostingAssumption

LEMMA FewerPorts ==
    ASSUME AddressesAreTakenOnce, config' = config,
           \A q \in DOMAIN config : bound'[q] \subseteq bound[q]
    PROVE  AddressesAreTakenOnce'
<1> SUFFICES ASSUME NEW q \in DOMAIN config, NEW r \in DOMAIN config, q # r,
                    NEW o \in bound'[q], NEW s \in bound'[r]
             PROVE  <<AddressOf(q, o)', AddressOf(r, s)'>> \notin Clash
  BY DEF AddressesAreTakenOnce
<1>1. o \in bound[q] /\ s \in bound[r]
  OBVIOUS
<1>2. <<AddressOf(q, o), AddressOf(r, s)>> \notin Clash
  BY <1>1 DEF AddressesAreTakenOnce
<1>3. AddressOf(q, o)' = AddressOf(q, o) /\ AddressOf(r, s)' = AddressOf(r, s)
  BY DEF AddressOf
<1> QED
  BY <1>2, <1>3

\* The steps of a start are about the runtime that is started, those of a stop about the
\* one that is stopped.
LEMMA AtWork ==
    ASSUME HostingInvariant, NEW h \in Host, NEW step, At(h, step)
    PROVE  /\ TypeOK /\ CallIsWellFormed(h) /\ StartIsOnItsWay(h) /\ step \in Left(h)
           /\ step \in StartSteps => New(h) \in DOMAIN config /\ New(h) # None
           /\ step \in StopSteps \cup {"drop"} => Old(h) \in DOMAIN config /\ Old(h) # None
           /\ New(h) # None => New(h) # Old(h) /\ New(h) # slot
           /\ Old(h) # None => Old(h) # slot
           /\ DOMAIN config \subseteq Runtime /\ None \notin Runtime
           /\ New(h) \in DOMAIN config \cup {None} /\ Old(h) \in DOMAIN config \cup {None}
<1>1. TypeOK /\ CallIsWellFormed(h) /\ StartIsOnItsWay(h) /\ HandsApart
  BY DEF HostingInvariant
<1>2. step \in Left(h)
  BY <1>1, RangeIs DEF CallIsWellFormed, At, Left
<1>3. New(h) \in DOMAIN config \cup {None} /\ Old(h) \in DOMAIN config \cup {None}
  BY <1>1 DEF CallIsWellFormed, New, Old
<1>4. step \in StartSteps => New(h) # None
  BY <1>1, <1>2 DEF CallIsWellFormed
<1>5. step \in StopSteps \cup {"drop"} => Old(h) # None
  BY <1>1, <1>2 DEF CallIsWellFormed
<1> QED
  BY <1>1, <1>2, <1>3, <1>4, <1>5, Runtimes DEF HandsApart

\* What is done to the runtime that stops leaves the one that starts as it was.
LEMMA AdvanceKeeps ==
    ASSUME HostingInvariant, NEW h \in Host, NEW step \in StartSteps \cup StopSteps,
           At(h, step), call' = Advanced(h), UNCHANGED <<slot, lock, config, calls>>,
           OtherRuntimesStay(h), StartIsOnItsWay(h)', AddressesAreTakenOnce'
    PROVE  HostingInvariant'
<1>1. TypeOK /\ CallIsWellFormed(h)
  BY DEF HostingInvariant
<1>2. step # "lock" /\ step \in StartSteps \cup StopSteps \cup {"lock"}
  BY DEF StartSteps, StopSteps, Socket
<1>3. /\ CallIsWellFormed(h)'
      /\ "read" \in Left(h) => "read" \in Left(h)'
      /\ "lock" \in Left(h)' <=> "lock" \in Left(h)
      /\ Left(h)' # {} /\ Left(h) # {}
  BY <1>1, <1>2, AdvanceIsWellFormed
<1>4. OthersStay(h) /\ New(h)' = New(h) /\ Old(h)' = Old(h)
  BY <1>1, AdvanceOf DEF TypeOK
<1>5. New(h) # None => New(h) # Old(h)
  BY AtWork
<1>6. HostMoves(h)
  BY <1>3, <1>4, <1>5 DEF HostMoves, Hands
<1> QED
  BY <1>6, HostMovesKeep

LEMMA StopKeepsStart ==
    ASSUME NEW h \in Host, NEW step \in StopSteps \cup {"drop"}, StartIsOnItsWay(h),
           Left(h)' = Left(h) \ {step} \/ Left(h)' = Left(h) \ {step, "close_hub"},
           New(h)' = New(h), config' = config,
           New(h) # None => /\ bound'[New(h)] = bound[New(h)]
                            /\ New(h) \in writing' <=> New(h) \in writing
    PROVE  StartIsOnItsWay(h)'
<1>1. \A x \in StartSteps : x \in Left(h)' <=> x \in Left(h)
  BY DEF StartSteps, StopSteps, Socket
<1>2. /\ "load" \in Left(h)' <=> "load" \in Left(h)
      /\ "direct" \in Left(h)' <=> "direct" \in Left(h)
      /\ "register" \in Left(h)' <=> "register" \in Left(h)
      /\ \A x \in Socket : x \in Left(h)' <=> x \in Left(h)
  BY <1>1 DEF StartSteps, Socket
<1>3. \A c : SocketsFor(h, c) \subseteq Socket
  BY DEF SocketsFor, Sockets, Socket
<1> SUFFICES ASSUME New(h) # None
             PROVE  StartIsOnItsWay(h)'
  BY DEF StartIsOnItsWay
<1> DEFINE c == config[New(h)]
<1>4. SocketsFor(h, c) \ Left(h)' = SocketsFor(h, c) \ Left(h)
  BY <1>2, <1>3
<1>5. Left(h)' \cap Socket = Left(h) \cap Socket
  BY <1>2
<1> QED
  BY <1>2, <1>4, <1>5 DEF StartIsOnItsWay, SocketsFor

LEMMA CloseKeeps ==
    ASSUME HostingInvariant, NEW h \in Host, NEW step \in StopSteps, NEW sockets,
           Close(h, step, sockets)
    PROVE  HostingInvariant'
<1>1. At(h, step) /\ call' = Advanced(h)
  BY DEF Close
<1>2. bound' = [bound EXCEPT ![Old(h)] = @ \ sockets]
  BY DEF Close, Old
<1>3. UNCHANGED <<slot, lock, config, writing, tasks, calls>>
  BY DEF Close
<1>4. /\ TypeOK /\ CallIsWellFormed(h) /\ StartIsOnItsWay(h)
      /\ Old(h) \in Runtime /\ New(h) \in Runtime \cup {None}
      /\ New(h) # None => New(h) # Old(h)
      /\ DOMAIN config \subseteq Runtime /\ None \notin Runtime
  BY <1>1, AtWork
<1>5. OtherRuntimesStay(h)
  BY <1>2, <1>3, <1>4 DEF OtherRuntimesStay, Hands, TypeOK
<1>6. New(h) # None => bound'[New(h)] = bound[New(h)]
  BY <1>2, <1>4 DEF TypeOK
<1>7. StartIsOnItsWay(h)'
  BY <1>1, <1>3, <1>4, <1>6, AdvanceOf, StopKeepsStart DEF TypeOK
<1>8. \A q \in DOMAIN config : bound'[q] \subseteq bound[q]
  BY <1>2, <1>4 DEF TypeOK
<1>9. AddressesAreTakenOnce'
  BY <1>3, <1>8, FewerPorts DEF HostingInvariant
<1> QED
  BY <1>1, <1>3, <1>5, <1>7, <1>9, AdvanceKeeps

LEMMA DrainKeeps ==
    ASSUME HostingInvariant, NEW h \in Host, NEW step \in StopSteps,
           NEW task \in {"ui", "loops"}, NEW socket, Drain(h, step, task, socket)
    PROVE  HostingInvariant'
<1>1. At(h, step) /\ call' = Advanced(h)
  BY DEF Drain
<1>2. tasks' = [tasks EXCEPT ![Old(h)][task] = "none"]
  BY DEF Drain, Old
<1>3. UNCHANGED <<slot, lock, config, bound, writing, calls>>
  BY DEF Drain
<1>4. /\ TypeOK /\ CallIsWellFormed(h) /\ StartIsOnItsWay(h)
      /\ Old(h) \in Runtime
      /\ New(h) # None => New(h) # Old(h)
  BY <1>1, AtWork
<1>5. tasks' \in [Runtime -> [ui : Task, loops : Task]]
  <2>1. tasks \in [Runtime -> [ui : Task, loops : Task]] /\ "none" \in Task
    BY <1>4 DEF TypeOK, Task
  <2>2. CASE task = "ui"
    BY <2>1, <2>2, <1>2, <1>4
  <2>3. CASE task = "loops"
    BY <2>1, <2>3, <1>2, <1>4
  <2> QED
    BY <2>2, <2>3
<1>6. \A q \in Runtime \ {Old(h)} : tasks'[q] = tasks[q]
  BY <1>2, <1>4 DEF TypeOK
<1>7. OtherRuntimesStay(h)
  BY <1>3, <1>4, <1>5, <1>6 DEF OtherRuntimesStay, Hands, TypeOK
<1>8. StartIsOnItsWay(h)'
  BY <1>1, <1>3, <1>4, AdvanceOf, StopKeepsStart DEF TypeOK
<1>9. AddressesAreTakenOnce'
  BY <1>3, FewerPorts DEF HostingInvariant
<1> QED
  BY <1>1, <1>3, <1>7, <1>8, <1>9, AdvanceKeeps

-----------------------------------------------------------------------------
(* The steps of a start.                                                   *)

LEMMA BindKeeps ==
    ASSUME HostingInvariant, NEW h \in Host, NEW s \in Socket, Bind(h, s)
    PROVE  HostingInvariant'
<1> DEFINE r == New(h)
           c == config[r]
<1>1. At(h, s) /\ call' = Advanced(h) /\ s \in StartSteps
  BY DEF Bind, StartSteps
<1>2. bound' = [bound EXCEPT ![r] = @ \cup {s}] /\ Available(r, s)
  BY DEF Bind, New
<1>3. UNCHANGED <<slot, lock, config, writing, tasks, calls>>
  BY DEF Bind
<1>4. /\ TypeOK /\ CallIsWellFormed(h) /\ StartIsOnItsWay(h) /\ s \in Left(h)
      /\ r \in DOMAIN config /\ r # None /\ DOMAIN config \subseteq Runtime
  BY <1>1, AtWork
<1>5. bound \in [Runtime -> SUBSET Socket] /\ r \in Runtime
  BY <1>4 DEF TypeOK
<1>6. OtherRuntimesStay(h)
  BY <1>2, <1>3, <1>4, <1>5 DEF OtherRuntimesStay, Hands, TypeOK
<1>7. New(h)' = r /\ Left(h)' = Left(h) \ {s}
  BY <1>1, <1>4, AdvanceOf DEF TypeOK
<1>8. s # "load" /\ s # "register"
  BY DEF Socket
<1>9. StartIsOnItsWay(h)'
  <2>1. /\ Left(h) \cap Socket \subseteq SocketsFor(h, c)
        /\ bound[r] = SocketsFor(h, c) \ Left(h)
        /\ r \in writing <=> runs_gateway(c.mode) /\ "load" \notin Left(h)
        /\ "direct" \in Left(h) => "load" \in Left(h)
        /\ "load" \in Left(h) \/ "register" \in Left(h) => runs_gateway(c.mode)
    BY <1>4 DEF StartIsOnItsWay
  <2>2. bound'[r] = SocketsFor(h, c) \ Left(h)'
    BY <2>1, <1>2, <1>4, <1>5, <1>7
  <2>3. config'[New(h)'] = c
    BY <1>3, <1>7
  <2>4. Left(h)' \cap Socket \subseteq SocketsFor(h, c)
    BY <2>1, <1>7
  <2> HIDE DEF c, r
  <2> QED
    BY <2>1, <2>2, <2>3, <2>4, <1>3, <1>7, <1>8 DEF StartIsOnItsWay, SocketsFor
<1>10. AddressesAreTakenOnce'
  <2> SUFFICES ASSUME NEW p \in DOMAIN config, NEW q \in DOMAIN config, p # q,
                      NEW o \in bound'[p], NEW t \in bound'[q]
               PROVE  <<AddressOf(p, o)', AddressOf(q, t)'>> \notin Clash
    BY <1>3 DEF AddressesAreTakenOnce
  <2>1. o \in bound[p] /\ t \in bound[q]
           => <<AddressOf(p, o), AddressOf(q, t)>> \notin Clash
    BY DEF HostingInvariant, AddressesAreTakenOnce
  <2>2. AddressOf(p, o)' = AddressOf(p, o) /\ AddressOf(q, t)' = AddressOf(q, t)
    BY <1>3 DEF AddressOf
  <2>3. \A i \in DOMAIN config \ {r} : bound'[i] = bound[i]
    BY <1>2, <1>4, <1>5
  <2>4. \A i \in DOMAIN config : \A u \in bound[i] :
           /\ <<AddressOf(i, u), AddressOf(r, s)>> \notin Clash
           /\ <<AddressOf(r, s), AddressOf(i, u)>> \notin Clash
    BY <1>2, ClashIsMutual DEF Available
  <2>5. bound'[r] = bound[r] \cup {s}
    BY <1>2, <1>5
  <2> HIDE DEF r
  <2>6. CASE p = r
    BY <2>1, <2>2, <2>3, <2>4, <2>5, <2>6
  <2>7. CASE q = r
    BY <2>1, <2>2, <2>3, <2>4, <2>5, <2>7
  <2>8. CASE p # r /\ q # r
    BY <2>1, <2>2, <2>3, <2>8
  <2> QED
    BY <2>6, <2>7, <2>8
<1> QED
  BY <1>1, <1>3, <1>6, <1>9, <1>10, AdvanceKeeps

LEMMA LoadKeeps ==
    ASSUME HostingInvariant, NEW h \in Host, Load(h)
    PROVE  HostingInvariant'
<1> DEFINE r == New(h)
           c == config[r]
<1>1. At(h, "load") /\ call' = Advanced(h) /\ "load" \in StartSteps
  BY DEF Load, StartSteps
<1>2. writing' = writing \cup {r} /\ UNCHANGED <<slot, lock, config, bound, tasks, calls>>
  BY DEF Load, New
<1>3. /\ TypeOK /\ CallIsWellFormed(h) /\ StartIsOnItsWay(h) /\ "load" \in Left(h)
      /\ r \in DOMAIN config /\ r # None
  BY <1>1, AtWork
<1>4. OtherRuntimesStay(h)
  BY <1>2, <1>3 DEF OtherRuntimesStay, Hands, TypeOK
<1>5. /\ New(h)' = r /\ Left(h)' = Left(h) \ {"load"}
      /\ \A x \in Left(h)' : Rank["load"] < Rank[x]
  BY <1>1, <1>3, AdvanceOf DEF TypeOK
<1>6. "direct" \notin Left(h)'
  BY <1>5, Ranks
<1>7. StartIsOnItsWay(h)'
  <2>1. /\ Left(h) \cap Socket \subseteq SocketsFor(h, c)
        /\ bound[r] = SocketsFor(h, c) \ Left(h)
        /\ runs_gateway(c.mode)
    BY <1>3 DEF StartIsOnItsWay
  <2>2. SocketsFor(h, c) \ Left(h)' = SocketsFor(h, c) \ Left(h)
    BY <1>5 DEF SocketsFor, Sockets
  <2>3. config'[New(h)'] = c
    BY <1>2, <1>5
  <2>4. Left(h)' \cap Socket \subseteq SocketsFor(h, c)
    BY <2>1, <1>5
  <2>5. "load" \notin Left(h)' /\ r \in writing'
    BY <1>2, <1>5
  <2> HIDE DEF c, r
  <2> QED
    BY <2>1, <2>2, <2>3, <2>4, <2>5, <1>2, <1>5, <1>6 DEF StartIsOnItsWay, SocketsFor
<1>8. AddressesAreTakenOnce'
  BY <1>2, FewerPorts DEF HostingInvariant
<1> QED
  BY <1>1, <1>2, <1>4, <1>7, <1>8, AdvanceKeeps

LEMMA RegisterKeeps ==
    ASSUME HostingInvariant, NEW h \in Host, Register(h)
    PROVE  HostingInvariant'
<1> DEFINE r == New(h)
           c == config[r]
<1>1. At(h, "register") /\ call' = Advanced(h) /\ "register" \in StartSteps
  BY DEF Register, StartSteps
<1>2. /\ tasks' = [tasks EXCEPT ![r] = [ui |-> IF h \in Thread THEN "idle" ELSE "none",
                                        loops |-> "idle"]]
      /\ UNCHANGED <<slot, lock, config, bound, writing, calls>>
  BY DEF Register, New
<1>3. /\ TypeOK /\ CallIsWellFormed(h) /\ StartIsOnItsWay(h)
      /\ r \in DOMAIN config /\ r # None /\ r \in Runtime
  BY <1>1, AtWork
<1>4. OtherRuntimesStay(h)
  BY <1>2, <1>3 DEF OtherRuntimesStay, Hands, TypeOK, Task
<1>5. New(h)' = r /\ Left(h)' = Left(h) \ {"register"}
  BY <1>1, <1>3, AdvanceOf DEF TypeOK
<1>6. StartIsOnItsWay(h)'
  <2>1. SocketsFor(h, c) \ Left(h)' = SocketsFor(h, c) \ Left(h)
    BY <1>5 DEF SocketsFor, Sockets
  <2>2. Left(h)' \cap Socket = Left(h) \cap Socket
    BY <1>5 DEF Socket
  <2> QED
    BY <2>1, <2>2, <1>2, <1>3, <1>5 DEF StartIsOnItsWay, SocketsFor
<1>7. AddressesAreTakenOnce'
  BY <1>2, FewerPorts DEF HostingInvariant
<1> QED
  BY <1>1, <1>2, <1>4, <1>6, <1>7, AdvanceKeeps

\* A call ends with all its runtime had.
LEMMA DroppedIsGone ==
    ASSUME TypeOK, NEW h \in Host, NEW r \in DOMAIN config, r \in Hands(h), Dropped(r)
    PROVE  /\ ~Runs(r)' /\ OtherRuntimesStay(h)
           /\ \A q \in DOMAIN config : bound'[q] \subseteq bound[q]
<1>1. r \in Runtime /\ DOMAIN config \subseteq Runtime
  BY Runtimes
<1> QED
  BY <1>1 DEF Dropped, Runs, OtherRuntimesStay, TypeOK, Task

LEMMA EndOf ==
    ASSUME NEW h \in Host, DOMAIN call = Host, call' = [call EXCEPT ![h] = Idle],
           config' = config
    PROVE  /\ OthersStay(h) /\ CallIsWellFormed(h)' /\ StartIsOnItsWay(h)'
           /\ Left(h)' = {} /\ New(h)' = None /\ Old(h)' = None
<1>1. call'[h] = Idle /\ OthersStay(h)
  BY DEF OthersStay
<1>2. Left(h)' = {} /\ New(h)' = None /\ Old(h)' = None /\ InOrder(call'[h].todo)
  BY <1>1, NoSteps DEF Left, New, Old, Idle
<1>3. call'[h] \in [todo : Seq(StepName), new : DOMAIN config' \cup {None},
                    old : DOMAIN config' \cup {None}]
  BY <1>1, NoSteps DEF Idle
<1>4. CallIsWellFormed(h)'
  BY <1>1, <1>2, <1>3 DEF CallIsWellFormed
<1>5. StartIsOnItsWay(h)'
  BY <1>2 DEF StartIsOnItsWay
<1> QED
  BY <1>1, <1>2, <1>4, <1>5

LEMMA EndKeeps ==
    ASSUME HostingInvariant, NEW h \in Host, NEW r \in DOMAIN config, Hands(h) \ {None} = {r},
           Dropped(r), call' = [call EXCEPT ![h] = Idle],
           UNCHANGED <<slot, lock, config, calls>>,
           "read" \notin Left(h), h \in Thread => "lock" \in Left(h)
    PROVE  HostingInvariant'
<1>1. TypeOK /\ None \notin Runtime
  BY Runtimes DEF HostingInvariant
<1>2. /\ OthersStay(h) /\ CallIsWellFormed(h)' /\ StartIsOnItsWay(h)'
      /\ Left(h)' = {} /\ New(h)' = None /\ Old(h)' = None
  BY <1>1, EndOf DEF TypeOK
<1>3. /\ ~Runs(r)' /\ OtherRuntimesStay(h)
      /\ \A q \in DOMAIN config : bound'[q] \subseteq bound[q]
  BY <1>1, DroppedIsGone
<1>4. AddressesAreTakenOnce'
  BY <1>3, FewerPorts DEF HostingInvariant
<1>5. \A q \in Runtime : q \in Hands(h) => ~Runs(q)'
  <2> SUFFICES ASSUME NEW q \in Runtime, q \in Hands(h) PROVE q = r
    BY <1>3
  <2> QED
    BY <1>1
<1>6. HostMoves(h)
  BY <1>2, <1>3, <1>4, <1>5 DEF HostMoves
<1> QED
  BY <1>6, HostMovesKeep

LEMMA FailKeeps ==
    ASSUME HostingInvariant, NEW h \in Host, Fail(h)
    PROVE  HostingInvariant'
<1>1. PICK step \in StartSteps : At(h, step)
  BY DEF Fail
<1>2. /\ CallIsWellFormed(h) /\ step \in Left(h)
      /\ New(h) \in DOMAIN config /\ New(h) # None
  BY <1>1, AtWork
<1>3. /\ Dropped(New(h)) /\ call' = [call EXCEPT ![h] = Idle]
      /\ UNCHANGED <<slot, lock, config, calls>>
  BY DEF Fail, New
<1>4. "lock" \in Left(h) \/ "serve" \in Left(h)
  BY <1>2 DEF CallIsWellFormed
<1>5. Old(h) = None
  BY <1>2, <1>4 DEF CallIsWellFormed
<1>6. h \in Thread => "lock" \in Left(h)
  BY <1>2, <1>4 DEF CallIsWellFormed
<1>7. "read" \notin Left(h)
  BY <1>2 DEF CallIsWellFormed, Host, StartSteps, Socket
<1> QED
  BY <1>2, <1>3, <1>5, <1>6, <1>7, EndKeeps DEF Hands

LEMMA CommandFailsKeeps ==
    ASSUME HostingInvariant, NEW p \in Chat, CommandFails(p)
    PROVE  HostingInvariant'
<1>1. p \in Host /\ p \notin Thread
  BY HostingAssumption DEF Host, HostingAssumption
<1>2. At(p, "serve")
  BY DEF CommandFails
<1>3. CallIsWellFormed(p) /\ "serve" \in Left(p) /\ New(p) \in DOMAIN config \cup {None}
  BY <1>1, <1>2, AtWork
<1>4. New(p) # None /\ Old(p) = None /\ "read" \notin Left(p)
  BY <1>3 DEF CallIsWellFormed
<1>5. /\ Dropped(New(p)) /\ call' = [call EXCEPT ![p] = Idle]
      /\ UNCHANGED <<slot, lock, config, calls>>
  BY DEF CommandFails, New
<1> QED
  BY <1>1, <1>3, <1>4, <1>5, EndKeeps DEF Hands

-----------------------------------------------------------------------------
(* The end of a stop.                                                      *)

LEMMA FarewellKeeps ==
    ASSUME HostingInvariant, NEW h \in Host, Farewell(h)
    PROVE  HostingInvariant'
<1> DEFINE s == call[h].todo
           rest == Tail(s)
           r == Old(h)
<1>1. At(h, "farewell") /\ "farewell" \in StopSteps
  BY DEF Farewell, StopSteps
<1>2. writing' = writing \ {r} /\ UNCHANGED <<slot, lock, config, bound, tasks, calls>>
  BY DEF Farewell, Old
<1>3. /\ TypeOK /\ CallIsWellFormed(h) /\ StartIsOnItsWay(h) /\ "farewell" \in Left(h)
      /\ r \in Runtime /\ New(h) \in DOMAIN config \cup {None}
      /\ r \in DOMAIN config \cup {None}
      /\ New(h) # None => New(h) # r
  BY <1>1, AtWork
<1>4. OtherRuntimesStay(h)
  BY <1>2, <1>3 DEF OtherRuntimesStay, Hands, TypeOK
<1>5. AddressesAreTakenOnce'
  BY <1>2, FewerPorts DEF HostingInvariant
<1>6. New(h) # None => /\ bound'[New(h)] = bound[New(h)]
                       /\ New(h) \in writing' <=> New(h) \in writing
  BY <1>2, <1>3
<1>7. CASE call' = Advanced(h)
  <2>1. Left(h)' = Left(h) \ {"farewell"} /\ New(h)' = New(h)
    BY <1>1, <1>3, <1>7, AdvanceOf DEF TypeOK
  <2>2. StartIsOnItsWay(h)'
    BY <2>1, <1>1, <1>2, <1>3, <1>6, StopKeepsStart
  <2> QED
    BY <2>2, <1>1, <1>2, <1>4, <1>5, <1>7, AdvanceKeeps
<1>8. CASE Head(rest) = "close_hub" /\ call' = [call EXCEPT ![h].todo = Tail(rest)]
  <2>1. s \in Seq(StepName) /\ InOrder(s) /\ s # <<>> /\ Head(s) = "farewell"
    BY <1>1, <1>3 DEF CallIsWellFormed, At
  <2>2. /\ rest \in Seq(StepName) /\ InOrder(rest)
        /\ Range(rest) = Range(s) \ {"farewell"}
    BY <2>1, TailOf
  <2>3. "drop" \in Range(s)
    BY <1>3 DEF CallIsWellFormed, Left, StopSteps
  <2>4. rest # <<>>
    <3>1. "drop" \in Range(rest)
      BY <2>2, <2>3
    <3> HIDE DEF rest
    <3> QED
      BY <3>1, NoSteps
  <2>5. /\ Tail(rest) \in Seq(StepName) /\ InOrder(Tail(rest))
        /\ Range(Tail(rest)) = Range(s) \ {"farewell", "close_hub"}
    BY <2>2, <2>4, <1>8, TailOf
  <2>6. /\ call'[h] = [todo |-> Tail(rest), new |-> New(h), old |-> r]
        /\ OthersStay(h)
    BY <1>3, <1>8 DEF TypeOK, OthersStay, CallIsWellFormed, New, Old
  <2>7. /\ Left(h)' = Left(h) \ {"farewell", "close_hub"} /\ New(h)' = New(h) /\ Old(h)' = r
        /\ call'[h].todo = Tail(rest)
    BY <2>5, <2>6 DEF Left, New, Old
  <2>8. StartIsOnItsWay(h)'
    BY <2>7, <1>1, <1>2, <1>3, <1>6, StopKeepsStart
  <2>9. call'[h] \in [todo : Seq(StepName), new : DOMAIN config' \cup {None},
                      old : DOMAIN config' \cup {None}]
    BY <2>5, <2>6, <1>2, <1>3
  <2> HIDE DEF s, rest, r
  <2>10. \A x \in StepName \ {"farewell", "close_hub"} : x \in Left(h)' <=> x \in Left(h)
    BY <2>7
  <2>11. CallIsWellFormed(h)'
    <3>1. Left(h)' \subseteq Left(h) /\ "drop" \in Left(h)' /\ "drop" \in Left(h)
      BY <2>3, <2>7 DEF Left, s
    <3>2. /\ Old(h)' # None /\ Old(h) = Old(h)' /\ New(h)' = New(h)
          /\ "lock" \notin Left(h) /\ "serve" \notin Left(h)
      BY <3>1, <2>7, <1>3 DEF CallIsWellFormed, r
    <3>3. \A x \in Left(h)' : x \notin StartSteps
      BY <3>1, <3>2, <1>3 DEF CallIsWellFormed
    <3>4. /\ "install" \in Left(h)' <=> "install" \in Left(h)
          /\ "unlock" \in Left(h)' <=> "unlock" \in Left(h)
          /\ "read" \in Left(h)' <=> "read" \in Left(h)
      BY <2>10, NamedSteps
    <3>5. InOrder(call'[h].todo)
      BY <2>5, <2>7
    <3>6. h \in Thread =>
              /\ "serve" \notin Left(h)'
              /\ Left(h)' # {} =>
                    "install" \in Left(h)' \/ "unlock" \in Left(h)' \/ "read" \in Left(h)'
              /\ "install" \in Left(h)' => "unlock" \notin Left(h)'
              /\ "read" \in Left(h)' => Left(h)' \subseteq {"lock", "read"}
      BY <3>1, <3>2, <3>4, <1>3 DEF CallIsWellFormed
    <3>7. h \in Chat =>
              /\ "ui" \notin Left(h)' /\ "close_ui" \notin Left(h)'
              /\ "drain_ui" \notin Left(h)'
              /\ "lock" \notin Left(h)' /\ "install" \notin Left(h)'
              /\ "unlock" \notin Left(h)' /\ "read" \notin Left(h)'
              /\ Left(h)' # {} => "serve" \in Left(h)' \/ "drop" \in Left(h)'
      BY <3>1, <3>2, <3>4, <1>3 DEF CallIsWellFormed
    <3>8. New(h)' # None <=> "install" \in Left(h)' \/ "serve" \in Left(h)'
      BY <3>1, <3>2, <3>4, <1>3 DEF CallIsWellFormed
    <3> QED
      BY <2>9, <3>1, <3>2, <3>3, <3>5, <3>6, <3>7, <3>8 DEF CallIsWellFormed
  <2>12. HostMoves(h)
    <3>1. "drop" \in Left(h) /\ "drop" \in Left(h)'
      BY <2>3, <2>7 DEF Left, s
    <3>2. "lock" \in Left(h)' <=> "lock" \in Left(h)
      BY <2>10, NamedSteps
    <3>3. "read" \in Left(h)' <=> "read" \in Left(h)
      BY <2>10, NamedSteps
    <3> QED
      BY <3>1, <3>2, <3>3, <2>6, <2>7, <2>8, <2>11, <1>2, <1>3, <1>4, <1>5
      DEF HostMoves, Hands, r
  <2> QED
    BY <2>12, HostMovesKeep
<1> QED
  BY <1>7, <1>8 DEF Farewell, Advanced

LEMMA DropKeeps ==
    ASSUME HostingInvariant, NEW h \in Host, Drop(h)
    PROVE  HostingInvariant'
<1> DEFINE s == call[h].todo
           r == Old(h)
<1>1. At(h, "drop")
  BY DEF Drop
<1>2. Dropped(r) /\ UNCHANGED <<slot, lock, config, calls>>
  BY DEF Drop, Old
<1>3. /\ TypeOK /\ CallIsWellFormed(h) /\ StartIsOnItsWay(h) /\ "drop" \in Left(h)
      /\ r \in DOMAIN config /\ r # None
      /\ New(h) \in DOMAIN config \cup {None} /\ New(h) # r
      /\ None \notin Runtime
  BY <1>1, AtWork
<1>4. "lock" \notin Left(h) /\ "serve" \notin Left(h)
  BY <1>3 DEF CallIsWellFormed
<1>5. CASE h \in Chat
  <2>1. h \notin Thread
    BY <1>5, HostingAssumption DEF HostingAssumption
  <2>2. call' = [call EXCEPT ![h] = Idle]
    BY <1>5 DEF Drop
  <2>3. New(h) = None /\ "read" \notin Left(h)
    BY <1>3, <1>4, <1>5 DEF CallIsWellFormed
  <2> QED
    BY <2>1, <2>2, <2>3, <1>2, <1>3, EndKeeps DEF Hands
<1>6. CASE h \in Thread
  <2>1. h \notin Chat
    BY <1>6, HostingAssumption DEF HostingAssumption
  <2>2. call' = [call EXCEPT ![h] = [todo |-> Tail(s), new |-> New(h), old |-> None]]
    BY <2>1 DEF Drop, New
  <2>3. s \in Seq(StepName) /\ InOrder(s) /\ s # <<>> /\ Head(s) = "drop"
    BY <1>1, <1>3 DEF CallIsWellFormed, At
  <2>4. /\ Tail(s) \in Seq(StepName) /\ InOrder(Tail(s))
        /\ Range(Tail(s)) = Range(s) \ {"drop"}
        /\ \A x \in Range(Tail(s)) : Rank["drop"] < Rank[x]
    BY <2>3, TailOf
  <2>5. /\ OthersStay(h)
        /\ call'[h] = [todo |-> Tail(s), new |-> New(h), old |-> None]
    BY <2>2, <1>3 DEF OthersStay, TypeOK
  <2>6. /\ Left(h)' = Left(h) \ {"drop"} /\ New(h)' = New(h) /\ Old(h)' = None
        /\ \A x \in Left(h)' : Rank["drop"] < Rank[x]
        /\ InOrder(call'[h].todo)
    BY <2>4, <2>5 DEF Left, New, Old
  <2>7. call'[h] \in [todo : Seq(StepName), new : DOMAIN config' \cup {None},
                      old : DOMAIN config' \cup {None}]
    BY <2>4, <2>5, <1>2, <1>3
  <2>8. \A x \in Left(h)' : x \notin StartSteps /\ x \notin StopSteps
    <3>1. \A x \in StopSteps : Rank[x] \in 8..14
      BY StoppingRanks
    <3>2. \A x \in Left(h)' : x \notin StopSteps
      BY <3>1, <2>6, Ranks
    <3> QED
      BY <3>2, <2>6, <1>3, <1>4 DEF CallIsWellFormed
  <2> HIDE DEF s, r
  <2>9. CallIsWellFormed(h)'
    BY <2>1, <2>6, <2>7, <2>8, <1>3, <1>4, <1>6 DEF CallIsWellFormed
  <2>10. StartIsOnItsWay(h)'
    <3>1. New(h) # None => /\ bound'[New(h)] = bound[New(h)]
                           /\ New(h) \in writing' <=> New(h) \in writing
      BY <1>2, <1>3, Runtimes DEF Dropped, TypeOK
    <3> QED
      BY <3>1, <2>6, <1>2, <1>3, StopKeepsStart
  <2>11. /\ \A q \in DOMAIN config : q = r => ~Runs(q)'
         /\ OtherRuntimesStay(h)
         /\ \A q \in DOMAIN config : bound'[q] \subseteq bound[q]
    <3>1. PICK q \in DOMAIN config : q = r
      BY <1>3
    <3>2. q \in Hands(h) /\ Dropped(q)
      BY <3>1, <1>2 DEF Hands, r
    <3>3. /\ ~Runs(q)' /\ OtherRuntimesStay(h)
          /\ \A o \in DOMAIN config : bound'[o] \subseteq bound[o]
      BY <3>2, <1>3, DroppedIsGone
    <3> QED
      BY <3>1, <3>3
  <2>12. AddressesAreTakenOnce'
    BY <2>11, <1>2, FewerPorts DEF HostingInvariant
  <2>13. \A q \in Runtime : q \in Hands(h) /\ q \notin Hands(h)' => ~Runs(q)'
    <3> SUFFICES ASSUME NEW q \in Runtime, q \in Hands(h), q \notin Hands(h)'
                 PROVE  ~Runs(q)'
      OBVIOUS
    <3>1. q = r
      BY <2>6 DEF Hands, r
    <3> QED
      BY <3>1, <2>11, <1>3
  <2>14. Left(h)' # {} /\ "lock" \notin Left(h)' /\ Left(h) # {}
    BY <2>6, <1>3, <1>4, <1>6 DEF CallIsWellFormed
  <2>15. HostMoves(h)
    BY <2>5, <2>6, <2>9, <2>10, <2>11, <2>12, <2>13, <2>14, <1>2, <1>3, <1>4
    DEF HostMoves, Hands
  <2> QED
    BY <2>15, HostMovesKeep
<1> QED
  BY <1>5, <1>6 DEF Host

LEMMA QuitKeeps ==
    ASSUME HostingInvariant, NEW p \in Chat, Quit(p)
    PROVE  HostingInvariant'
<1> DEFINE r == New(p)
           s == stop(config[r].mode) \o <<"drop">>
<1>1. p \in Host /\ p \notin Thread
  BY HostingAssumption DEF Host, HostingAssumption
<1>2. At(p, "serve")
  BY DEF Quit
<1>3. /\ call' = [call EXCEPT ![p] = [todo |-> s, new |-> None, old |-> r]]
      /\ UNCHANGED <<slot, lock, config, bound, writing, tasks, calls>>
  BY DEF Quit, New
<1>4. /\ TypeOK /\ CallIsWellFormed(p) /\ "serve" \in Left(p)
      /\ r \in DOMAIN config \cup {None}
  BY <1>1, <1>2, AtWork
<1>5. r # None /\ Old(p) = None /\ "read" \notin Left(p)
  BY <1>1, <1>4 DEF CallIsWellFormed
<1>6. s \in Seq(StepName) /\ InOrder(s) /\ Range(s) = StoppingSteps(config[r].mode)
  BY StopAndDropOf
<1>7. /\ OthersStay(p) /\ call'[p] = [todo |-> s, new |-> None, old |-> r]
  BY <1>1, <1>3, <1>4 DEF OthersStay, TypeOK
<1> HIDE DEF s, r
<1>8. /\ Left(p)' = Range(s) /\ New(p)' = None /\ Old(p)' = r /\ InOrder(call'[p].todo)
  BY <1>6, <1>7 DEF Left, New, Old
<1>9. call'[p] \in [todo : Seq(StepName), new : DOMAIN config' \cup {None},
                    old : DOMAIN config' \cup {None}]
  BY <1>3, <1>4, <1>6, <1>7
<1>10. Left(p)' \subseteq StopSteps \cup {"drop"} /\ "drop" \in Left(p)'
  BY <1>6, <1>8 DEF StoppingSteps, HubSteps, GatewaySteps, StopSteps
<1>11. "close_ui" \notin Left(p)' /\ "drain_ui" \notin Left(p)'
  BY <1>6, <1>8 DEF StoppingSteps, HubSteps, GatewaySteps
<1>12. \A x \in StopSteps \cup {"drop"} :
           x \notin StartSteps /\ x \notin {"lock", "install", "unlock", "read", "serve"}
  BY DEF StartSteps, StopSteps, Socket
<1>13. CallIsWellFormed(p)'
  <2>1. \A x \in Left(p)' :
            x \notin StartSteps /\ x \notin {"lock", "install", "unlock", "read", "serve"}
    BY <1>10, <1>12
  <2>2. "ui" \notin Left(p)'
    BY <2>1 DEF StartSteps, Socket
  <2> QED
    BY <2>1, <2>2, <1>1, <1>5, <1>8, <1>9, <1>10, <1>11 DEF CallIsWellFormed
<1>14. StartIsOnItsWay(p)'
  BY <1>8 DEF StartIsOnItsWay
<1>15. OtherRuntimesStay(p)
  BY <1>3, <1>4 DEF OtherRuntimesStay, TypeOK
<1>16. AddressesAreTakenOnce'
  BY <1>3, FewerPorts DEF HostingInvariant
<1>17. HostMoves(p)
  BY <1>1, <1>3, <1>5, <1>7, <1>8, <1>13, <1>14, <1>15, <1>16 DEF HostMoves, Hands, r
<1> QED
  BY <1>1, <1>17, HostMovesKeep

-----------------------------------------------------------------------------
(* The slot.                                                               *)

LEMMA FirstStep ==
    ASSUME NEW h \in Host, CallIsWellFormed(h), NEW step, At(h, step)
    PROVE  \A x \in Left(h) : x = step \/ Rank[step] < Rank[x]
<1> DEFINE s == call[h].todo
<1>1. s \in Seq(StepName) /\ InOrder(s) /\ s # <<>> /\ Head(s) = step
  BY DEF CallIsWellFormed, At
<1> HIDE DEF s
<1>2. /\ Range(Tail(s)) = Range(s) \ {step}
      /\ \A x \in Range(Tail(s)) : Rank[step] < Rank[x]
  BY <1>1, TailOf
<1>3. \A x \in Range(s) : x = step \/ Rank[step] < Rank[x]
  BY <1>2
<1> QED
  BY <1>3 DEF Left, s

\* What is left of a call at its lock step is one of the three ends of a call.
LEMMA AfterLock ==
    ASSUME HostingInvariant, NEW t \in Thread, At(t, "lock")
    PROVE  /\ Left(t) \subseteq {"lock", "install", "unlock", "read"}
           /\ Old(t) = None /\ "lock" \in Left(t)
<1>1. t \in Host
  BY DEF Host
<1>2. CallIsWellFormed(t) /\ "lock" \in Left(t)
  BY <1>1, AtWork
<1>3. \A x \in Left(t) : x = "lock" \/ Rank["lock"] < Rank[x]
  BY <1>1, <1>2, FirstStep
<1>4. "drop" \notin Left(t) /\ "serve" \notin Left(t)
  BY <1>2 DEF CallIsWellFormed
<1>5. \A x \in Left(t) : x \notin StopSteps
  BY <1>2, <1>4 DEF CallIsWellFormed
<1>6. \A x \in Left(t) : x \notin StartSteps
  BY <1>3, Ranks DEF StartSteps, Socket
<1>7. Left(t) \subseteq StepName
  BY <1>2, RangeIs DEF CallIsWellFormed, Left
<1>8. Left(t) \subseteq {"lock", "install", "unlock", "read"}
  <2> SUFFICES ASSUME NEW x \in Left(t)
               PROVE  x \in {"lock", "install", "unlock", "read"}
    OBVIOUS
  <2>1. \/ x \in StartSteps \/ x \in StopSteps
        \/ x \in {"lock", "drop", "install", "unlock", "read", "serve"}
    BY <1>7, StepNames DEF StartSteps, StopSteps, Socket
  <2> QED
    BY <2>1, <1>4, <1>5, <1>6
<1> QED
  BY <1>2, <1>4, <1>8 DEF CallIsWellFormed

\* Taking and releasing the mutex, as the type invariant sees it.
LEMMA LockType ==
    ASSUME HostingInvariant, NEW t \in Thread, OthersStay(t),
           UNCHANGED <<config, bound, writing, tasks, calls>>,
           slot' \in Runtime \cup {None}, lock' \in {t, None}, lock \in {t, None},
           CallIsWellFormed(t)', lock' = t <=> Left(t)' # {} /\ "lock" \notin Left(t)'
    PROVE  TypeOK'
<1>1. TypeOK /\ \A g \in Host : CallIsWellFormed(g)
  BY DEF HostingInvariant
<1>2. t \in Host /\ None \notin Thread
  BY HostingAssumption DEF Host, HostingAssumption
<1>3. \A u \in Thread : lock' = u <=> call'[u] # Idle /\ "lock" \notin Left(u)'
  <2> SUFFICES ASSUME NEW u \in Thread
               PROVE  lock' = u <=> call'[u] # Idle /\ "lock" \notin Left(u)'
    OBVIOUS
  <2>1. CASE u = t
    BY <2>1, <1>2, IdleIsEmptyNext
  <2>2. CASE u # t
    <3>1. call'[u] = call[u] /\ Left(u)' = Left(u)
      BY <2>2 DEF OthersStay, Host, Left
    <3>2. lock = u <=> call[u] # Idle /\ "lock" \notin Left(u)
      BY <1>1 DEF TypeOK, Left
    <3> QED
      BY <2>2, <3>1, <3>2, <1>2
  <2> QED
    BY <2>1, <2>2
<1>4. \A g \in Host : {call'[g].new, call'[g].old} \subseteq DOMAIN config' \cup {None}
  <2>1. ASSUME NEW g \in Host, g # t
        PROVE  {call'[g].new, call'[g].old} \subseteq DOMAIN config' \cup {None}
    BY <2>1, <1>1 DEF TypeOK, OthersStay
  <2>2. {call'[t].new, call'[t].old} \subseteq DOMAIN config' \cup {None}
    BY DEF CallIsWellFormed
  <2> QED
    BY <2>1, <2>2
<1>5. DOMAIN call' = Host /\ lock' \in Thread \cup {None}
  BY DEF OthersStay
<1> QED
  BY <1>1, <1>3, <1>4, <1>5 DEF TypeOK, Left

\* Who is not at the lock is not disturbed.
LEMMA OthersKeep ==
    ASSUME HostingInvariant, NEW t \in Host, OthersStay(t), UNCHANGED <<config, bound, writing>>
    PROVE  /\ \A g \in Host \ {t} : CallIsWellFormed(g)' /\ StartIsOnItsWay(g)'
           /\ \A g \in Host \ {t} : /\ Left(g)' = Left(g)
                                    /\ New(g)' = New(g) /\ Old(g)' = Old(g)
           /\ AddressesAreTakenOnce'
<1>1. \A g \in Host \ {t} : /\ Left(g)' = Left(g) /\ New(g)' = New(g) /\ Old(g)' = Old(g)
                            /\ call'[g] = call[g]
  BY DEF OthersStay, Left, New, Old
<1>2. ASSUME NEW g \in Host \ {t}
      PROVE  CallIsWellFormed(g)' /\ StartIsOnItsWay(g)'
  <2>1. CallIsWellFormed(g) /\ StartIsOnItsWay(g)
    BY DEF HostingInvariant
  <2>2. CallIsWellFormed(g)'
    BY <2>1, <1>1 DEF CallIsWellFormed
  <2>3. StartIsOnItsWay(g)'
    BY <2>1, <1>1 DEF StartIsOnItsWay, SocketsFor
  <2> QED
    BY <2>2, <2>3
<1>3. AddressesAreTakenOnce'
  BY FewerPorts DEF HostingInvariant
<1> QED
  BY <1>1, <1>2, <1>3

LEMMA LockFreeKeeps ==
    ASSUME HostingInvariant, NEW t \in Thread, Lock(t), call' = Advanced(t), slot' = slot,
           slot = None \/ Head(Tail(call[t].todo)) = "read"
    PROVE  HostingInvariant'
<1>1. /\ At(t, "lock") /\ lock = None /\ lock' = t
      /\ UNCHANGED <<config, bound, writing, tasks, calls>>
  BY DEF Lock
<1>2. t \in Host /\ t \notin Chat /\ t # None
  BY HostingAssumption DEF Host, HostingAssumption
<1>3. /\ TypeOK /\ CallIsWellFormed(t) /\ StartIsOnItsWay(t) /\ "lock" \in Left(t)
      /\ HandsApart /\ SlotIsComplete /\ AllInHand
  BY <1>1, <1>2, AtWork DEF HostingInvariant
<1>4. CallIsWellFormed(t)' /\ Left(t)' # {}
  BY <1>1, <1>2, <1>3, AdvanceIsWellFormed
<1>5. /\ OthersStay(t) /\ Left(t)' = Left(t) \ {"lock"}
      /\ New(t)' = New(t) /\ Old(t)' = Old(t)
  BY <1>1, <1>2, <1>3, AdvanceOf DEF TypeOK
<1>6. TypeOK'
  BY <1>1, <1>3, <1>4, <1>5, LockType DEF TypeOK
<1>7. /\ \A g \in Host \ {t} : CallIsWellFormed(g)' /\ StartIsOnItsWay(g)'
      /\ \A g \in Host \ {t} : /\ Left(g)' = Left(g)
                               /\ New(g)' = New(g) /\ Old(g)' = Old(g)
      /\ AddressesAreTakenOnce'
  BY <1>1, <1>2, <1>5, OthersKeep
<1>8. StartIsOnItsWay(t)'
  <2>1. \A c : SocketsFor(t, c) \ Left(t)' = SocketsFor(t, c) \ Left(t)
    BY <1>5 DEF SocketsFor, Sockets
  <2>2. Left(t)' \cap Socket = Left(t) \cap Socket
    BY <1>5 DEF Socket
  <2> QED
    BY <2>1, <2>2, <1>1, <1>3, <1>5 DEF StartIsOnItsWay, SocketsFor
<1>9. SlotIsComplete'
  <2>1. slot = None \/ "read" \in Left(t)'
    <3>1. CASE Head(Tail(call[t].todo)) = "read"
      <4> DEFINE s == call[t].todo
      <4>1. s \in Seq(StepName) /\ InOrder(s) /\ s # <<>> /\ Head(s) = "lock"
        BY <1>1, <1>3 DEF CallIsWellFormed, At
      <4> HIDE DEF s
      <4>2. Tail(s) \in Seq(StepName) /\ Range(Tail(s)) = Range(s) \ {"lock"}
        BY <4>1, TailOf
      <4>3. Left(t)' = Range(Tail(s))
        BY <4>2, <1>5 DEF Left, s
      <4>4. Tail(s) # <<>>
        <5> DEFINE u == Tail(s)
        <5>1. Range(u) # {}
          BY <4>3, <1>4
        <5> HIDE DEF u
        <5>2. u # <<>>
          BY <5>1, NoSteps
        <5> QED
          BY <5>2 DEF u
      <4>5. Head(Tail(s)) \in Range(Tail(s))
        BY <4>2, <4>4, RangeIs
      <4> QED
        BY <4>3, <4>5, <3>1 DEF s
    <3> QED
      BY <3>1
  <2> QED
    BY <2>1, <1>1, <1>3 DEF SlotIsComplete
<1>10. HandsApart'
  <2>1. \A g \in Host : New(g)' = New(g) /\ Old(g)' = Old(g)
    BY <1>5, <1>7
  <2> QED
    BY <2>1, <1>3 DEF HandsApart
<1>11. AllInHand'
  <2>1. \A g \in Host : New(g)' = New(g) /\ Old(g)' = Old(g)
    BY <1>5, <1>7
  <2> QED
    BY <2>1, <1>1, <1>3 DEF AllInHand, Runs
<1> QED
  BY <1>4, <1>6, <1>7, <1>8, <1>9, <1>10, <1>11 DEF HostingInvariant

LEMMA CallRecord ==
    ASSUME NEW runtimes, NEW todo \in Seq(StepName), NEW new \in runtimes, NEW old \in runtimes
    PROVE  [todo |-> todo, new |-> new, old |-> old]
               \in [todo : Seq(StepName), new : runtimes, old : runtimes]
OBVIOUS

LEMMA LockAndStopKeeps ==
    ASSUME HostingInvariant, NEW t \in Thread, At(t, "lock"), lock = None, lock' = t,
           slot # None, Head(Tail(call[t].todo)) # "read", slot' = None,
           call' = [call EXCEPT ![t] =
                       [todo |-> stop_and_drop(slot) \o Tail(call[t].todo),
                        new |-> New(t), old |-> slot]],
           UNCHANGED <<config, bound, writing, tasks, calls>>
    PROVE  HostingInvariant'
<1> DEFINE s == call[t].todo
           rest == Tail(s)
           m == config[slot].mode
<1>1. t \in Host /\ t \notin Chat /\ t # None
  BY HostingAssumption DEF Host, HostingAssumption
<1>2. /\ TypeOK /\ CallIsWellFormed(t) /\ StartIsOnItsWay(t)
      /\ HandsApart /\ SlotIsComplete /\ AllInHand
      /\ New(t) \in DOMAIN config \cup {None} /\ None \notin Runtime
      /\ DOMAIN config \subseteq Runtime
  BY <1>1, AtWork DEF HostingInvariant
<1>3. /\ Left(t) \subseteq {"lock", "install", "unlock", "read"}
      /\ Old(t) = None /\ "lock" \in Left(t)
  BY AfterLock
<1>4. s \in Seq(StepName) /\ InOrder(s) /\ s # <<>> /\ Head(s) = "lock"
  BY <1>2 DEF CallIsWellFormed, At
<1>5. /\ rest \in Seq(StepName) /\ InOrder(rest) /\ Range(rest) = Left(t) \ {"lock"}
  <2> HIDE DEF s
  <2>1. Range(rest) = Range(s) \ {"lock"} /\ rest \in Seq(StepName) /\ InOrder(rest)
    BY <1>4, TailOf
  <2> QED
    BY <2>1 DEF Left, s
<1> HIDE DEF rest
<1>6. "read" \notin Left(t)
  <2> SUFFICES ASSUME "read" \in Left(t) PROVE FALSE
    OBVIOUS
  <2>1. Range(rest) = {"read"}
    BY <1>1, <1>2, <1>5 DEF CallIsWellFormed
  <2>2. rest # <<>>
    BY <2>1, NoSteps
  <2>3. Head(rest) \in Range(rest)
    BY <2>2, <1>5, RangeIs
  <2> QED
    BY <2>1, <2>3 DEF rest, s
<1>7. Range(rest) \subseteq {"install", "unlock"} /\ Range(rest) = Left(t) \ {"lock"}
  BY <1>3, <1>5, <1>6
<1>8. /\ stop_and_drop(slot) \o rest \in Seq(StepName)
      /\ InOrder(stop_and_drop(slot) \o rest)
      /\ Range(stop_and_drop(slot) \o rest) =
            {"close_ui", "drain_ui"} \cup StoppingSteps(m) \cup Range(rest)
  <2>1. Range(rest) \subseteq {"install", "unlock", "read", "serve"}
    BY <1>7
  <2> QED
    BY <2>1, <1>5, ReplaceOf
<1> DEFINE todo == stop_and_drop(slot) \o rest
<1>9. OthersStay(t) /\ call'[t] = [todo |-> todo, new |-> New(t), old |-> slot]
  BY <1>1, <1>2 DEF OthersStay, TypeOK, rest, s
<1> HIDE DEF todo
<1>10. /\ Left(t)' = Range(todo)
       /\ New(t)' = New(t) /\ Old(t)' = slot /\ InOrder(call'[t].todo)
  <2>1. InOrder(todo)
    BY <1>8 DEF todo
  <2>2. call'[t].todo = todo /\ call'[t].new = New(t) /\ call'[t].old = slot
    BY <1>9
  <2> QED
    BY <2>1, <2>2 DEF Left, New, Old
<1>11. /\ Left(t)' = {"close_ui", "drain_ui"} \cup StoppingSteps(m) \cup (Left(t) \ {"lock"})
       /\ slot \in DOMAIN config
  BY <1>7, <1>8, <1>10, <1>2 DEF SlotIsComplete, todo
<1>12. call'[t] \in [todo : Seq(StepName), new : DOMAIN config' \cup {None},
                     old : DOMAIN config' \cup {None}]
  <2>1. todo \in Seq(StepName)
    BY <1>8 DEF todo
  <2>2. New(t) \in DOMAIN config' \cup {None} /\ slot \in DOMAIN config' \cup {None}
    BY <1>2, <1>11
  <2>3. [todo |-> todo, new |-> New(t), old |-> slot]
            \in [todo : Seq(StepName), new : DOMAIN config' \cup {None},
                 old : DOMAIN config' \cup {None}]
    BY <2>1, <2>2, CallRecord
  <2> QED
    BY <2>3, <1>9
<1> HIDE DEF m, s
<1>13. /\ Left(t)' \subseteq StopSteps \cup {"drop", "install", "unlock"}
       /\ "drop" \in Left(t)'
       /\ "install" \in Left(t)' <=> "install" \in Left(t)
       /\ "unlock" \in Left(t)' <=> "unlock" \in Left(t)
  BY <1>7, <1>11 DEF StoppingSteps, HubSteps, GatewaySteps, StopSteps
<1>14. \A x \in Left(t)' : x \notin StartSteps /\ x \notin {"lock", "read", "serve"}
  BY <1>13 DEF StartSteps, StopSteps, Socket
<1>15. \A x \in Left(t) : x \notin StartSteps /\ x \notin {"serve"}
  BY <1>3 DEF StartSteps, Socket
<1>16. CallIsWellFormed(t)'
  BY <1>1, <1>2, <1>3, <1>6, <1>10, <1>12, <1>13, <1>14, <1>15 DEF CallIsWellFormed
<1>17. TypeOK'
  BY <1>9, <1>13, <1>14, <1>16, LockType
<1>18. /\ \A g \in Host \ {t} : CallIsWellFormed(g)' /\ StartIsOnItsWay(g)'
       /\ \A g \in Host \ {t} : /\ Left(g)' = Left(g)
                                /\ New(g)' = New(g) /\ Old(g)' = Old(g)
       /\ AddressesAreTakenOnce'
  BY <1>1, <1>9, OthersKeep
<1>19. StartIsOnItsWay(t)'
  <2>1. \A x \in Left(t) \cup Left(t)' : x \notin Socket /\ x # "load" /\ x # "register"
    BY <1>14, <1>15 DEF StartSteps
  <2>2. \A c : SocketsFor(t, c) \subseteq Socket
    BY DEF SocketsFor, Sockets, Socket
  <2>3. \A c : SocketsFor(t, c) \ Left(t)' = SocketsFor(t, c) \ Left(t)
    BY <2>1, <2>2
  <2>4. "direct" \in Socket
    BY DEF Socket
  <2> QED
    BY <2>1, <2>3, <2>4, <1>2, <1>10 DEF StartIsOnItsWay, SocketsFor
<1>20. SlotIsComplete'
  BY DEF SlotIsComplete
<1>21. HandsApart'
  <2>1. \A g \in Host : New(g)' = New(g)
    BY <1>10, <1>18
  <2>2. \A g \in Host : Old(g)' = IF g = t THEN slot ELSE Old(g)
    BY <1>10, <1>18
  <2>3. \A g \in Host : New(g)' # None => New(g)' # Old(g)' /\ New(g)' # slot'
    BY <2>1, <2>2, <1>2 DEF HandsApart
  <2>4. \A g \in Host : Old(g)' # None => Old(g)' # slot'
    OBVIOUS
  <2>5. ASSUME NEW f \in Host, NEW g \in Host, f # g
        PROVE  {New(f)', Old(f)'} \cap {New(g)', Old(g)'} \subseteq {None}
    <3>1. {New(f), Old(f)} \cap {New(g), Old(g)} \subseteq {None}
      BY <2>5, <1>2 DEF HandsApart
    <3>2. /\ New(f) # None => New(f) # slot
          /\ Old(f) # None => Old(f) # slot
          /\ New(g) # None => New(g) # slot
          /\ Old(g) # None => Old(g) # slot
      BY <1>2 DEF HandsApart
    <3> QED
      BY <2>1, <2>2, <2>5, <3>1, <3>2
  <2> QED
    BY <2>3, <2>4, <2>5 DEF HandsApart
<1>22. AllInHand'
  <2> SUFFICES ASSUME NEW r \in Runtime, Runs(r)'
               PROVE  \E g \in Host : r \in {New(g)', Old(g)'}
    BY DEF AllInHand
  <2>1. Runs(r)
    BY DEF Runs
  <2>2. CASE r = slot
    BY <2>2, <1>1, <1>10
  <2>3. CASE r # slot
    <3>1. PICK g \in Host : r \in {New(g), Old(g)}
      BY <2>1, <2>3, <1>2 DEF AllInHand
    <3>2. r # None
      BY <1>2
    <3> QED
      BY <3>1, <3>2, <1>3, <1>10, <1>18
  <2> QED
    BY <2>2, <2>3
<1> QED
  BY <1>16, <1>17, <1>18, <1>19, <1>20, <1>21, <1>22 DEF HostingInvariant

LEMMA LockKeeps ==
    ASSUME HostingInvariant, NEW t \in Thread, Lock(t)
    PROVE  HostingInvariant'
<1>1. CASE slot = None \/ Head(Tail(call[t].todo)) = "read"
  BY <1>1, LockFreeKeeps DEF Lock
<1>2. CASE ~(slot = None \/ Head(Tail(call[t].todo)) = "read")
  <2>1. call' = [call EXCEPT ![t] =
                    [todo |-> stop_and_drop(slot) \o Tail(call[t].todo),
                     new |-> New(t), old |-> slot]]
    BY <1>2 DEF Lock, New
  <2> QED
    BY <1>2, <2>1, LockAndStopKeeps DEF Lock
<1> QED
  BY <1>1, <1>2

LEMMA UnlockKeeps ==
    ASSUME HostingInvariant, NEW t \in Thread, Unlock(t)
    PROVE  HostingInvariant'
<1>1. PICK step \in {"install", "unlock", "read"} : At(t, step)
  BY DEF Unlock
<1>2. /\ slot' = (IF At(t, "install") THEN New(t) ELSE slot) /\ lock' = None
      /\ call' = [call EXCEPT ![t] = Idle]
      /\ UNCHANGED <<config, bound, writing, tasks, calls>>
  BY DEF Unlock, New
<1>3. t \in Host /\ t \notin Chat /\ t # None
  BY HostingAssumption DEF Host, HostingAssumption
<1>4. /\ TypeOK /\ CallIsWellFormed(t) /\ StartIsOnItsWay(t) /\ step \in Left(t)
      /\ HandsApart /\ SlotIsComplete /\ AllInHand
      /\ New(t) \in DOMAIN config \cup {None} /\ None \notin Runtime
      /\ DOMAIN config \subseteq Runtime
  BY <1>1, <1>3, AtWork DEF HostingInvariant
<1>5. \A x \in Left(t) : x = step \/ Rank[step] < Rank[x]
  BY <1>1, <1>3, <1>4, FirstStep
<1>6. "lock" \notin Left(t) /\ "drop" \notin Left(t)
  <2>1. Rank[step] \in 15..18
    BY LastRanks
  <2> QED
    BY <2>1, <1>5, Ranks
<1>7. lock = t
  BY <1>3, <1>4, <1>6, IdleIsEmpty DEF TypeOK, Left
<1>8. Old(t) = None
  BY <1>4, <1>6 DEF CallIsWellFormed
<1>9. /\ OthersStay(t) /\ CallIsWellFormed(t)' /\ StartIsOnItsWay(t)'
      /\ Left(t)' = {} /\ New(t)' = None /\ Old(t)' = None
  BY <1>2, <1>3, <1>4, EndOf DEF TypeOK
<1>10. /\ \A g \in Host \ {t} : CallIsWellFormed(g)' /\ StartIsOnItsWay(g)'
       /\ \A g \in Host \ {t} : /\ Left(g)' = Left(g)
                                /\ New(g)' = New(g) /\ Old(g)' = Old(g)
       /\ AddressesAreTakenOnce'
  BY <1>2, <1>3, <1>9, OthersKeep
<1>11. step = "install" <=> At(t, "install")
  BY <1>1 DEF At
<1>12. slot' \in DOMAIN config \cup {None}
  BY <1>2, <1>4 DEF SlotIsComplete
<1>13. TypeOK'
  BY <1>2, <1>3, <1>4, <1>7, <1>9, <1>12, LockType
<1>14. CASE step = "install"
  <2>1. /\ "install" \in Left(t) /\ New(t) # None /\ slot' = New(t)
        /\ "load" \notin Left(t) /\ slot = None
    <3>1. "install" \in Left(t) /\ "read" \notin Left(t)
      BY <1>4, <1>14 DEF CallIsWellFormed
    <3>2. "load" \notin Left(t)
      BY <1>5, <1>14, Ranks
    <3> QED
      BY <3>1, <3>2, <1>2, <1>3, <1>4, <1>7, <1>11, <1>14 DEF CallIsWellFormed, SlotIsComplete
  <2>2. \A x \in Left(t) : x \notin Socket
    BY <1>5, <1>14, Ranks DEF Socket
  <2>3. \A c : SocketsFor(t, c) \ Left(t) = Sockets(c)
    <3>1. \A c : SocketsFor(t, c) = Sockets(c)
      BY <1>3 DEF SocketsFor
    <3>2. \A c : Sockets(c) \subseteq Socket
      BY DEF Sockets, Socket
    <3> QED
      BY <3>1, <3>2, <2>2
  <2>4. /\ bound[New(t)] = Sockets(config[New(t)])
        /\ New(t) \in writing <=> runs_gateway(config[New(t)].mode)
    BY <2>1, <2>3, <1>4 DEF StartIsOnItsWay
  <2>5. SlotIsComplete'
    BY <2>1, <2>4, <1>2, <1>12 DEF SlotIsComplete, Sockets
  <2>6. HandsApart'
    <3>1. \A g \in Host : /\ New(g)' = IF g = t THEN None ELSE New(g)
                          /\ Old(g)' = IF g = t THEN None ELSE Old(g)
      BY <1>9, <1>10
    <3>2. \A g \in Host \ {t} : /\ New(g) # None => New(g) # New(t)
                                /\ Old(g) # None => Old(g) # New(t)
      BY <1>3, <1>4 DEF HandsApart
    <3>3. \A g \in Host : /\ New(g)' # None => New(g)' # Old(g)' /\ New(g)' # slot'
                          /\ Old(g)' # None => Old(g)' # slot'
      BY <3>1, <3>2, <2>1, <1>4 DEF HandsApart
    <3>4. ASSUME NEW f \in Host, NEW g \in Host, f # g
          PROVE  {New(f)', Old(f)'} \cap {New(g)', Old(g)'} \subseteq {None}
      <4>1. {New(f), Old(f)} \cap {New(g), Old(g)} \subseteq {None}
        BY <3>4, <1>4 DEF HandsApart
      <4> QED
        BY <3>1, <4>1
    <3> QED
      BY <3>3, <3>4 DEF HandsApart
  <2>7. AllInHand'
    <3> SUFFICES ASSUME NEW r \in Runtime, Runs(r)', r # slot'
                 PROVE  \E g \in Host : r \in {New(g)', Old(g)'}
      BY DEF AllInHand
    <3>1. Runs(r) /\ r # None /\ r # slot
      BY <2>1, <1>2, <1>4 DEF Runs
    <3>2. PICK g \in Host : r \in {New(g), Old(g)}
      BY <3>1, <1>4 DEF AllInHand
    <3>3. g # t
      BY <3>1, <3>2, <2>1, <1>8
    <3> QED
      BY <3>2, <3>3, <1>10
  <2> QED
    BY <2>5, <2>6, <2>7, <1>9, <1>10, <1>13 DEF HostingInvariant
<1>15. CASE step # "install"
  <2>1. slot' = slot /\ New(t) = None
    <3>1. "install" \notin Left(t) /\ "serve" \notin Left(t)
      BY <1>1, <1>3, <1>4, <1>15 DEF CallIsWellFormed
    <3> QED
      BY <3>1, <1>2, <1>4, <1>11, <1>15 DEF CallIsWellFormed
  <2>2. \A g \in Host : New(g)' = New(g) /\ Old(g)' = Old(g)
    BY <2>1, <1>8, <1>9, <1>10
  <2>3. SlotIsComplete'
    BY <2>1, <1>2, <1>4 DEF SlotIsComplete
  <2>4. HandsApart'
    BY <2>1, <2>2, <1>4 DEF HandsApart
  <2>5. AllInHand'
    BY <2>1, <2>2, <1>2, <1>4 DEF AllInHand, Runs
  <2> QED
    BY <2>3, <2>4, <2>5, <1>9, <1>10, <1>13 DEF HostingInvariant
<1> QED
  BY <1>14, <1>15

-----------------------------------------------------------------------------
(* Calls begin.                                                            *)

LEMMA AppendOf ==
    ASSUME NEW s \in Seq(Config), NEW c \in Config
    PROVE  /\ Append(s, c) \in Seq(Config) /\ Len(Append(s, c)) = Len(s) + 1
           /\ DOMAIN Append(s, c) = 1..Len(s) + 1
           /\ \A r \in 1..Len(s) : Append(s, c)[r] = s[r]
           /\ Append(s, c)[Len(s) + 1] = c
<1>1. Append(s, c) \in Seq(Config) /\ Len(Append(s, c)) = Len(s) + 1
  OBVIOUS
<1>2. DOMAIN Append(s, c) = 1..Len(s) + 1
  BY <1>1
<1>3. \A r \in 1..Len(s) : Append(s, c)[r] = s[r]
  OBVIOUS
<1>4. Append(s, c)[Len(s) + 1] = c
  OBVIOUS
<1> QED
  BY <1>1, <1>2, <1>3, <1>4

\* A call begins: of the runtimes there are, none is disturbed, and the one that is new
\* has nothing yet.
LEMMA BeginKeeps ==
    ASSUME HostingInvariant, NEW h \in Host, NEW todo, NEW new, Call(h, todo, new),
           \/ config' = config /\ new = None
           \/ \E c \in Config : config' = Append(config, c) /\ new = Len(config'),
           CallIsWellFormed(h)', StartIsOnItsWay(h)',
           h \in Thread => "lock" \in Left(h)'
    PROVE  HostingInvariant'
<1>1. /\ call[h] = Idle /\ calls < MaxCalls /\ calls' = calls + 1
      /\ call' = [call EXCEPT ![h] = [todo |-> todo, new |-> new, old |-> None]]
      /\ UNCHANGED <<slot, lock, bound, writing, tasks>>
  BY DEF Call
<1>2. /\ TypeOK /\ HandsApart /\ SlotIsComplete /\ AllInHand /\ AddressesAreTakenOnce
      /\ \A g \in Host : CallIsWellFormed(g) /\ StartIsOnItsWay(g)
  BY DEF HostingInvariant
<1>3. /\ DOMAIN config = 1..Len(config) /\ Len(config) \in Nat /\ None \notin Runtime
      /\ DOMAIN config \subseteq Runtime /\ config \in Seq(Config)
  BY <1>2, Runtimes DEF TypeOK
<1>4. /\ config' \in Seq(Config) /\ Len(config') <= calls'
      /\ DOMAIN config \subseteq DOMAIN config' /\ DOMAIN config' \subseteq Runtime
      /\ \A r \in DOMAIN config : config'[r] = config[r]
      /\ new = None \/ (DOMAIN config' = DOMAIN config \cup {new} /\ new \notin DOMAIN config)
      /\ new = None => config' = config
  <2>1. Len(config) <= calls /\ calls \in Nat /\ MaxCalls \in Nat
    BY <1>2, HostingAssumption DEF TypeOK, HostingAssumption
  <2>2. CASE config' = config /\ new = None
    BY <2>1, <2>2, <1>1, <1>3
  <2>3. CASE \E c \in Config : config' = Append(config, c) /\ new = Len(config')
    <3>1. PICK c \in Config : config' = Append(config, c) /\ new = Len(config')
      BY <2>3
    <3>2. /\ config' \in Seq(Config) /\ Len(config') = Len(config) + 1
          /\ DOMAIN config' = 1..Len(config) + 1
          /\ \A r \in 1..Len(config) : config'[r] = config[r]
      BY <3>1, <1>3, AppendOf
    <3>3. new = Len(config) + 1
      BY <3>1, <3>2
    <3>4. Len(config) + 1 <= MaxCalls /\ Len(config) + 1 <= calls + 1
      <4>1. Len(config) \in Nat /\ calls < MaxCalls
        BY <1>1, <1>3
      <4> HIDE <1>1, <1>3, <1>2
      <4> QED
        BY <4>1, <2>1
    <3>5. new \in Runtime /\ new \notin DOMAIN config
      BY <3>3, <3>4, <1>3, <2>1 DEF Runtime
    <3>6. new # None
      BY <3>5, <1>3
    <3> QED
      BY <3>2, <3>3, <3>4, <3>5, <3>6, <2>1, <1>1, <1>3 DEF Runtime
  <2> QED
    BY <2>2, <2>3
<1>5. /\ DOMAIN call' = Host
      /\ call'[h] = [todo |-> todo, new |-> new, old |-> None]
      /\ \A g \in Host \ {h} : call'[g] = call[g]
  BY <1>1, <1>2 DEF TypeOK
<1>6. /\ New(h)' = new /\ Old(h)' = None /\ New(h) = None /\ Old(h) = None
      /\ \A g \in Host \ {h} : /\ Left(g)' = Left(g)
                               /\ New(g)' = New(g) /\ Old(g)' = Old(g)
  BY <1>1, <1>5 DEF Left, New, Old, Idle
<1>7. \A g \in Host : /\ New(g) \in DOMAIN config \cup {None}
                      /\ Old(g) \in DOMAIN config \cup {None}
  BY <1>2 DEF CallIsWellFormed, New, Old
<1>8. slot \in DOMAIN config \cup {None}
  BY <1>2 DEF SlotIsComplete
<1>9. ASSUME NEW g \in Host, g # h
      PROVE  CallIsWellFormed(g)' /\ StartIsOnItsWay(g)'
  <2>1. /\ CallIsWellFormed(g) /\ StartIsOnItsWay(g)
        /\ call'[g] = call[g] /\ Left(g)' = Left(g)
        /\ New(g)' = New(g) /\ Old(g)' = Old(g)
    BY <1>2, <1>5, <1>6, <1>9
  <2>2. call'[g] \in [todo : Seq(StepName), new : DOMAIN config' \cup {None},
                      old : DOMAIN config' \cup {None}]
    BY <2>1, <1>4 DEF CallIsWellFormed
  <2>3. CallIsWellFormed(g)'
    BY <2>1, <2>2 DEF CallIsWellFormed
  <2>4. New(g) # None => config'[New(g)] = config[New(g)]
    BY <1>4, <1>7
  <2>5. StartIsOnItsWay(g)'
    BY <2>1, <2>4, <1>1 DEF StartIsOnItsWay, SocketsFor
  <2> QED
    BY <2>3, <2>5
<1>10. \A g \in Host : CallIsWellFormed(g)'
  BY <1>9
<1>11. TypeOK'
  <2>1. \A t \in Thread : lock' = t <=> call'[t] # Idle /\ "lock" \notin Left(t)'
    <3> SUFFICES ASSUME NEW t \in Thread
                 PROVE  lock' = t <=> call'[t] # Idle /\ "lock" \notin Left(t)'
      OBVIOUS
    <3>1. lock = t <=> call[t] # Idle /\ "lock" \notin Left(t)
      BY <1>2 DEF TypeOK, Left
    <3>2. CASE t = h
      BY <3>1, <3>2, <1>1
    <3>3. CASE t # h
      BY <3>1, <3>3, <1>1, <1>5, <1>6 DEF Host
    <3> QED
      BY <3>2, <3>3
  <2>2. \A g \in Host : {call'[g].new, call'[g].old} \subseteq DOMAIN config' \cup {None}
    BY <1>10 DEF CallIsWellFormed
  <2>3. calls' \in 0..MaxCalls
    BY <1>1, <1>2, HostingAssumption DEF TypeOK, HostingAssumption
  <2>4. writing' \subseteq DOMAIN config'
    BY <1>1, <1>2, <1>4 DEF TypeOK
  <2> QED
    BY <2>1, <2>2, <2>3, <2>4, <1>1, <1>2, <1>4, <1>5 DEF TypeOK, Left
<1>12. SlotIsComplete'
  <2>1. slot # None => config'[slot] = config[slot]
    BY <1>4, <1>8
  <2>2. lock # None => slot = None \/ "read" \in Left(lock)'
    <3>1. lock # None => lock \in Thread /\ call[lock] # Idle
      BY <1>2 DEF TypeOK
    <3>2. lock # None => lock # h /\ lock \in Host
      BY <3>1, <1>1 DEF Host
    <3>3. ASSUME NEW t \in Host, t = lock, t # h, lock # None
          PROVE  slot = None \/ "read" \in Left(t)'
      BY <3>3, <1>2, <1>6 DEF SlotIsComplete
    <3> QED
      BY <3>2, <3>3, <1>1 DEF Left
  <2> QED
    BY <2>1, <2>2, <1>1, <1>2, <1>4, <1>8 DEF SlotIsComplete
<1>13. HandsApart'
  <2>1. \A g \in Host : Old(g)' = Old(g)
    BY <1>6
  <2>2. \A g \in Host : New(g)' = IF g = h THEN new ELSE New(g)
    BY <1>6
  <2>3. new # None => new # slot /\ \A g \in Host : new # New(g) /\ new # Old(g)
    BY <1>4, <1>7, <1>8
  <2>4. \A g \in Host : /\ New(g)' # None => New(g)' # Old(g)' /\ New(g)' # slot'
                        /\ Old(g)' # None => Old(g)' # slot'
    BY <2>1, <2>2, <2>3, <1>1, <1>2 DEF HandsApart
  <2>5. ASSUME NEW f \in Host, NEW g \in Host, f # g
        PROVE  {New(f)', Old(f)'} \cap {New(g)', Old(g)'} \subseteq {None}
    <3>1. {New(f), Old(f)} \cap {New(g), Old(g)} \subseteq {None}
      BY <2>5, <1>2 DEF HandsApart
    <3> QED
      BY <2>1, <2>2, <2>3, <2>5, <3>1
  <2> QED
    BY <2>4, <2>5 DEF HandsApart
<1>14. AllInHand'
  <2> SUFFICES ASSUME NEW r \in Runtime, Runs(r)', r # slot'
               PROVE  \E g \in Host : r \in {New(g)', Old(g)'}
    BY DEF AllInHand
  <2>1. Runs(r) /\ r # slot
    BY <1>1 DEF Runs
  <2>2. PICK g \in Host : r \in {New(g), Old(g)}
    BY <2>1, <1>2 DEF AllInHand
  <2>3. g # h
    BY <2>2, <1>3, <1>6
  <2> QED
    BY <2>2, <2>3, <1>6
<1>15. AddressesAreTakenOnce'
  <2> SUFFICES ASSUME NEW q \in DOMAIN config', NEW r \in DOMAIN config', q # r,
                      NEW i \in bound'[q], NEW s \in bound'[r]
               PROVE  <<AddressOf(q, i)', AddressOf(r, s)'>> \notin Clash
    BY DEF AddressesAreTakenOnce
  <2>1. \A o \in DOMAIN config' \ DOMAIN config : bound[o] = {}
    <3> SUFFICES ASSUME NEW o \in DOMAIN config' \ DOMAIN config, bound[o] # {}
                 PROVE  FALSE
      OBVIOUS
    <3>1. Runs(o) /\ o \in Runtime
      BY <1>4 DEF Runs
    <3> QED
      BY <3>1, <1>2, <1>3, <1>7, <1>8 DEF AllInHand
  <2>2. CASE q \in DOMAIN config /\ r \in DOMAIN config
    <3>1. AddressOf(q, i)' = AddressOf(q, i) /\ AddressOf(r, s)' = AddressOf(r, s)
      BY <2>2, <1>4 DEF AddressOf
    <3> QED
      BY <2>2, <3>1, <1>1, <1>2 DEF AddressesAreTakenOnce
  <2>3. CASE q \notin DOMAIN config \/ r \notin DOMAIN config
    BY <2>1, <2>3, <1>1
  <2> QED
    BY <2>2, <2>3
<1> QED
  BY <1>9, <1>11, <1>12, <1>13, <1>14, <1>15 DEF HostingInvariant

\* A new runtime has no socket, and writes nothing.
LEMMA NewHasNothing ==
    ASSUME HostingInvariant, NEW h \in Host, NEW todo, NEW new, Call(h, todo, new),
           NEW c \in Config, config' = Append(config, c), new = Len(config')
    PROVE  /\ bound'[new] = {} /\ new \notin writing' /\ new # None
           /\ new \in DOMAIN config' /\ config'[new] = c
<1>1. /\ calls < MaxCalls /\ UNCHANGED <<bound, writing>>
  BY DEF Call
<1>2. /\ TypeOK /\ AllInHand /\ SlotIsComplete /\ \A g \in Host : CallIsWellFormed(g)
  BY DEF HostingInvariant
<1>3. /\ DOMAIN config = 1..Len(config) /\ Len(config) \in Nat /\ None \notin Runtime
      /\ config \in Seq(Config) /\ Len(config) <= calls
      /\ calls \in 0..MaxCalls /\ MaxCalls \in Nat
  BY <1>2, Runtimes, HostingAssumption DEF TypeOK, HostingAssumption
<1>4. /\ new = Len(config) + 1 /\ new \notin DOMAIN config
      /\ new \in DOMAIN config' /\ config'[new] = c
  BY <1>3
<1>5. new \in Runtime
  BY <1>1, <1>3, <1>4 DEF Runtime
<1>6. ~Runs(new)
  <2>1. new # slot
    BY <1>2, <1>3, <1>4, <1>5 DEF SlotIsComplete
  <2>2. \A g \in Host : new # New(g) /\ new # Old(g)
    BY <1>2, <1>3, <1>4, <1>5 DEF CallIsWellFormed, New, Old
  <2> QED
    BY <2>1, <2>2, <1>2, <1>5 DEF AllInHand
<1> QED
  BY <1>1, <1>3, <1>4, <1>5, <1>6 DEF Runs

\* The record of a call that begins.
LEMMA CallOf ==
    ASSUME TypeOK, NEW h \in Host, NEW todo, NEW new, Call(h, todo, new)
    PROVE  /\ call'[h] = [todo |-> todo, new |-> new, old |-> None]
           /\ Left(h)' = Range(todo) /\ New(h)' = new /\ Old(h)' = None
<1>1. call'[h] = [todo |-> todo, new |-> new, old |-> None]
  BY DEF Call, TypeOK
<1> QED
  BY <1>1 DEF Left, New, Old

\* What start has to do is what the runtime does not have yet.
LEMMA BeginsItsStart ==
    ASSUME HostingInvariant, NEW h \in Host, NEW todo, NEW new, Call(h, todo, new),
           NEW c \in Config, config' = Append(config, c), new = Len(config'),
           NEW others, others \cap StartSteps = IF h \in Chat THEN {} ELSE {"ui"},
           Range(todo) = Range(start(c.mode)) \cup others
    PROVE  StartIsOnItsWay(h)'
<1>1. /\ bound'[new] = {} /\ new \notin writing' /\ config'[new] = c
  BY NewHasNothing
<1>2. New(h)' = new /\ Left(h)' = Range(todo)
  BY CallOf DEF HostingInvariant
<1>3. Left(h)' = others \cup HubSteps(c.mode, {"hub", "discovery"})
                        \cup GatewaySteps(c.mode, {"direct", "load", "register"})
  BY <1>2, StartOf
<1>4. SocketsFor(h, c) = (IF h \in Chat THEN {} ELSE {"ui"})
                             \cup HubSteps(c.mode, {"hub", "discovery"})
                             \cup GatewaySteps(c.mode, {"direct"})
  BY DEF SocketsFor, Sockets, HubSteps, GatewaySteps
<1>5. \A x \in StartSteps : x \in others <=> x = "ui" /\ h \notin Chat
  <2>1. "ui" \in StartSteps
    BY DEF StartSteps, Socket
  <2> QED
    BY <2>1
<1>6. /\ "ui" \in others <=> h \notin Chat
      /\ "hub" \notin others /\ "discovery" \notin others /\ "direct" \notin others
      /\ "load" \notin others /\ "register" \notin others
  BY <1>5 DEF StartSteps, Socket
<1>7. /\ "load" \in Left(h)' <=> runs_gateway(c.mode)
      /\ "direct" \in Left(h)' <=> runs_gateway(c.mode)
      /\ "register" \in Left(h)' <=> runs_gateway(c.mode)
      /\ "hub" \in Left(h)' <=> runs_hub(c.mode)
      /\ "discovery" \in Left(h)' <=> runs_hub(c.mode)
      /\ "ui" \in Left(h)' <=> h \notin Chat
  BY <1>3, <1>6 DEF HubSteps, GatewaySteps
<1>8. /\ Left(h)' \cap Socket \subseteq SocketsFor(h, c)
      /\ SocketsFor(h, c) \subseteq Left(h)'
  <2>1. /\ "direct" \in SocketsFor(h, c) <=> runs_gateway(c.mode)
        /\ "hub" \in SocketsFor(h, c) <=> runs_hub(c.mode)
        /\ "discovery" \in SocketsFor(h, c) <=> runs_hub(c.mode)
        /\ "ui" \in SocketsFor(h, c) <=> h \notin Chat
        /\ SocketsFor(h, c) \subseteq Socket
    BY <1>4 DEF HubSteps, GatewaySteps, Socket
  <2> QED
    BY <1>7, <2>1 DEF Socket
<1>9. /\ bound'[new] = SocketsFor(h, c) \ Left(h)'
      /\ new \in writing' <=> runs_gateway(c.mode) /\ "load" \notin Left(h)'
      /\ "direct" \in Left(h)' => "load" \in Left(h)'
      /\ "load" \in Left(h)' \/ "register" \in Left(h)' => runs_gateway(c.mode)
  BY <1>1, <1>7, <1>8
<1> QED
  BY <1>1, <1>2, <1>8, <1>9 DEF StartIsOnItsWay, SocketsFor

\* What is left to do of a start when it begins.
LEMMA StartingSteps ==
    ASSUME NEW m
    PROVE  /\ <<"ui">> \o start(m) \o <<"lock", "install">> \in Seq(StepName)
           /\ InOrder(<<"ui">> \o start(m) \o <<"lock", "install">>)
           /\ Range(<<"ui">> \o start(m) \o <<"lock", "install">>) =
                 Range(start(m)) \cup {"ui", "lock", "install"}
<1> DEFINE s == <<"ui">>
           t == start(m)
           u == <<"lock", "install">>
<1>1. s \in Seq(StepName) /\ InOrder(s) /\ Range(s) = {"ui"}
  BY OneStep, NamedSteps
<1>2. /\ t \in Seq(StepName) /\ InOrder(t)
      /\ Range(t) \subseteq {"hub", "discovery", "direct", "load", "register"}
  BY StartOf DEF HubSteps, GatewaySteps
<1>3. u \in Seq(StepName) /\ InOrder(u) /\ Range(u) = {"lock", "install"}
  BY TwoSteps, NamedSteps, Ranks
<1> HIDE DEF s, t, u
<1>4. \A x \in Range(s) : Rank[x] = 1
  BY <1>1, Ranks
<1>5. \A x \in Range(t) : Rank[x] \in 2..6
  <2>1. \A x \in Range(t) : \/ x = "hub" \/ x = "discovery" \/ x = "direct"
                            \/ x = "load" \/ x = "register"
    BY <1>2
  <2> QED
    BY <2>1, Ranks
<1>6. \A x \in Range(u) : Rank[x] \in 7..15
  <2>1. \A x \in Range(u) : x = "lock" \/ x = "install"
    BY <1>3
  <2> QED
    BY <2>1, Ranks
<1>7. /\ s \o t \in Seq(StepName) /\ InOrder(s \o t) /\ Range(s \o t) = Range(s) \cup Range(t)
  BY <1>1, <1>2, <1>4, <1>5, JoinOf
<1>8. \A x \in Range(s \o t), y \in Range(u) : Rank[x] < Rank[y]
  BY <1>4, <1>5, <1>6, <1>7, SMTT(30)
<1>9. /\ (s \o t) \o u \in Seq(StepName) /\ InOrder((s \o t) \o u)
      /\ Range((s \o t) \o u) = Range(s \o t) \cup Range(u)
  BY <1>3, <1>7, <1>8, JoinOf
<1>10. Range((s \o t) \o u) = Range(t) \cup {"ui", "lock", "install"}
  BY <1>1, <1>3, <1>7, <1>9
<1> QED
  BY <1>9, <1>10 DEF s, t, u

LEMMA ServingSteps ==
    ASSUME NEW m
    PROVE  /\ start(m) \o <<"serve">> \in Seq(StepName)
           /\ InOrder(start(m) \o <<"serve">>)
           /\ Range(start(m) \o <<"serve">>) = Range(start(m)) \cup {"serve"}
<1> DEFINE t == start(m)
           u == <<"serve">>
<1>1. /\ t \in Seq(StepName) /\ InOrder(t)
      /\ Range(t) \subseteq {"hub", "discovery", "direct", "load", "register"}
  BY StartOf DEF HubSteps, GatewaySteps
<1>2. u \in Seq(StepName) /\ InOrder(u) /\ Range(u) = {"serve"}
  BY OneStep, NamedSteps
<1> HIDE DEF t, u
<1>3. \A x \in Range(t) : Rank[x] \in 2..6
  <2>1. \A x \in Range(t) : \/ x = "hub" \/ x = "discovery" \/ x = "direct"
                            \/ x = "load" \/ x = "register"
    BY <1>1
  <2> QED
    BY <2>1, Ranks
<1>4. \A x \in Range(u) : Rank[x] = 18
  BY <1>2, Ranks
<1>5. t \o u \in Seq(StepName) /\ InOrder(t \o u) /\ Range(t \o u) = Range(t) \cup Range(u)
  BY <1>1, <1>2, <1>3, <1>4, JoinOf
<1> QED
  BY <1>2, <1>5 DEF t, u

LEMMA StartBeginsKeeps ==
    ASSUME HostingInvariant, NEW t \in Thread, NEW c \in Config, openhanse_start(t, c)
    PROVE  HostingInvariant'
<1> DEFINE s == <<"ui">> \o start(c.mode) \o <<"lock", "install">>
<1>1. t \in Host /\ t \notin Chat
  BY HostingAssumption DEF Host, HostingAssumption
<1>2. PICK new : new = Len(config') /\ Call(t, s, new) /\ config' = Append(config, c)
  BY DEF openhanse_start
<1>3. s \in Seq(StepName) /\ InOrder(s)
      /\ Range(s) = Range(start(c.mode)) \cup {"ui", "lock", "install"}
  BY StartingSteps
<1> HIDE DEF s
<1>4. TypeOK
  BY DEF HostingInvariant
<1>5. /\ call'[t] = [todo |-> s, new |-> new, old |-> None]
      /\ Left(t)' = Range(s) /\ New(t)' = new /\ Old(t)' = None
  BY <1>1, <1>2, <1>4, CallOf
<1>6. new # None /\ new \in DOMAIN config'
  BY <1>1, <1>2, NewHasNothing
<1>7. {"ui", "lock", "install"} \cap StartSteps = {"ui"}
  BY DEF StartSteps, Socket
<1>8. StartIsOnItsWay(t)'
  BY <1>1, <1>2, <1>3, <1>7, BeginsItsStart
<1>9. Range(s) \subseteq StartSteps \cup {"lock", "install"}
  <2>1. Range(start(c.mode)) \subseteq StartSteps /\ "ui" \in StartSteps
    BY StartOf DEF HubSteps, GatewaySteps, StartSteps, Socket
  <2> QED
    BY <2>1, <1>3
<1>10. /\ "drop" \notin Range(s) /\ "serve" \notin Range(s) /\ "unlock" \notin Range(s)
       /\ "read" \notin Range(s) /\ Range(s) \cap StopSteps = {}
       /\ "lock" \in Range(s) /\ "install" \in Range(s)
  <2>1. \A x \in StopSteps \cup {"drop", "serve", "unlock", "read"} :
            x \notin StartSteps /\ x \notin {"lock", "install"}
    BY DEF StartSteps, StopSteps, Socket
  <2> QED
    BY <2>1, <1>3, <1>9
<1>11. call'[t] \in [todo : Seq(StepName), new : DOMAIN config' \cup {None},
                     old : DOMAIN config' \cup {None}]
  BY <1>3, <1>5, <1>6, CallRecord
<1>12. InOrder(call'[t].todo)
  BY <1>3, <1>5
<1>13. CallIsWellFormed(t)'
  BY <1>1, <1>5, <1>6, <1>10, <1>11, <1>12 DEF CallIsWellFormed
<1> QED
  BY <1>1, <1>2, <1>5, <1>8, <1>10, <1>13, BeginKeeps

\* run_chat and run_hub.
LEMMA RunBeginsKeeps ==
    ASSUME HostingInvariant, NEW p \in Chat, NEW c \in Config, run(p, c)
    PROVE  HostingInvariant'
<1> DEFINE s == start(c.mode) \o <<"serve">>
<1>1. p \in Host /\ p \notin Thread
  BY HostingAssumption DEF Host, HostingAssumption
<1>2. PICK new : new = Len(config') /\ Call(p, s, new) /\ config' = Append(config, c)
  BY DEF run
<1>3. /\ s \in Seq(StepName) /\ InOrder(s)
      /\ Range(s) = Range(start(c.mode)) \cup {"serve"}
  BY ServingSteps
<1> HIDE DEF s
<1>4. TypeOK
  BY DEF HostingInvariant
<1>5. /\ call'[p] = [todo |-> s, new |-> new, old |-> None]
      /\ Left(p)' = Range(s) /\ New(p)' = new /\ Old(p)' = None
  BY <1>1, <1>2, <1>4, CallOf
<1>6. new # None /\ new \in DOMAIN config'
  BY <1>1, <1>2, NewHasNothing
<1>7. {"serve"} \cap StartSteps = {}
  BY DEF StartSteps, Socket
<1>8. StartIsOnItsWay(p)'
  BY <1>1, <1>2, <1>3, <1>7, BeginsItsStart
<1>9. Range(start(c.mode)) \subseteq StartSteps \ {"ui"}
  BY StartOf DEF HubSteps, GatewaySteps, StartSteps, Socket
<1>10. /\ "drop" \notin Range(s) /\ "lock" \notin Range(s) /\ "install" \notin Range(s)
       /\ "unlock" \notin Range(s) /\ "read" \notin Range(s) /\ "ui" \notin Range(s)
       /\ Range(s) \cap StopSteps = {} /\ "serve" \in Range(s)
  <2>1. \A x \in StopSteps \cup {"drop", "lock", "install", "unlock", "read"} :
            x \notin StartSteps /\ x # "serve"
    BY DEF StartSteps, StopSteps, Socket
  <2> QED
    BY <2>1, <1>3, <1>9
<1>11. call'[p] \in [todo : Seq(StepName), new : DOMAIN config' \cup {None},
                     old : DOMAIN config' \cup {None}]
  BY <1>3, <1>5, <1>6, CallRecord
<1>12. InOrder(call'[p].todo)
  BY <1>3, <1>5
<1>13. "close_ui" \notin Range(s) /\ "drain_ui" \notin Range(s)
  BY <1>10 DEF StopSteps
<1>14. CallIsWellFormed(p)'
  BY <1>1, <1>5, <1>6, <1>10, <1>11, <1>12, <1>13 DEF CallIsWellFormed
<1> QED
  BY <1>1, <1>2, <1>5, <1>8, <1>10, <1>14, BeginKeeps

\* A stop and a question about the status start nothing.
LEMMA AskingBeginsKeeps ==
    ASSUME HostingInvariant, NEW t \in Thread, NEW last \in {"unlock", "read"},
           Call(t, <<"lock", last>>, None), UNCHANGED config
    PROVE  HostingInvariant'
<1>1. t \in Host /\ t \notin Chat
  BY HostingAssumption DEF Host, HostingAssumption
<1>2. /\ <<"lock", last>> \in Seq(StepName) /\ InOrder(<<"lock", last>>)
      /\ Range(<<"lock", last>>) = {"lock", last}
  <2>1. last = "unlock" \/ last = "read"
    OBVIOUS
  <2>2. last \in StepName /\ "lock" \in StepName /\ Rank["lock"] < Rank[last]
    BY <2>1, NamedSteps, Ranks
  <2> QED
    BY <2>2, TwoSteps
<1>3. TypeOK
  BY DEF HostingInvariant
<1>4. /\ call'[t] = [todo |-> <<"lock", last>>, new |-> None, old |-> None]
      /\ Left(t)' = {"lock", last} /\ New(t)' = None /\ Old(t)' = None
  BY <1>1, <1>2, <1>3, CallOf
<1>5. StartIsOnItsWay(t)'
  BY <1>4 DEF StartIsOnItsWay
<1>6. {"lock", last} \cap StopSteps = {} /\ {"lock", last} \cap StartSteps = {}
  BY DEF StopSteps, StartSteps, Socket
<1>7. call'[t] \in [todo : Seq(StepName), new : DOMAIN config' \cup {None},
                    old : DOMAIN config' \cup {None}]
  BY <1>2, <1>4, CallRecord
<1>8. InOrder(call'[t].todo)
  BY <1>2, <1>4
<1>9. CallIsWellFormed(t)'
  BY <1>1, <1>4, <1>6, <1>7, <1>8 DEF CallIsWellFormed
<1> QED
  BY <1>1, <1>4, <1>5, <1>9, BeginKeeps

-----------------------------------------------------------------------------
(* Calls to a hub.                                                         *)

\* What is at work for a runtime that runs is of no consequence to the rest.
LEMMA TasksKeep ==
    ASSUME HostingInvariant, NEW r \in Runtime, NEW task \in {"ui", "loops"},
           NEW state \in Task, Runs(r),
           tasks' = [tasks EXCEPT ![r][task] = state],
           UNCHANGED <<slot, lock, call, config, bound, writing, calls>>
    PROVE  HostingInvariant'
<1>1. /\ TypeOK /\ SlotIsComplete /\ HandsApart /\ AllInHand /\ AddressesAreTakenOnce
      /\ \A h \in Host : CallIsWellFormed(h) /\ StartIsOnItsWay(h)
  BY DEF HostingInvariant
<1>2. tasks' \in [Runtime -> [ui : Task, loops : Task]]
  <2>1. tasks \in [Runtime -> [ui : Task, loops : Task]]
    BY <1>1 DEF TypeOK
  <2>2. [tasks[r] EXCEPT ![task] = state] \in [ui : Task, loops : Task]
    <3>1. tasks[r] \in [ui : Task, loops : Task]
      BY <2>1
    <3>2. CASE task = "ui"
      BY <3>1, <3>2
    <3>3. CASE task = "loops"
      BY <3>1, <3>3
    <3> QED
      BY <3>2, <3>3
  <2> QED
    BY <2>1, <2>2
<1>3. \A q \in Runtime : Runs(q)' => Runs(q)
  <2> SUFFICES ASSUME NEW q \in Runtime, Runs(q)'
               PROVE  Runs(q)
    OBVIOUS
  <2>1. CASE q = r
    BY <2>1
  <2>2. CASE q # r
    <3>1. tasks'[q] = tasks[q]
      BY <2>2, <1>1 DEF TypeOK
    <3> QED
      BY <3>1 DEF Runs
  <2> QED
    BY <2>1, <2>2
<1>4. \A h \in Host : Left(h)' = Left(h) /\ New(h)' = New(h) /\ Old(h)' = Old(h)
  BY DEF Left, New, Old
<1>5. TypeOK'
  BY <1>1, <1>2 DEF TypeOK
<1>6. ASSUME NEW h \in Host
      PROVE  CallIsWellFormed(h)' /\ StartIsOnItsWay(h)'
  <2>1. CallIsWellFormed(h)'
    BY <1>1, <1>4 DEF CallIsWellFormed
  <2>2. StartIsOnItsWay(h)'
    BY <1>1, <1>4 DEF StartIsOnItsWay, SocketsFor
  <2> QED
    BY <2>1, <2>2
<1>7. SlotIsComplete'
  BY <1>1 DEF SlotIsComplete, Left
<1>8. HandsApart'
  BY <1>1, <1>4 DEF HandsApart
<1>9. AllInHand'
  BY <1>1, <1>3, <1>4 DEF AllInHand
<1>10. AddressesAreTakenOnce'
  BY <1>1, FewerPorts
<1> QED
  BY <1>5, <1>6, <1>7, <1>8, <1>9, <1>10 DEF HostingInvariant

LEMMA CallHubKeeps ==
    ASSUME HostingInvariant, NEW r \in Runtime, NEW task \in {"ui", "loops"}, NEW socket,
           CallHub(r, task, socket)
    PROVE  HostingInvariant'
<1>1. Runs(r)
  BY DEF CallHub, Runs
<1>2. /\ tasks' = [tasks EXCEPT ![r][task] = "calling"] /\ "calling" \in Task
      /\ UNCHANGED <<slot, lock, call, config, bound, writing, calls>>
  BY DEF CallHub, Task
<1> QED
  BY <1>1, <1>2, TasksKeep

LEMMA AnsweredKeeps ==
    ASSUME HostingInvariant, NEW r \in Runtime, NEW task \in {"ui", "loops"},
           Answered(r, task)
    PROVE  HostingInvariant'
<1>1. tasks[r][task] = "calling" /\ tasks[r] # [ui |-> "none", loops |-> "none"]
  BY DEF Answered
<1>2. Runs(r)
  BY <1>1 DEF Runs
<1>3. /\ tasks' = [tasks EXCEPT ![r][task] = "idle"] /\ "idle" \in Task
      /\ UNCHANGED <<slot, lock, call, config, bound, writing, calls>>
  BY DEF Answered, Task
<1> QED
  BY <1>2, <1>3, TasksKeep

-----------------------------------------------------------------------------
(* The invariant.                                                          *)

LEMMA InitiallyInvariant == Init => HostingInvariant
<1> SUFFICES ASSUME Init
             PROVE  HostingInvariant
  OBVIOUS
<1>1. \A h \in Host : /\ call[h] = Idle /\ Left(h) = {}
                      /\ New(h) = None /\ Old(h) = None
  BY NoSteps DEF Init, Left, New, Old, Idle
<1>2. config = <<>> /\ DOMAIN config = {} /\ Len(config) = 0
  BY DEF Init
<1>3. TypeOK
  <2>1. \A t \in Thread : lock = t <=> call[t] # Idle /\ "lock" \notin Range(call[t].todo)
    BY <1>1, HostingAssumption DEF Init, Host, HostingAssumption
  <2>2. \A h \in Host : {call[h].new, call[h].old} \subseteq DOMAIN config \cup {None}
    BY <1>1 DEF New, Old
  <2>3. tasks \in [Runtime -> [ui : Task, loops : Task]]
    BY DEF Init, Task
  <2>4. calls \in 0..MaxCalls
    BY HostingAssumption DEF Init, HostingAssumption
  <2>5. config \in Seq(Config)
    BY <1>2
  <2> QED
    BY <2>1, <2>2, <2>3, <2>4, <2>5, <1>2 DEF Init, TypeOK
<1>4. ASSUME NEW h \in Host
      PROVE  CallIsWellFormed(h) /\ StartIsOnItsWay(h)
  <2>1. call[h] = [todo |-> <<>>, new |-> None, old |-> None]
    BY <1>1 DEF Idle
  <2>2. call[h] \in [todo : Seq(StepName), new : DOMAIN config \cup {None},
                     old : DOMAIN config \cup {None}]
    BY <2>1, NoSteps, CallRecord
  <2>3. InOrder(call[h].todo)
    BY <2>1, NoSteps
  <2>4. CallIsWellFormed(h)
    BY <1>1, <2>2, <2>3 DEF CallIsWellFormed
  <2>5. StartIsOnItsWay(h)
    BY <1>1 DEF StartIsOnItsWay
  <2> QED
    BY <2>4, <2>5
<1>5. SlotIsComplete
  BY DEF Init, SlotIsComplete
<1>6. HandsApart
  BY <1>1 DEF HandsApart
<1>7. AllInHand
  BY DEF Init, AllInHand, Runs
<1>8. AddressesAreTakenOnce
  BY <1>2 DEF AddressesAreTakenOnce
<1> QED
  BY <1>3, <1>4, <1>5, <1>6, <1>7, <1>8 DEF HostingInvariant

LEMMA StepKeeps ==
    ASSUME HostingInvariant, NEW h \in Host, Step(h)
    PROVE  HostingInvariant'
<1>1. /\ "close_ui" \in StopSteps /\ "drain_ui" \in StopSteps
      /\ "close_direct" \in StopSteps /\ "drain_loops" \in StopSteps
      /\ "close_hub" \in StopSteps
  BY DEF StopSteps
<1>2. CASE \E s \in Socket : Bind(h, s)
  BY <1>2, BindKeeps
<1>3. CASE Load(h)
  BY <1>3, LoadKeeps
<1>4. CASE Register(h)
  BY <1>4, RegisterKeeps
<1>5. CASE Fail(h)
  BY <1>5, FailKeeps
<1>6. CASE CloseUi(h)
  BY <1>1, <1>6, CloseKeeps DEF CloseUi
<1>7. CASE DrainUi(h)
  BY <1>1, <1>7, DrainKeeps DEF DrainUi
<1>8. CASE CloseDirect(h)
  BY <1>1, <1>8, CloseKeeps DEF CloseDirect
<1>9. CASE DrainLoops(h)
  BY <1>1, <1>9, DrainKeeps DEF DrainLoops
<1>10. CASE Farewell(h)
  BY <1>10, FarewellKeeps
<1>11. CASE CloseHub(h)
  BY <1>1, <1>11, CloseKeeps DEF CloseHub
<1>12. CASE Drop(h)
  BY <1>12, DropKeeps
<1>13. CASE h \in Thread /\ Lock(h)
  BY <1>13, LockKeeps
<1>14. CASE h \in Thread /\ Unlock(h)
  BY <1>14, UnlockKeeps
<1> QED
  BY <1>2, <1>3, <1>4, <1>5, <1>6, <1>7, <1>8, <1>9, <1>10, <1>11, <1>12, <1>13, <1>14
     DEF Step

LEMMA StayingKeeps ==
    ASSUME HostingInvariant, UNCHANGED vars
    PROVE  HostingInvariant'
<1>1. \A h \in Host : Left(h)' = Left(h) /\ New(h)' = New(h) /\ Old(h)' = Old(h)
  BY DEF vars, Left, New, Old
<1>2. ASSUME NEW h \in Host
      PROVE  CallIsWellFormed(h)' /\ StartIsOnItsWay(h)'
  <2>1. CallIsWellFormed(h) /\ StartIsOnItsWay(h)
    BY DEF HostingInvariant
  <2>2. CallIsWellFormed(h)'
    BY <1>1, <2>1 DEF CallIsWellFormed, vars
  <2>3. StartIsOnItsWay(h)'
    BY <1>1, <2>1 DEF StartIsOnItsWay, SocketsFor, vars
  <2> QED
    BY <2>2, <2>3
<1>3. TypeOK'
  BY DEF HostingInvariant, TypeOK, vars
<1>4. SlotIsComplete'
  BY DEF HostingInvariant, SlotIsComplete, vars, Left
<1>5. HandsApart' /\ AllInHand'
  BY <1>1 DEF HostingInvariant, HandsApart, AllInHand, Runs, vars
<1>6. AddressesAreTakenOnce'
  BY FewerPorts DEF HostingInvariant, vars
<1> QED
  BY <1>2, <1>3, <1>4, <1>5, <1>6 DEF HostingInvariant

LEMMA NextKeeps == HostingInvariant /\ [Next]_vars => HostingInvariant'
<1> SUFFICES ASSUME HostingInvariant, [Next]_vars
             PROVE  HostingInvariant'
  OBVIOUS
<1>1. CASE \E t \in Thread, c \in Config : openhanse_start(t, c)
  BY <1>1, StartBeginsKeeps
<1>2. CASE \E t \in Thread : openhanse_stop(t)
  BY <1>2, AskingBeginsKeeps DEF openhanse_stop
<1>3. CASE \E t \in Thread : openhanse_runtime_status(t)
  BY <1>3, AskingBeginsKeeps DEF openhanse_runtime_status
<1>4. CASE \E p \in Chat, c \in Config : run(p, c)
  BY <1>4, RunBeginsKeeps
<1>5. CASE \E p \in Chat : Quit(p)
  BY <1>5, QuitKeeps
<1>6. CASE \E p \in Chat : CommandFails(p)
  BY <1>6, CommandFailsKeeps
<1>7. CASE \E h \in Host : Step(h)
  BY <1>7, StepKeeps
<1>8. CASE \E r \in Runtime : CallHub(r, "ui", "ui") \/ CallHub(r, "loops", "direct")
  BY <1>8, CallHubKeeps
<1>9. CASE \E r \in Runtime, task \in {"ui", "loops"} : Answered(r, task)
  BY <1>9, AnsweredKeeps
<1>10. CASE UNCHANGED vars
  BY <1>10, StayingKeeps
<1> QED
  BY <1>1, <1>2, <1>3, <1>4, <1>5, <1>6, <1>7, <1>8, <1>9, <1>10 DEF Next

\* The inductive invariant: what is left of each call fits the runtimes it holds and what
\* they have so far, whoever holds the mutex has emptied the slot or only reads it, and
\* no runtime is in two hands or in none.
THEOREM HostingInvariantHolds == Spec => []HostingInvariant
<1>1. Init => HostingInvariant
  BY InitiallyInvariant
<1>2. HostingInvariant /\ [Next]_vars => HostingInvariant'
  BY NextKeeps
<1> QED
  BY <1>1, <1>2, PTL DEF Spec

\* The types, and that the mutex is held by the thread that is past its lock step, and by
\* no other: openhanse_start, openhanse_stop and openhanse_runtime_status keep it through
\* every await of a stop.
THEOREM HostingTypeCorrect == Spec => []TypeOK
<1>1. HostingInvariant => TypeOK
  BY DEF HostingInvariant
<1> QED
  BY <1>1, HostingInvariantHolds, PTL

\* For any number of threads and programs that start and stop runtimes, and whatever
\* fails: between two calls the slot is empty or its runtime is complete, and nothing
\* runs that no call and no program is at work on.
THEOREM NothingLeftRunning == Spec => []NothingIsLeftRunning
<1>1. HostingInvariant => NothingIsLeftRunning
  <2> SUFFICES ASSUME HostingInvariant
               PROVE  NothingIsLeftRunning
    OBVIOUS
  <2>1. TypeOK /\ SlotIsComplete /\ AllInHand
    BY DEF HostingInvariant
  <2>2. DOMAIN config \subseteq Runtime
    BY <2>1, Runtimes
  <2>3. \A r \in DOMAIN config :
            Runs(r) => r = slot \/ \E h \in Host : r \in {call[h].new, call[h].old}
    BY <2>1, <2>2 DEF AllInHand, New, Old
  <2>4. slot # None => /\ bound[slot] = Sockets(config[slot])
                       /\ slot \in writing <=> runs_gateway(config[slot].mode)
    BY <2>1 DEF SlotIsComplete
  <2> QED
    BY <2>3, <2>4 DEF NothingIsLeftRunning
<1> QED
  BY <1>1, HostingInvariantHolds, PTL

\* A runtime that writes and is not being stopped listens for direct deliveries.
LEMMA WriterListens ==
    ASSUME HostingInvariant, NEW r \in writing, \A h \in Host : Old(h) # r
    PROVE  "direct" \in bound[r]
<1>1. /\ TypeOK /\ SlotIsComplete /\ AllInHand /\ r \in DOMAIN config
      /\ \A h \in Host : CallIsWellFormed(h) /\ StartIsOnItsWay(h)
  BY DEF HostingInvariant, TypeOK
<1>2. r \in Runtime /\ Runs(r) /\ r # None
  BY <1>1, Runtimes DEF Runs
<1>3. CASE r = slot
  BY <1>1, <1>2, <1>3 DEF SlotIsComplete, Sockets
<1>4. CASE r # slot
  <2>1. PICK h \in Host : r = New(h)
    BY <1>1, <1>2, <1>4 DEF AllInHand
  <2>2. /\ bound[r] = SocketsFor(h, config[r]) \ Left(h)
        /\ runs_gateway(config[r].mode) /\ "direct" \notin Left(h)
    BY <1>1, <1>2, <2>1 DEF StartIsOnItsWay
  <2>3. "direct" \in SocketsFor(h, config[r])
    BY <2>2 DEF SocketsFor, Sockets
  <2> QED
    BY <2>2, <2>3
<1> QED
  BY <1>3, <1>4

\* Runtimes of one peer whose direct addresses clash, in any threads and programs, append
\* to the peer's two files in turn: a second one comes to them only when the first is
\* being stopped and has given its address up.
THEOREM WritersAlternate == Spec => []WritersTakeTurns
<1>1. HostingInvariant => WritersTakeTurns
  <2> SUFFICES ASSUME HostingInvariant, NEW q \in writing, NEW r \in writing, q # r,
                      <<AddressOf(q, "direct"), AddressOf(r, "direct")>> \in Clash,
                      \A h \in Host : Old(h) \in {q, r} => "direct" \in bound[Old(h)]
               PROVE  FALSE
    BY DEF WritersTakeTurns, Old
  <2>1. q \in DOMAIN config /\ r \in DOMAIN config /\ AddressesAreTakenOnce
    BY DEF HostingInvariant, TypeOK
  <2>2. "direct" \in bound[q]
    BY WriterListens
  <2>3. "direct" \in bound[r]
    BY WriterListens
  <2> QED
    BY <2>1, <2>2, <2>3 DEF AddressesAreTakenOnce
<1> QED
  BY <1>1, HostingInvariantHolds, PTL
=============================================================================
