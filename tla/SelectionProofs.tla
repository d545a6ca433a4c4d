--------------------------- MODULE SelectionProofs ---------------------------
(***************************************************************************)
(* What Selection returns, for every sequence: lemmas for the proofs about *)
(* the modules that filter.  They are by induction on the length, in the   *)
(* form of a smallest counterexample.                                      *)
(***************************************************************************)
EXTENDS Selection, FiniteSetTheorems, TLAPS

LEMMA Smallest ==
    ASSUME NEW T \in SUBSET Nat, T # {}
    PROVE  \E n \in T : \A m \in T : n <= m
<1> DEFINE intervals == {1..n : n \in T}
           smaller == StrictSubsetOrdering(Nat)
<1>1. intervals # {} /\ intervals \subseteq FiniteSubsetsOf(Nat)
  <2>1. intervals # {}
    OBVIOUS
  <2>2. intervals \subseteq FiniteSubsetsOf(Nat)
    BY FS_Interval DEF FiniteSubsetsOf
  <2> QED
    BY <2>1, <2>2
<1>2. \E b \in intervals : \A c \in intervals : <<c, b>> \notin smaller
  <2> HIDE DEF intervals
  <2> QED
    BY <1>1, FS_StrictSubsetOrderingWellFounded, WFMin
<1>3. PICK n \in T : \A c \in intervals : <<c, 1..n>> \notin smaller
  BY <1>2
<1>4. ASSUME NEW m \in T, m < n
      PROVE  FALSE
  <2>1. 1..m \in intervals /\ 1..m \subseteq Nat /\ 1..n \subseteq Nat
    OBVIOUS
  <2>2. n \in 1..n /\ n \notin 1..m /\ 1..m \subseteq 1..n
    BY <1>4
  <2> QED
    BY <2>1, <2>2, <1>3 DEF StrictSubsetOrdering
<1> QED
  BY <1>3, <1>4

-----------------------------------------------------------------------------
(* The recursion.                                                          *)

Taken(s, positions, kept, n) ==
    IF n \in positions THEN Append(kept, s[n]) ELSE kept

\* f is the function of the definition, up to n.
Keeps(s, positions, f, n) ==
    f = [k \in 0..n |-> IF k = 0 THEN <<>> ELSE Taken(s, positions, f[k - 1], k)]

LEMMA KeepsAt ==
    ASSUME NEW s, NEW positions, NEW f, NEW n \in Nat, Keeps(s, positions, f, n)
    PROVE  /\ f[0] = <<>>
           /\ \A k \in 1..n : f[k] = Taken(s, positions, f[k - 1], k)
BY DEF Keeps

LEMMA KeepsExists ==
    ASSUME NEW s, NEW positions, NEW n \in Nat
    PROVE  \E f : Keeps(s, positions, f, n)
<1> DEFINE T == {k \in Nat : ~\E f : Keeps(s, positions, f, k)}
<1> SUFFICES ASSUME T # {}
             PROVE  FALSE
  OBVIOUS
<1>1. PICK m \in T : \A k \in T : m <= k
  <2> HIDE DEF T
  <2>1. T \in SUBSET Nat
    BY DEF T
  <2> QED
    BY <2>1, Smallest
<1>2. CASE m = 0
  <2>1. Keeps(s, positions, [k \in 0..0 |-> <<>>], 0)
    BY DEF Keeps
  <2> QED
    BY <2>1, <1>1, <1>2
<1>3. CASE m # 0
  <2>1. m \in Nat /\ m - 1 \in Nat /\ m - 1 \notin T
    BY <1>1, <1>3
  <2>2. PICK g : Keeps(s, positions, g, m - 1)
    BY <2>1
  <2> DEFINE f == [k \in 0..m |-> IF k = m THEN Taken(s, positions, g[m - 1], m) ELSE g[k]]
  <2>3. \A k \in 0..m : f[k] = IF k = 0 THEN <<>> ELSE Taken(s, positions, f[k - 1], k)
    <3> SUFFICES ASSUME NEW k \in 0..m
                 PROVE  f[k] = IF k = 0 THEN <<>> ELSE Taken(s, positions, f[k - 1], k)
      OBVIOUS
    <3>1. CASE k = m
      BY <2>1, <3>1, <1>3
    <3>2. CASE k # m /\ k = 0
      BY <2>1, <2>2, <3>2, KeepsAt
    <3>3. CASE k # m /\ k # 0
      <4>1. k \in 1..m - 1 /\ k - 1 \in 0..m /\ k - 1 # m /\ k \in 0..m
        BY <2>1, <3>3
      <4>2. f[k] = g[k] /\ f[k - 1] = g[k - 1]
        BY <4>1, <3>3
      <4>3. g[k] = Taken(s, positions, g[k - 1], k)
        BY <4>1, <2>1, <2>2, KeepsAt
      <4> QED
        BY <4>2, <4>3, <3>3
    <3> QED
      BY <3>1, <3>2, <3>3
  <2>4. Keeps(s, positions, f, m)
    <3>1. f = [k \in 0..m |-> f[k]]
      OBVIOUS
    <3> HIDE DEF f
    <3> QED
      BY <2>3, <3>1 DEF Keeps
  <2> QED
    BY <2>1, <2>4, <1>1
<1> QED
  BY <1>2, <1>3

LEMMA SelectionIs ==
    ASSUME NEW s, NEW positions, Len(s) \in Nat
    PROVE  \E f : Keeps(s, positions, f, Len(s)) /\ Selection(s, positions) = f[Len(s)]
<1> DEFINE f == CHOOSE f : Keeps(s, positions, f, Len(s))
<1>1. Keeps(s, positions, f, Len(s))
  BY KeepsExists
<1>2. Selection(s, positions) = f[Len(s)]
  BY DEF Selection, Keeps, Taken
<1> QED
  BY <1>1, <1>2
\* The first n values depend on the first n elements only.
LEMMA KeepsAgree ==
    ASSUME NEW s, NEW t, NEW I, NEW J, NEW f, NEW g, NEW n \in Nat, NEW m \in Nat, n <= m,
           Keeps(s, I, f, n), Keeps(t, J, g, m),
           \A k \in 1..n : s[k] = t[k] /\ (k \in I <=> k \in J)
    PROVE  f[n] = g[n]
<1> DEFINE T == {k \in 0..n : f[k] # g[k]}
<1> SUFFICES ASSUME T # {}
             PROVE  FALSE
  OBVIOUS
<1>1. PICK k \in T : \A l \in T : k <= l
  <2> HIDE DEF T
  <2>1. T \in SUBSET Nat
    BY DEF T
  <2> QED
    BY <2>1, Smallest
<1>2. k \in 0..n /\ f[k] # g[k]
  BY <1>1
<1>3. f[0] = <<>> /\ g[0] = <<>>
  BY KeepsAt
<1>4. k \in 1..n /\ k - 1 \in 0..n /\ k \in 1..m
  BY <1>2, <1>3
<1>5. f[k - 1] = g[k - 1]
  BY <1>1, <1>4
<1>6. f[k] = Taken(s, I, f[k - 1], k) /\ g[k] = Taken(t, J, g[k - 1], k)
  BY <1>4, KeepsAt
<1> QED
  BY <1>2, <1>4, <1>5, <1>6 DEF Taken

-----------------------------------------------------------------------------
(* What is used elsewhere.                                                 *)

LEMMA SelectionOfEmpty ==
    ASSUME NEW I
    PROVE  Selection(<<>>, I) = <<>>
<1>1. PICK f : Keeps(<<>>, I, f, 0) /\ Selection(<<>>, I) = f[0]
  BY SelectionIs
<1> QED
  BY <1>1, KeepsAt

LEMMA SelectionOfAppend ==
    ASSUME NEW X, NEW s \in Seq(X), NEW x \in X, NEW I, NEW J,
           \A k \in 1..Len(s) : k \in I <=> k \in J
    PROVE  Selection(Append(s, x), J) =
               IF Len(s) + 1 \in J THEN Append(Selection(s, I), x) ELSE Selection(s, I)
<1> DEFINE t == Append(s, x)
           n == Len(s)
<1>1. /\ n \in Nat /\ Len(t) = n + 1 /\ t[n + 1] = x
      /\ \A k \in 1..n : t[k] = s[k]
  OBVIOUS
<1> HIDE DEF t, n
<1>2. PICK f : Keeps(s, I, f, n) /\ Selection(s, I) = f[n]
  BY <1>1, SelectionIs DEF n
<1>3. PICK g : Keeps(t, J, g, n + 1) /\ Selection(t, J) = g[n + 1]
  BY <1>1, SelectionIs
<1>4. f[n] = g[n]
  BY <1>1, <1>2, <1>3, KeepsAgree DEF n
<1>5. g[n + 1] = Taken(t, J, g[n], n + 1)
  BY <1>1, <1>3, KeepsAt
<1> QED
  BY <1>1, <1>2, <1>3, <1>4, <1>5 DEF Taken, t, n

\* What is kept of the first n elements: p holds their positions, in order and all of them.
Kept(s, I, kept, p, n) ==
    /\ p \in Seq(Nat) /\ Len(p) = Len(kept)
    /\ \A k \in 1..Len(p) : p[k] \in I /\ p[k] \in 1..n /\ kept[k] = s[p[k]]
    /\ \A k, l \in 1..Len(p) : k < l => p[k] < p[l]
    /\ \A i \in 1..n : i \in I => \E k \in 1..Len(p) : p[k] = i

LEMMA AppendFacts ==
    ASSUME NEW X, NEW s \in Seq(X), NEW x \in X
    PROVE  /\ Append(s, x) \in Seq(X) /\ Len(Append(s, x)) = Len(s) + 1 /\ Len(s) \in Nat
           /\ \A k \in 1..Len(s) : Append(s, x)[k] = s[k]
           /\ Append(s, x)[Len(s) + 1] = x
<1>1. Append(s, x) \in Seq(X) /\ Len(Append(s, x)) = Len(s) + 1 /\ Len(s) \in Nat
  OBVIOUS
<1>2. \A k \in 1..Len(s) : Append(s, x)[k] = s[k]
  OBVIOUS
<1>3. Append(s, x)[Len(s) + 1] = x
  OBVIOUS
<1> QED
  BY <1>1, <1>2, <1>3

LEMMA OneMoreKept ==
    ASSUME NEW X, NEW s, NEW I, NEW n \in Nat \ {0}, s[n] \in X,
           NEW kept \in Seq(X), NEW p, Kept(s, I, kept, p, n - 1)
    PROVE  /\ Taken(s, I, kept, n) \in Seq(X)
           /\ \E q : Kept(s, I, Taken(s, I, kept, n), q, n)
<1>1. CASE n \in I
  <2> DEFINE q == Append(p, n)
             more == Append(kept, s[n])
  <2>1. p \in Seq(Nat) /\ Len(p) = Len(kept) /\ n \in Nat /\ Len(p) \in Nat
    BY DEF Kept
  <2>2. /\ q \in Seq(Nat) /\ Len(q) = Len(p) + 1
        /\ \A k \in 1..Len(p) : q[k] = p[k]
        /\ q[Len(p) + 1] = n
    BY <2>1, AppendFacts
  <2>3. /\ more \in Seq(X) /\ Len(more) = Len(kept) + 1
        /\ \A k \in 1..Len(kept) : more[k] = kept[k]
        /\ more[Len(kept) + 1] = s[n]
    BY AppendFacts
  <2>4. Taken(s, I, kept, n) = more
    BY <1>1 DEF Taken
  <2> HIDE DEF q, more
  <2>5. \A k \in 1..Len(q) : k \in 1..Len(p) \/ k = Len(p) + 1
    BY <2>1, <2>2
  <2>6. \A k \in 1..Len(q) : q[k] \in I /\ q[k] \in 1..n /\ more[k] = s[q[k]]
    <3>1. \A k \in 1..Len(p) : p[k] \in I /\ p[k] \in 1..n - 1 /\ kept[k] = s[p[k]]
      BY DEF Kept
    <3> SUFFICES ASSUME NEW k \in 1..Len(q)
                 PROVE  q[k] \in I /\ q[k] \in 1..n /\ more[k] = s[q[k]]
      OBVIOUS
    <3>2. CASE k \in 1..Len(p)
      <4>1. q[k] = p[k] /\ more[k] = kept[k]
        BY <3>2, <2>1, <2>2, <2>3
      <4>2. p[k] \in I /\ p[k] \in 1..n - 1 /\ kept[k] = s[p[k]]
        BY <3>1, <3>2
      <4>3. p[k] \in 1..n
        BY <4>2
      <4> QED
        BY <4>1, <4>2, <4>3
    <3>3. CASE k = Len(p) + 1
      BY <3>3, <1>1, <2>1, <2>2, <2>3
    <3> QED
      BY <3>2, <3>3, <2>5
  <2>7. \A k, l \in 1..Len(q) : k < l => q[k] < q[l]
    <3>1. \A k \in 1..Len(p) : p[k] \in 1..n - 1
      BY DEF Kept
    <3>2. \A k, l \in 1..Len(p) : k < l => p[k] < p[l]
      BY DEF Kept
    <3> SUFFICES ASSUME NEW k \in 1..Len(q), NEW l \in 1..Len(q), k < l
                 PROVE  q[k] < q[l]
      OBVIOUS
    <3>3. k \in 1..Len(p)
      BY <2>1, <2>2
    <3>4. CASE l \in 1..Len(p)
      BY <3>2, <3>3, <3>4, <2>2
    <3>5. CASE l = Len(p) + 1
      BY <3>1, <3>3, <3>5, <2>2
    <3> QED
      BY <3>4, <3>5, <2>5
  <2>8. \A i \in 1..n : i \in I => \E k \in 1..Len(q) : q[k] = i
    <3> SUFFICES ASSUME NEW i \in 1..n, i \in I
                 PROVE  \E k \in 1..Len(q) : q[k] = i
      OBVIOUS
    <3>1. CASE i = n
      BY <3>1, <2>1, <2>2
    <3>2. CASE i # n
      <4>1. i \in 1..n - 1
        BY <3>2
      <4>2. PICK k \in 1..Len(p) : p[k] = i
        BY <4>1 DEF Kept
      <4> QED
        BY <4>2, <2>1, <2>2
    <3> QED
      BY <3>1, <3>2
  <2>9. Kept(s, I, more, q, n)
    BY <2>1, <2>2, <2>3, <2>6, <2>7, <2>8 DEF Kept
  <2> QED
    BY <2>3, <2>4, <2>9
<1>2. CASE n \notin I
  <2>1. Taken(s, I, kept, n) = kept
    BY <1>2 DEF Taken
  <2>2. Kept(s, I, kept, p, n)
    BY <1>2 DEF Kept
  <2> QED
    BY <2>1, <2>2
<1> QED
  BY <1>1, <1>2

\* What is kept of a sequence of X is a sequence of X, made of the elements at these
\* positions, in their order.
LEMMA SelectionKeeps ==
    ASSUME NEW X, NEW s \in Seq(X), NEW I
    PROVE  /\ Selection(s, I) \in Seq(X)
           /\ \E p : Kept(s, I, Selection(s, I), p, Len(s))
<1>1. Len(s) \in Nat /\ \A k \in 1..Len(s) : s[k] \in X
  OBVIOUS
<1>2. PICK f : Keeps(s, I, f, Len(s)) /\ Selection(s, I) = f[Len(s)]
  BY <1>1, SelectionIs
<1> DEFINE Right(n) == f[n] \in Seq(X) /\ \E p : Kept(s, I, f[n], p, n)
           T == {n \in 0..Len(s) : ~Right(n)}
<1>3. T = {}
  <2> SUFFICES ASSUME T # {}
               PROVE  FALSE
    OBVIOUS
  <2>1. PICK n \in T : \A m \in T : n <= m
    <3> HIDE DEF T
    <3>1. T \in SUBSET Nat
      BY DEF T
    <3> QED
      BY <3>1, Smallest
  <2>2. CASE n = 0
    <3>1. f[0] = <<>>
      BY <1>1, <1>2, KeepsAt
    <3>2. Kept(s, I, <<>>, <<>>, 0)
      BY DEF Kept
    <3>3. f[n] = <<>> /\ <<>> \in Seq(X) /\ Kept(s, I, f[n], <<>>, n)
      BY <3>1, <3>2, <2>2
    <3> QED
      BY <3>3, <2>1
  <2>3. CASE n # 0
    <3>1. n \in Nat \ {0} /\ n \in 1..Len(s) /\ n - 1 \in 0..Len(s) /\ n - 1 \notin T
      BY <2>1, <2>3, <1>1
    <3>2. f[n - 1] \in Seq(X) /\ \E p : Kept(s, I, f[n - 1], p, n - 1)
      BY <3>1
    <3>3. f[n] = Taken(s, I, f[n - 1], n)
      BY <3>1, <1>1, <1>2, KeepsAt
    <3>4. f[n] \in Seq(X) /\ \E q : Kept(s, I, f[n], q, n)
      BY <3>1, <3>2, <3>3, <1>1, OneMoreKept
    <3> QED
      BY <3>4, <2>1
  <2> QED
    BY <2>2, <2>3
<1>4. Right(Len(s))
  BY <1>1, <1>3
<1> QED
  BY <1>2, <1>4
=============================================================================
