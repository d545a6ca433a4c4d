------------------------- MODULE ReachabilityProofs -------------------------
(***************************************************************************)
(* Proofs about how peers describe themselves and how the hub decides.     *)
(*                                                                         *)
(* Decision: the properties of the decision hold for any peers, with any   *)
(* number of addresses.  They follow from what the filters and the         *)
(* de-duplication keep of a list.                                          *)
(*                                                                         *)
(* Discovery: for any hosts, ports, NATs, sockets and number of starts.    *)
(* The invariant says that every datagram that carries a transaction id of *)
(* this start tells the truth about this start's network: the hub only     *)
(* echoes, and an id is used once.                                         *)
(***************************************************************************)
EXTENDS Discovery, Decision, SelectionProofs, SequenceTheorems, FiniteSetTheorems

-----------------------------------------------------------------------------
(* Lists of candidates.                                                    *)

\* dedupe_candidates loses no base_url and keeps none twice, for lists of any length.
LEMMA DedupeOf ==
    ASSUME NEW c \in Seq(Address)
    PROVE  /\ dedupe_candidates(c) \in Seq(Address)
           /\ \A i \in DOMAIN c : \E k \in DOMAIN dedupe_candidates(c) :
                 dedupe_candidates(c)[k].base_url = c[i].base_url
           /\ \A k \in DOMAIN dedupe_candidates(c) : \E i \in DOMAIN c :
                 dedupe_candidates(c)[k] = c[i]
           /\ \A k, l \in DOMAIN dedupe_candidates(c) :
                 k # l => dedupe_candidates(c)[k].base_url # dedupe_candidates(c)[l].base_url
<1> DEFINE firsts == {i \in DOMAIN c : \A j \in 1..i - 1 : c[j].base_url # c[i].base_url}
           d == dedupe_candidates(c)
<1>1. d = Selection(c, firsts)
  BY DEF dedupe_candidates
<1>2. d \in Seq(Address) /\ \E p : Kept(c, firsts, d, p, Len(c))
  BY <1>1, SelectionKeeps
<1>3. PICK p : Kept(c, firsts, d, p, Len(c))
  BY <1>2
<1>4. /\ p \in Seq(Nat) /\ Len(p) = Len(d) /\ Len(d) \in Nat /\ Len(c) \in Nat
      /\ DOMAIN c = 1..Len(c) /\ DOMAIN d = 1..Len(d)
      /\ \A k \in 1..Len(p) : p[k] \in firsts /\ p[k] \in 1..Len(c) /\ d[k] = c[p[k]]
      /\ \A k, l \in 1..Len(p) : k < l => p[k] < p[l]
      /\ \A i \in 1..Len(c) : i \in firsts => \E k \in 1..Len(p) : p[k] = i
  <2>1. /\ p \in Seq(Nat) /\ Len(p) = Len(d)
        /\ \A k \in 1..Len(p) : p[k] \in firsts /\ p[k] \in 1..Len(c) /\ d[k] = c[p[k]]
        /\ \A k, l \in 1..Len(p) : k < l => p[k] < p[l]
        /\ \A i \in 1..Len(c) : i \in firsts => \E k \in 1..Len(p) : p[k] = i
    BY <1>3 DEF Kept
  <2> HIDE DEF d
  <2> QED
    BY <2>1, <1>2
<1> HIDE DEF d
<1>5. ASSUME NEW i \in DOMAIN c
      PROVE  \E k \in DOMAIN d : d[k].base_url = c[i].base_url
  <2> DEFINE same == {j \in DOMAIN c : c[j].base_url = c[i].base_url}
  <2>1. same \in SUBSET Nat /\ same # {}
    BY <1>4
  <2>2. PICK j \in same : \A k \in same : j <= k
    <3> HIDE DEF same
    <3> QED
      BY <2>1, Smallest
  <2>3. j \in DOMAIN c /\ c[j].base_url = c[i].base_url
    BY <2>2
  <2>4. ASSUME NEW k \in 1..j - 1
        PROVE  c[k].base_url # c[j].base_url
    <3>1. k \in DOMAIN c /\ j \in Nat /\ k \in Nat /\ ~(j <= k)
      BY <1>4, <2>3
    <3>2. k \notin same
      BY <2>2, <3>1
    <3> QED
      BY <2>3, <3>1, <3>2
  <2>5. j \in firsts
    BY <2>3, <2>4
  <2>6. PICK k \in 1..Len(p) : p[k] = j
    BY <1>4, <2>3, <2>5
  <2>7. k \in DOMAIN d /\ d[k] = c[j]
    BY <1>4, <2>6
  <2> QED
    BY <2>3, <2>7
<1>6. \A k \in DOMAIN d : \E i \in DOMAIN c : d[k] = c[i]
  BY <1>4
<1>7. ASSUME NEW k \in DOMAIN d, NEW l \in DOMAIN d, k < l
      PROVE  d[k].base_url # d[l].base_url
  <2>1. p[k] < p[l] /\ p[k] \in 1..Len(c) /\ p[l] \in firsts /\ p[l] \in 1..Len(c)
    BY <1>4, <1>7
  <2>2. p[k] \in 1..p[l] - 1
    BY <2>1, <1>4
  <2> QED
    BY <1>4, <2>1, <2>2
<1>8. \A k, l \in DOMAIN d : k # l => d[k].base_url # d[l].base_url
  <2>1. \A k, l \in DOMAIN d : k # l => k < l \/ l < k
    BY <1>4
  <2> QED
    BY <2>1, <1>7
<1> QED
  BY <1>2, <1>5, <1>6, <1>8 DEF d

-----------------------------------------------------------------------------
(* What a gateway says of itself.                                          *)

Candidate(seen) ==
    [base_url |-> <<"udp", seen[1], seen[2]>>,
     scope |-> reachability_scope_for_ip(seen[1]),
     transport_protocol |-> "direct_udp", address_hint |-> seen[1]]

LEMMA CandidateIs ==
    ASSUME NEW seen \in Observation
    PROVE  Candidate(seen) \in Address
<1>1. seen[1] \in Host /\ seen[2] \in Port
  BY DEF Observation
<1>2. reachability_scope_for_ip(seen[1]) \in Scopes
  BY DEF reachability_scope_for_ip, Scopes
<1>3. <<"udp", seen[1], seen[2]>> \in {"http", "udp"} \X Host \X (Port \cup {None})
  BY <1>1
<1> QED
  BY <1>1, <1>2, <1>3 DEF Candidate, Address, Transports

\* The observed addresses it registers are those of its probes.
LEMMA DiscoveredAre ==
    ASSUME NEW a \in Observation, NEW b \in Observation
    PROVE  /\ discovered_addresses(a, b) \in Seq(Address)
           /\ {discovered_addresses(a, b)[i].base_url : i \in DOMAIN discovered_addresses(a, b)}
                 = {<<"udp", a[1], a[2]>>, <<"udp", b[1], b[2]>>}
<1> DEFINE c == <<Candidate(a), Candidate(b)>>
           d == discovered_addresses(a, b)
<1>1. c \in Seq(Address) /\ DOMAIN c = {1, 2}
  <2>1. Candidate(a) \in Address /\ Candidate(b) \in Address
    BY CandidateIs
  <2> HIDE DEF Candidate
  <2>2. c \in Seq(Address)
    BY <2>1
  <2>3. DOMAIN c = 1..2
    OBVIOUS
  <2> QED
    BY <2>2, <2>3
<1>2. d = dedupe_candidates(c)
  BY DEF discovered_addresses, Candidate
<1>3. c[1].base_url = <<"udp", a[1], a[2]>> /\ c[2].base_url = <<"udp", b[1], b[2]>>
  BY DEF Candidate
<1> HIDE DEF c, d
<1>4. /\ d \in Seq(Address)
      /\ \A i \in DOMAIN c : \E k \in DOMAIN d : d[k].base_url = c[i].base_url
      /\ \A k \in DOMAIN d : \E i \in DOMAIN c : d[k] = c[i]
  BY <1>1, <1>2, DedupeOf
<1>5. {d[k].base_url : k \in DOMAIN d} = {c[1].base_url, c[2].base_url}
  <2>1. \A k \in DOMAIN d : d[k] = c[1] \/ d[k] = c[2]
    BY <1>1, <1>4
  <2>2. \E k \in DOMAIN d : d[k].base_url = c[1].base_url
    BY <1>1, <1>4
  <2>3. \E k \in DOMAIN d : d[k].base_url = c[2].base_url
    BY <1>1, <1>4
  <2> QED
    BY <2>1, <2>2, <2>3
<1> QED
  BY <1>3, <1>4, <1>5 DEF d

\* What start makes of its probes, or of none.
LEMMA DescriptionOf ==
    ASSUME NEW host \in Host, NEW port \in Port, NEW m, NEW probes,
           probes # None => probes[1] \in Observation /\ probes[2] \in Observation
    PROVE  LET r == gateway_reachability(host, port, m, probes)
           IN  /\ r \in PeerReachability
               /\ \A i \in DOMAIN r.advertised_addresses :
                     /\ r.advertised_addresses[i].base_url[2] = host
                     /\ r.advertised_addresses[i].scope = reachability_scope_for_host(host)
               /\ \/ r.nat_behavior = "unknown" /\ r.observed_addresses = <<>>
                  \/ /\ probes # None
                     /\ r.nat_behavior = nat_behavior_from_probes(probes[1], probes[2])
                     /\ r.observed_addresses = discovered_addresses(probes[1], probes[2])
<1> DEFINE r == gateway_reachability(host, port, m, probes)
           direct == supports_direct_advertisement(normalized_mode(m, host))
           found == direct /\ probes # None
           scope == reachability_scope_for_host(host)
           bind == [base_url |-> <<"http", host, port>>, scope |-> scope,
                    transport_protocol |-> "direct_tcp", address_hint |-> host]
           behavior == IF found THEN nat_behavior_from_probes(probes[1], probes[2]) ELSE "unknown"
           seen == IF found THEN discovered_addresses(probes[1], probes[2]) ELSE <<>>
           way == IF ~direct THEN "relay_only"
                  ELSE CASE scope = "public" -> "public_direct"
                         [] scope = "lan" -> "unknown_external"
                         [] OTHER -> "local_only"
           offered == IF direct THEN <<bind>> ELSE <<>>
<1>1. r = [mode |-> way, nat_behavior |-> IF direct THEN behavior ELSE "unknown",
           message_endpoint |-> TRUE, bind_address |-> bind,
           advertised_addresses |-> offered, observed_addresses |-> seen]
  BY DEF gateway_reachability, peer_reachability_for
<1>2. bind \in Address
  <2>1. scope \in Scopes
    BY DEF reachability_scope_for_host, Scopes
  <2>2. <<"http", host, port>> \in {"http", "udp"} \X Host \X (Port \cup {None})
    OBVIOUS
  <2> HIDE DEF scope
  <2> QED
    BY <2>1, <2>2 DEF Address, Transports
<1>3. way \in Modes
  BY DEF Modes
<1>4. (IF direct THEN behavior ELSE "unknown") = behavior /\ behavior \in Natures
  BY DEF nat_behavior_from_probes, Natures
<1>5. seen \in Seq(Address)
  <2>1. CASE found
    BY <2>1, DiscoveredAre
  <2>2. CASE ~found
    BY <2>2
  <2> QED
    BY <2>1, <2>2
<1>6. offered \in Seq(Address)
  <2> HIDE DEF bind
  <2> QED
    BY <1>2
<1>7. \A i \in DOMAIN offered :
         offered[i].base_url[2] = host /\ offered[i].scope = reachability_scope_for_host(host)
  <2>1. bind.base_url[2] = host /\ bind.scope = reachability_scope_for_host(host)
    OBVIOUS
  <2>2. \A i \in DOMAIN offered : offered[i] = bind
    <3> HIDE DEF bind
    <3> QED
      OBVIOUS
  <2> QED
    BY <2>1, <2>2
<1> HIDE DEF r, bind, way, behavior, seen, offered, direct
<1>8. r \in PeerReachability
  BY <1>1, <1>2, <1>3, <1>4, <1>5, <1>6 DEF PeerReachability
<1>9. /\ r.nat_behavior = behavior /\ r.observed_addresses = seen
      /\ r.advertised_addresses = offered
  BY <1>1, <1>4
<1> QED
  BY <1>7, <1>8, <1>9 DEF r, behavior, seen

-----------------------------------------------------------------------------
(* Numbers in order, and what is selected.                                 *)

\* As many numbers as places, if they grow.
LEMMA GrowingNumbers ==
    ASSUME NEW n \in Nat, NEW r \in Seq(Nat), n <= Len(r),
           \A k, l \in 1..Len(r) : k < l => r[k] < r[l]
    PROVE  Cardinality({r[k] : k \in 1..n}) = n
<1> DEFINE T == {r[k] : k \in 1..n}
           f == [k \in 1..n |-> r[k]]
<1>1. Len(r) \in Nat /\ 1..n \subseteq 1..Len(r) /\ \A k \in 1..Len(r) : r[k] \in Nat
  OBVIOUS
<1>2. f \in [1..n -> T] /\ \A t \in T : \E k \in 1..n : f[k] = t
  OBVIOUS
<1>3. ASSUME NEW k \in 1..n, NEW l \in 1..n, f[k] = f[l]
      PROVE  k = l
  <2>1. r[k] = r[l] /\ r[k] \in Nat /\ k \in 1..Len(r) /\ l \in 1..Len(r)
    BY <1>1, <1>3
  <2>2. ~(k < l) /\ ~(l < k)
    BY <2>1
  <2> QED
    BY <2>2
<1>4. f \in Bijection(1..n, T)
  <2> HIDE DEF T, f
  <2> QED
    BY <1>2, <1>3 DEF Bijection, Injection, Surjection, IsInjective
<1>5. Cardinality(T) = Cardinality(1..n)
  <2>1. IsFiniteSet(1..n)
    BY FS_Interval
  <2>2. ExistsBijection(1..n, T)
    BY <1>4 DEF ExistsBijection
  <2> HIDE DEF T
  <2> QED
    BY <2>1, <2>2, FS_Bijection
<1>6. Cardinality(1..n) = n
  <2>1. Cardinality(1..n) = IF 1 > n THEN 0 ELSE n - 1 + 1
    BY FS_Interval
  <2> QED
    BY <2>1
<1> QED
  BY <1>5, <1>6

LEMMA SelectionIsEmpty ==
    ASSUME NEW X, NEW s \in Seq(X), NEW I \in SUBSET DOMAIN s
    PROVE  Selection(s, I) = <<>> <=> I = {}
<1>1. /\ Selection(s, I) \in Seq(X)
      /\ \E p : Kept(s, I, Selection(s, I), p, Len(s))
  BY SelectionKeeps
<1>2. PICK p : Kept(s, I, Selection(s, I), p, Len(s))
  BY <1>1
<1>3. /\ p \in Seq(Nat) /\ Len(p) = Len(Selection(s, I))
      /\ \A k \in 1..Len(p) : p[k] \in I
      /\ \A i \in 1..Len(s) : i \in I => \E k \in 1..Len(p) : p[k] = i
  BY <1>2 DEF Kept
<1>4. Len(p) \in Nat /\ DOMAIN s = 1..Len(s)
  BY <1>3
<1>5. CASE I = {}
  <2>1. Len(p) = 0
    BY <1>3, <1>4, <1>5
  <2> QED
    BY <1>1, <1>3, <1>5, <2>1
<1>6. CASE I # {}
  <2>1. Len(p) # 0
    BY <1>3, <1>4, <1>6
  <2> QED
    BY <1>1, <1>3, <1>6, <2>1
<1> QED
  BY <1>5, <1>6

-----------------------------------------------------------------------------
(* The candidates.                                                         *)

\* The first of each base_url among those at the positions I.
First(c, I) == {i \in I : \A j \in I : c[j].base_url = c[i].base_url => i <= j}

\* Filtered and de-duplicated: in order, the first of each base_url and nothing else.
LEMMA DedupeOfSelection ==
    ASSUME NEW c \in Seq(Address), NEW I \in SUBSET DOMAIN c
    PROVE  LET d == dedupe_candidates(Selection(c, I))
               first == First(c, I)
           IN  /\ d \in Seq(Address) /\ Len(d) = Cardinality(first)
               /\ \A k \in DOMAIN d :
                     \E i \in first : d[k] = c[i] /\ Cardinality({j \in first : j < i}) = k - 1
<1> DEFINE b == Selection(c, I)
           firsts == {i \in DOMAIN b : \A j \in 1..i - 1 : b[j].base_url # b[i].base_url}
           d == dedupe_candidates(b)
           first == First(c, I)
<1>1. b \in Seq(Address) /\ \E p : Kept(c, I, b, p, Len(c))
  BY SelectionKeeps
<1>2. d = Selection(b, firsts)
  BY DEF dedupe_candidates
<1>3. d \in Seq(Address) /\ \E q : Kept(b, firsts, d, q, Len(b))
  <2> HIDE DEF firsts, d
  <2> QED
    BY <1>1, <1>2, SelectionKeeps
<1>4. PICK p : Kept(c, I, b, p, Len(c))
  BY <1>1
<1>5. PICK q : Kept(b, firsts, d, q, Len(b))
  BY <1>3
<1>6. /\ p \in Seq(Nat) /\ Len(p) = Len(b)
      /\ \A k \in 1..Len(p) : p[k] \in I /\ b[k] = c[p[k]]
      /\ \A k, l \in 1..Len(p) : k < l => p[k] < p[l]
      /\ \A i \in 1..Len(c) : i \in I => \E k \in 1..Len(p) : p[k] = i
  BY <1>4 DEF Kept
<1>7. /\ q \in Seq(Nat) /\ Len(q) = Len(d)
      /\ \A k \in 1..Len(q) : q[k] \in firsts /\ q[k] \in 1..Len(b) /\ d[k] = b[q[k]]
      /\ \A k, l \in 1..Len(q) : k < l => q[k] < q[l]
      /\ \A i \in 1..Len(b) : i \in firsts => \E k \in 1..Len(q) : q[k] = i
  BY <1>5 DEF Kept
<1>8. /\ DOMAIN c = 1..Len(c) /\ DOMAIN b = 1..Len(b) /\ DOMAIN d = 1..Len(d)
      /\ Len(b) \in Nat /\ Len(c) \in Nat /\ Len(d) \in Nat
  <2> HIDE DEF b, d
  <2> QED
    BY <1>1, <1>3
<1>9. \A k \in 1..Len(b) : p[k] \in I /\ p[k] \in Nat /\ b[k] = c[p[k]]
  <2> HIDE DEF b
  <2> QED
    BY <1>6, <1>8
<1>10. \A k \in 1..Len(b) :
          k \in firsts <=> \A j \in 1..Len(b) : j < k => b[j].base_url # b[k].base_url
  <2> HIDE DEF b
  <2> QED
    BY <1>8
<1> HIDE DEF b, firsts, d
<1>11. \A k \in 1..Len(b) : k \in firsts <=> p[k] \in first
  <2> TAKE k \in 1..Len(b)
  <2>1. ASSUME k \in firsts
        PROVE  p[k] \in first
    <3> SUFFICES ASSUME NEW j \in I, c[j].base_url = c[p[k]].base_url
                 PROVE  p[k] <= j
      BY <1>9 DEF First
    <3>1. j \in 1..Len(c)
      BY <1>8
    <3>2. PICK m \in 1..Len(p) : p[m] = j
      BY <1>6, <3>1
    <3>3. m \in 1..Len(b) /\ b[m].base_url = b[k].base_url
      BY <3>2, <1>6, <1>9
    <3>4. ~(m < k)
      BY <2>1, <1>10, <3>3
    <3>5. k = m \/ k < m
      BY <3>3, <3>4
    <3>6. p[k] = p[m] \/ p[k] < p[m]
      BY <3>5, <3>3, <1>6
    <3> QED
      BY <3>2, <3>3, <3>6, <1>9
  <2>2. ASSUME p[k] \in first
        PROVE  k \in firsts
    <3> SUFFICES ASSUME NEW j \in 1..Len(b), j < k, b[j].base_url = b[k].base_url
                 PROVE  FALSE
      BY <1>10
    <3>1. p[j] < p[k] /\ p[j] \in I /\ p[j] \in Nat /\ p[k] \in Nat
      BY <1>6, <1>9
    <3>2. c[p[j]].base_url = c[p[k]].base_url
      BY <1>9
    <3>3. p[k] <= p[j]
      BY <2>2, <3>1, <3>2 DEF First
    <3> QED
      BY <3>1, <3>3
  <2> QED
    BY <2>1, <2>2
<1> DEFINE r == [k \in 1..Len(d) |-> p[q[k]]]
<1>12. /\ r \in Seq(Nat) /\ Len(r) = Len(d)
       /\ \A k \in 1..Len(d) : r[k] \in first /\ d[k] = c[r[k]]
  <2>1. \A k \in 1..Len(d) : q[k] \in 1..Len(b) /\ q[k] \in firsts /\ d[k] = b[q[k]]
    BY <1>7
  <2>2. \A k \in 1..Len(d) : p[q[k]] \in Nat /\ p[q[k]] \in first /\ d[k] = c[p[q[k]]]
    BY <2>1, <1>9, <1>11
  <2>3. r \in [1..Len(d) -> Nat]
    BY <2>2
  <2> QED
    BY <2>2, <2>3, <1>8
<1>13. \A k, l \in 1..Len(d) : k < l => r[k] < r[l]
  <2> TAKE k, l \in 1..Len(d)
  <2> HAVE k < l
  <2>1. q[k] < q[l] /\ q[k] \in 1..Len(p) /\ q[l] \in 1..Len(p)
    BY <1>7, <1>6
  <2>2. p[q[k]] < p[q[l]]
    BY <1>6, <2>1
  <2> QED
    BY <2>2
<1>14. \A i \in first : \E k \in 1..Len(d) : r[k] = i
  <2> TAKE i \in first
  <2>1. i \in I /\ i \in 1..Len(c)
    BY <1>8 DEF First
  <2>2. PICK m \in 1..Len(p) : p[m] = i
    BY <1>6, <2>1
  <2>3. m \in 1..Len(b) /\ m \in firsts
    BY <1>6, <1>11, <2>2
  <2>4. PICK k \in 1..Len(q) : q[k] = m
    BY <1>7, <2>3
  <2> QED
    BY <1>7, <2>2, <2>4
<1> HIDE DEF r
<1>15. first = {r[k] : k \in 1..Len(d)}
  BY <1>12, <1>14
<1>16. Cardinality(first) = Len(d)
  <2>1. Len(d) <= Len(r) /\ \A l, m \in 1..Len(r) : l < m => r[l] < r[m]
    BY <1>8, <1>12, <1>13
  <2>2. Cardinality({r[k] : k \in 1..Len(d)}) = Len(d)
    BY <1>8, <1>12, <2>1, GrowingNumbers
  <2> QED
    BY <1>15, <2>2
<1>17. ASSUME NEW k \in DOMAIN d
       PROVE  \E i \in first : d[k] = c[i] /\ Cardinality({j \in first : j < i}) = k - 1
  <2>1. k \in 1..Len(d) /\ k - 1 \in Nat /\ k - 1 <= Len(r)
    BY <1>8, <1>12
  <2>2. {j \in first : j < r[k]} = {r[l] : l \in 1..k - 1}
    <3>1. ASSUME NEW j \in first, j < r[k]
          PROVE  \E l \in 1..k - 1 : r[l] = j
      <4>1. PICK l \in 1..Len(d) : r[l] = j
        BY <1>14
      <4>2. r[k] \in Nat /\ r[l] \in Nat
        BY <1>12, <2>1, <4>1, <1>8
      <4>3. ~(k < l) /\ k # l
        BY <1>13, <2>1, <3>1, <4>1, <4>2
      <4>4. l \in 1..k - 1
        BY <2>1, <4>1, <4>3, <1>8
      <4> QED
        BY <4>1, <4>4
    <3>2. ASSUME NEW l \in 1..k - 1
          PROVE  r[l] \in first /\ r[l] < r[k]
      <4>1. l \in 1..Len(d) /\ l < k
        BY <2>1, <1>8
      <4> QED
        BY <4>1, <2>1, <1>12, <1>13
    <3> HIDE DEF first
    <3> QED
      BY <3>1, <3>2
  <2>3. Cardinality({r[l] : l \in 1..k - 1}) = k - 1
    <3>1. \A l, m \in 1..Len(r) : l < m => r[l] < r[m]
      BY <1>12, <1>13
    <3> QED
      BY <2>1, <3>1, <1>12, GrowingNumbers
  <2>4. r[k] \in first /\ d[k] = c[r[k]]
    BY <2>1, <1>12
  <2> HIDE DEF first
  <2> QED
    BY <2>2, <2>3, <2>4
<1> QED
  BY <1>3, <1>16, <1>17 DEF d, b

-----------------------------------------------------------------------------
(* What the hub selects, and the reason it gives.                          *)

Barred(s, t) ==
    \/ "relay_only" \in {s.mode, t.mode}
    \/ "symmetric" \in {s.nat_behavior, t.nat_behavior}
    \/ ~t.message_endpoint

BestScope(s, t) == IF Offerable(s, t, "public") # {} THEN "public" ELSE "lan"

LEMMA SelectedAre ==
    ASSUME NEW s, NEW t, t.advertised_addresses \in Seq(Address)
    PROVE  select_direct_candidates(s, t) =
             IF Barred(s, t) \/ Offerable(s, t, BestScope(s, t)) = {} THEN None
             ELSE dedupe_candidates(Selection(t.advertised_addresses,
                                              Offerable(s, t, BestScope(s, t))))
<1> DEFINE listed == t.advertised_addresses
           P == Offerable(s, t, "public")
           L == Offerable(s, t, "lan")
           tcp == {i \in DOMAIN listed : listed[i].transport_protocol = "direct_tcp"}
<1>1. /\ P = {i \in tcp : listed[i].scope = "public"}
      /\ L = {i \in tcp : /\ listed[i].scope = "lan"
                          /\ listed[i].address_hint \in source_public_hints(s)}
  BY DEF Offerable, source_public_hints
<1>2. P \in SUBSET DOMAIN listed /\ L \in SUBSET DOMAIN listed
  BY DEF Offerable
<1>3. /\ Selection(listed, P) = <<>> <=> P = {}
      /\ Selection(listed, L) = <<>> <=> L = {}
  <2> HIDE DEF P, L
  <2> QED
    BY <1>2, SelectionIsEmpty
<1> DEFINE p == {i \in tcp : listed[i].scope = "public"}
           l == {i \in tcp : /\ listed[i].scope = "lan"
                            /\ listed[i].address_hint \in source_public_hints(s)}
<1>4. select_direct_candidates(s, t) =
        LET best == IF Selection(listed, P) # <<>> THEN Selection(listed, P)
                    ELSE Selection(listed, L)
        IN  IF Barred(s, t) \/ best = <<>> THEN None ELSE dedupe_candidates(best)
  <2>1. select_direct_candidates(s, t) =
          LET best == IF Selection(listed, p) # <<>> THEN Selection(listed, p)
                      ELSE Selection(listed, l)
          IN  IF Barred(s, t) \/ best = <<>> THEN None ELSE dedupe_candidates(best)
    BY DEF select_direct_candidates, Barred
  <2>2. P = p /\ L = l
    BY <1>1
  <2> HIDE DEF P, L, p, l, listed
  <2> QED
    BY <2>1, <2>2
<1>5. Offerable(s, t, BestScope(s, t)) = IF P # {} THEN P ELSE L
  BY DEF BestScope
<1> HIDE DEF P, L, p, l
<1> QED
  BY <1>3, <1>4, <1>5

\* The first that applies is the reason.
LEMMA ReasonIs ==
    ASSUME NEW s, NEW t, NEW direct \in BOOLEAN
    PROVE  LET reason == relay_decision_reason(s, t, direct)
           IN  \/ reason = "not_requested" /\ ~direct
               \/ reason = "source_relay_only" /\ s.mode = "relay_only"
               \/ reason = "target_relay_only" /\ t.mode = "relay_only"
               \/ reason = "source_symmetric" /\ s.nat_behavior = "symmetric"
               \/ reason = "target_symmetric" /\ t.nat_behavior = "symmetric"
               \/ reason = "no_message_endpoint" /\ ~t.message_endpoint
               \/ reason = "no_candidate" /\ direct /\ ~Barred(s, t)
<1> DEFINE reasons == << <<~direct, "not_requested">>,
                         <<s.mode = "relay_only", "source_relay_only">>,
                         <<t.mode = "relay_only", "target_relay_only">>,
                         <<s.nat_behavior = "symmetric", "source_symmetric">>,
                         <<t.nat_behavior = "symmetric", "target_symmetric">>,
                         <<~t.message_endpoint, "no_message_endpoint">>,
                         <<TRUE, "no_candidate">> >>
           I == {i \in 1..Len(reasons) : reasons[i][1]}
           n == CHOOSE x \in I : \A y \in I : x <= y
<1>1. Len(reasons) = 7
  OBVIOUS
<1>2. /\ 1 \in I <=> ~direct
      /\ 2 \in I <=> s.mode = "relay_only"
      /\ 3 \in I <=> t.mode = "relay_only"
      /\ 4 \in I <=> s.nat_behavior = "symmetric"
      /\ 5 \in I <=> t.nat_behavior = "symmetric"
      /\ 6 \in I <=> ~t.message_endpoint
      /\ 7 \in I
  <2>1. \A i \in 1..7 : i \in I <=> reasons[i][1]
    BY <1>1
  <2>2. 1 \in 1..7 /\ 2 \in 1..7 /\ 3 \in 1..7 /\ 4 \in 1..7 /\ 5 \in 1..7 /\ 6 \in 1..7 /\ 7 \in 1..7
    OBVIOUS
  <2>3. reasons[1][1] <=> ~direct
    BY Zenon
  <2>4. reasons[2][1] <=> s.mode = "relay_only"
    BY Zenon
  <2>5. reasons[3][1] <=> t.mode = "relay_only"
    BY Zenon
  <2>6. reasons[4][1] <=> s.nat_behavior = "symmetric"
    BY Zenon
  <2>7. reasons[5][1] <=> t.nat_behavior = "symmetric"
    BY Zenon
  <2>8. reasons[6][1] <=> ~t.message_endpoint
    BY Zenon
  <2>9. reasons[7][1]
    BY Zenon
  <2> HIDE DEF reasons, I
  <2> QED
    BY <2>1, <2>2, <2>3, <2>4, <2>5, <2>6, <2>7, <2>8, <2>9
<1>3. /\ reasons[1][2] = "not_requested"
      /\ reasons[2][2] = "source_relay_only"
      /\ reasons[3][2] = "target_relay_only"
      /\ reasons[4][2] = "source_symmetric"
      /\ reasons[5][2] = "target_symmetric"
      /\ reasons[6][2] = "no_message_endpoint"
      /\ reasons[7][2] = "no_candidate"
  OBVIOUS
<1>4. I \in SUBSET (1..7)
  BY <1>1
<1>5. relay_decision_reason(s, t, direct) = reasons[n][2]
  <2>1. relay_decision_reason(s, t, direct) =
          reasons[IF I # {} THEN CHOOSE x \in I : \A y \in I : x <= y ELSE 0][2]
    BY DEF relay_decision_reason, SelectInSeq, Min
  <2> HIDE DEF I, reasons
  <2> QED
    BY <2>1, <1>2
<1> HIDE DEF reasons, I
<1>6. n \in I /\ \A y \in I : n <= y
  <2>1. I \in SUBSET Nat /\ I # {}
    BY <1>2, <1>4
  <2>2. \E x \in I : \A y \in I : x <= y
    BY <2>1, Smallest
  <2> QED
    BY <2>2
<1> HIDE DEF n
<1>7. n = 1 \/ n = 2 \/ n = 3 \/ n = 4 \/ n = 5 \/ n = 6 \/ n = 7
  BY <1>4, <1>6
<1>8. CASE n = 7
  <2>1. 1 \notin I /\ 2 \notin I /\ 3 \notin I /\ 4 \notin I /\ 5 \notin I /\ 6 \notin I
    BY <1>6, <1>8
  <2> QED
    BY <2>1, <1>2, <1>3, <1>5, <1>8 DEF Barred
<1> QED
  BY <1>2, <1>3, <1>5, <1>6, <1>7, <1>8

-----------------------------------------------------------------------------
(* The theorems about Decision.                                            *)

\* There is one decision for each pair, whatever is registered.
LEMMA DecisionInvariantHolds == DecisionSpec => []DecisionInvariant
<1>1. DecisionInit => DecisionInvariant
  BY DEF DecisionInit, DecisionInvariant
<1>2. DecisionInvariant /\ [Decide]_decisionVars => DecisionInvariant'
  <2> SUFFICES ASSUME DecisionInvariant, [Decide]_decisionVars
               PROVE  DecisionInvariant'
    OBVIOUS
  <2>1. CASE Decide
    BY <2>1 DEF Decide, DecisionInvariant, Online
  <2>2. CASE UNCHANGED decisionVars
    BY <2>2 DEF decisionVars, DecisionInvariant, Online
  <2> QED
    BY <2>1, <2>2
<1> QED
  BY <1>1, <1>2, PTL DEF DecisionSpec

\* What peers can be.
LEMMA PeerIs ==
    ASSUME NEW peer \in Source \cup Target
    PROVE  /\ peer.registered \in PeerReachability /\ peer.seen \in Host
           /\ peer.kind = "gateway" =>
                 \E host \in Host : \A i \in DOMAIN peer.registered.advertised_addresses :
                     LET a == peer.registered.advertised_addresses[i]
                     IN  a.base_url[2] = host /\ a.scope = reachability_scope_for_host(host)
<1>1. CASE peer \in Gateways
  <2>1. PICK host \in Host, port \in Port, m \in {"auto", "direct", "relay_only"},
             probes \in {None} \cup (Observation \X Observation), seen \in Host :
                 peer = Gateway(host, port, m, probes, seen)
    BY <1>1 DEF Gateways
  <2>2. /\ peer.registered = gateway_reachability(host, port, m, probes)
        /\ peer.seen = seen
    BY <2>1 DEF Gateway
  <2>3. probes # None => probes[1] \in Observation /\ probes[2] \in Observation
    OBVIOUS
  <2> QED
    BY <2>2, <2>3, DescriptionOf
<1>2. CASE peer \in Others
  BY <1>2 DEF Others
<1> QED
  BY <1>1, <1>2, DecisionAssumption DEF DecisionAssumption

\* What the hub has observed of a peer is added to its observed addresses.
LEMMA OnlineIs ==
    ASSUME NEW peer \in Source \cup Target
    PROVE  LET r == peer.registered
               o == Online(peer)
           IN  /\ o.mode = r.mode /\ o.nat_behavior = r.nat_behavior
               /\ o.message_endpoint = r.message_endpoint
               /\ o.advertised_addresses = r.advertised_addresses
               /\ o.advertised_addresses \in Seq(Address)
<1>1. peer.registered \in PeerReachability
  BY PeerIs
<1>2. \A r \in PeerReachability : \A x :
         LET o == [r EXCEPT !.observed_addresses = x]
         IN  /\ o.mode = r.mode /\ o.nat_behavior = r.nat_behavior
             /\ o.message_endpoint = r.message_endpoint
             /\ o.advertised_addresses = r.advertised_addresses
             /\ r.advertised_addresses \in Seq(Address)
  BY DEF PeerReachability
<1>3. \/ Online(peer) = peer.registered
      \/ \E x : Online(peer) = [peer.registered EXCEPT !.observed_addresses = x]
  BY DEF Online, apply_observed_reachability
<1>4. peer.registered.advertised_addresses \in Seq(Address)
  BY <1>1, <1>2
<1>5. CASE Online(peer) = peer.registered
  BY <1>4, <1>5
<1>6. CASE \E x : Online(peer) = [peer.registered EXCEPT !.observed_addresses = x]
  <2>1. PICK x : Online(peer) = [peer.registered EXCEPT !.observed_addresses = x]
    BY <1>6
  <2> QED
    BY <1>1, <1>2, <2>1
<1> QED
  BY <1>3, <1>5, <1>6

\* A direct decision: what was selected, from the positions of the best scope.
LEMMA DirectIs ==
    ASSUME DecisionInvariant, Direct
    PROVE  LET s == Online(source)
               t == Online(target)
               I == Offerable(s, t, BestScope(s, t))
           IN  /\ decision.candidates = select_direct_candidates(s, t)
               /\ decision.candidates = dedupe_candidates(Selection(t.advertised_addresses, I))
               /\ I # {} /\ I \in SUBSET DOMAIN t.advertised_addresses
               /\ t.advertised_addresses \in Seq(Address)
<1> DEFINE s == Online(source)
           t == Online(target)
           I == Offerable(s, t, BestScope(s, t))
<1>1. t.advertised_addresses \in Seq(Address)
  BY OnlineIs DEF DecisionInvariant
<1> HIDE DEF s, t
<1>2. decision = connect(s, t, prefer_direct) /\ decision.candidates # None
  BY DEF DecisionInvariant, Direct, s, t
<1>3. decision.candidates = select_direct_candidates(s, t)
  BY <1>2 DEF connect
<1>4. I \in SUBSET DOMAIN t.advertised_addresses
  BY DEF Offerable
<1> HIDE DEF I
<1>5. select_direct_candidates(s, t) =
        IF Barred(s, t) \/ I = {} THEN None
        ELSE dedupe_candidates(Selection(t.advertised_addresses, I))
  BY <1>1, SelectedAre DEF I
<1>6. I # {} /\ decision.candidates = dedupe_candidates(Selection(t.advertised_addresses, I))
  BY <1>2, <1>3, <1>5
<1> QED
  BY <1>1, <1>3, <1>4, <1>6 DEF I, s, t

\* The candidates are the addresses that may be offered, of the best scope, in order and
\* each base_url once, for targets that list any number of addresses.
THEOREM CandidatesAreRight == DecisionSpec => []CandidatesAreTheUsableOnes
<1>1. DecisionInvariant => CandidatesAreTheUsableOnes
  <2> SUFFICES ASSUME DecisionInvariant, Direct
               PROVE  CandidatesAreTheUsableOnes
    BY DEF CandidatesAreTheUsableOnes
  <2> DEFINE s == Online(source)
             t == Online(target)
             c == t.advertised_addresses
             I == Offerable(s, t, BestScope(s, t))
             first == First(c, I)
             d == decision.candidates
  <2>1. /\ d = dedupe_candidates(Selection(c, I))
        /\ I # {} /\ I \in SUBSET DOMAIN c /\ c \in Seq(Address)
    BY DirectIs
  <2>2. /\ Len(d) = Cardinality(first)
        /\ \A k \in DOMAIN d :
              \E i \in first : d[k] = c[i] /\ Cardinality({j \in first : j < i}) = k - 1
    <3> HIDE DEF c, I, d
    <3> QED
      BY <2>1, DedupeOfSelection
  <2>3. first # {}
    <3> HIDE DEF c, I
    <3>1. I \in SUBSET Nat
      BY <2>1
    <3>2. PICK i \in I : \A j \in I : i <= j
      BY <2>1, <3>1, Smallest
    <3> QED
      BY <3>2 DEF First
  <2>4. first = {i \in I : \A j \in I : c[j].base_url = c[i].base_url => i <= j}
    BY DEF First
  <2> DEFINE scope == IF Offerable(s, t, "public") # {} THEN "public" ELSE "lan"
             firsts == {i \in Offerable(s, t, scope) : \A j \in Offerable(s, t, scope) :
                          c[j].base_url = c[i].base_url => i <= j}
  <2>5. first = firsts
    BY <2>4 DEF BestScope
  <2>6. /\ Len(d) = Cardinality(firsts) /\ firsts # {}
        /\ \A k \in DOMAIN d :
              \E i \in firsts : d[k] = c[i] /\ Cardinality({j \in firsts : j < i}) = k - 1
    <3> HIDE DEF first, firsts, c, d
    <3> QED
      BY <2>2, <2>3, <2>5
  <2> QED
    BY <2>6, Zenon DEF CandidatesAreTheUsableOnes
<1> QED
  BY <1>1, DecisionInvariantHolds, PTL

\* A relay decision is taken only for the reason given, and "no candidate" only when
\* nothing may be offered.
THEOREM ReasonIsTrue == DecisionSpec => []ReasonExplainsRelay
<1>1. DecisionInvariant => ReasonExplainsRelay
  <2> SUFFICES ASSUME DecisionInvariant, Relayed
               PROVE  ReasonExplainsRelay
    BY DEF ReasonExplainsRelay
  <2> DEFINE s == Online(source)
             t == Online(target)
             I == Offerable(s, t, BestScope(s, t))
             reason == relay_decision_reason(s, t, prefer_direct)
  <2>1. t.advertised_addresses \in Seq(Address) /\ prefer_direct \in BOOLEAN
    BY OnlineIs DEF DecisionInvariant
  <2> HIDE DEF s, t
  <2>2. decision = connect(s, t, prefer_direct) /\ decision.candidates = None
    BY DEF DecisionInvariant, Relayed, s, t
  <2>3. /\ decision.reason = reason
        /\ prefer_direct => select_direct_candidates(s, t) = None
    BY <2>2 DEF connect
  <2>4. \/ reason = "not_requested" /\ ~prefer_direct
        \/ reason = "source_relay_only" /\ s.mode = "relay_only"
        \/ reason = "target_relay_only" /\ t.mode = "relay_only"
        \/ reason = "source_symmetric" /\ s.nat_behavior = "symmetric"
        \/ reason = "target_symmetric" /\ t.nat_behavior = "symmetric"
        \/ reason = "no_message_endpoint" /\ ~t.message_endpoint
        \/ reason = "no_candidate" /\ prefer_direct /\ ~Barred(s, t)
    BY <2>1, ReasonIs
  <2>5. ASSUME prefer_direct, ~Barred(s, t)
        PROVE  /\ Offerable(s, t, "public") \cup Offerable(s, t, "lan") = {}
               /\ t.message_endpoint
               /\ {"relay_only"} \cap {s.mode, t.mode} = {}
               /\ {"symmetric"} \cap {s.nat_behavior, t.nat_behavior} = {}
    <3>1. I \in SUBSET DOMAIN t.advertised_addresses
      BY DEF Offerable
    <3>2. dedupe_candidates(Selection(t.advertised_addresses, I)) # None
      <4> HIDE DEF I
      <4>1. dedupe_candidates(Selection(t.advertised_addresses, I)) \in Seq(Address)
        BY <2>1, <3>1, DedupeOfSelection
      <4> QED
        BY <4>1, DecisionAssumption DEF DecisionAssumption
    <3>3. I = {}
      <4>1. select_direct_candidates(s, t) =
              IF Barred(s, t) \/ I = {} THEN None
              ELSE dedupe_candidates(Selection(t.advertised_addresses, I))
        BY <2>1, SelectedAre
      <4> HIDE DEF I
      <4> QED
        BY <4>1, <2>3, <2>5, <3>2
    <3>4. Offerable(s, t, "public") = {} /\ Offerable(s, t, "lan") = {}
      BY <3>3 DEF BestScope
    <3>5. /\ t.message_endpoint /\ "relay_only" \notin {s.mode, t.mode}
          /\ "symmetric" \notin {s.nat_behavior, t.nat_behavior}
      BY <2>5 DEF Barred
    <3> QED
      BY <3>4, <3>5
  <2> HIDE DEF reason
  <2> QED
    BY <2>3, <2>4, <2>5 DEF ReasonExplainsRelay, s, t
<1> QED
  BY <1>1, DecisionInvariantHolds, PTL

\* Where the hub saw the target's registration come from opens no path to it.
THEOREM ObservedTargetIsNoPath == DecisionSpec => []ObservedTargetAddressChangesNothing
<1>1. DecisionInvariant => ObservedTargetAddressChangesNothing
  <2> SUFFICES ASSUME DecisionInvariant, Direct
               PROVE  ObservedTargetAddressChangesNothing
    BY DEF ObservedTargetAddressChangesNothing
  <2> DEFINE s == Online(source)
             t == Online(target)
             r == target.registered
  <2>1. /\ t.mode = r.mode /\ t.nat_behavior = r.nat_behavior
        /\ t.message_endpoint = r.message_endpoint
        /\ t.advertised_addresses = r.advertised_addresses
        /\ t.advertised_addresses \in Seq(Address)
    BY OnlineIs DEF DecisionInvariant
  <2>2. decision.candidates = select_direct_candidates(s, t)
    BY DirectIs
  <2> HIDE DEF s, t, r
  <2>3. \A scope : Offerable(s, t, scope) = Offerable(s, r, scope)
    BY <2>1 DEF Offerable
  <2>4. Barred(s, t) <=> Barred(s, r)
    BY <2>1 DEF Barred
  <2>5. BestScope(s, t) = BestScope(s, r)
    BY <2>3 DEF BestScope
  <2>6. select_direct_candidates(s, t) = select_direct_candidates(s, r)
    <3>1. /\ select_direct_candidates(s, t) =
                IF Barred(s, t) \/ Offerable(s, t, BestScope(s, t)) = {} THEN None
                ELSE dedupe_candidates(Selection(t.advertised_addresses,
                                                 Offerable(s, t, BestScope(s, t))))
          /\ select_direct_candidates(s, r) =
                IF Barred(s, r) \/ Offerable(s, r, BestScope(s, r)) = {} THEN None
                ELSE dedupe_candidates(Selection(r.advertised_addresses,
                                                 Offerable(s, r, BestScope(s, r))))
      BY <2>1, SelectedAre
    <3> QED
      BY <3>1, <2>1, <2>3, <2>4, <2>5
  <2> QED
    BY <2>2, <2>6 DEF ObservedTargetAddressChangesNothing, s, r
<1> QED
  BY <1>1, DecisionInvariantHolds, PTL

\* A gateway's loopback address is offered to nobody, in whatever mode it was started.
THEOREM LoopbackStaysHome == DecisionSpec => []LoopbackIsNeverOffered
<1>1. DecisionInvariant => LoopbackIsNeverOffered
  <2> SUFFICES ASSUME DecisionInvariant, Direct, target.kind = "gateway",
                      NEW k \in DOMAIN decision.candidates
               PROVE  HostClass[decision.candidates[k].base_url[2]]
                        \notin {"loopback_name", "loopback_ip"}
    BY DEF LoopbackIsNeverOffered
  <2> DEFINE s == Online(source)
             t == Online(target)
             c == t.advertised_addresses
             I == Offerable(s, t, BestScope(s, t))
             d == decision.candidates
  <2>1. /\ d = dedupe_candidates(Selection(c, I))
        /\ I \in SUBSET DOMAIN c /\ c \in Seq(Address)
    BY DirectIs
  <2>2. PICK i \in I : d[k] = c[i]
    <3> HIDE DEF c, I, d
    <3>1. \A m \in DOMAIN d : \E i \in First(c, I) : d[m] = c[i]
      BY <2>1, DedupeOfSelection
    <3> QED
      BY <3>1 DEF First, d
  <2>3. c[i].scope = "public" \/ c[i].scope = "lan"
    BY DEF Offerable, BestScope
  <2>4. PICK host \in Host : c[i].base_url[2] = host
                               /\ c[i].scope = reachability_scope_for_host(host)
    <3>1. target \in Target
      BY DEF DecisionInvariant
    <3>2. c = target.registered.advertised_addresses
      BY <3>1, OnlineIs
    <3>3. i \in DOMAIN target.registered.advertised_addresses
      BY <2>1, <3>2
    <3> HIDE DEF c
    <3> QED
      BY <3>1, <3>2, <3>3, PeerIs
  <2>5. HostClass[host] \notin {"loopback_name", "loopback_ip"}
    BY <2>3, <2>4 DEF reachability_scope_for_host
  <2> HIDE DEF c, d
  <2> QED
    BY <2>2, <2>4, <2>5 DEF d
<1> QED
  BY <1>1, DecisionInvariantHolds, PTL

-----------------------------------------------------------------------------
(* Discovery: each step keeps the invariant.                               *)

\* The gateway's own host and port.
LEMMA BindAddress ==
    /\ bindHost \in Host /\ HostClass[bindHost] = "private" /\ bindPort \in Port
    /\ Seen \subseteq Observation
BY DiscoveryAssumption DEF DiscoveryAssumption, bindHost, bindPort, Observation

LEMMA PairOf ==
    ASSUME NEW a \in Seen, NEW b \in Seen
    PROVE  /\ <<a, b>> \in Seq(Seen) /\ Len(<<a, b>>) = 2
           /\ <<a, b>>[1] = a /\ <<a, b>>[2] = b
OBVIOUS

\* The two ways to describe itself: by two observed addresses, or without any.
LEMMA DescribeIsTrue ==
    ASSUME TypeOK, NEW probes,
           \/ probes = None
           \/ probes = <<nat[1], nat[2]>>
    PROVE  LET r == gateway_reachability(bindHost, bindPort, mode, probes)
           IN  /\ r \in PeerReachability
               /\ \/ r.nat_behavior = "unknown" /\ r.observed_addresses = <<>>
                  \/ /\ {r.observed_addresses[i].base_url : i \in DOMAIN r.observed_addresses}
                           = {<<"udp", nat[p][1], nat[p][2]>> : p \in Probe}
                     /\ r.nat_behavior = "predictable" <=> nat[1][2] = nat[2][2]
                     /\ r.nat_behavior \in {"predictable", "symmetric"}
<1> DEFINE r == gateway_reachability(bindHost, bindPort, mode, probes)
<1>1. nat[1] \in Seen /\ nat[2] \in Seen /\ nat[1] \in Observation /\ nat[2] \in Observation
  BY BindAddress DEF TypeOK, Probe
<1>2. probes # None => /\ probes \in Seq(Seen) /\ Len(probes) = 2
                       /\ probes[1] = nat[1] /\ probes[2] = nat[2]
  <2>1. PICK a \in Seen : a = nat[1]
    BY <1>1
  <2>2. PICK b \in Seen : b = nat[2]
    BY <1>1
  <2>3. /\ <<a, b>> \in Seq(Seen) /\ Len(<<a, b>>) = 2
        /\ <<a, b>>[1] = a /\ <<a, b>>[2] = b
    BY PairOf
  <2>4. probes # None => probes = <<a, b>>
    BY <2>1, <2>2
  <2> QED
    BY <2>1, <2>2, <2>3, <2>4, Zenon
<1>3. /\ r \in PeerReachability
      /\ \/ r.nat_behavior = "unknown" /\ r.observed_addresses = <<>>
         \/ /\ probes # None
            /\ r.nat_behavior = nat_behavior_from_probes(probes[1], probes[2])
            /\ r.observed_addresses = discovered_addresses(probes[1], probes[2])
  <2>1. probes # None => probes[1] \in Observation /\ probes[2] \in Observation
    BY <1>1, <1>2
  <2> QED
    BY <2>1, BindAddress, DescriptionOf
<1> HIDE DEF r
<1>4. CASE r.nat_behavior = "unknown" /\ r.observed_addresses = <<>>
  BY <1>3, <1>4 DEF r
<1>5. CASE /\ r.nat_behavior = nat_behavior_from_probes(nat[1], nat[2])
           /\ r.observed_addresses = discovered_addresses(nat[1], nat[2])
  <2>1. {r.observed_addresses[i].base_url : i \in DOMAIN r.observed_addresses}
           = {<<"udp", nat[1][1], nat[1][2]>>, <<"udp", nat[2][1], nat[2][2]>>}
    <3> DEFINE d == discovered_addresses(nat[1], nat[2])
    <3>1. {d[i].base_url : i \in DOMAIN d}
             = {<<"udp", nat[1][1], nat[1][2]>>, <<"udp", nat[2][1], nat[2][2]>>}
      BY <1>1, DiscoveredAre
    <3> HIDE DEF d
    <3>2. r.observed_addresses = d
      BY <1>5 DEF d
    <3> QED
      BY <3>1, <3>2
  <2>2. @ = {<<"udp", nat[p][1], nat[p][2]>> : p \in Probe}
    BY DEF Probe
  <2>3. /\ r.nat_behavior = "predictable" <=> nat[1][2] = nat[2][2]
        /\ r.nat_behavior \in {"predictable", "symmetric"}
    BY <1>5 DEF nat_behavior_from_probes
  <2> QED
    BY <1>3, <2>1, <2>2, <2>3 DEF r
<1> QED
  BY <1>2, <1>3, <1>4, <1>5

LEMMA DescribeKeeps ==
    ASSUME TypeOK, NEW probes, Describe(probes), nat' = nat,
           \/ probes = None
           \/ probes = <<nat[1], nat[2]>>
    PROVE  /\ at' = "described" /\ described' \in PeerReachability
           /\ described' # None /\ DescriptionIsTrue'
<1>1. at' = "described" /\ described' = gateway_reachability(bindHost, bindPort, mode, probes)
  BY DEF Describe
<1>2. described' \in PeerReachability /\ described' # None
  BY <1>1, DescribeIsTrue, DiscoveryAssumption DEF DiscoveryAssumption
<1>3. DescriptionIsTrue'
  BY <1>1, DescribeIsTrue DEF DescriptionIsTrue
<1> QED
  BY <1>1, <1>2, <1>3

LEMMA InitiallyTrue == Init => DiscoveryInvariant
BY DiscoveryAssumption
   DEF Init, DiscoveryInvariant, TypeOK, ProbesTellTheNetwork, ObservedInOrder,
       DescriptionIsTrue, DiscoveryAssumption

LEMMA StartKeeps ==
    ASSUME DiscoveryInvariant, Start
    PROVE  DiscoveryInvariant'
<1>1. /\ TypeOK /\ starts < MaxStarts /\ starts' = starts + 1
      /\ mode' \in {"auto", "relay_only"} /\ nat' \in [Probe -> Seen] /\ socket' \in Socket
      /\ observed' = <<>> /\ sent' = sent /\ answered' = answered
  BY DEF Start, DiscoveryInvariant
<1>2. \/ at' = "probing" /\ described' = None
      \/ /\ at' = "described"
         /\ described' = gateway_reachability(bindHost, bindPort, mode', None)
  BY DEF Start
<1>3. CASE at' = "probing" /\ described' = None
  <2>1. DescriptionIsTrue'
    BY <1>3 DEF DescriptionIsTrue
  <2>2. TypeOK'
    BY <1>1, <1>3, DiscoveryAssumption DEF TypeOK, DiscoveryAssumption
  <2> QED
    BY <1>1, <2>1, <2>2 DEF DiscoveryInvariant, TypeOK, ProbesTellTheNetwork,
       ObservedInOrder, Requests, Responses, Transaction
<1>4. CASE /\ at' = "described"
           /\ described' = gateway_reachability(bindHost, bindPort, mode', None)
  <2>1. PICK m : m = mode'
    OBVIOUS
  <2>2. LET r == gateway_reachability(bindHost, bindPort, m, None)
        IN  r \in PeerReachability /\ r.nat_behavior = "unknown" /\ r.observed_addresses = <<>>
    BY BindAddress, DescriptionOf
  <2>3. /\ described' \in PeerReachability /\ described'.nat_behavior = "unknown"
        /\ described'.observed_addresses = <<>>
    BY <1>4, <2>1, <2>2
  <2>4. DescriptionIsTrue'
    BY <2>3 DEF DescriptionIsTrue
  <2>5. TypeOK'
    BY <1>1, <1>4, <2>3, DiscoveryAssumption DEF TypeOK, DiscoveryAssumption
  <2> QED
    BY <1>1, <2>4, <2>5 DEF DiscoveryInvariant, TypeOK, ProbesTellTheNetwork,
       ObservedInOrder, Requests, Responses, Transaction
<1> QED
  BY <1>2, <1>3, <1>4

LEMMA SendProbeKeeps ==
    ASSUME DiscoveryInvariant, SendProbe
    PROVE  DiscoveryInvariant'
<1> DEFINE n == Len(observed) + 1
           request == [transaction_id |-> Current, to |-> Current[2],
                       from |-> nat[Current[2]], socket |-> socket]
<1>1. /\ TypeOK /\ at = "probing" /\ at' = "waiting" /\ sent' = sent \cup {request}
      /\ UNCHANGED <<starts, mode, nat, socket, observed, described, answered>>
  BY DEF SendProbe, DiscoveryInvariant
<1>2. n \in Probe /\ Current = <<starts, n>> /\ Current[1] = starts /\ Current[2] = n
  BY <1>1 DEF TypeOK, Probe, Current
<1>3. starts \in 1..MaxStarts
  BY <1>1, DiscoveryAssumption DEF TypeOK, DiscoveryInvariant, DiscoveryAssumption
<1>4. request \in Requests
  <2>1. nat[n] \in Seen /\ socket \in Socket
    BY <1>1, <1>2 DEF TypeOK
  <2>2. Current \in Transaction
    BY <1>2, <1>3 DEF Transaction
  <2> QED
    BY <1>2, <2>1, <2>2 DEF Requests
<1>5. request.transaction_id[1] = starts /\ request.from = nat[request.transaction_id[2]]
  BY <1>2
<1> HIDE DEF request
<1>6. TypeOK'
  BY <1>1, <1>4 DEF TypeOK
<1>7. ProbesTellTheNetwork'
  BY <1>1, <1>3, <1>5 DEF DiscoveryInvariant, ProbesTellTheNetwork
<1>8. ObservedInOrder' /\ DescriptionIsTrue'
  BY <1>1 DEF DiscoveryInvariant, ObservedInOrder, DescriptionIsTrue
<1> QED
  BY <1>1, <1>3, <1>6, <1>7, <1>8 DEF DiscoveryInvariant

LEMMA EchoKeeps ==
    ASSUME DiscoveryInvariant, Echo
    PROVE  DiscoveryInvariant'
<1>1. PICK request \in sent :
          answered' = answered \cup {[transaction_id |-> request.transaction_id,
                                     observed_addr |-> request.from,
                                     socket |-> request.socket]}
  BY DEF Echo
<1> DEFINE answer == [transaction_id |-> request.transaction_id,
                      observed_addr |-> request.from, socket |-> request.socket]
<1>2. UNCHANGED <<starts, mode, nat, socket, at, observed, described, sent>>
  BY DEF Echo
<1>3. request \in Requests
  BY DEF DiscoveryInvariant, TypeOK
<1>4. /\ answer \in Responses
      /\ answer.transaction_id = request.transaction_id
      /\ answer.observed_addr = request.from
  BY <1>3 DEF Requests, Responses
<1>5. answered' = answered \cup {answer}
  BY <1>1
<1> HIDE DEF answer
<1>6. TypeOK'
  BY <1>2, <1>4, <1>5 DEF DiscoveryInvariant, TypeOK
<1>7. ProbesTellTheNetwork'
  BY <1>2, <1>4, <1>5 DEF DiscoveryInvariant, ProbesTellTheNetwork
<1>8. ObservedInOrder' /\ DescriptionIsTrue'
  BY <1>2 DEF DiscoveryInvariant, ObservedInOrder, DescriptionIsTrue
<1> QED
  BY <1>2, <1>6, <1>7, <1>8 DEF DiscoveryInvariant

\* The discovery fails, and the start goes on without it.
LEMMA FailKeeps ==
    ASSUME DiscoveryInvariant, at # "down", Fail
    PROVE  DiscoveryInvariant'
<1>1. /\ TypeOK /\ Describe(None)
      /\ UNCHANGED <<starts, mode, nat, socket, observed, sent, answered>>
  BY DEF Fail, DiscoveryInvariant
<1>2. /\ at' = "described" /\ described' \in PeerReachability
      /\ described' # None /\ DescriptionIsTrue'
  BY <1>1, DescribeKeeps
<1>3. TypeOK'
  BY <1>1, <1>2 DEF TypeOK
<1> QED
  BY <1>1, <1>2, <1>3 DEF DiscoveryInvariant, ProbesTellTheNetwork, ObservedInOrder

LEMMA AcceptKeeps ==
    ASSUME DiscoveryInvariant, at = "waiting", NEW answer \in answered,
           answer.transaction_id = Current, Accept(answer)
    PROVE  DiscoveryInvariant'
<1> DEFINE n == Len(observed) + 1
<1>1. /\ TypeOK /\ starts > 0
      /\ observed' = Append(observed, answer.observed_addr)
      /\ UNCHANGED <<starts, mode, nat, socket, sent, answered>>
  BY DEF Accept, DiscoveryInvariant
<1>2. observed \in Seq(Seen) /\ Len(observed) \in {0, 1} /\ n \in Probe
  <2>1. observed \in Seq(Seen) /\ Len(observed) < 2 /\ Len(observed) \in Nat
    BY <1>1 DEF TypeOK
  <2>2. \A k \in Nat : k < 2 => k \in {0, 1} /\ k + 1 \in {1, 2}
    OBVIOUS
  <2>3. Len(observed) \in {0, 1} /\ n \in {1, 2}
    BY <2>1, <2>2, Zenon
  <2> QED
    BY <2>1, <2>3 DEF Probe
<1>3. answer.observed_addr = nat[n] /\ nat[n] \in Seen
  <2>1. answer.transaction_id[1] = starts /\ answer.transaction_id[2] = n
    BY DEF Current
  <2> QED
    BY <2>1, <1>1, <1>2 DEF DiscoveryInvariant, ProbesTellTheNetwork, TypeOK
<1>4. /\ observed' \in Seq(Seen) /\ Len(observed') = n
      /\ \A i \in 1..Len(observed) : observed'[i] = observed[i]
      /\ observed'[n] = nat[n]
  BY <1>1, <1>2, <1>3, AppendFacts
<1>5. \A i \in 1..n : observed'[i] = nat[i]
  <2>1. \A i \in 1..Len(observed) : observed[i] = nat[i]
    BY <1>2 DEF DiscoveryInvariant, ObservedInOrder
  <2>2. \A i \in 1..n : i \in 1..Len(observed) \/ i = n
    BY <1>2
  <2> QED
    BY <2>1, <2>2, <1>4
<1>6. ObservedInOrder'
  BY <1>1, <1>4, <1>5 DEF ObservedInOrder
<1>7. ProbesTellTheNetwork'
  BY <1>1 DEF DiscoveryInvariant, ProbesTellTheNetwork
<1>8. CASE n = 2
  <2>1. PICK o : o = observed'
    OBVIOUS
  <2>2. o = <<nat[1], nat[2]>>
    <3>1. o \in Seq(Seen) /\ Len(o) = 2 /\ o[1] = nat[1] /\ o[2] = nat[2]
      BY <1>4, <1>5, <1>8, <2>1
    <3> QED
      BY <3>1
  <2>3. Describe(o)
    BY <1>4, <1>8, <2>1 DEF Accept
  <2>4. /\ at' = "described" /\ described' \in PeerReachability
        /\ described' # None /\ DescriptionIsTrue'
    BY <1>1, <2>2, <2>3, DescribeKeeps
  <2>5. TypeOK'
    BY <1>1, <1>4, <1>8, <2>4 DEF TypeOK
  <2> QED
    BY <1>1, <1>6, <1>7, <2>4, <2>5 DEF DiscoveryInvariant
<1>9. CASE n = 1
  <2>1. at' = "probing" /\ described' = described
    BY <1>4, <1>9 DEF Accept
  <2>2. TypeOK'
    BY <1>1, <1>4, <1>9, <2>1 DEF TypeOK
  <2>3. DescriptionIsTrue'
    BY <2>1 DEF DescriptionIsTrue
  <2> QED
    BY <1>1, <1>6, <1>7, <2>2, <2>3 DEF DiscoveryInvariant
<1> QED
  BY <1>2, <1>8, <1>9 DEF Probe

LEMMA DownKeeps ==
    ASSUME DiscoveryInvariant, Down
    PROVE  DiscoveryInvariant'
<1>1. /\ TypeOK /\ at' = "down" /\ described' = None
      /\ UNCHANGED <<starts, mode, nat, socket, observed, sent, answered>>
  BY DEF Down, DiscoveryInvariant
<1>2. TypeOK'
  BY <1>1 DEF TypeOK
<1> QED
  BY <1>1, <1>2 DEF DiscoveryInvariant, ProbesTellTheNetwork, ObservedInOrder, DescriptionIsTrue

\* The inductive invariant: what the probes of this start bring is true of its network,
\* because ids are never used twice and the hub only echoes.
THEOREM DiscoveryInvariantHolds == Spec => []DiscoveryInvariant
<1>1. Init => DiscoveryInvariant
  BY InitiallyTrue
<1>2. DiscoveryInvariant /\ [Next]_vars => DiscoveryInvariant'
  <2> SUFFICES ASSUME DiscoveryInvariant, [Next]_vars
               PROVE  DiscoveryInvariant'
    OBVIOUS
  <2>1. CASE Start
    BY <2>1, StartKeeps
  <2>2. CASE SendProbe
    BY <2>2, SendProbeKeeps
  <2>3. CASE Echo
    BY <2>3, EchoKeeps
  <2>4. CASE Receive
    <3>1. PICK answer \in answered :
              IF answer.transaction_id = Current THEN Accept(answer) ELSE Fail
      BY <2>4 DEF Receive
    <3>2. at = "waiting"
      BY <2>4 DEF Receive
    <3>3. CASE answer.transaction_id = Current
      BY <3>1, <3>2, <3>3, AcceptKeeps
    <3>4. CASE answer.transaction_id # Current
      BY <3>1, <3>2, <3>4, FailKeeps
    <3> QED
      BY <3>3, <3>4
  <2>5. CASE GiveUpUnsent
    BY <2>5, FailKeeps DEF GiveUpUnsent
  <2>6. CASE GiveUp
    BY <2>6, FailKeeps DEF GiveUp
  <2>7. CASE Down
    BY <2>7, DownKeeps
  <2>8. CASE UNCHANGED vars
    BY <2>8 DEF vars, DiscoveryInvariant, TypeOK, ProbesTellTheNetwork, ObservedInOrder,
                DescriptionIsTrue
  <2> QED
    BY <2>1, <2>2, <2>3, <2>4, <2>5, <2>6, <2>7, <2>8 DEF Next
<1> QED
  BY <1>1, <1>2, PTL DEF Spec

\* The types; no start uses more than one answer for each of its two probes, however many
\* come.
THEOREM DiscoveryTypeCorrect == Spec => []TypeOK
<1>1. DiscoveryInvariant => TypeOK
  BY DEF DiscoveryInvariant
<1> QED
  BY <1>1, DiscoveryInvariantHolds, PTL

\* Whatever the network does to the datagrams, and however often the gateway has started
\* before, in other networks and on the same socket: what it registers of its NAT is true
\* of the network it is in, or claims nothing.
THEOREM RegistersTheTruth == Spec => []DescriptionIsTrue
<1>1. DiscoveryInvariant => DescriptionIsTrue
  BY DEF DiscoveryInvariant
<1> QED
  BY <1>1, DiscoveryInvariantHolds, PTL
=============================================================================
