----------------------------- MODULE SignalsProofs -----------------------------
(***************************************************************************)
(* Proofs about the multi-signal part of Signals for every table of rules, *)
(* every set of nodes and events and every bound.                          *)
(***************************************************************************)
EXTENDS Signals, TLAPS, SequenceTheorems, FiniteSetTheorems, WellFoundedInduction

Entries == [at : Nat, type : Types]
Hits == [at : Nat, node : Nodes]

\* The types: what the event loop reads, the deques of both kinds, the table, the history.
Typed ==
    /\ now \in Nat
    /\ inbox \in Seq([e : Events, rx : Nat])
    /\ signals \in [Nodes -> Seq(Entries)]
    /\ \A s \in seen : s.at \in Nat
    /\ file \in Files /\ rules \in (SUBSET RuleIds) \cup {Halved} /\ notices \in Nat
    /\ windows \in [RuleIds -> Seq(Hits)]
    /\ rows \in Seq([node : Nodes, matched : SUBSET RuleIds, rx : Nat])
    /\ heard \subseteq [rule : RuleIds, node : Nodes, at : Nat, rx : Nat, kept : BOOLEAN]
    /\ pc \in {"boot", "recv", "write"}
    /\ hand.node \in Nodes /\ hand.matched \in SUBSET RuleIds
    /\ hand.rx \in Nat /\ hand.at \in Nat
    /\ hand.cross \subseteq hand.matched /\ hand.multi \subseteq SignalRules

\* A deque of moments that have passed, oldest first.
Sorted(q) == \A i, j \in DOMAIN q : q[i].at <= now /\ (i < j => q[i].at <= q[j].at)

\* Messages keep the order in which they were received, from the inbox to the table.
Received ==
    /\ Start <= now /\ now <= MaxTime
    /\ \A i \in DOMAIN inbox : Start <= inbox[i].rx /\ inbox[i].rx <= now
    /\ \A i, j \in DOMAIN inbox : i < j => inbox[i].rx <= inbox[j].rx
    /\ \A i \in DOMAIN rows : Start <= rows[i].rx /\ rows[i].rx <= now
    /\ \A i, j \in DOMAIN rows : i < j => rows[i].rx <= rows[j].rx
    /\ \A i \in DOMAIN rows, j \in DOMAIN inbox : rows[i].rx <= inbox[j].rx
    /\ pc = "write" =>
          /\ Start <= hand.rx /\ hand.rx <= now
          /\ \A i \in DOMAIN rows : rows[i].rx <= hand.rx
          /\ \A j \in DOMAIN inbox : hand.rx <= inbox[j].rx

\* So do the windows; the deques of threats hold no NORMAL.
InTime ==
    /\ \A r \in RuleIds : /\ Sorted(windows[r])
                         /\ \A i \in DOMAIN windows[r] : Start <= windows[r][i].at
    /\ \A n \in Nodes : \A i \in DOMAIN signals[n] :
          /\ signals[n][i].type # "NORMAL"
          /\ Start <= signals[n][i].at /\ signals[n][i].at <= now

\* Every entry of a window stands for a message counted no earlier...
Founded ==
    \A r \in RuleIds : \A i \in DOMAIN windows[r] : \E h \in heard :
        h.rule = r /\ h.node = windows[r][i].node /\ h.at >= windows[r][i].at

\* ... and every message received within the window has an entry.
Remembered ==
    \A h \in heard : h.rx >= now - Window =>
        \E i \in DOMAIN windows[h.rule] :
            windows[h.rule][i].node = h.node /\ windows[h.rule][i].at >= h.rx

\* The table has a row for each message kept, and no other rows; the message of the decision
\* at hand is counted.
Stored ==
    /\ \A h \in heard : h.rx <= h.at
    /\ \A i \in DOMAIN rows : \A r \in rows[i].matched : \E h \in heard :
          h.kept /\ h.rule = r /\ h.node = rows[i].node /\ h.rx = rows[i].rx
    /\ \A h \in heard : h.kept => \E i \in DOMAIN rows :
          h.rule \in rows[i].matched /\ rows[i].node = h.node /\ rows[i].rx = h.rx
    /\ pc = "write" => \A r \in hand.matched : \E h \in heard : h.rule = r /\ Counted(h)

\* A deque holds only threats of its node, and all of those any rule can still count.
Mirrored ==
    \A n \in Nodes :
        /\ \A i \in DOMAIN signals[n] :
               [node |-> n, type |-> signals[n][i].type, at |-> signals[n][i].at] \in seen
        /\ \A s \in seen : s.node = n /\ s.at >= now - KeptFor =>
               \E i \in DOMAIN signals[n] :
                   signals[n][i].type = s.type /\ signals[n][i].at = s.at

------------------------------------------------------------------------------
(* The operators.                                                            *)

\* An interval from 1 has as many elements as its end says.
LEMMA UpTo ==
    ASSUME NEW n \in Nat
    PROVE  IsFiniteSet(1 .. n) /\ Cardinality(1 .. n) = n
<1>1. /\ IsFiniteSet(1 .. n)
      /\ Cardinality(1 .. n) = IF 1 > n THEN 0 ELSE n - 1 + 1
  BY FS_Interval
<1> QED
  BY <1>1

\* The longest window of the table is one of its windows (correlation.py, max(...)).
LEMMA KeptForIsLongest ==
    KeptFor \in Nat /\ \A r \in SignalRules : KeptFor >= r.window
<1> DEFINE W == {r.window : r \in SignalRules}
           longest(w) == \A r \in SignalRules : w >= r.window
<1>1. \E w \in W : longest(w)
  BY SignalsAssumption
<1>2. KeptFor \in W /\ longest(KeptFor)
  BY <1>1 DEF KeptFor
<1>3. W \subseteq Nat
  BY SignalsAssumption
<1> QED
  BY <1>2, <1>3

\* A bounded set of numbers has a largest one, and Best is it.
LEMMA BestIsLargest ==
    ASSUME NEW S \in SUBSET Nat, S # {}, NEW b \in Nat, \A x \in S : x <= b
    PROVE  Best(S) \in S /\ \A x \in S : Best(S) >= x
<1> DEFINE D == {b - x : x \in S}
<1>1. D \in SUBSET Nat /\ D # {}
  <2>1. ASSUME NEW x \in S PROVE b - x \in Nat
    <3>1. x \in Nat /\ x <= b
      OBVIOUS
    <3> QED
      BY <3>1
  <2> QED
    BY <2>1
<1>2. PICK d \in D : \A e \in D : ~(<<e, d>> \in OpToRel(<, Nat))
  BY <1>1, NatLessThanWellFounded, WFMin
<1>3. \A e \in D : ~(e < d)
  BY <1>1, <1>2 DEF OpToRel
<1>4. PICK m \in S : d = b - m
  OBVIOUS
<1>5. \A x \in S : m >= x
  <2> SUFFICES ASSUME NEW x \in S PROVE m >= x
    OBVIOUS
  <2>1. ~(b - x < b - m)
    BY <1>3, <1>4
  <2>2. x \in Nat /\ m \in Nat
    BY <1>4
  <2> QED
    BY <2>1, <2>2
<1> QED
  BY <1>4, <1>5 DEF Best

\* Evict takes a prefix of a deque away, all of it too old, and what is then first is not.
LEMMA EvictTakesPrefix ==
    ASSUME NEW S, NEW q \in Seq(S), NEW limit \in Int
    PROVE  \E c \in 0 .. Len(q) :
               /\ Evict(q, limit) \in Seq(S) /\ Len(Evict(q, limit)) = Len(q) - c
               /\ \A i \in 1 .. Len(q) - c : Evict(q, limit)[i] = q[c + i]
               /\ \A j \in 1 .. c : q[j].at < limit
               /\ c < Len(q) => ~(q[c + 1].at < limit)
<1> DEFINE L == Len(q)
           old == {i \in DOMAIN q : \A j \in 1 .. i : q[j].at < limit}
           c == Cardinality(old)
<1>1. L \in Nat /\ DOMAIN q = 1 .. L /\ \A i \in 1 .. L : q[i] \in S
  BY LenProperties, ElementOfSeq
<1>2. IsFiniteSet(1 .. L) /\ Cardinality(1 .. L) = L
  BY <1>1, UpTo
<1>3. old \subseteq 1 .. L
  BY <1>1
<1>4. IsFiniteSet(old) /\ c <= L /\ c \in Nat
  BY <1>2, <1>3, FS_Subset, FS_CardinalityType
<1>5. Evict(q, limit) = SubSeq(q, c + 1, L)
  BY DEF Evict
<1>6. \A i \in old : \A j \in 1 .. i : j \in old
  BY <1>1
<1>7. \A j \in old : q[j].at < limit
  BY <1>1
<1>8. c = Cardinality(old)
  OBVIOUS
<1> HIDE DEF c, L, old
<1>9. 1 .. c \subseteq old
  <2> SUFFICES ASSUME NEW x \in 1 .. c, x \notin old PROVE FALSE
    OBVIOUS
  <2>1. x \in Nat /\ x >= 1 /\ x <= c
    BY <1>4
  <2>2. old \subseteq 1 .. x - 1
    BY <1>1, <1>3, <1>6, <2>1
  <2>3. IsFiniteSet(1 .. x - 1) /\ Cardinality(1 .. x - 1) = x - 1
    <3>1. x - 1 \in Nat
      BY <2>1
    <3> QED
      BY <3>1, UpTo
  <2>4. Cardinality(old) <= Cardinality(1 .. x - 1)
    BY <2>2, <2>3, FS_Subset
  <2> QED
    BY <1>4, <1>8, <2>1, <2>3, <2>4
<1>10. SubSeq(q, c + 1, L) \in Seq(S)
  <2>1. \A i \in c + 1 .. L : q[i] \in S
    BY <1>1, <1>4
  <2> QED
    BY <1>1, <1>4, <2>1, SubSeqProperties
<1>11. /\ Len(SubSeq(q, c + 1, L)) = L - c
       /\ \A i \in 1 .. L - c : SubSeq(q, c + 1, L)[i] = q[c + i]
  BY <1>1, <1>4, SubSeqProperties
<1>12. c \in 0 .. L
  BY <1>1, <1>4
<1>13. ASSUME c < L PROVE ~(q[c + 1].at < limit)
  <2>1. IsFiniteSet(1 .. c) /\ Cardinality(1 .. c) = c
    BY <1>4, UpTo
  <2>2. 1 .. c = old
    BY <1>4, <1>8, <1>9, <2>1, FS_Subset
  <2>3. c + 1 \in DOMAIN q /\ c + 1 \notin 1 .. c
    BY <1>1, <1>4, <1>13
  <2>4. PICK j \in 1 .. c + 1 : ~(q[j].at < limit)
    BY <2>2, <2>3 DEF old
  <2>5. j \notin 1 .. c
    BY <1>7, <2>2, <2>4
  <2>6. j = c + 1
    BY <1>4, <2>4, <2>5
  <2> QED
    BY <2>4, <2>6
<1> QED
  BY <1>5, <1>7, <1>9, <1>10, <1>11, <1>12, <1>13 DEF L

------------------------------------------------------------------------------
(* The windows of the rules.                                                 *)

\* The k-th of a finite set of ids: the enumeration is in order and complete.
LEMMA NthFacts ==
    ASSUME NEW n \in Nat, NEW ids \in SUBSET (1 .. n)
    PROVE  /\ Cardinality(ids) \in Nat
           /\ \A k \in 1 .. Cardinality(ids) : Nth(ids, k) \in ids
           /\ \A k, l \in 1 .. Cardinality(ids) : k < l => Nth(ids, k) < Nth(ids, l)
           /\ \A i \in ids : \E k \in 1 .. Cardinality(ids) : Nth(ids, k) = i
<1> DEFINE c == Cardinality(ids)
           upTo(i) == {j \in ids : j <= i}
           rank == [i \in ids |-> Cardinality(upTo(i))]
<1>1. IsFiniteSet(ids) /\ c \in Nat /\ \A i \in ids : i \in Nat
  <2>1. IsFiniteSet(ids) /\ c \in Nat
    BY UpTo, FS_Subset, FS_CardinalityType
  <2>2. 1 .. n \subseteq Nat
    OBVIOUS
  <2> QED
    BY <2>1, <2>2
<1>2. ASSUME NEW i \in ids PROVE IsFiniteSet(upTo(i)) /\ Cardinality(upTo(i)) \in 1 .. c
  <2>1. IsFiniteSet(upTo(i)) /\ Cardinality(upTo(i)) <= c /\ Cardinality(upTo(i)) \in Nat
    BY <1>1, FS_Subset, FS_CardinalityType
  <2>2. i \in upTo(i)
    OBVIOUS
  <2>3. Cardinality(upTo(i)) # 0
    BY <2>1, <2>2, FS_EmptySet
  <2> QED
    BY <1>1, <2>1, <2>3
<1>3. ASSUME NEW i \in ids, NEW j \in ids, i < j PROVE rank[i] < rank[j]
  <2>1. upTo(i) \subseteq upTo(j) /\ j \in upTo(j) /\ j \notin upTo(i)
    <3>1. i \in Nat /\ j \in Nat /\ \A k \in ids : k \in Nat
      BY <1>1
    <3>2. j <= j /\ ~(j <= i) /\ \A k \in ids : k <= i => k <= j
      BY <1>3, <3>1
    <3> QED
      BY <3>2
  <2>2. upTo(i) # upTo(j)
    BY <2>1
  <2>3. /\ Cardinality(upTo(i)) <= Cardinality(upTo(j))
        /\ Cardinality(upTo(i)) # Cardinality(upTo(j))
    BY <1>2, <2>1, <2>2, FS_Subset
  <2>4. Cardinality(upTo(i)) \in Nat /\ Cardinality(upTo(j)) \in Nat
    BY <1>1, <1>2
  <2> QED
    BY <2>3, <2>4
<1>4. rank \in [ids -> 1 .. c]
  BY <1>2
<1>5. \A i, j \in ids : i # j => rank[i] # rank[j]
  <2> SUFFICES ASSUME NEW i \in ids, NEW j \in ids, i # j PROVE rank[i] # rank[j]
    OBVIOUS
  <2>1. i \in Nat /\ j \in Nat /\ rank[i] \in Nat /\ rank[j] \in Nat
    BY <1>1, <1>4
  <2>2. CASE i < j
    BY <1>3, <2>1, <2>2
  <2>3. CASE j < i
    BY <1>3, <2>1, <2>3
  <2> QED
    BY <2>1, <2>2, <2>3
<1>6. \A k \in 1 .. c : Nth(ids, k) = CHOOSE i \in ids : rank[i] = k
  BY DEF Nth
<1> HIDE DEF c, rank
<1>7. rank \in Injection(ids, 1 .. c)
  BY <1>4, <1>5 DEF Injection, IsInjective
<1>8. rank \in Surjection(ids, 1 .. c)
  <2>1. IsFiniteSet(1 .. c) /\ Cardinality(1 .. c) = c
    BY <1>1, UpTo
  <2> QED
    BY <1>7, <2>1, FS_Injection DEF c
<1>9. \A k \in 1 .. c : Nth(ids, k) \in ids /\ rank[Nth(ids, k)] = k
  BY <1>6, <1>8 DEF Surjection
<1>10. ASSUME NEW k \in 1 .. c, NEW l \in 1 .. c, k < l PROVE Nth(ids, k) < Nth(ids, l)
  <2>1. Nth(ids, k) \in Nat /\ Nth(ids, l) \in Nat /\ k \in Nat /\ l \in Nat
    <3>1. Nth(ids, k) \in ids /\ Nth(ids, l) \in ids
      BY <1>9
    <3>2. k \in Nat /\ l \in Nat
      BY <1>1
    <3> QED
      BY <1>1, <3>1, <3>2
  <2>2. Nth(ids, k) # Nth(ids, l)
    BY <1>9, <1>10, <2>1
  <2>3. ~(Nth(ids, l) < Nth(ids, k))
    BY <1>3, <1>9, <1>10, <2>1
  <2> QED
    BY <2>1, <2>2, <2>3
<1>11. ASSUME NEW i \in ids PROVE \E k \in 1 .. c : Nth(ids, k) = i
  BY <1>4, <1>5, <1>9
<1> QED
  BY <1>1, <1>9, <1>10, <1>11 DEF c

\* Later moments are in later days.
LEMMA LaterDays ==
    ASSUME NEW a \in Int, NEW b \in Int, a <= b
    PROVE  a \div Day <= b \div Day
<1>1. Day \in Nat /\ Day > 0
  BY SignalsAssumption
<1> QED
  BY <1>1

\* warm_restart: the window has an entry for each row of the rule that is young enough, and
\* every entry is one of its rows.
LEMMA RebuiltFacts ==
    ASSUME Typed, NEW r \in RuleIds
    PROVE  LET w == Rebuilt(r)
               hit(i) == [at |-> rows[i].rx, node |-> rows[i].node]
           IN  /\ w \in Seq(Hits)
               /\ \A k \in DOMAIN w : \E i \in DOMAIN rows :
                      r \in rows[i].matched /\ w[k] = hit(i)
               /\ \A i \in DOMAIN rows :
                      r \in rows[i].matched /\ rows[i].rx >= now - Window
                          => \E k \in DOMAIN w : w[k] = hit(i)
               /\ Received => Sorted(w)
               /\ Received => \A k \in DOMAIN w : Start <= w[k].at
<1> DEFINE w == Rebuilt(r)
           hit(i) == [at |-> rows[i].rx, node |-> rows[i].node]
           hits == {i \in Reloaded : r \in rows[i].matched}
           c == Cardinality(hits)
<1>1. /\ Len(rows) \in Nat /\ DOMAIN rows = 1 .. Len(rows)
      /\ \A i \in DOMAIN rows : rows[i].node \in Nodes /\ rows[i].rx \in Nat
  <2>1. rows \in Seq([node : Nodes, matched : SUBSET RuleIds, rx : Nat])
    BY DEF Typed
  <2>2. /\ Len(rows) \in Nat /\ DOMAIN rows = 1 .. Len(rows)
        /\ \A i \in DOMAIN rows : rows[i] \in [node : Nodes, matched : SUBSET RuleIds, rx : Nat]
    BY <2>1, LenProperties, ElementOfSeq
  <2> QED
    BY <2>2
<1>2. hits \subseteq DOMAIN rows
  BY DEF Reloaded
<1>3. /\ c \in Nat
      /\ \A k \in 1 .. c : Nth(hits, k) \in hits
      /\ \A k, l \in 1 .. c : k < l => Nth(hits, k) < Nth(hits, l)
      /\ \A i \in hits : \E k \in 1 .. c : Nth(hits, k) = i
  BY <1>1, <1>2, NthFacts
<1>4. w = [k \in 1 .. c |-> hit(Nth(hits, k))]
  BY DEF Rebuilt
<1>5. DOMAIN w = 1 .. c /\ \A k \in 1 .. c : w[k] = hit(Nth(hits, k))
  BY <1>4
<1>6. \A i \in hits : r \in rows[i].matched /\ hit(i) \in Hits
  BY <1>1, <1>2 DEF Hits
<1>7. w \in Seq(Hits)
  BY <1>3, <1>4, <1>6, IsASeq
<1>8. ASSUME NEW i \in DOMAIN rows, r \in rows[i].matched, rows[i].rx >= now - Window
      PROVE  i \in hits
  <2>1. now - Window \in Int /\ rows[i].rx \in Int
    <3>1. now \in Nat /\ Window \in Nat /\ rows[i].rx \in Nat
      BY <1>1, SignalsAssumption DEF Typed
    <3> QED
      BY <3>1
  <2>2. (now - Window) \div Day <= rows[i].rx \div Day
    BY <1>8, <2>1, LaterDays
  <2>3. (now - Window) \div Day \in Int /\ rows[i].rx \div Day \in Int
    BY <2>1, SignalsAssumption
  <2> QED
    BY <1>8, <2>2, <2>3 DEF Reloaded
<1> HIDE DEF w, c, hits
<1>9. \A k \in DOMAIN w : \E i \in DOMAIN rows : r \in rows[i].matched /\ w[k] = hit(i)
  BY <1>2, <1>3, <1>5, <1>6
<1>10. ASSUME NEW i \in DOMAIN rows, r \in rows[i].matched, rows[i].rx >= now - Window
       PROVE  \E k \in DOMAIN w : w[k] = hit(i)
  <2>1. PICK k \in 1 .. c : Nth(hits, k) = i
    BY <1>3, <1>8, <1>10
  <2> QED
    BY <1>5, <2>1
<1>11. ASSUME Received PROVE Sorted(w) /\ \A k \in DOMAIN w : Start <= w[k].at
  <2>1. ASSUME NEW k \in DOMAIN w, NEW l \in DOMAIN w
        PROVE  Start <= w[k].at /\ w[k].at <= now /\ (k < l => w[k].at <= w[l].at)
    <3>1. Nth(hits, k) \in DOMAIN rows /\ Nth(hits, l) \in DOMAIN rows
      BY <1>2, <1>3, <1>5
    <3>2. w[k].at = rows[Nth(hits, k)].rx /\ w[l].at = rows[Nth(hits, l)].rx
      BY <1>5
    <3> QED
      BY <1>3, <1>5, <1>11, <3>1, <3>2 DEF Received
  <2> QED
    BY <2>1 DEF Sorted
<1> QED
  BY <1>7, <1>9, <1>10, <1>11 DEF w

\* Correlator.check: what is young enough stays, with the event at hand behind it, and in a
\* deque in order nothing else does.
LEMMA CheckedFacts ==
    ASSUME Typed, NEW r \in RuleIds, NEW n \in Nodes
    PROVE  LET q == windows[r]
               w == Checked(r, n)
               hit == [at |-> now, node |-> n]
           IN  /\ w \in Seq(Hits)
               /\ \A i \in DOMAIN w : w[i] = hit \/ \E j \in DOMAIN q : w[i] = q[j]
               /\ \E i \in DOMAIN w : w[i] = hit
               /\ \A j \in DOMAIN q : q[j].at >= now - Window => \E i \in DOMAIN w : w[i] = q[j]
               /\ Sorted(q) => Sorted(w) /\ \A i \in DOMAIN w : w[i].at >= now - Window
<1> DEFINE q == windows[r]
           limit == now - Window
           v == Evict(q, limit)
           w == Checked(r, n)
           hit == [at |-> now, node |-> n]
<1>1. q \in Seq(Hits) /\ hit \in Hits /\ now \in Nat /\ Window \in Nat /\ limit \in Int
  <2>1. now \in Nat /\ Window \in Nat /\ q \in Seq(Hits)
    BY SignalsAssumption DEF Typed
  <2>2. limit \in Int
    BY <2>1
  <2> QED
    BY <2>1, <2>2 DEF Hits
<1>2. Len(q) \in Nat /\ DOMAIN q = 1 .. Len(q) /\ \A j \in DOMAIN q : q[j].at \in Nat
  <2>1. Len(q) \in Nat /\ DOMAIN q = 1 .. Len(q) /\ \A j \in DOMAIN q : q[j] \in Hits
    BY <1>1, LenProperties, ElementOfSeq
  <2> QED
    BY <2>1 DEF Hits
<1>3. w = Append(v, hit)
  BY DEF Checked
<1> HIDE DEF q, w
<1>4. PICK c \in 0 .. Len(q) :
          /\ v \in Seq(Hits) /\ Len(v) = Len(q) - c
          /\ \A i \in 1 .. Len(q) - c : v[i] = q[c + i]
          /\ \A j \in 1 .. c : q[j].at < limit
          /\ c < Len(q) => ~(q[c + 1].at < limit)
  BY <1>1, EvictTakesPrefix
<1> DEFINE m == Len(q) - c
<1>5. m \in Nat /\ c \in Nat /\ \A i \in 1 .. m : c + i \in DOMAIN q
  BY <1>2
<1>6. /\ w \in Seq(Hits) /\ Len(w) = m + 1 /\ w[m + 1] = hit
      /\ \A i \in 1 .. m : w[i] = v[i]
  <2>1. v \in Seq(Hits) /\ Len(v) = m
    BY <1>4
  <2> HIDE DEF v, m, hit
  <2> QED
    BY <1>1, <1>3, <2>1, AppendProperties
<1>7. DOMAIN w = 1 .. m + 1 /\ \A i \in 1 .. m : w[i] = q[c + i]
  <2>1. DOMAIN w = 1 .. Len(w)
    BY <1>6, LenProperties
  <2> QED
    BY <1>4, <1>6, <2>1
<1> HIDE DEF m
<1>8. ASSUME NEW i \in DOMAIN w PROVE w[i] = hit \/ \E j \in DOMAIN q : w[i] = q[j]
  <2>1. i \in 1 .. m \/ i = m + 1
    BY <1>5, <1>7
  <2> QED
    BY <1>5, <1>6, <1>7, <2>1
<1>9. \E i \in DOMAIN w : w[i] = hit
  <2>1. m + 1 \in DOMAIN w
    BY <1>5, <1>7
  <2> QED
    BY <1>6, <2>1
<1>10. ASSUME NEW j \in DOMAIN q, q[j].at >= limit PROVE \E i \in DOMAIN w : w[i] = q[j]
  <2>1. j \notin 1 .. c
    BY <1>1, <1>2, <1>4, <1>10
  <2>2. j - c \in 1 .. m /\ c + (j - c) = j
    BY <1>2, <1>5, <2>1 DEF m
  <2>3. j - c \in DOMAIN w
    BY <1>5, <1>7, <2>2
  <2>4. w[j - c] = q[c + (j - c)]
    BY <1>7, <2>2
  <2> QED
    BY <2>2, <2>3, <2>4
<1>11. ASSUME Sorted(q) PROVE Sorted(w) /\ \A i \in DOMAIN w : w[i].at >= limit
  <2>1. ASSUME NEW i \in DOMAIN w, NEW k \in DOMAIN w
        PROVE  w[i].at <= now /\ w[i].at >= limit /\ (i < k => w[i].at <= w[k].at)
    <3>1. CASE i = m + 1
      <4>1. ~(i < k)
        BY <1>5, <1>7, <3>1
      <4>2. w[i].at = now
        BY <1>6, <3>1
      <4>3. now <= now /\ now >= limit
        BY <1>1
      <4> QED
        BY <4>1, <4>2, <4>3
    <3>2. CASE i \in 1 .. m
      <4>1. c + i \in DOMAIN q /\ w[i].at = q[c + i].at /\ q[c + i].at \in Nat
        BY <1>2, <1>5, <1>7, <3>2
      <4>2. q[c + i].at <= now
        BY <1>11, <4>1 DEF Sorted
      <4>3. q[c + i].at >= limit
        <5>1. c + 1 \in DOMAIN q /\ c < Len(q) /\ i \in Nat /\ i >= 1
          BY <1>2, <1>5, <3>2 DEF m
        <5>2. q[c + 1].at \in Nat /\ q[c + 1].at >= limit
          <6>1. q[c + 1].at \in Nat /\ ~(q[c + 1].at < limit)
            BY <1>2, <1>4, <5>1
          <6> HIDE DEF limit
          <6> QED
            BY <1>1, <6>1
        <5>3. q[c + 1].at <= q[c + i].at
          <6>1. CASE i = 1
            BY <5>2, <6>1
          <6>2. CASE i # 1
            <7>1. c + 1 < c + i
              BY <1>5, <5>1, <6>2
            <7> QED
              BY <1>11, <4>1, <5>1, <7>1 DEF Sorted
          <6> QED
            BY <6>1, <6>2
        <5> QED
          BY <1>1, <4>1, <5>2, <5>3
      <4>4. ASSUME i < k PROVE q[c + i].at <= w[k].at
        <5>1. CASE k = m + 1
          BY <1>6, <4>2, <5>1
        <5>2. CASE k \in 1 .. m
          <6>1. c + k \in DOMAIN q /\ c + i < c + k /\ w[k].at = q[c + k].at
            BY <1>5, <1>7, <3>2, <4>4, <5>2
          <6> QED
            BY <1>11, <4>1, <6>1 DEF Sorted
        <5> QED
          BY <1>5, <1>7, <5>1, <5>2
      <4> QED
        BY <4>1, <4>2, <4>3, <4>4
    <3> QED
      BY <1>5, <1>7, <3>1, <3>2
  <2> QED
    BY <2>1 DEF Sorted
<1> QED
  BY <1>6, <1>8, <1>9, <1>10, <1>11 DEF q, w

------------------------------------------------------------------------------
(* Every step keeps the deques.                                              *)

\* record_threat: the deque with the event's threat at its end.
LEMMA RecordedFacts ==
    ASSUME Typed, NEW e \in Events
    PROVE  LET q == signals[e.node]
           IN  /\ e.node \in Nodes /\ q \in Seq(Entries) /\ Recorded(e) \in Seq(Entries)
               /\ DOMAIN q = 1 .. Len(q) /\ Len(q) \in Nat
               /\ DOMAIN Recorded(e) =
                      1 .. (IF e.type = "NORMAL" THEN Len(q) ELSE Len(q) + 1)
               /\ \A i \in DOMAIN q : i \in DOMAIN Recorded(e) /\ Recorded(e)[i] = q[i]
               /\ e.type # "NORMAL" =>
                      Recorded(e)[Len(q) + 1] = [at |-> now, type |-> e.type]
<1> DEFINE q == signals[e.node]
<1>1. e.node \in Nodes /\ e.type \in Types
  BY SignalsAssumption
<1>2. q \in Seq(Entries) /\ [at |-> now, type |-> e.type] \in Entries
  BY <1>1 DEF Typed, Entries
<1>3. DOMAIN q = 1 .. Len(q) /\ Len(q) \in Nat
  BY <1>2, LenProperties
<1> HIDE DEF q
<1>4. CASE e.type = "NORMAL"
  BY <1>1, <1>2, <1>3, <1>4 DEF Recorded, q
<1>5. CASE e.type # "NORMAL"
  <2>1. Recorded(e) = Append(q, [at |-> now, type |-> e.type])
    BY <1>5 DEF Recorded, q
  <2>2. /\ Recorded(e) \in Seq(Entries) /\ Len(Recorded(e)) = Len(q) + 1
        /\ \A i \in 1 .. Len(q) : Recorded(e)[i] = q[i]
        /\ Recorded(e)[Len(q) + 1] = [at |-> now, type |-> e.type]
    BY <1>2, <2>1, AppendProperties
  <2>3. DOMAIN Recorded(e) = 1 .. Len(Recorded(e))
    BY <2>2, LenProperties
  <2> QED
    BY <1>1, <1>2, <1>3, <1>5, <2>2, <2>3 DEF q
<1> QED
  BY <1>4, <1>5

\* What Process does with an event e received at rx: its message is taken from the inbox, the
\* windows of the rules it matches and the deque of its node are updated, and the decision
\* names what they show.
Processed(e, rx) ==
    /\ rx = inbox[1].rx /\ 1 \in DOMAIN inbox
    /\ signals' = [signals EXCEPT ![e.node] = Evict(Recorded(e), now - KeptFor)]
    /\ seen' = IF e.type = "NORMAL" THEN seen
               ELSE seen \cup {[node |-> e.node, type |-> e.type, at |-> now]}
    /\ hand'.node = e.node /\ hand'.at = now /\ hand'.rx = rx
    /\ hand'.matched = e.fires \cap rules /\ e.fires \subseteq RuleIds
    /\ hand'.cross = {r \in hand'.matched :
                        Cardinality(NodesIn(Checked(r, e.node))) >= Threshold}
    /\ windows' = [r \in RuleIds |-> IF r \in hand'.matched THEN Checked(r, e.node)
                                     ELSE windows[r]]
    /\ heard' = heard \cup {[rule |-> r, node |-> e.node, at |-> now, kept |-> FALSE,
                             rx |-> rx] : r \in hand'.matched}
    /\ hand'.multi = Matching(Recorded(e))
    /\ hand'.multiplier =
           Best({Plain} \cup {r.multiplier : r \in hand'.multi}
                    \cup (IF hand'.cross = {} THEN {} ELSE {Factor}))
    /\ now' = now /\ inbox' = Tail(inbox) /\ inbox # << >> /\ pc' = "write"
    /\ UNCHANGED <<file, rules, notices, rows>>

\* The event at hand.
LEMMA ProcessFacts ==
    ASSUME Typed, Process
    PROVE  \E e \in Events, rx \in Nat : Processed(e, rx)
<1>1. inbox # << >> /\ inbox \in Seq([e : Events, rx : Nat])
  BY DEF Process, Typed
<1>2. /\ Head(inbox).e \in Events /\ Head(inbox).rx \in Nat /\ Head(inbox) = inbox[1]
      /\ 1 \in DOMAIN inbox
  <2>1. Head(inbox) \in [e : Events, rx : Nat]
    BY <1>1, HeadTailProperties
  <2>3. Head(inbox) = inbox[1]
    BY <1>1
  <2>2. Len(inbox) \in Nat /\ Len(inbox) # 0 /\ DOMAIN inbox = 1 .. Len(inbox)
    BY <1>1, LenProperties, EmptySeq
  <2> QED
    BY <2>1, <2>2, <2>3
<1>3. Head(inbox).e.fires \subseteq RuleIds
  BY <1>2, SignalsAssumption
<1> QED
  BY <1>1, <1>2, <1>3 DEF Process, Match, reload, Processed

\* Process keeps the types.
LEMMA TypedProcess == Typed /\ Process => Typed'
<1> SUFFICES ASSUME Typed, Process PROVE Typed'
  OBVIOUS
<1> USE DEF Processed
<1>1. PICK e \in Events, rx \in Nat : Processed(e, rx)
  BY ProcessFacts
<1>2. e.node \in Nodes /\ Recorded(e) \in Seq(Entries)
  BY RecordedFacts
<1>3. now \in Nat /\ now - KeptFor \in Int
  BY KeptForIsLongest DEF Typed
<1>4. signals' \in [Nodes -> Seq(Entries)]
  <2>1. Evict(Recorded(e), now - KeptFor) \in Seq(Entries)
    BY <1>2, <1>3, EvictTakesPrefix
  <2> QED
    BY <1>1, <2>1 DEF Typed
<1>5. inbox' \in Seq([e : Events, rx : Nat])
  BY <1>1, HeadTailProperties DEF Typed
<1>6. \A s \in seen' : s.at \in Nat
  BY <1>1, <1>3 DEF Typed
<1>7. windows' \in [RuleIds -> Seq(Hits)]
  <2>1. \A r \in RuleIds : Checked(r, e.node) \in Seq(Hits)
    BY <1>2, CheckedFacts
  <2> QED
    BY <1>1, <2>1 DEF Typed
<1>8. hand'.matched \subseteq RuleIds /\ hand'.cross \subseteq hand'.matched
  BY <1>1
<1>9. hand'.multi \subseteq SignalRules
  BY <1>1 DEF Matching
<1>10. heard' \subseteq [rule : RuleIds, node : Nodes, at : Nat, rx : Nat, kept : BOOLEAN]
  <2>1. \A r \in hand'.matched :
            [rule |-> r, node |-> e.node, at |-> now, kept |-> FALSE, rx |-> rx]
                \in [rule : RuleIds, node : Nodes, at : Nat, rx : Nat, kept : BOOLEAN]
    BY <1>2, <1>3, <1>8
  <2>2. heard \subseteq [rule : RuleIds, node : Nodes, at : Nat, rx : Nat, kept : BOOLEAN]
    BY DEF Typed
  <2> QED
    BY <1>1, <2>1, <2>2
<1> QED
  BY <1>1, <1>2, <1>3, <1>4, <1>5, <1>6, <1>7, <1>8, <1>9, <1>10 DEF Typed

\* The decision that is none.
LEMMA NoDecisionFacts ==
    /\ NoDecision.node \in Nodes /\ NoDecision.matched = {} /\ NoDecision.cross = {}
    /\ NoDecision.multi = {} /\ NoDecision.rx \in Nat /\ NoDecision.at \in Nat
<1>1. (CHOOSE n \in Nodes : TRUE) \in Nodes /\ Start \in Nat
  BY SignalsAssumption
<1> QED
  BY <1>1 DEF NoDecision

\* Every step keeps the types.
LEMMA TypedNext == Typed /\ [Next]_vars => Typed'
<1> SUFFICES ASSUME Typed, [Next]_vars PROVE Typed'
  OBVIOUS
<1> USE DEF reload, memory, loop, history
<1>1. \A S : << >> \in Seq(S)
  BY EmptySeq
<1>2. CASE Tick
  BY <1>2 DEF Tick, Typed
<1>3. CASE Send
  <2>1. PICK e \in Events : inbox' = Append(inbox, [e |-> e, rx |-> now])
    BY <1>3 DEF Send
  <2>2. inbox' \in Seq([e : Events, rx : Nat])
    BY <2>1, AppendProperties DEF Typed
  <2> QED
    BY <1>3, <2>2 DEF Send, Input, Typed
<1>4. CASE WriteFile \/ ReplaceFile
  BY <1>4 DEF WriteFile, ReplaceFile, Input, Typed
<1>5. ASSUME NEW kept \in (SUBSET RuleIds) \cup {Halved}
      PROVE  Loaded(kept) \in (SUBSET RuleIds) \cup {Halved}
  BY SignalsAssumption DEF Loaded, Typed
<1>6. CASE Reload
  <2>1. rules' \in (SUBSET RuleIds) \cup {Halved}
    BY <1>5, <1>6 DEF Reload, Typed
  <2>2. notices' \in Nat
    BY <1>6 DEF Reload, OnModified, Typed
  <2> QED
    BY <1>6, <2>1, <2>2 DEF Reload, Typed
<1>7. CASE Process
  BY <1>7, TypedProcess
<1>8. CASE WriteEvent
  <2>1. [node |-> hand.node, matched |-> hand.matched, rx |-> hand.rx]
            \in [node : Nodes, matched : SUBSET RuleIds, rx : Nat]
    BY DEF Typed
  <2>2. rows' \in Seq([node : Nodes, matched : SUBSET RuleIds, rx : Nat])
    BY <1>8, <2>1, AppendProperties DEF WriteEvent, Typed
  <2>3. heard' \subseteq [rule : RuleIds, node : Nodes, at : Nat, rx : Nat, kept : BOOLEAN]
    BY <1>8 DEF WriteEvent, Typed
  <2> QED
    BY <1>8, <2>2, <2>3, NoDecisionFacts DEF WriteEvent, Typed
<1>9. CASE WriteError
  BY <1>9, NoDecisionFacts DEF WriteError, Change, Typed
<1>10. CASE ResetTables
  <2>1. heard' \subseteq [rule : RuleIds, node : Nodes, at : Nat, rx : Nat, kept : BOOLEAN]
    BY <1>10 DEF ResetTables, Typed
  <2> QED
    BY <1>1, <1>10, <2>1 DEF ResetTables, Change, Typed
<1>11. CASE Restart
  <2>1. windows' \in [RuleIds -> Seq(Hits)]
    BY <1>11, RebuiltFacts DEF Restart
  <2>2. rules' \in (SUBSET RuleIds) \cup {Halved}
    BY <1>5, <1>11 DEF Restart
  <2>3. signals' \in [Nodes -> Seq(Entries)] /\ seen' = {} /\ inbox' \in {inbox, << >>}
    BY <1>1, <1>11 DEF Restart
  <2>4. heard' \subseteq heard
    BY <1>11 DEF Restart
  <2> QED
    BY <1>1, <1>11, <2>1, <2>2, <2>3, <2>4, NoDecisionFacts DEF Restart, Typed
<1>12. CASE UNCHANGED vars
  BY <1>12 DEF vars, Typed
<1>13. CASE MatchError
  <2>1. inbox' \in Seq([e : Events, rx : Nat])
    BY <1>13, HeadTailProperties DEF MatchError, Typed
  <2> QED
    BY <1>13, <2>1 DEF MatchError, Typed
<1>14. CASE StartWatcher
  BY <1>14 DEF StartWatcher, Typed
<1> QED
  BY <1>2, <1>3, <1>4, <1>6, <1>7, <1>8, <1>9, <1>10, <1>11, <1>12, <1>13, <1>14 DEF Next

\* Every step keeps the order of the messages.
LEMMA ReceivedNext == Typed /\ Received /\ [Next]_vars => Received'
<1> SUFFICES ASSUME Typed, Received, [Next]_vars PROVE Received'
  OBVIOUS
<1> USE DEF reload, memory, loop, history
<1>1. /\ now \in Nat /\ Start \in Nat /\ MaxTime \in Nat
      /\ inbox \in Seq([e : Events, rx : Nat])
      /\ rows \in Seq([node : Nodes, matched : SUBSET RuleIds, rx : Nat])
  BY SignalsAssumption DEF Typed
<1>2. /\ Len(inbox) \in Nat /\ DOMAIN inbox = 1 .. Len(inbox)
      /\ \A i \in DOMAIN inbox : inbox[i].rx \in Nat
  <2>1. /\ Len(inbox) \in Nat /\ DOMAIN inbox = 1 .. Len(inbox)
        /\ \A i \in DOMAIN inbox : inbox[i] \in [e : Events, rx : Nat]
    BY <1>1, LenProperties, ElementOfSeq
  <2> QED
    BY <2>1
<1>3. /\ Len(rows) \in Nat /\ DOMAIN rows = 1 .. Len(rows)
      /\ \A i \in DOMAIN rows : rows[i].rx \in Nat
  <2>1. /\ Len(rows) \in Nat /\ DOMAIN rows = 1 .. Len(rows)
        /\ \A i \in DOMAIN rows : rows[i] \in [node : Nodes, matched : SUBSET RuleIds, rx : Nat]
    BY <1>1, LenProperties, ElementOfSeq
  <2> QED
    BY <2>1
<1>4. CASE Tick
  <2>1. now' = now + 1 /\ now < MaxTime /\ UNCHANGED <<inbox, rows, pc, hand>>
    BY <1>4 DEF Tick
  <2>2. Start <= now' /\ now' <= MaxTime /\ \A x \in Nat : x <= now => x <= now'
    BY <1>1, <2>1 DEF Received
  <2>3. hand.rx \in Nat
    BY DEF Typed
  <2> QED
    BY <1>2, <1>3, <2>1, <2>2, <2>3 DEF Received
<1>5. CASE Send
  <2>1. PICK e \in Events : inbox' = Append(inbox, [e |-> e, rx |-> now])
    BY <1>5 DEF Send
  <2>2. UNCHANGED <<now, rows, pc, hand>>
    BY <1>5 DEF Send, Input
  <2> DEFINE L == Len(inbox)
  <2>3. /\ Len(inbox') = L + 1 /\ inbox'[L + 1].rx = now
        /\ \A i \in 1 .. L : inbox'[i] = inbox[i]
        /\ inbox' \in Seq([e : Events, rx : Nat])
    BY <1>1, <2>1, AppendProperties
  <2>4. DOMAIN inbox' = 1 .. L + 1
    BY <2>3, LenProperties
  <2>5. \A i \in DOMAIN inbox' : i \in DOMAIN inbox \/ i = L + 1
    BY <1>2, <2>4
  <2>6. \A i \in DOMAIN inbox' : \A j \in DOMAIN inbox : i < j => i \in DOMAIN inbox
    BY <1>2, <2>4
  <2>7. ASSUME NEW i \in DOMAIN inbox'
        PROVE  Start <= inbox'[i].rx /\ inbox'[i].rx <= now
    <3>1. now <= now
      BY <1>1
    <3> QED
      BY <1>2, <2>3, <2>5, <3>1 DEF Received
  <2>8. ASSUME NEW i \in DOMAIN inbox', NEW j \in DOMAIN inbox', i < j
         PROVE  inbox'[i].rx <= inbox'[j].rx
    <3>1. CASE j \in DOMAIN inbox
      BY <1>2, <2>3, <2>6, <2>8, <3>1 DEF Received
    <3>2. CASE j = L + 1
      BY <2>3, <2>7, <3>2
    <3> QED
      BY <2>5, <3>1, <3>2
  <2>9. \A i \in DOMAIN rows, j \in DOMAIN inbox' : rows[i].rx <= inbox'[j].rx
    BY <1>2, <2>3, <2>5 DEF Received
  <2>10. pc = "write" => \A j \in DOMAIN inbox' : hand.rx <= inbox'[j].rx
    BY <1>2, <2>3, <2>5 DEF Received
  <2> HIDE DEF L
  <2> QED
    BY <2>2, <2>7, <2>8, <2>9, <2>10 DEF Received
<1>6. CASE Process
  <2>1. PICK rx \in Nat :
            /\ rx = inbox[1].rx /\ 1 \in DOMAIN inbox /\ hand'.rx = rx /\ inbox # << >>
            /\ now' = now /\ inbox' = Tail(inbox) /\ UNCHANGED rows
    BY <1>6, ProcessFacts DEF Processed
  <2>2. /\ DOMAIN inbox' = 1 .. Len(inbox) - 1
        /\ \A i \in 1 .. Len(inbox) - 1 : inbox'[i] = inbox[i + 1]
    BY <1>1, <2>1, HeadTailProperties, LenProperties
  <2>3. \A i \in DOMAIN inbox' : i + 1 \in DOMAIN inbox /\ inbox'[i] = inbox[i + 1] /\ 1 < i + 1
    BY <1>2, <2>2
  <2>4. \A i, j \in DOMAIN inbox' : i < j => i + 1 < j + 1
    BY <1>2, <2>2
  <2>5. /\ \A i \in DOMAIN inbox' : Start <= inbox'[i].rx /\ inbox'[i].rx <= now
        /\ \A i, j \in DOMAIN inbox' : i < j => inbox'[i].rx <= inbox'[j].rx
    BY <2>3, <2>4 DEF Received
  <2>6. \A j \in DOMAIN inbox' : rx <= inbox'[j].rx
    BY <2>1, <2>3 DEF Received
  <2>7. \A i \in DOMAIN rows, j \in DOMAIN inbox' : rows[i].rx <= inbox'[j].rx
    BY <2>3 DEF Received
  <2>8. Start <= rx /\ rx <= now /\ \A i \in DOMAIN rows : rows[i].rx <= rx
    BY <2>1 DEF Received
  <2> QED
    BY <2>1, <2>5, <2>6, <2>7, <2>8 DEF Received
<1>7. CASE WriteEvent
  <2> DEFINE row == [node |-> hand.node, matched |-> hand.matched, rx |-> hand.rx]
             L == Len(rows)
  <2>1. rows' = Append(rows, row) /\ pc = "write" /\ pc' = "recv" /\ UNCHANGED <<now, inbox>>
    BY <1>7 DEF WriteEvent
  <2>2. row \in [node : Nodes, matched : SUBSET RuleIds, rx : Nat]
    BY DEF Typed
  <2>3. /\ Len(rows') = L + 1 /\ rows'[L + 1].rx = hand.rx
        /\ \A i \in 1 .. L : rows'[i] = rows[i]
        /\ rows' \in Seq([node : Nodes, matched : SUBSET RuleIds, rx : Nat])
    BY <1>1, <2>1, <2>2, AppendProperties
  <2>4. DOMAIN rows' = 1 .. L + 1
    BY <2>3, LenProperties
  <2>5. \A i \in DOMAIN rows' : i \in DOMAIN rows \/ i = L + 1
    BY <1>3, <2>4
  <2>6. \A i \in DOMAIN rows' : \A j \in DOMAIN rows : i < j => i \in DOMAIN rows
    BY <1>3, <2>4
  <2>7. ASSUME NEW i \in DOMAIN rows'
        PROVE  Start <= rows'[i].rx /\ rows'[i].rx <= now
    BY <1>3, <2>1, <2>3, <2>5 DEF Received
  <2>8. ASSUME NEW i \in DOMAIN rows', NEW j \in DOMAIN rows', i < j
         PROVE  rows'[i].rx <= rows'[j].rx
    <3>1. CASE j \in DOMAIN rows
      BY <1>3, <2>3, <2>6, <2>8, <3>1 DEF Received
    <3>2. CASE j = L + 1
      <4>1. i \in DOMAIN rows
        BY <1>3, <2>5, <2>8, <3>2
      <4> QED
        BY <1>3, <2>1, <2>3, <3>2, <4>1 DEF Received
    <3> QED
      BY <2>5, <3>1, <3>2
  <2>9. \A i \in DOMAIN rows', j \in DOMAIN inbox : rows'[i].rx <= inbox[j].rx
    BY <1>3, <2>1, <2>3, <2>5 DEF Received
  <2> HIDE DEF row, L
  <2> QED
    BY <2>1, <2>7, <2>8, <2>9 DEF Received
<1>8. CASE WriteError
  BY <1>8 DEF WriteError, Change, Received
<1>9. CASE ResetTables
  <2>1. DOMAIN rows' = {} /\ UNCHANGED <<now, inbox, pc, hand>>
    BY <1>9 DEF ResetTables
  <2> QED
    BY <2>1 DEF Received
<1>10. CASE Restart
  <2>1. (inbox' = inbox \/ DOMAIN inbox' = {}) /\ pc' = "boot" /\ UNCHANGED <<now, rows>>
    BY <1>10 DEF Restart
  <2> QED
    BY <2>1 DEF Received
<1>11. CASE WriteFile \/ ReplaceFile \/ Reload \/ UNCHANGED vars
  <2>1. UNCHANGED <<now, inbox, rows, pc, hand>>
    BY <1>11 DEF WriteFile, ReplaceFile, Reload, Input, vars
  <2> QED
    BY <2>1 DEF Received
<1>12. CASE MatchError
  <2>1. inbox # << >> /\ inbox' = Tail(inbox) /\ UNCHANGED <<now, rows>> /\ pc' # "write"
    BY <1>12 DEF MatchError
  <2>2. /\ DOMAIN inbox' = 1 .. Len(inbox) - 1
        /\ \A i \in 1 .. Len(inbox) - 1 : inbox'[i] = inbox[i + 1]
    BY <1>1, <2>1, HeadTailProperties, LenProperties
  <2>3. \A i \in DOMAIN inbox' : i + 1 \in DOMAIN inbox /\ inbox'[i] = inbox[i + 1]
    BY <1>2, <2>2
  <2>4. \A i, j \in DOMAIN inbox' : i < j => i + 1 < j + 1
    BY <1>2, <2>2
  <2> QED
    BY <2>1, <2>3, <2>4 DEF Received
<1>13. CASE StartWatcher
  <2>1. UNCHANGED <<now, inbox, rows>> /\ pc' # "write"
    BY <1>13 DEF StartWatcher
  <2> QED
    BY <2>1 DEF Received
<1> QED
  BY <1>12, <1>13, <1>4, <1>5, <1>6, <1>7, <1>8, <1>9, <1>10, <1>11 DEF Next

\* Every step keeps the order of the deques.
LEMMA InTimeNext == Typed /\ Received /\ InTime /\ [Next]_vars => InTime'
<1> SUFFICES ASSUME Typed, Received, InTime, [Next]_vars PROVE InTime'
  OBVIOUS
<1> USE DEF reload, memory, loop, history
<1>1. now \in Nat /\ Start \in Nat /\ Start <= now
  BY SignalsAssumption DEF Typed, Received
<1>2. CASE Process
  <2>1. PICK e \in Events, rx \in Nat : Processed(e, rx)
    BY <1>2, ProcessFacts
  <2>2. e.node \in Nodes /\ now' = now
    BY <2>1, RecordedFacts DEF Processed
  <2>3. ASSUME NEW r \in RuleIds
        PROVE  /\ Sorted(windows'[r])
               /\ \A i \in DOMAIN windows'[r] : Start <= windows'[r][i].at
    <3>1. CASE r \in hand'.matched
      <4> DEFINE w == Checked(r, e.node)
      <4>1. windows'[r] = w
        BY <2>1, <3>1 DEF Processed
      <4>2. /\ Sorted(w)
            /\ \A i \in DOMAIN w : w[i] = [at |-> now, node |-> e.node]
                                   \/ \E j \in DOMAIN windows[r] : w[i] = windows[r][j]
        BY <2>2, CheckedFacts DEF InTime
      <4> HIDE DEF w
      <4>3. \A i \in DOMAIN w : Start <= w[i].at
        BY <1>1, <4>2 DEF InTime
      <4> QED
        BY <4>1, <4>2, <4>3
    <3>2. CASE r \notin hand'.matched
      BY <2>1, <3>2 DEF Processed, InTime
    <3> QED
      BY <3>1, <3>2
  <2>4. ASSUME NEW n \in Nodes, NEW i \in DOMAIN signals'[n]
        PROVE  /\ signals'[n][i].type # "NORMAL"
               /\ Start <= signals'[n][i].at /\ signals'[n][i].at <= now
    <3> DEFINE w == Recorded(e)
               v == Evict(w, now - KeptFor)
    <3>1. CASE n = e.node
      <4>1. signals'[n] = v
        BY <2>1, <2>2, <3>1 DEF Processed, Typed
      <4>2. PICK k \in DOMAIN w : v[i] = w[k]
        <5>1. w \in Seq(Entries) /\ now - KeptFor \in Int
          <6>1. now - KeptFor \in Int
            BY <1>1, KeptForIsLongest
          <6> QED
            BY <6>1, RecordedFacts
        <5>2. PICK c \in 0 .. Len(w) :
                  /\ v \in Seq(Entries) /\ Len(v) = Len(w) - c
                  /\ \A j \in 1 .. Len(w) - c : v[j] = w[c + j]
                  /\ \A j \in 1 .. c : w[j].at < now - KeptFor
          BY <5>1, EvictTakesPrefix
        <5>3. DOMAIN w = 1 .. Len(w) /\ Len(w) \in Nat /\ DOMAIN v = 1 .. Len(w) - c
          BY <5>1, <5>2, LenProperties
        <5>4. i \in 1 .. Len(w) - c
          BY <4>1, <5>3
        <5>5. c + i \in DOMAIN w
          BY <5>3, <5>4
        <5> QED
          BY <5>2, <5>4, <5>5
      <4> DEFINE q == signals[n]
      <4>3. \/ k \in DOMAIN q /\ w[k] = q[k]
            \/ e.type # "NORMAL" /\ w[k] = [at |-> now, type |-> e.type]
        <5>1. /\ DOMAIN q = 1 .. Len(q) /\ Len(q) \in Nat
              /\ DOMAIN w = 1 .. (IF e.type = "NORMAL" THEN Len(q) ELSE Len(q) + 1)
              /\ \A j \in DOMAIN q : w[j] = q[j]
              /\ e.type # "NORMAL" => w[Len(q) + 1] = [at |-> now, type |-> e.type]
          BY <3>1, RecordedFacts
        <5> HIDE DEF q, w
        <5>2. k \in DOMAIN q \/ (e.type # "NORMAL" /\ k = Len(q) + 1)
          BY <5>1
        <5> QED
          BY <5>1, <5>2
      <4>4. now <= now
        BY <1>1
      <4> HIDE DEF w, v
      <4> QED
        BY <1>1, <4>1, <4>2, <4>3, <4>4 DEF InTime
    <3>2. CASE n # e.node
      BY <2>1, <3>2 DEF Processed, Typed, InTime
    <3> QED
      BY <3>1, <3>2
  <2> QED
    BY <2>2, <2>3, <2>4 DEF InTime, Sorted
<1>3. CASE Restart
  <2>1. /\ windows' = [r \in RuleIds |-> Rebuilt(r)] /\ now' = now
        /\ signals' = [n \in Nodes |-> << >>]
    BY <1>3 DEF Restart
  <2>2. ASSUME NEW r \in RuleIds
        PROVE  /\ Sorted(windows'[r])
               /\ \A i \in DOMAIN windows'[r] : Start <= windows'[r][i].at
    <3>1. Sorted(Rebuilt(r)) /\ \A k \in DOMAIN Rebuilt(r) : Start <= Rebuilt(r)[k].at
      BY RebuiltFacts
    <3> QED
      BY <2>1, <3>1
  <2>3. \A n \in Nodes : DOMAIN signals'[n] = {}
    BY <2>1
  <2> QED
    BY <2>1, <2>2, <2>3 DEF InTime, Sorted
<1>4. CASE Tick
  <2>1. now' = now + 1 /\ UNCHANGED <<windows, signals>>
    BY <1>4 DEF Tick
  <2>2. \A x \in Nat : x <= now => x <= now'
    BY <1>1, <2>1
  <2>3. /\ \A r \in RuleIds : \A i \in DOMAIN windows[r] : windows[r][i].at \in Nat
        /\ \A n \in Nodes : \A i \in DOMAIN signals[n] : signals[n][i].at \in Nat
    <3>1. \A r \in RuleIds : \A i \in DOMAIN windows[r] : windows[r][i] \in Hits
      BY LenProperties, ElementOfSeq DEF Typed
    <3>2. \A n \in Nodes : \A i \in DOMAIN signals[n] : signals[n][i] \in Entries
      BY LenProperties, ElementOfSeq DEF Typed
    <3> QED
      BY <3>1, <3>2 DEF Hits, Entries
  <2> QED
    BY <2>1, <2>2, <2>3 DEF InTime, Sorted
<1>5. CASE \/ Send \/ WriteFile \/ ReplaceFile \/ Reload \/ StartWatcher \/ MatchError
           \/ WriteEvent \/ WriteError \/ ResetTables \/ UNCHANGED vars
  <2>1. UNCHANGED <<now, windows, signals>>
    BY <1>5 DEF Send, WriteFile, ReplaceFile, Reload, StartWatcher, MatchError, WriteEvent,
                WriteError, ResetTables, Input, Change, vars
  <2> QED
    BY <2>1 DEF InTime, Sorted
<1> QED
  BY <1>2, <1>3, <1>4, <1>5 DEF Next

------------------------------------------------------------------------------
(* The history of counted messages.                                          *)

\* Two records of one message.
Same(h, k) == h.rule = k.rule /\ h.node = k.node /\ h.at = k.at /\ h.rx = k.rx

\* A record with another kept is one of the same message.
LEMMA KeptFacts ==
    ASSUME Typed, NEW h \in heard, NEW b \in BOOLEAN
    PROVE  Same(h, [h EXCEPT !.kept = b]) /\ [h EXCEPT !.kept = b].kept = b
<1>1. h \in [rule : RuleIds, node : Nodes, at : Nat, rx : Nat, kept : BOOLEAN]
  BY DEF Typed
<1> QED
  BY <1>1 DEF Same

\* Recording a decision keeps its messages.
LEMMA WriteHeard ==
    ASSUME Typed, WriteEvent
    PROVE  /\ \A h \in heard : \E k \in heard' : Same(h, k) /\ (h.kept \/ Counted(h) => k.kept)
           /\ \A k \in heard' : \E h \in heard : Same(h, k) /\ (k.kept => h.kept \/ Counted(h))
<1>1. heard' = {IF Counted(h) THEN [h EXCEPT !.kept = TRUE] ELSE h : h \in heard}
  BY DEF WriteEvent
<1>2. \A h \in heard : Same(h, [h EXCEPT !.kept = TRUE]) /\ [h EXCEPT !.kept = TRUE].kept
  BY KeptFacts
<1>3. \A h \in heard : Same(h, h)
  BY DEF Same
<1>4. ASSUME NEW h \in heard
      PROVE  \E k \in heard' : Same(h, k) /\ (h.kept \/ Counted(h) => k.kept)
  <2>1. CASE Counted(h)
    BY <1>1, <1>2, <2>1
  <2>2. CASE ~Counted(h)
    BY <1>1, <1>3, <2>2
  <2> QED
    BY <2>1, <2>2
<1>5. ASSUME NEW k \in heard'
      PROVE  \E h \in heard : Same(h, k) /\ (k.kept => h.kept \/ Counted(h))
  <2>1. PICK h \in heard : k = IF Counted(h) THEN [h EXCEPT !.kept = TRUE] ELSE h
    BY <1>1
  <2>2. CASE Counted(h)
    BY <1>2, <2>1, <2>2
  <2>3. CASE ~Counted(h)
    BY <1>3, <2>1, <2>3
  <2> QED
    BY <2>2, <2>3
<1> QED
  BY <1>4, <1>5

\* A reset keeps none, and forgets none.
LEMMA ResetHeard ==
    ASSUME Typed, ResetTables
    PROVE  /\ \A h \in heard : \E k \in heard' : Same(h, k)
           /\ \A k \in heard' : ~k.kept /\ \E h \in heard : Same(h, k)
<1>1. heard' = {[h EXCEPT !.kept = FALSE] : h \in heard}
  BY DEF ResetTables
<1>2. \A h \in heard : Same(h, [h EXCEPT !.kept = FALSE]) /\ ~[h EXCEPT !.kept = FALSE].kept
  BY KeptFacts
<1> QED
  BY <1>1, <1>2

\* What Process adds to the history.
LEMMA ProcessHeard ==
    ASSUME Typed, Received, NEW e \in Events, NEW rx \in Nat, Processed(e, rx)
    PROVE  /\ rx <= now /\ now \in Nat /\ e.node \in Nodes
           /\ heard \subseteq heard'
           /\ \A r \in hand'.matched :
                  [rule |-> r, node |-> e.node, at |-> now, kept |-> FALSE, rx |-> rx] \in heard'
           /\ \A h \in heard' : h \in heard \/ /\ h.rule \in hand'.matched /\ h.node = e.node
                                               /\ h.at = now /\ h.rx = rx /\ ~h.kept
           /\ hand'.matched \subseteq RuleIds
<1>1. rx <= now /\ now \in Nat /\ e.node \in Nodes
  BY SignalsAssumption DEF Processed, Received, Typed
<1>2. heard' = heard \cup {[rule |-> r, node |-> e.node, at |-> now, kept |-> FALSE, rx |-> rx] :
                               r \in hand'.matched}
  BY DEF Processed
<1>3. hand'.matched \subseteq RuleIds
  BY DEF Processed
<1>4. ASSUME NEW h \in heard', h \notin heard
      PROVE  h.rule \in hand'.matched /\ h.node = e.node /\ h.at = now /\ h.rx = rx /\ ~h.kept
  <2>1. PICK r \in hand'.matched :
            h = [rule |-> r, node |-> e.node, at |-> now, kept |-> FALSE, rx |-> rx]
    BY <1>2, <1>4
  <2> QED
    BY <2>1
<1>5. /\ heard \subseteq heard'
      /\ \A r \in hand'.matched :
             [rule |-> r, node |-> e.node, at |-> now, kept |-> FALSE, rx |-> rx] \in heard'
  BY <1>2
<1> QED
  BY <1>1, <1>3, <1>4, <1>5

\* Process keeps the three.
LEMMA ProcessHistory ==
    ASSUME Typed, Received, InTime, Founded, Remembered, Stored, Process
    PROVE  Founded' /\ Remembered' /\ Stored'
<1>1. PICK e \in Events, rx \in Nat : Processed(e, rx)
  BY ProcessFacts
<1>2. /\ rx <= now /\ now \in Nat /\ e.node \in Nodes
      /\ heard \subseteq heard'
      /\ \A r \in hand'.matched :
             [rule |-> r, node |-> e.node, at |-> now, kept |-> FALSE, rx |-> rx] \in heard'
      /\ \A h \in heard' : h \in heard \/ /\ h.rule \in hand'.matched /\ h.node = e.node
                                          /\ h.at = now /\ h.rx = rx /\ ~h.kept
      /\ hand'.matched \subseteq RuleIds
  BY <1>1, ProcessHeard
<1>3. /\ now' = now /\ pc' = "write" /\ rows' = rows
      /\ hand'.node = e.node /\ hand'.at = now /\ hand'.rx = rx
      /\ \A r \in RuleIds : windows'[r] = IF r \in hand'.matched THEN Checked(r, e.node)
                                          ELSE windows[r]
  BY <1>1 DEF Processed
<1>4. now <= now /\ now >= now /\ now >= rx
  BY <1>2
<1>5. ASSUME NEW r \in RuleIds, NEW i \in DOMAIN windows'[r]
      PROVE  \E h \in heard' :
                 h.rule = r /\ h.node = windows'[r][i].node /\ h.at >= windows'[r][i].at
  <2>1. CASE \E j \in DOMAIN windows[r] : windows'[r][i] = windows[r][j]
    BY <1>2, <2>1 DEF Founded
  <2>2. CASE r \in hand'.matched /\ windows'[r][i] = [at |-> now, node |-> e.node]
    <3> DEFINE h == [rule |-> r, node |-> e.node, at |-> now, kept |-> FALSE, rx |-> rx]
    <3>1. h \in heard' /\ h.rule = r /\ h.node = e.node /\ h.at = now
      BY <1>2, <2>2
    <3> QED
      BY <1>4, <2>2, <3>1
  <2>3. CASE r \in hand'.matched
    <3>1. \A k \in DOMAIN Checked(r, e.node) :
              \/ Checked(r, e.node)[k] = [at |-> now, node |-> e.node]
              \/ \E j \in DOMAIN windows[r] : Checked(r, e.node)[k] = windows[r][j]
      BY <1>2, CheckedFacts
    <3>2. windows'[r] = Checked(r, e.node)
      BY <1>3, <2>3
    <3> QED
      BY <2>1, <2>2, <2>3, <3>1, <3>2
  <2>4. CASE r \notin hand'.matched
    BY <1>3, <2>1, <2>4
  <2> QED
    BY <2>3, <2>4
<1>6. ASSUME NEW h \in heard', h.rx >= now - Window
      PROVE  \E i \in DOMAIN windows'[h.rule] :
                 windows'[h.rule][i].node = h.node /\ windows'[h.rule][i].at >= h.rx
  <2>1. /\ \A k \in heard : k.rule \in RuleIds /\ k.rx \in Nat
        /\ \A r \in RuleIds : \A j \in DOMAIN windows[r] : windows[r][j].at \in Nat
    <3>1. \A r \in RuleIds : \A j \in DOMAIN windows[r] : windows[r][j] \in Hits
      BY LenProperties, ElementOfSeq DEF Typed
    <3> QED
      BY <3>1 DEF Hits, Typed
  <2>2. CASE h \notin heard
    <3>1. h.rule \in RuleIds /\ windows'[h.rule] = Checked(h.rule, e.node)
      BY <1>2, <1>3, <2>2
    <3>2. PICK i \in DOMAIN Checked(h.rule, e.node) :
              Checked(h.rule, e.node)[i] = [at |-> now, node |-> e.node]
      BY <1>2, <3>1, CheckedFacts
    <3> QED
      BY <1>2, <1>4, <2>2, <3>1, <3>2
  <2>3. CASE h \in heard
    <3>1. PICK j \in DOMAIN windows[h.rule] :
              windows[h.rule][j].node = h.node /\ windows[h.rule][j].at >= h.rx
      BY <1>6, <2>3 DEF Remembered
    <3>2. CASE h.rule \in hand'.matched
      <4>1. windows'[h.rule] = Checked(h.rule, e.node)
        BY <1>2, <1>3, <3>2
      <4>2. windows[h.rule][j].at >= now - Window
        <5>1. Window \in Nat
          BY SignalsAssumption
        <5> QED
          BY <1>2, <1>6, <2>1, <2>3, <3>1, <5>1
      <4>3. PICK i \in DOMAIN Checked(h.rule, e.node) :
                Checked(h.rule, e.node)[i] = windows[h.rule][j]
        BY <1>2, <3>2, <4>2, CheckedFacts
      <4> QED
        BY <3>1, <4>1, <4>3
    <3>3. CASE h.rule \notin hand'.matched
      BY <1>3, <2>1, <2>3, <3>1, <3>3
    <3> QED
      BY <3>2, <3>3
  <2> QED
    BY <2>2, <2>3
<1>7. \A h \in heard' : h.rx <= h.at
  BY <1>2 DEF Stored
<1>8. \A i \in DOMAIN rows : \A r \in rows[i].matched : \E h \in heard' :
          h.kept /\ h.rule = r /\ h.node = rows[i].node /\ h.rx = rows[i].rx
  BY <1>2 DEF Stored
<1>9. \A h \in heard' : h.kept => \E i \in DOMAIN rows :
          h.rule \in rows[i].matched /\ rows[i].node = h.node /\ rows[i].rx = h.rx
  BY <1>2 DEF Stored
<1>10. \A r \in hand'.matched : \E h \in heard' : h.rule = r /\ Counted(h)'
  BY <1>2, <1>3 DEF Counted
<1> QED
  BY <1>3, <1>5, <1>6, <1>7, <1>8, <1>9, <1>10 DEF Founded, Remembered, Stored

\* Recording a decision keeps the three.
LEMMA WriteHistory ==
    ASSUME Typed, Founded, Remembered, Stored, WriteEvent
    PROVE  Founded' /\ Remembered' /\ Stored'
<1> USE DEF memory
<1> DEFINE row == [node |-> hand.node, matched |-> hand.matched, rx |-> hand.rx]
           L == Len(rows)
<1>1. /\ rows' = Append(rows, row) /\ pc = "write" /\ pc' = "recv"
      /\ now' = now /\ windows' = windows
  BY DEF WriteEvent
<1>2. /\ \A h \in heard : \E k \in heard' : Same(h, k) /\ (h.kept \/ Counted(h) => k.kept)
      /\ \A k \in heard' : \E h \in heard : Same(h, k) /\ (k.kept => h.kept \/ Counted(h))
  BY WriteHeard
<1>3. /\ DOMAIN rows' = DOMAIN rows \cup {L + 1} /\ rows'[L + 1] = row
      /\ \A i \in DOMAIN rows : rows'[i] = rows[i]
  <2>1. rows \in Seq([node : Nodes, matched : SUBSET RuleIds, rx : Nat])
    BY DEF Typed
  <2>2. row \in [node : Nodes, matched : SUBSET RuleIds, rx : Nat]
    BY DEF Typed
  <2>3. /\ Len(rows') = L + 1 /\ rows'[L + 1] = row /\ L \in Nat /\ DOMAIN rows = 1 .. L
        /\ \A i \in 1 .. L : rows'[i] = rows[i]
        /\ rows' \in Seq([node : Nodes, matched : SUBSET RuleIds, rx : Nat])
    BY <1>1, <2>1, <2>2, AppendProperties, LenProperties
  <2>4. DOMAIN rows' = 1 .. L + 1
    BY <2>3, LenProperties
  <2> HIDE DEF L, row
  <2> QED
    BY <2>3, <2>4
<1>4. row.node = hand.node /\ row.matched = hand.matched /\ row.rx = hand.rx
  OBVIOUS
<1> HIDE DEF row, L
<1>5. Founded'
  BY <1>1, <1>2 DEF Founded, Same
<1>6. Remembered'
  BY <1>1, <1>2 DEF Remembered, Same
<1>7. \A h \in heard' : h.rx <= h.at
  BY <1>2 DEF Stored, Same
<1>8. ASSUME NEW i \in DOMAIN rows', NEW r \in rows'[i].matched
      PROVE  \E k \in heard' :
                 k.kept /\ k.rule = r /\ k.node = rows'[i].node /\ k.rx = rows'[i].rx
  <2>1. CASE i \in DOMAIN rows
    BY <1>2, <1>3, <1>8, <2>1 DEF Stored, Same
  <2>2. CASE i = L + 1
    <3>1. PICK h \in heard : h.rule = r /\ Counted(h)
      BY <1>1, <1>3, <1>4, <2>2 DEF Stored
    <3>2. h.node = hand.node /\ h.rx = hand.rx
      BY <3>1 DEF Counted
    <3>3. PICK k \in heard' : Same(h, k) /\ k.kept
      BY <1>2, <3>1
    <3> QED
      BY <1>3, <1>4, <2>2, <3>1, <3>2, <3>3 DEF Same
  <2> QED
    BY <1>3, <2>1, <2>2
<1>9. ASSUME NEW k \in heard', k.kept
      PROVE  \E i \in DOMAIN rows' :
                 k.rule \in rows'[i].matched /\ rows'[i].node = k.node /\ rows'[i].rx = k.rx
  <2>1. PICK h \in heard : Same(h, k) /\ (h.kept \/ Counted(h))
    BY <1>2, <1>9
  <2>2. CASE h.kept
    BY <1>3, <2>1, <2>2 DEF Stored, Same
  <2>3. CASE Counted(h)
    BY <1>3, <1>4, <2>1, <2>3 DEF Counted, Same
  <2> QED
    BY <2>1, <2>2, <2>3
<1> QED
  BY <1>1, <1>5, <1>6, <1>7, <1>8, <1>9 DEF Stored

\* A restart keeps the three: what is kept is what the windows are rebuilt from.
LEMMA RestartHistory ==
    ASSUME Typed, Founded, Remembered, Stored, Restart
    PROVE  Founded' /\ Remembered' /\ Stored'
<1>1. /\ heard' = {h \in heard : h.kept} /\ now' = now /\ rows' = rows /\ pc' = "boot"
      /\ \A r \in RuleIds : windows'[r] = Rebuilt(r)
  BY DEF Restart
<1>2. Founded'
  <2> SUFFICES ASSUME NEW r \in RuleIds, NEW k \in DOMAIN windows'[r]
               PROVE  \E h \in heard' : /\ h.rule = r /\ h.node = windows'[r][k].node
                                        /\ h.at >= windows'[r][k].at
    BY DEF Founded
  <2>1. PICK i \in DOMAIN rows :
            /\ r \in rows[i].matched
            /\ windows'[r][k] = [at |-> rows[i].rx, node |-> rows[i].node]
    BY <1>1, RebuiltFacts
  <2>2. PICK h \in heard : h.kept /\ h.rule = r /\ h.node = rows[i].node /\ h.rx = rows[i].rx
    BY <2>1 DEF Stored
  <2>3. h.at >= h.rx
    BY DEF Stored, Typed
  <2> QED
    BY <1>1, <2>1, <2>2, <2>3
<1>3. Remembered'
  <2> SUFFICES ASSUME NEW h \in heard', h.rx >= now - Window
               PROVE  \E k \in DOMAIN windows'[h.rule] :
                          /\ windows'[h.rule][k].node = h.node
                          /\ windows'[h.rule][k].at >= h.rx
    BY <1>1 DEF Remembered
  <2>1. h.rule \in RuleIds /\ h.rx \in Nat /\ h \in heard /\ h.kept
    BY <1>1 DEF Typed
  <2>2. PICK i \in DOMAIN rows :
            h.rule \in rows[i].matched /\ rows[i].node = h.node /\ rows[i].rx = h.rx
    BY <2>1 DEF Stored
  <2>3. PICK k \in DOMAIN Rebuilt(h.rule) :
            Rebuilt(h.rule)[k] = [at |-> rows[i].rx, node |-> rows[i].node]
    BY <2>1, <2>2, RebuiltFacts
  <2>4. h.rx >= h.rx
    BY <2>1
  <2> QED
    BY <1>1, <2>1, <2>2, <2>3, <2>4
<1>4. Stored'
  BY <1>1 DEF Stored
<1> QED
  BY <1>2, <1>3, <1>4

\* Every step keeps the three.
LEMMA HistoryNext ==
    Typed /\ Received /\ InTime /\ Founded /\ Remembered /\ Stored /\ [Next]_vars
        => Founded' /\ Remembered' /\ Stored'
<1> SUFFICES ASSUME Typed, Received, InTime, Founded, Remembered, Stored, [Next]_vars
             PROVE  Founded' /\ Remembered' /\ Stored'
  OBVIOUS
<1> USE DEF reload, memory, loop, history
<1>1. CASE Tick
  <2>1. now' = now + 1 /\ UNCHANGED <<windows, heard, rows, pc, hand>>
    BY <1>1 DEF Tick
  <2>2. \A h \in heard : h.rx >= now' - Window => h.rx >= now - Window
    <3>1. now \in Nat /\ Window \in Nat /\ \A h \in heard : h.rx \in Nat
      BY SignalsAssumption DEF Typed
    <3> QED
      BY <2>1, <3>1
  <2> QED
    BY <2>1, <2>2 DEF Founded, Remembered, Stored, Counted
<1>2. CASE Process
  BY <1>2, ProcessHistory
<1>3. CASE WriteEvent
  BY <1>3, WriteHistory
<1>4. CASE ResetTables
  <2>1. DOMAIN rows' = {} /\ UNCHANGED <<now, windows, pc, hand>>
    BY <1>4 DEF ResetTables
  <2>2. /\ \A h \in heard : \E k \in heard' : Same(h, k)
        /\ \A k \in heard' : \E h \in heard : Same(h, k)
        /\ \A k \in heard' : ~k.kept
    BY <1>4, ResetHeard
  <2>3. Founded'
    BY <2>1, <2>2 DEF Founded, Same
  <2>4. Remembered'
    BY <2>1, <2>2 DEF Remembered, Same
  <2>5. Stored'
    BY <2>1, <2>2 DEF Stored, Same, Counted
  <2> QED
    BY <2>3, <2>4, <2>5
<1>5. CASE Restart
  BY <1>5, RestartHistory
<1>6. CASE WriteError
  <2>1. UNCHANGED <<now, windows, heard, rows>> /\ pc' = "recv"
    BY <1>6 DEF WriteError, Change
  <2> QED
    BY <2>1 DEF Founded, Remembered, Stored
<1>7. CASE Send \/ WriteFile \/ ReplaceFile \/ Reload \/ UNCHANGED vars
  <2>1. UNCHANGED <<now, windows, heard, rows, pc, hand>>
    BY <1>7 DEF Send, WriteFile, ReplaceFile, Reload, Input, vars
  <2> QED
    BY <2>1 DEF Founded, Remembered, Stored, Counted
<1>8. CASE StartWatcher \/ MatchError
  <2>1. UNCHANGED <<now, windows, heard, rows>> /\ pc' # "write"
    BY <1>8 DEF StartWatcher, MatchError
  <2> QED
    BY <2>1 DEF Founded, Remembered, Stored
<1> QED
  BY <1>1, <1>2, <1>3, <1>4, <1>5, <1>6, <1>7, <1>8 DEF Next

------------------------------------------------------------------------------
(* The threats of a node.                                                    *)

\* With the event's threat recorded, the deque shows what the history does, within any
\* window of the table.
LEMMA RecordedMirrors ==
    ASSUME Typed, Mirrored, NEW e \in Events,
           NEW new, new = IF e.type = "NORMAL" THEN seen
                          ELSE seen \cup {[node |-> e.node, type |-> e.type, at |-> now]}
    PROVE  /\ \A i \in DOMAIN Recorded(e) :
                  [node |-> e.node, type |-> Recorded(e)[i].type,
                   at |-> Recorded(e)[i].at] \in new
           /\ \A s \in new : s.node = e.node /\ s.at >= now - KeptFor =>
                  \E i \in DOMAIN Recorded(e) :
                      Recorded(e)[i].type = s.type /\ Recorded(e)[i].at = s.at
<1> DEFINE q == signals[e.node]
           w == Recorded(e)
<1>1. /\ e.node \in Nodes /\ DOMAIN q = 1 .. Len(q) /\ Len(q) \in Nat
      /\ DOMAIN w = 1 .. (IF e.type = "NORMAL" THEN Len(q) ELSE Len(q) + 1)
      /\ \A i \in DOMAIN q : i \in DOMAIN w /\ w[i] = q[i]
      /\ e.type # "NORMAL" => w[Len(q) + 1] = [at |-> now, type |-> e.type]
  BY RecordedFacts
<1>2. /\ \A i \in DOMAIN q : [node |-> e.node, type |-> q[i].type, at |-> q[i].at] \in seen
      /\ \A s \in seen : s.node = e.node /\ s.at >= now - KeptFor =>
             \E i \in DOMAIN q : q[i].type = s.type /\ q[i].at = s.at
  BY <1>1 DEF Mirrored
<1> HIDE DEF q, w
<1>3. ASSUME NEW i \in DOMAIN w
      PROVE  [node |-> e.node, type |-> w[i].type, at |-> w[i].at] \in new
  <2>1. CASE i \in DOMAIN q
    BY <1>1, <1>2, <2>1
  <2>2. CASE e.type # "NORMAL" /\ i = Len(q) + 1
    BY <1>1, <2>2
  <2> QED
    BY <1>1, <2>1, <2>2
<1>4. ASSUME NEW s \in new, s.node = e.node, s.at >= now - KeptFor
      PROVE  \E i \in DOMAIN w : w[i].type = s.type /\ w[i].at = s.at
  <2>1. CASE s \in seen
    BY <1>1, <1>2, <1>4, <2>1
  <2>2. CASE e.type # "NORMAL" /\ s = [node |-> e.node, type |-> e.type, at |-> now]
    <3>1. Len(q) + 1 \in DOMAIN w
      BY <1>1, <2>2
    <3> QED
      BY <1>1, <2>2, <3>1
  <2> QED
    BY <1>4, <2>1, <2>2
<1> QED
  BY <1>3, <1>4 DEF w

\* Every step keeps Mirrored.
LEMMA MirroredNext == Typed /\ Mirrored /\ [Next]_vars => Mirrored'
<1> SUFFICES ASSUME Typed, Mirrored, [Next]_vars PROVE Mirrored'
  OBVIOUS
<1> USE DEF reload, memory, loop, history
<1>1. now \in Nat /\ KeptFor \in Nat
  BY KeptForIsLongest DEF Typed
<1>2. CASE Process
  <2>1. PICK e \in Events :
            /\ signals' = [signals EXCEPT ![e.node] = Evict(Recorded(e), now - KeptFor)]
            /\ seen' = IF e.type = "NORMAL" THEN seen
                       ELSE seen \cup {[node |-> e.node, type |-> e.type, at |-> now]}
            /\ now' = now
    BY <1>2, ProcessFacts DEF Processed
  <2> DEFINE w == Recorded(e)
             v == Evict(w, now - KeptFor)
  <2>2. /\ \A i \in DOMAIN w :
               [node |-> e.node, type |-> w[i].type, at |-> w[i].at] \in seen'
        /\ \A s \in seen' : s.node = e.node /\ s.at >= now - KeptFor =>
               \E i \in DOMAIN w : w[i].type = s.type /\ w[i].at = s.at
    BY <2>1, RecordedMirrors
  <2>3. e.node \in Nodes /\ w \in Seq(Entries) /\ now - KeptFor \in Int
    <3>1. e.node \in Nodes /\ w \in Seq(Entries)
      BY RecordedFacts
    <3>2. now - KeptFor \in Int
      BY <1>1
    <3> QED
      BY <3>1, <3>2
  <2>4. PICK c \in 0 .. Len(w) :
            /\ v \in Seq(Entries) /\ Len(v) = Len(w) - c
            /\ \A i \in 1 .. Len(w) - c : v[i] = w[c + i]
            /\ \A j \in 1 .. c : w[j].at < now - KeptFor
    BY <2>3, EvictTakesPrefix
  <2>5. /\ DOMAIN w = 1 .. Len(w) /\ Len(w) \in Nat /\ DOMAIN v = 1 .. Len(w) - c
        /\ \A i \in 1 .. Len(w) : w[i] \in Entries
    BY <2>3, <2>4, LenProperties, ElementOfSeq
  <2>6. /\ signals'[e.node] = v
        /\ \A n \in Nodes \ {e.node} : signals'[n] = signals[n]
    BY <2>1, <2>3 DEF Typed
  <2> HIDE DEF w, v
  <2>7. \A i \in DOMAIN v : [node |-> e.node, type |-> v[i].type, at |-> v[i].at] \in seen'
    <3>1. \A i \in DOMAIN v : c + i \in DOMAIN w /\ v[i] = w[c + i]
      BY <2>4, <2>5
    <3> QED
      BY <2>2, <3>1
  <2>8. ASSUME NEW s \in seen', s.node = e.node, s.at >= now - KeptFor
        PROVE  \E i \in DOMAIN v : v[i].type = s.type /\ v[i].at = s.at
    <3>1. PICK k \in DOMAIN w : w[k].type = s.type /\ w[k].at = s.at
      BY <2>2, <2>8
    <3>2. w[k].at \in Nat
      BY <2>5 DEF Entries
    <3>3. k \notin 1 .. c
      BY <1>1, <2>4, <2>8, <3>1, <3>2
    <3>4. k - c \in 1 .. Len(w) - c /\ c + (k - c) = k
      BY <2>5, <3>3
    <3>5. v[k - c] = w[c + (k - c)]
      BY <2>4, <3>4
    <3>6. v[k - c] = w[k] /\ k - c \in DOMAIN v
      BY <2>5, <3>4, <3>5
    <3> QED
      BY <3>1, <3>6
  <2>9. ASSUME NEW n \in Nodes \ {e.node}
        PROVE  /\ \A i \in DOMAIN signals[n] :
                      [node |-> n, type |-> signals[n][i].type,
                       at |-> signals[n][i].at] \in seen'
               /\ \A s \in seen' : s.node = n /\ s.at >= now - KeptFor =>
                      \E i \in DOMAIN signals[n] :
                          signals[n][i].type = s.type /\ signals[n][i].at = s.at
    BY <2>1 DEF Mirrored
  <2> QED
    BY <2>1, <2>6, <2>7, <2>8, <2>9 DEF Mirrored
<1>3. CASE Tick
  <2>1. now' = now + 1 /\ UNCHANGED <<signals, seen>>
    BY <1>3 DEF Tick
  <2>2. ASSUME NEW n \in Nodes, NEW s \in seen, s.node = n, s.at >= now + 1 - KeptFor
        PROVE  \E i \in DOMAIN signals[n] :
                   signals[n][i].type = s.type /\ signals[n][i].at = s.at
    <3>1. s.at \in Nat
      BY DEF Typed
    <3>2. s.at >= now - KeptFor
      BY <1>1, <2>2, <3>1
    <3> QED
      BY <2>2, <3>2 DEF Mirrored
  <2>3. \A n \in Nodes : \A i \in DOMAIN signals[n] :
            [node |-> n, type |-> signals[n][i].type, at |-> signals[n][i].at] \in seen
    BY DEF Mirrored
  <2>4. \A n \in Nodes :
            /\ \A i \in DOMAIN signals'[n] :
                   [node |-> n, type |-> signals'[n][i].type, at |-> signals'[n][i].at] \in seen'
            /\ \A s \in seen' : s.node = n /\ s.at >= now' - KeptFor =>
                   \E i \in DOMAIN signals'[n] :
                       signals'[n][i].type = s.type /\ signals'[n][i].at = s.at
    <3>1. now' = now + 1 /\ signals' = signals /\ seen' = seen
      BY <2>1
    <3>2. ASSUME NEW n \in Nodes, NEW s \in seen, s.node = n, s.at >= now' - KeptFor
          PROVE  \E i \in DOMAIN signals[n] :
                     signals[n][i].type = s.type /\ signals[n][i].at = s.at
      <4>1. s.at >= now + 1 - KeptFor
        <5>1. s.at \in Nat
          BY DEF Typed
        <5> QED
          BY <1>1, <3>1, <3>2, <5>1
      <4> QED
        BY <2>2, <3>2, <4>1
    <3> QED
      BY <2>3, <3>1, <3>2, Zenon
  <2> QED
    BY <2>4 DEF Mirrored
<1>4. CASE Restart
  <2>1. signals' = [n \in Nodes |-> << >>] /\ seen' = {}
    BY <1>4 DEF Restart
  <2>2. \A n \in Nodes : DOMAIN signals'[n] = {}
    BY <2>1
  <2> QED
    BY <2>1, <2>2 DEF Mirrored
<1>5. CASE \/ Send \/ WriteFile \/ ReplaceFile \/ Reload \/ StartWatcher \/ MatchError
           \/ WriteEvent \/ WriteError \/ ResetTables \/ UNCHANGED vars
  <2>1. UNCHANGED <<now, signals, seen>>
    BY <1>5 DEF Send, WriteFile, ReplaceFile, Reload, StartWatcher, MatchError, WriteEvent,
                WriteError, ResetTables, Input, Change, vars
  <2> QED
    BY <2>1 DEF Mirrored
<1> QED
  BY <1>2, <1>3, <1>4, <1>5 DEF Next

\* Only Process starts a decision; a window in order holds just the nodes of the history.
LEMMA CrossNodeNext ==
    Typed /\ Received /\ InTime /\ Founded /\ Remembered /\ Stored
          /\ CrossNodeMatchesHistory /\ [Next]_vars
        => CrossNodeMatchesHistory'
<1> SUFFICES ASSUME Typed, Received, InTime, Founded, Remembered, Stored,
                    CrossNodeMatchesHistory, [Next]_vars
             PROVE  CrossNodeMatchesHistory'
  OBVIOUS
<1> USE DEF reload, memory, loop, history
<1>1. CASE Process
  <2>1. PICK e \in Events, rx \in Nat : Processed(e, rx)
    BY <1>1, ProcessFacts
  <2>2. Founded' /\ Remembered' /\ Typed'
    BY HistoryNext, TypedNext
  <2>3. /\ e.node \in Nodes /\ now' = now /\ hand'.at = now /\ hand'.matched \subseteq RuleIds
        /\ hand'.cross = {r \in hand'.matched :
                            Cardinality(NodesIn(Checked(r, e.node))) >= Threshold}
        /\ \A r \in hand'.matched : windows'[r] = Checked(r, e.node)
    BY <2>1, RecordedFacts DEF Processed
  <2>4. ASSUME NEW r \in hand'.matched
        PROVE  LET surely == {h \in heard' : h.rx >= hand'.at - Window}
                   perhaps == {h \in heard' : h.at >= hand'.at - Window}
               IN /\ Cardinality(Across(r, surely)) >= Threshold => r \in hand'.cross
                  /\ r \in hand'.cross => Cardinality(Across(r, perhaps)) >= Threshold
    <3> DEFINE w == Checked(r, e.node)
               surely == {h \in heard' : h.rx >= now - Window}
               perhaps == {h \in heard' : h.at >= now - Window}
    <3>1. windows'[r] = w /\ r \in RuleIds
      BY <2>3
    <3>2. /\ w \in Seq(Hits)
          /\ \A i \in DOMAIN w : w[i].at >= now - Window
      BY <2>3, <3>1, CheckedFacts DEF InTime
    <3> HIDE DEF w
    <3>3. \A i \in DOMAIN w : w[i].node \in Nodes /\ w[i].at \in Nat
      <4>1. \A i \in DOMAIN w : w[i] \in Hits
        BY <3>2, LenProperties, ElementOfSeq
      <4> QED
        BY <4>1 DEF Hits
    <3>4. ASSUME NEW h \in surely, h.rule = r PROVE h.node \in NodesIn(w)
      <4>1. h \in heard' /\ h.rx >= now' - Window
        BY <2>3
      <4>2. \E i \in DOMAIN w : w[i].node = h.node
        BY <2>2, <3>1, <3>4, <4>1 DEF Remembered
      <4> QED
        BY <4>2 DEF NodesIn
    <3>5. ASSUME NEW i \in DOMAIN w PROVE \E h \in perhaps : h.rule = r /\ h.node = w[i].node
      <4>1. PICK h \in heard' : h.rule = r /\ h.node = w[i].node /\ h.at >= w[i].at
        BY <2>2, <3>1 DEF Founded
      <4>2. h.at \in Nat /\ now \in Nat /\ Window \in Nat
        BY <2>2, SignalsAssumption DEF Typed
      <4>3. h.at >= now - Window
        BY <3>2, <3>3, <4>1, <4>2
      <4> QED
        BY <4>1, <4>3
    <3>6. Across(r, surely) \subseteq NodesIn(w)
      BY <3>4 DEF Across
    <3>7. NodesIn(w) \subseteq Across(r, perhaps)
      BY <3>5 DEF Across, NodesIn
    <3>8. Across(r, perhaps) \subseteq Nodes
      BY <2>2 DEF Across, Typed
    <3> HIDE DEF surely, perhaps
    <3>9. /\ Cardinality(Across(r, surely)) <= Cardinality(NodesIn(w))
          /\ Cardinality(NodesIn(w)) <= Cardinality(Across(r, perhaps))
          /\ Cardinality(Across(r, surely)) \in Nat /\ Cardinality(NodesIn(w)) \in Nat
          /\ Cardinality(Across(r, perhaps)) \in Nat
      <4>1. IsFiniteSet(Nodes)
        BY SignalsAssumption
      <4>2. IsFiniteSet(Across(r, perhaps))
        BY <3>8, <4>1, FS_Subset
      <4>3. IsFiniteSet(NodesIn(w))
        BY <3>7, <4>2, FS_Subset
      <4>4. IsFiniteSet(Across(r, surely))
        BY <3>6, <4>3, FS_Subset
      <4> QED
        BY <3>6, <3>7, <4>2, <4>3, <4>4, FS_Subset, FS_CardinalityType
    <3>10. r \in hand'.cross <=> Cardinality(NodesIn(w)) >= Threshold
      BY <2>3 DEF w
    <3>11. Threshold \in Nat
      BY SignalsAssumption
    <3>12. /\ Cardinality(Across(r, surely)) >= Threshold => r \in hand'.cross
           /\ r \in hand'.cross => Cardinality(Across(r, perhaps)) >= Threshold
      BY <3>9, <3>10, <3>11
    <3> QED
      BY <2>3, <3>12 DEF surely, perhaps
  <2> QED
    BY <2>4 DEF CrossNodeMatchesHistory, Across
<1>2. CASE Restart \/ StartWatcher \/ MatchError \/ WriteEvent \/ WriteError
  <2>1. pc' # "write"
    BY <1>2 DEF Restart, StartWatcher, MatchError, WriteEvent, WriteError
  <2> QED
    BY <2>1 DEF CrossNodeMatchesHistory
<1>3. CASE ResetTables
  <2>1. UNCHANGED <<pc, hand>>
    BY <1>3 DEF ResetTables
  <2>2. /\ \A h \in heard : \E k \in heard' : Same(h, k)
        /\ \A k \in heard' : \E h \in heard : Same(h, k)
    BY <1>3, ResetHeard
  <2>3. \A r : Across(r, {h \in heard' : h.rx >= hand.at - Window})
                  = Across(r, {h \in heard : h.rx >= hand.at - Window})
    BY <2>2 DEF Across, Same
  <2>4. \A r : Across(r, {h \in heard' : h.at >= hand.at - Window})
                  = Across(r, {h \in heard : h.at >= hand.at - Window})
    BY <2>2 DEF Across, Same
  <2>5. pc = "write" => \A r \in hand.matched :
            LET surely == {h \in heard' : h.rx >= hand.at - Window}
                perhaps == {h \in heard' : h.at >= hand.at - Window}
            IN /\ Cardinality(Across(r, surely)) >= Threshold => r \in hand.cross
               /\ r \in hand.cross => Cardinality(Across(r, perhaps)) >= Threshold
    BY <2>3, <2>4 DEF CrossNodeMatchesHistory
  <2> QED
    BY <2>1, <2>5 DEF CrossNodeMatchesHistory, Across
<1>4. CASE \/ Tick \/ Send \/ WriteFile \/ ReplaceFile \/ Reload \/ UNCHANGED vars
  <2>1. UNCHANGED <<pc, hand, heard>>
    BY <1>4 DEF Tick, Send, WriteFile, ReplaceFile, Reload, Input, Change, vars
  <2> QED
    BY <2>1 DEF CrossNodeMatchesHistory, Across
<1> QED
  BY <1>1, <1>2, <1>3, <1>4 DEF Next

\* Only Process starts a decision, and the history stays while it is written.
LEMMA MultiSignalNext ==
    Typed /\ Mirrored /\ MultiSignalMatchesHistory /\ [Next]_vars
        => MultiSignalMatchesHistory'
<1> SUFFICES ASSUME Typed, Mirrored, MultiSignalMatchesHistory, [Next]_vars
             PROVE  MultiSignalMatchesHistory'
  OBVIOUS
<1> USE DEF reload, memory, loop, history
<1>1. CASE Process
  <2>1. PICK e \in Events :
            /\ seen' = IF e.type = "NORMAL" THEN seen
                       ELSE seen \cup {[node |-> e.node, type |-> e.type, at |-> now]}
            /\ hand'.node = e.node /\ hand'.at = now
            /\ hand'.multi = Matching(Recorded(e))
            /\ hand'.multiplier =
                   Best({Plain} \cup {r.multiplier : r \in hand'.multi}
                            \cup (IF hand'.cross = {} THEN {} ELSE {Factor}))
    BY <1>1, ProcessFacts DEF Processed
  <2> DEFINE w == Recorded(e)
             shown(d) == {s.type : s \in {t \in seen' : t.node = e.node /\ t.at >= now - d}}
             kept(d) == {w[i].type : i \in {j \in DOMAIN w : w[j].at >= now - d}}
  <2>2. /\ \A i \in DOMAIN w :
               [node |-> e.node, type |-> w[i].type, at |-> w[i].at] \in seen'
        /\ \A s \in seen' : s.node = e.node /\ s.at >= now - KeptFor =>
               \E i \in DOMAIN w : w[i].type = s.type /\ w[i].at = s.at
    BY <2>1, RecordedMirrors
  <2>3. \A s \in seen' : s.at \in Nat
    BY <2>1 DEF Typed
  <2>4. now \in Nat /\ \A i \in DOMAIN w : w[i].at \in Nat
    <3>1. w \in Seq(Entries)
      BY RecordedFacts
    <3>2. \A i \in DOMAIN w : w[i] \in Entries
      BY <3>1, LenProperties, ElementOfSeq
    <3> QED
      BY <3>2 DEF Entries, Typed
  <2>5. Matching(w) = {r \in SignalRules : r.types \subseteq kept(r.window)}
    BY DEF Matching
  <2>6. hand'.multi = {r \in SignalRules : r.types \subseteq kept(r.window)}
    BY <2>1, <2>5
  <2> HIDE DEF w
  <2>7. ASSUME NEW r \in SignalRules
        PROVE  shown(r.window) = kept(r.window)
    <3>1. r.window \in Nat /\ KeptFor \in Nat /\ KeptFor >= r.window
      BY SignalsAssumption, KeptForIsLongest
    <3>2. ASSUME NEW s \in seen', s.node = e.node, s.at >= now - r.window
          PROVE  \E i \in DOMAIN w : w[i].type = s.type /\ w[i].at >= now - r.window
      <4>1. s.at >= now - KeptFor
        BY <2>3, <2>4, <3>1, <3>2
      <4> QED
        BY <2>2, <3>2, <4>1
    <3>3. ASSUME NEW i \in DOMAIN w, w[i].at >= now - r.window
          PROVE  \E s \in seen' : /\ s.node = e.node /\ s.at >= now - r.window
                                  /\ s.type = w[i].type
      BY <2>2, <3>3
    <3>4. shown(r.window) \subseteq kept(r.window)
      BY <3>2
    <3>5. kept(r.window) \subseteq shown(r.window)
      BY <3>3
    <3> QED
      BY <3>4, <3>5
  <2> HIDE DEF kept
  <2>8. hand'.multi = {r \in SignalRules : r.types \subseteq shown(r.window)}
    BY <2>6, <2>7
  <2> DEFINE S == {Plain} \cup {r.multiplier : r \in hand'.multi}
                    \cup (IF hand'.cross = {} THEN {} ELSE {Factor})
  <2>9. Best(S) \in S /\ \A x \in S : Best(S) >= x
    <3>1. PICK big \in SignalRules : \A k \in SignalRules : big.multiplier >= k.multiplier
      BY SignalsAssumption
    <3> DEFINE b == big.multiplier + Plain + Factor
    <3>2. Plain \in Nat /\ Factor \in Nat /\ \A k \in SignalRules : k.multiplier \in Nat
      BY SignalsAssumption
    <3>3. b \in Nat /\ Plain <= b /\ Factor <= b
      BY <3>2
    <3>4. \A k \in SignalRules : k.multiplier <= b
      BY <3>1, <3>2
    <3>5. hand'.multi \subseteq SignalRules
      BY <2>8
    <3> HIDE DEF b
    <3>6. S \in SUBSET Nat /\ S # {} /\ \A x \in S : x <= b
      BY <3>2, <3>3, <3>4, <3>5
    <3> HIDE DEF S
    <3> QED
      BY <3>3, <3>6, BestIsLargest
  <2>10. Factors' = S
    BY DEF Factors
  <2>11. hand'.multiplier \in Factors' /\ \A f \in Factors' : hand'.multiplier >= f
    BY <2>1, <2>9, <2>10
  <2>12. hand'.multi =
            {r \in SignalRules : r.types \subseteq
                {s.type : s \in {t \in seen' : t.node = hand'.node
                                               /\ t.at >= hand'.at - r.window}}}
    BY <2>1, <2>8
  <2> QED
    BY <2>11, <2>12 DEF MultiSignalMatchesHistory
<1>2. CASE Restart \/ StartWatcher \/ MatchError \/ WriteEvent \/ WriteError
  <2>1. pc' # "write"
    BY <1>2 DEF Restart, StartWatcher, MatchError, WriteEvent, WriteError
  <2> QED
    BY <2>1 DEF MultiSignalMatchesHistory
<1>3. CASE \/ Tick \/ Send \/ WriteFile \/ ReplaceFile \/ Reload \/ ResetTables
           \/ UNCHANGED vars
  <2>1. UNCHANGED <<pc, hand, seen>>
    BY <1>3 DEF Tick, Send, WriteFile, ReplaceFile, Reload, ResetTables, Input, Change, vars
  <2>2. Factors' = Factors
    BY <2>1 DEF Factors
  <2> QED
    BY <2>1, <2>2 DEF MultiSignalMatchesHistory
<1> QED
  BY <1>1, <1>2, <1>3 DEF Next

------------------------------------------------------------------------------
(* The theorems.                                                             *)

\* The initial state has all of the invariants.
LEMMA InitHolds ==
    Init => /\ Typed /\ Received /\ InTime /\ Founded /\ Remembered /\ Stored /\ Mirrored
            /\ CrossNodeMatchesHistory /\ MultiSignalMatchesHistory
<1> SUFFICES ASSUME Init
             PROVE  /\ Typed /\ Received /\ InTime /\ Founded /\ Remembered /\ Stored
                    /\ Mirrored /\ CrossNodeMatchesHistory /\ MultiSignalMatchesHistory
  OBVIOUS
<1>1. /\ now = Start /\ inbox = << >> /\ seen = {} /\ heard = {} /\ pc = "boot"
      /\ file = RuleIds /\ rules = RuleIds /\ notices = 0 /\ hand = NoDecision /\ rows = << >>
      /\ windows = [r \in RuleIds |-> << >>] /\ signals = [n \in Nodes |-> << >>]
  BY DEF Init
<1>2. Start \in Nat /\ Start <= MaxTime /\ RuleIds \in Files /\ \A S : << >> \in Seq(S)
  BY SignalsAssumption, EmptySeq
<1>3. /\ \A n \in Nodes : DOMAIN signals[n] = {}
      /\ \A r \in RuleIds : DOMAIN windows[r] = {}
      /\ DOMAIN inbox = {} /\ DOMAIN rows = {}
  BY <1>1
<1>4. Typed
  BY <1>1, <1>2, NoDecisionFacts DEF Typed
<1>5. Received
  BY <1>1, <1>2, <1>3 DEF Received
<1>6. InTime
  BY <1>3 DEF InTime, Sorted
<1>7. Founded /\ Remembered
  BY <1>1, <1>3 DEF Founded, Remembered
<1>8. Stored
  BY <1>1, <1>3 DEF Stored
<1>9. Mirrored
  BY <1>1, <1>3 DEF Mirrored
<1> QED
  BY <1>1, <1>4, <1>5, <1>6, <1>7, <1>8, <1>9
     DEF CrossNodeMatchesHistory, MultiSignalMatchesHistory

\* Every queue, window and row keeps its type, and every window its order, whatever a restart
\* rebuilds it from (the Correlator's deques, the events table).
THEOREM SignalsTypeCorrect == Spec => []TypeOK
<1>1. Typed /\ Received /\ InTime => TypeOK
  <2> SUFFICES ASSUME Typed, Received, InTime PROVE TypeOK
    OBVIOUS
  <2>1. now \in Nat /\ Start \in Nat /\ MaxTime \in Nat
    BY SignalsAssumption DEF Typed
  <2>2. \A i \in DOMAIN inbox : inbox[i].rx \in Nat
    <3>1. \A i \in DOMAIN inbox : inbox[i] \in [e : Events, rx : Nat]
      BY LenProperties, ElementOfSeq DEF Typed
    <3> QED
      BY <3>1
  <2>3. \A i \in DOMAIN rows : rows[i].rx \in Nat /\ rows[i].matched \subseteq RuleIds
    <3>1. \A i \in DOMAIN rows : rows[i] \in [node : Nodes, matched : SUBSET RuleIds, rx : Nat]
      BY LenProperties, ElementOfSeq DEF Typed
    <3> QED
      BY <3>1
  <2>4. \A r \in RuleIds : \A i \in DOMAIN windows[r] :
            windows[r][i].at \in Nat /\ windows[r][i].node \in Nodes
    <3>1. \A r \in RuleIds : \A i \in DOMAIN windows[r] : windows[r][i] \in Hits
      BY LenProperties, ElementOfSeq DEF Typed
    <3> QED
      BY <3>1 DEF Hits
  <2>5. \A n \in Nodes : \A i \in DOMAIN signals[n] :
            signals[n][i].at \in Nat /\ signals[n][i].type \in Types
    <3>1. \A n \in Nodes : \A i \in DOMAIN signals[n] : signals[n][i] \in Entries
      BY LenProperties, ElementOfSeq DEF Typed
    <3> QED
      BY <3>1 DEF Entries
  <2>6. /\ now \in Start .. MaxTime
        /\ \A i \in DOMAIN inbox : inbox[i].rx \in Start .. now
        /\ \A i \in DOMAIN rows : rows[i].matched \subseteq RuleIds /\ rows[i].rx \in Start .. now
    BY <2>1, <2>2, <2>3 DEF Received
  <2>7. \A r \in RuleIds : \A i, j \in DOMAIN windows[r] :
            /\ windows[r][i].at \in Start .. now /\ windows[r][i].node \in Nodes
            /\ i < j => windows[r][i].at <= windows[r][j].at
    BY <2>1, <2>4 DEF InTime, Sorted
  <2>8. \A n \in Nodes : \A i \in DOMAIN signals[n] :
            signals[n][i].type \in Types \ {"NORMAL"} /\ signals[n][i].at \in Start .. now
    BY <2>1, <2>5 DEF InTime
  <2> QED
    BY <2>6, <2>7, <2>8 DEF TypeOK, Typed
<1>2. Typed /\ Received /\ InTime /\ [Next]_vars => Typed' /\ Received' /\ InTime'
  BY TypedNext, ReceivedNext, InTimeNext
<1> QED
  BY <1>1, <1>2, InitHolds, PTL DEF Spec

\* Correlator.check and warm_restart: a decision is correlated across nodes when enough nodes
\* were received with the rule within the window, and only when enough were processed within
\* it, for any threshold and window, any length of a day, and any failures, resets of the table
\* and restarts.
THEOREM CrossNodesAreCounted == Spec => []CrossNodeMatchesHistory
<1>1. Typed /\ Received /\ InTime /\ Founded /\ Remembered /\ Stored
            /\ CrossNodeMatchesHistory /\ [Next]_vars
          => /\ Typed' /\ Received' /\ InTime' /\ Founded' /\ Remembered' /\ Stored'
             /\ CrossNodeMatchesHistory'
  BY TypedNext, ReceivedNext, InTimeNext, HistoryNext, CrossNodeNext
<1> QED
  BY <1>1, InitHolds, PTL DEF Spec

\* check_multi_signal (correlation.py) decides what was recorded for the node: whatever the
\* table of rules, the times of the events and the restarts, a decision counts exactly the
\* combinations of threats recorded within their windows since the engine started, although the
\* deque is pruned by the longest window only, and its multiplier is the largest of theirs,
\* the plain one and the cross-node factor.
THEOREM SignalsAreCounted == Spec => []MultiSignalMatchesHistory
<1>1. Typed /\ Mirrored /\ MultiSignalMatchesHistory /\ [Next]_vars
          => Typed' /\ Mirrored' /\ MultiSignalMatchesHistory'
  BY TypedNext, MirroredNext, MultiSignalNext
<1> QED
  BY <1>1, InitHolds, PTL DEF Spec

=============================================================================
