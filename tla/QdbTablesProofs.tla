-------------------------- MODULE QdbTablesProofs --------------------------
(***************************************************************************)
(* The lists and chains of QdbTables, for any number of messages, queues,  *)
(* leases and buckets and any hash function.                               *)
(*                                                                         *)
(* First the inductive invariant, and what relinking a list or a chain     *)
(* does to it.  It adds to ListsAgree and ChainsAgree that a message is on *)
(* a list only while it is PENDING, and on the list of its own queue only  *)
(* (so that relinking one list cannot touch another), that ids are fresh,  *)
(* and, for the expiry walk, that every lease still due lies in front of   *)
(* it.  Then one lemma per operation and per step of the walk.             *)
(*                                                                         *)
(* On top of it, the counters of the queues count what they are to count,  *)
(* and the sums that qdb_stats makes of them, along the chains of the      *)
(* queue table, are the sizes of the sets of messages and leases.          *)
(***************************************************************************)
EXTENDS QdbStats, FiniteSetTheorems, TLAPS

-----------------------------------------------------------------------------
(* Sequences.                                                              *)

\* Taking out the element at i moves the later ones forward.
LEMMA DropAtFacts ==
  ASSUME NEW S, NEW s \in Seq(S), NEW i \in 1..Len(s)
  PROVE  /\ DropAt(s, i) \in Seq(S)
         /\ Len(DropAt(s, i)) = Len(s) - 1
         /\ \A j \in 1..(Len(s) - 1) :
              DropAt(s, i)[j] = IF j < i THEN s[j] ELSE s[j + 1]
<1> DEFINE u == SubSeq(s, 1, i - 1)
           v == SubSeq(s, i + 1, Len(s))
<1>1. u \in Seq(S) /\ Len(u) = i - 1 /\ \A j \in 1..(i - 1) : u[j] = s[j]
  OBVIOUS
<1>2. v \in Seq(S) /\ Len(v) = Len(s) - i /\ \A j \in 1..(Len(s) - i) : v[j] = s[i + j]
  OBVIOUS
<1>3. DropAt(s, i) = u \o v
  BY Zenon DEF DropAt
<1> HIDE DEF u, v
<1>4. u \o v \in Seq(S) /\ Len(u \o v) = Len(s) - 1
  BY <1>1, <1>2
<1>5. ASSUME NEW j \in 1..(Len(s) - 1)
      PROVE  (u \o v)[j] = IF j < i THEN s[j] ELSE s[j + 1]
  <2>1. CASE j < i
    BY <1>1, <1>2, <2>1
  <2>2. CASE ~(j < i)
    <3>1. (u \o v)[j] = v[j - (i - 1)]
      BY <1>1, <1>2, <2>2, SMTT(30)
    <3>2. j - (i - 1) \in 1..(Len(s) - i) /\ i + (j - (i - 1)) = j + 1
      BY <2>2
    <3>3. v[j - (i - 1)] = s[j + 1]
      BY <1>2, <3>2, Zenon
    <3> QED
      BY <2>2, <3>1, <3>3, Zenon
  <2> QED
    BY ONLY <2>1, <2>2, Zenon
<1> QED
  BY <1>3, <1>4, <1>5, Zenon

\* IndexOf finds the position of an element that occurs.
LEMMA IndexOfFacts ==
  ASSUME NEW S, NEW s \in Seq(S), NEW i \in 1..Len(s)
  PROVE  IndexOf(s, s[i]) \in 1..Len(s) /\ s[IndexOf(s, s[i])] = s[i]
<1>1. i \in DOMAIN s
  OBVIOUS
<1>2. IndexOf(s, s[i]) \in DOMAIN s /\ s[IndexOf(s, s[i])] = s[i]
  BY <1>1, Zenon DEF IndexOf
<1> QED
  BY <1>2

-----------------------------------------------------------------------------
(* Doubly linked lists.                                                    *)

Distinct(s) == \A i, j \in 1..Len(s) : s[i] = s[j] => i = j

\* The links nx and pv, from h and from t, spell the sequence s.
Linked(s, nx, pv, h, t) ==
  /\ h = At(s, 1) /\ t = At(s, Len(s))
  /\ \A i \in 1..Len(s) : nx[s[i]] = At(s, i + 1) /\ pv[s[i]] = At(s, i - 1)

\* The link at x that led to m leads to y, and m's own link is cleared.
LinkPast(link, m, x, y) ==
  [k \in MsgIds |-> IF k = m THEN 0 ELSE IF k = x THEN y ELSE link[k]]

-----------------------------------------------------------------------------
(* Hash chains.                                                            *)

\* The links nx, from h, spell the sequence c.
Chained(c, nx, h) ==
  /\ h = At(c, 1)
  /\ \A i \in 1..Len(c) : nx[c[i]] = At(c, i + 1)

\* Whatever led to l leads to where l led, and l's own link is cleared.
CutPast(link, l) ==
  [x \in LeaseIds |-> IF x = l THEN 0 ELSE IF link[x] = l THEN link[l] ELSE link[x]]

-----------------------------------------------------------------------------
(* The inductive invariant.                                                *)

OnList(q) ==
  \A i \in 1..Len(fifo[q]) : state[fifo[q][i]] = "PENDING" /\ mqueue[fifo[q][i]] = q

Lists ==
  \A q \in QueueNames :
    /\ Linked(fifo[q], next, prev, head[q], tail[q])
    /\ pending[q] = Len(fifo[q])
    /\ Distinct(fifo[q])
    /\ OnList(q)

Chains ==
  /\ \A b \in 1..Buckets :
       /\ Chained(chain[b], lnext, bucket[b])
       /\ Distinct(chain[b])
       /\ \A i \in 1..Len(chain[b]) : chain[b][i] \in live /\ Bucket[chain[b][i]] = b
  /\ \A l \in live : \E i \in 1..Len(chain[Bucket[l]]) : chain[Bucket[l]][i] = l

Leasing ==
  /\ \A l \in live : lmsg[l] \in MsgIds /\ Leased(lmsg[l], l)
  /\ \A m \in MsgIds : state[m] = "LEASED" => mlease[m] \in live /\ lmsg[mlease[m]] = m

Fresh ==
  /\ \A m \in MsgIds : m >= next_msg => state[m] = "none"
  /\ \A l \in live : l < next_lease

\* Lease l is the walk's current entry or further down the same chain.
Ahead(l) ==
  \E i, j \in 1..Len(chain[walk.b]) :
    chain[walk.b][i] = walk.l /\ chain[walk.b][j] = l /\ i <= j

Walking ==
  walk.on =>
    /\ walk.b \in 1..Buckets
    /\ walk.kept \subseteq live /\ live \subseteq walk.kept \cup walk.due
    /\ walk.kept \cap walk.due = {}
    /\ Cardinality(walk.due \ live) = walk.processed
    /\ \A l \in live : l \in walk.due <=> lexp[l] < walk.now
    /\ walk.l # 0 => walk.l \in live /\ Bucket[walk.l] = walk.b
    /\ \A l \in live \cap walk.due :
         Bucket[l] > walk.b \/ (Bucket[l] = walk.b /\ Ahead(l))

ListTypes ==
  /\ next \in [MsgIds -> MsgIds \cup {0}] /\ prev \in [MsgIds -> MsgIds \cup {0}]
  /\ head \in [QueueNames -> MsgIds \cup {0}] /\ tail \in [QueueNames -> MsgIds \cup {0}]
  /\ pending \in [QueueNames -> Int]
  /\ fifo \in [QueueNames -> Seq(MsgIds)]

LeaseTypes ==
  /\ live \subseteq LeaseIds
  /\ lmsg \in [LeaseIds -> MsgIds \cup {0}] /\ lexp \in [LeaseIds -> Nat]
  /\ lnext \in [LeaseIds -> LeaseIds \cup {0}]
  /\ bucket \in [1..Buckets -> LeaseIds \cup {0}]
  /\ chain \in [1..Buckets -> Seq(LeaseIds)]

MsgTypes ==
  /\ state \in [MsgIds -> {"none", "PENDING", "LEASED", "ACKED"}]
  /\ mqueue \in [MsgIds -> QueueNames]
  /\ mlease \in [MsgIds -> LeaseIds \cup {0}]
  /\ leased \in [QueueNames -> Int] /\ acked \in [QueueNames -> Int]
  /\ next_msg \in 1..(MaxMsg + 1) /\ next_lease \in 1..(MaxLease + 1)

WalkType ==
  walk \in [on : BOOLEAN, b : 0..Buckets, l : LeaseIds \cup {0}, now : Nat,
            processed : Nat, due : SUBSET LeaseIds, kept : SUBSET LeaseIds]

Base == MsgTypes /\ ListTypes /\ LeaseTypes /\ Lists /\ Chains /\ Leasing /\ Fresh

TInv == Base /\ WalkType /\ Walking

\* Appending a message that is on no list keeps all lists well linked.
LEMMA AppendKeepsLists ==
  ListTypes /\ Lists =>
    \A q \in QueueNames, m \in MsgIds :
      /\ \A x \in QueueNames : \A i \in 1..Len(fifo[x]) : fifo[x][i] # m
      /\ pending_append(q, m)
      /\ state'[m] = "PENDING" /\ mqueue'[m] = q
      /\ \A x \in MsgIds \ {m} : state'[x] = state[x] /\ mqueue'[x] = mqueue[x]
      => ListTypes' /\ Lists'
\* qdb__queue_pending_append on a message that is not on the list.
<1>AppendLinked.
    ASSUME BoundsAssumption,
           NEW s \in Seq(MsgIds), Distinct(s),
           NEW m \in MsgIds, \A i \in 1..Len(s) : s[i] # m,
           NEW nx \in [MsgIds -> MsgIds \cup {0}], NEW pv \in [MsgIds -> MsgIds \cup {0}],
           NEW h, NEW t, Linked(s, nx, pv, h, t),
           NEW nx2, nx2 = [n \in MsgIds |-> IF n = m THEN 0 ELSE IF n = t THEN m ELSE nx[n]],
           NEW pv2, pv2 = [pv EXCEPT ![m] = t]
    PROVE  /\ Linked(Append(s, m), nx2, pv2, IF t = 0 THEN m ELSE h, m)
           /\ Distinct(Append(s, m))
  <2> USE <1>AppendLinked
  <2> DEFINE k == Len(s)
             a == Append(s, m)
  <2>1. k \in Nat /\ a \in Seq(MsgIds) /\ Len(a) = k + 1
    OBVIOUS
  <2>2. a[k + 1] = m /\ \A i \in 1..k : a[i] = s[i] /\ s[i] \in MsgIds /\ s[i] # m /\ s[i] # 0
    BY DEF MsgIds
  <2>3. t = IF k = 0 THEN 0 ELSE s[k]
    BY <2>1 DEF Linked, At
  <2>4. h = IF k = 0 THEN 0 ELSE s[1]
    BY <2>1 DEF Linked, At
  <2>5. \A i \in 1..k : nx[s[i]] = At(s, i + 1) /\ pv[s[i]] = At(s, i - 1)
    BY Zenon DEF Linked
  <2>6. \A i, j \in 1..k : s[i] = s[j] => i = j
    BY Zenon DEF Distinct
  <2> HIDE DEF k, a
  <2>7. t = 0 <=> k = 0
    BY <2>1, <2>2, <2>3
  <2>8. Distinct(a)
    BY <2>1, <2>2, <2>6 DEF Distinct
  <2>9. (IF t = 0 THEN m ELSE h) = At(a, 1) /\ m = At(a, Len(a))
    BY <2>1, <2>2, <2>4, <2>7 DEF At
  <2>10. ASSUME NEW i \in 1..(k + 1)
         PROVE  nx2[a[i]] = At(a, i + 1) /\ pv2[a[i]] = At(a, i - 1)
    <3>1. CASE i = k + 1
      <4>1. nx2[m] = 0 /\ pv2[m] = t
        BY Zenon
      <4>2. At(a, i + 1) = 0
        BY <2>1, <3>1 DEF At
      <4>3. At(a, i - 1) = t
        BY <2>1, <2>2, <2>3, <3>1 DEF At
      <4> QED
        BY <2>2, <3>1, <4>1, <4>2, <4>3, Zenon
    <3>2. CASE i \in 1..k
      <4>1. /\ a[i] = s[i] /\ a[i] # m /\ s[i] \in MsgIds
            /\ nx2[s[i]] = IF s[i] = t THEN m ELSE nx[s[i]]
            /\ pv2[s[i]] = pv[s[i]]
        BY <2>2, <3>2, Zenon
      <4>2. s[i] = t <=> i = k
        BY <2>1, <2>3, <2>6, <3>2
      <4>3. At(a, i - 1) = At(s, i - 1)
        <5>1. k = Len(s)
          BY Zenon DEF k
        <5>2. CASE i = 1
          BY <2>1, <5>1, <5>2 DEF At
        <5>3. CASE i - 1 \in 1..k
          BY <2>1, <2>2, <5>1, <5>3 DEF At
        <5> QED
          BY <2>1, <3>2, <5>2, <5>3
      <4>4. pv2[a[i]] = At(a, i - 1)
        BY ONLY <2>5, <3>2, <4>1, <4>3, Zenon
      <4>5. CASE i = k
        <5>1. At(a, i + 1) = m
          BY <2>1, <2>2, <4>5 DEF At
        <5> QED
          BY <4>1, <4>2, <4>4, <4>5, <5>1, Zenon
      <4>6. CASE i # k
        <5>1. At(a, i + 1) = At(s, i + 1)
          BY <2>1, <2>2, <3>2, <4>6 DEF At, k
        <5> QED
          BY <2>5, <3>2, <4>1, <4>2, <4>4, <4>6, <5>1, Zenon
      <4> QED
        BY <4>5, <4>6, Zenon
    <3> QED
      BY <2>1, <3>1, <3>2
  <2>11. Linked(a, nx2, pv2, IF t = 0 THEN m ELSE h, m)
    BY <2>1, <2>9, <2>10, Zenon DEF Linked
  <2> QED
    BY <2>8, <2>11, Zenon DEF a
<1> SUFFICES ASSUME ListTypes, Lists, NEW q \in QueueNames, NEW m \in MsgIds,
                    \A x \in QueueNames : \A i \in 1..Len(fifo[x]) : fifo[x][i] # m,
                    pending_append(q, m),
                    state'[m] = "PENDING", mqueue'[m] = q,
                    \A x \in MsgIds \ {m} : state'[x] = state[x] /\ mqueue'[x] = mqueue[x]
             PROVE  ListTypes' /\ Lists'
  BY Zenon
<1> USE BoundsAssumption
<1>1. /\ fifo[q] \in Seq(MsgIds) /\ tail[q] \in MsgIds \cup {0}
      /\ Linked(fifo[q], next, prev, head[q], tail[q]) /\ Distinct(fifo[q])
      /\ pending[q] = Len(fifo[q])
  BY Zenon DEF ListTypes, Lists
<1>2. /\ next' = [n \in MsgIds |-> IF n = m THEN 0 ELSE IF n = tail[q] THEN m ELSE next[n]]
      /\ prev' = [prev EXCEPT ![m] = tail[q]]
      /\ head' = IF tail[q] = 0 THEN [head EXCEPT ![q] = m] ELSE head
      /\ tail' = [tail EXCEPT ![q] = m]
      /\ pending' = [pending EXCEPT ![q] = @ + 1]
      /\ fifo' = [fifo EXCEPT ![q] = Append(@, m)]
  BY Zenon DEF pending_append
<1>3. ListTypes'
  <2>1. next' \in [MsgIds -> MsgIds \cup {0}]
    BY <1>2, Zenon DEF ListTypes
  <2>2. prev' \in [MsgIds -> MsgIds \cup {0}]
    BY <1>1, <1>2, Zenon DEF ListTypes
  <2>3. head' \in [QueueNames -> MsgIds \cup {0}] /\ tail' \in [QueueNames -> MsgIds \cup {0}]
    BY <1>2, Zenon DEF ListTypes
  <2>4. pending' \in [QueueNames -> Int]
    BY <1>2 DEF ListTypes
  <2>5. Append(fifo[q], m) \in Seq(MsgIds)
    BY <1>1
  <2>6. fifo' \in [QueueNames -> Seq(MsgIds)]
    BY <1>2, <2>5, Zenon DEF ListTypes
  <2> QED
    BY <2>1, <2>2, <2>3, <2>4, <2>6, Zenon DEF ListTypes
<1>4. /\ fifo'[q] = Append(fifo[q], m) /\ tail'[q] = m
      /\ head'[q] = IF tail[q] = 0 THEN m ELSE head[q]
      /\ pending'[q] = pending[q] + 1
  BY <1>2, Zenon DEF ListTypes
<1>5. /\ Linked(fifo'[q], next', prev', head'[q], tail'[q]) /\ Distinct(fifo'[q])
  <2>1. \A i \in 1..Len(fifo[q]) : fifo[q][i] # m
    BY Zenon
  <2>2. next \in [MsgIds -> MsgIds \cup {0}] /\ prev \in [MsgIds -> MsgIds \cup {0}]
    BY Zenon DEF ListTypes
  <2>3. /\ Linked(Append(fifo[q], m), next', prev', IF tail[q] = 0 THEN m ELSE head[q], m)
        /\ Distinct(Append(fifo[q], m))
    BY ONLY <1>1, <1>2, <2>1, <2>2, m \in MsgIds, BoundsAssumption, <1>AppendLinked, ZenonT(40)
  <2> QED
    BY ONLY <1>4, <2>3, Zenon
<1>6. pending'[q] = Len(fifo'[q]) /\ OnList(q)'
  <2>1. Len(fifo'[q]) = Len(fifo[q]) + 1 /\ Len(fifo[q]) \in Nat
    BY <1>1, <1>4, SMTT(60)
  <2>2. \A i \in 1..Len(fifo[q]) : fifo'[q][i] = fifo[q][i] /\ fifo[q][i] \in MsgIds
    BY <1>1, <1>4, SMTT(60)
  <2>3. fifo'[q][Len(fifo[q]) + 1] = m
    BY <1>1, <1>4, SMTT(60)
  <2>4. \A i \in 1..Len(fifo[q]) : state[fifo[q][i]] = "PENDING" /\ mqueue[fifo[q][i]] = q
    BY Zenon DEF Lists, OnList
  <2>5. ASSUME NEW i \in 1..(Len(fifo[q]) + 1)
        PROVE  state'[fifo'[q][i]] = "PENDING" /\ mqueue'[fifo'[q][i]] = q
    <3>1. CASE i \in 1..Len(fifo[q])
      BY <2>2, <2>4, <3>1, SMTT(60)
    <3>2. CASE i = Len(fifo[q]) + 1
      BY <2>3, <3>2, Zenon
    <3> QED
      BY <2>1, <3>1, <3>2, SMTT(60)
  <2> QED
    BY <1>1, <1>4, <2>1, <2>5, Zenon DEF OnList
<1>7. ASSUME NEW x \in QueueNames, x # q
      PROVE  /\ Linked(fifo'[x], next', prev', head'[x], tail'[x])
             /\ pending'[x] = Len(fifo'[x]) /\ Distinct(fifo'[x]) /\ OnList(x)'
  <2>1. fifo'[x] = fifo[x] /\ head'[x] = head[x] /\ tail'[x] = tail[x] /\ pending'[x] = pending[x]
    BY <1>2, <1>7, Zenon DEF ListTypes
  <2>2. /\ fifo[x] \in Seq(MsgIds) /\ Linked(fifo[x], next, prev, head[x], tail[x])
        /\ pending[x] = Len(fifo[x]) /\ Distinct(fifo[x]) /\ OnList(x)
    BY Zenon DEF ListTypes, Lists
  <2>3. tail[q] # 0 => mqueue[tail[q]] = q
    <3>1. tail[q] = At(fifo[q], Len(fifo[q])) /\ OnList(q)
      BY Zenon DEF Lists, Linked
    <3> QED
      BY <3>1 DEF At, OnList
  <2>4. \A i \in 1..Len(fifo[x]) :
          /\ fifo[x][i] \in MsgIds /\ fifo[x][i] # m /\ fifo[x][i] # 0
          /\ fifo[x][i] # tail[q]
    BY <1>7, <2>2, <2>3, SMTT(60) DEF OnList, MsgIds
  <2>5. \A i \in 1..Len(fifo[x]) :
          /\ next'[fifo[x][i]] = next[fifo[x][i]] /\ prev'[fifo[x][i]] = prev[fifo[x][i]]
          /\ state'[fifo[x][i]] = state[fifo[x][i]] /\ mqueue'[fifo[x][i]] = mqueue[fifo[x][i]]
    BY <1>2, <2>4, Zenon DEF ListTypes
  <2>6. Linked(fifo[x], next', prev', head[x], tail[x])
    BY ONLY <2>2, <2>5, ZenonT(40) DEF Linked
  <2>7. \A i \in 1..Len(fifo[x]) : state'[fifo[x][i]] = "PENDING" /\ mqueue'[fifo[x][i]] = x
    BY ONLY <2>2, <2>5, Zenon DEF OnList
  <2> QED
    BY ONLY <2>1, <2>2, <2>6, <2>7, Zenon DEF OnList
<1> QED
  BY <1>3, <1>5, <1>6, <1>7, Zenon DEF Lists

\* Unlinking the message at position c of a list keeps all lists well linked.
LEMMA RemoveKeepsLists ==
  ListTypes /\ Lists =>
    \A q \in QueueNames : \A c \in 1..Len(fifo[q]) : \A m :
      /\ m = fifo[q][c]
      /\ pending_remove(q, m)
      /\ mqueue' = mqueue
      /\ \A x \in MsgIds \ {m} : state'[x] = state[x]
      => ListTypes' /\ Lists'
\* qdb__queue_pending_remove on the message at position c of the list.
<1>RemoveLinked.
    ASSUME BoundsAssumption,
           NEW s \in Seq(MsgIds), Distinct(s), NEW c \in 1..Len(s),
           NEW nx \in [MsgIds -> MsgIds \cup {0}], NEW pv \in [MsgIds -> MsgIds \cup {0}],
           NEW h, NEW t, Linked(s, nx, pv, h, t)
    PROVE  LET m == s[c] p == pv[m] n == nx[m] r == DropAt(s, c) IN
           /\ Linked(r, LinkPast(nx, m, p, n), LinkPast(pv, m, n, p),
                     IF p = 0 THEN n ELSE h, IF n = 0 THEN p ELSE t)
           /\ Distinct(r)
           /\ \A i \in 1..Len(r) : r[i] # m
  <2> USE <1>RemoveLinked
  <2> DEFINE m == s[c]
             p == pv[m]
             n == nx[m]
             nx2 == LinkPast(nx, m, p, n)
             pv2 == LinkPast(pv, m, n, p)
  <2>0. /\ m = s[c] /\ p = pv[m] /\ n = nx[m]
        /\ nx2 = [x \in MsgIds |-> IF x = m THEN 0 ELSE IF x = p THEN n ELSE nx[x]]
        /\ pv2 = [x \in MsgIds |-> IF x = m THEN 0 ELSE IF x = n THEN p ELSE pv[x]]
    BY Zenon DEF LinkPast
  <2> HIDE DEF m, p, n, nx2, pv2
  <2> USE <2>0
  <2> DEFINE k == Len(s)
             r == DropAt(s, c)
  <2>1. k \in Nat /\ c \in 1..k /\ r \in Seq(MsgIds) /\ Len(r) = k - 1
    BY DropAtFacts
  <2>2. /\ \A j \in 1..(k - 1) : j < c => r[j] = s[j]
        /\ \A j \in 1..(k - 1) : j >= c => r[j] = s[j + 1]
    <3>1. \A j \in 1..(k - 1) : r[j] = IF j < c THEN s[j] ELSE s[j + 1]
      BY DropAtFacts, Zenon
    <3>2. \A j \in 1..(k - 1) : j >= c => ~(j < c)
      BY <2>1
    <3> QED
      BY <3>1, <3>2, Zenon
  <2>3. \A i \in 1..k : s[i] \in MsgIds /\ s[i] # 0
    <3>1. \A i \in 1..k : s[i] \in MsgIds
      OBVIOUS
    <3>2. 0 \notin MsgIds
      BY DEF MsgIds
    <3> QED
      BY ONLY <3>1, <3>2, Zenon
  <2>4. \A i \in 1..k : nx[s[i]] = At(s, i + 1) /\ pv[s[i]] = At(s, i - 1)
    BY Zenon DEF Linked
  <2>5. h = At(s, 1) /\ t = At(s, k)
    BY Zenon DEF Linked
  <2>6. \A i, j \in 1..k : s[i] = s[j] => i = j
    BY Zenon DEF Distinct
  <2>7. k = Len(s) /\ r = DropAt(s, c)
    BY Zenon
  <2> HIDE DEF k, r
  <2>8. \A j \in Int : j < c => At(r, j) = At(s, j)
    BY <2>1, <2>2, <2>7 DEF At
  <2>9. \A j \in Int : j >= c => At(r, j) = At(s, j + 1)
    BY <2>1, <2>2, <2>7 DEF At
  <2>10. p = At(s, c - 1) /\ n = At(s, c + 1) /\ m = s[c]
    BY <2>1, <2>4, Zenon
  <2>11. \A j \in Int : At(s, j) = 0 <=> j \notin 1..k
    BY <2>3, <2>7, Zenon DEF At
  <2>12. \A i \in 1..k, j \in Int : s[i] = At(s, j) => i = j
    BY <2>3, <2>6, <2>7, Zenon DEF At
  <2>13. \A i \in 1..k : At(s, i) = s[i]
    BY <2>7, Zenon DEF At
  <2>14. Distinct(r)
    <3>1. ASSUME NEW i \in 1..(k - 1), NEW j \in 1..(k - 1), r[i] = r[j]
          PROVE  i = j
      BY <2>1, <2>2, <2>6, <3>1, SMTT(30)
    <3> QED
      BY <2>1, <3>1, Zenon DEF Distinct
  <2>15. \A i \in 1..(k - 1) : r[i] # m
    BY <2>1, <2>2, <2>6, <2>10
  <2>16. (IF p = 0 THEN n ELSE h) = At(r, 1)
    <3>1. CASE p = 0
      <4>1. c = 1
        BY <2>1, <2>10, <2>11, <3>1
      <4> QED
        BY <2>9, <2>10, <3>1, <4>1
    <3>2. CASE p # 0
      <4>1. 1 < c
        BY <2>1, <2>10, <2>11, <3>2
      <4> QED
        BY <2>5, <2>8, <3>2, <4>1
    <3> QED
      BY <3>1, <3>2, Zenon
  <2>17. (IF n = 0 THEN p ELSE t) = At(r, Len(r))
    <3>1. CASE n = 0
      <4>1. c = k
        BY <2>1, <2>10, <2>11, <3>1
      <4>2. Len(r) = c - 1 /\ c - 1 \in Int /\ c - 1 < c
        BY <2>1, <4>1
      <4> QED
        BY <2>8, <2>10, <3>1, <4>2, Zenon
    <3>2. CASE n # 0
      <4>1. k - 1 \in Int /\ k - 1 >= c /\ (k - 1) + 1 = k
        BY <2>1, <2>10, <2>11, <3>2, SMTT(30)
      <4> QED
        BY <2>1, <2>5, <2>9, <3>2, <4>1, Zenon
    <3> QED
      BY <3>1, <3>2, Zenon
  <2>18. ASSUME NEW j \in 1..(k - 1)
         PROVE  nx2[r[j]] = At(r, j + 1)
    <3>1. r[j] \in MsgIds /\ r[j] # m /\ j \in Int
      BY <2>1, <2>15
    <3>2. CASE j = c - 1
      <4>1. r[j] = p
        BY <2>1, <2>2, <2>10, <2>13, <3>2
      <4>2. At(r, j + 1) = n
        BY <2>1, <2>9, <2>10, <3>2
      <4> QED
        BY <3>1, <4>1, <4>2, Zenon
    <3>3. CASE j < c - 1
      <4>1. r[j] = s[j] /\ s[j] # p /\ j \in 1..k
        BY <2>1, <2>2, <2>10, <2>12, <3>3, SMTT(30)
      <4>2. At(r, j + 1) = At(s, j + 1)
        BY <2>1, <2>8, <3>3
      <4> QED
        BY <2>4, <3>1, <4>1, <4>2, Zenon
    <3>4. CASE j >= c
      <4>1. r[j] = s[j + 1] /\ s[j + 1] # p /\ j + 1 \in 1..k
        BY <2>1, <2>2, <2>10, <2>12, <3>4, SMTT(30)
      <4>2. At(r, j + 1) = At(s, (j + 1) + 1)
        BY <2>1, <2>9, <3>4, SMTT(60)
      <4> QED
        BY <2>4, <3>1, <4>1, <4>2, Zenon
    <3> QED
      BY <2>1, <3>1, <3>2, <3>3, <3>4
  <2>19. ASSUME NEW j \in 1..(k - 1)
         PROVE  pv2[r[j]] = At(r, j - 1)
    <3>1. r[j] \in MsgIds /\ r[j] # m /\ j \in Int
      BY <2>1, <2>15
    <3>2. CASE j = c
      <4>1. r[j] = n
        BY <2>1, <2>2, <2>10, <2>13, <3>2, SMTT(30)
      <4>2. At(r, j - 1) = p
        BY <2>1, <2>8, <2>10, <3>2
      <4> QED
        BY <3>1, <4>1, <4>2, Zenon
    <3>3. CASE j < c
      <4>1. r[j] = s[j] /\ s[j] # n /\ j \in 1..k
        BY <2>1, <2>2, <2>10, <2>12, <3>3, SMTT(30)
      <4>2. At(r, j - 1) = At(s, j - 1)
        BY <2>1, <2>8, <3>3
      <4> QED
        BY <2>4, <3>1, <4>1, <4>2, Zenon
    <3>4. CASE j > c
      <4>1. r[j] = s[j + 1] /\ s[j + 1] # n /\ j + 1 \in 1..k
        BY <2>1, <2>2, <2>10, <2>12, <3>4, SMTT(60)
      <4>2. At(r, j - 1) = At(s, (j + 1) - 1)
        BY <2>1, <2>9, <3>4
      <4> QED
        BY <2>4, <3>1, <4>1, <4>2, Zenon
    <3> QED
      BY <2>1, <3>1, <3>2, <3>3, <3>4, SMTT(30)
  <2> QED
    BY <2>1, <2>14, <2>15, <2>16, <2>17, <2>18, <2>19, Zenon DEF Linked, r, m, p, n, nx2, pv2
<1> SUFFICES ASSUME ListTypes, Lists, NEW q \in QueueNames, NEW c \in 1..Len(fifo[q]),
                    NEW m, m = fifo[q][c],
                    pending_remove(q, m),
                    mqueue' = mqueue,
                    \A x \in MsgIds \ {m} : state'[x] = state[x]
             PROVE  ListTypes' /\ Lists'
  BY Zenon
<1> USE BoundsAssumption
<1> DEFINE s == fifo[q]
           p == prev[m]
           n == next[m]
           d == IndexOf(s, m)
           r == DropAt(s, d)
<1>1. /\ s \in Seq(MsgIds) /\ m \in MsgIds
      /\ Linked(s, next, prev, head[q], tail[q]) /\ Distinct(s) /\ pending[q] = Len(s)
  BY DEF ListTypes, Lists
<1>2. d \in 1..Len(s) /\ m = s[d]
  BY <1>1, IndexOfFacts, Zenon
<1>3. p \in MsgIds \cup {0} /\ n \in MsgIds \cup {0}
  BY <1>1, Zenon DEF ListTypes
<1>4. /\ next' = [x \in MsgIds |-> IF x = m THEN 0 ELSE IF x = p THEN n ELSE next[x]]
      /\ prev' = [x \in MsgIds |-> IF x = m THEN 0 ELSE IF x = n THEN p ELSE prev[x]]
      /\ head' = IF p = 0 THEN [head EXCEPT ![q] = n] ELSE head
      /\ tail' = IF n = 0 THEN [tail EXCEPT ![q] = p] ELSE tail
      /\ pending' = [pending EXCEPT ![q] = @ - 1]
      /\ fifo' = [fifo EXCEPT ![q] = r]
  BY Zenon DEF pending_remove, ListTypes
<1>6. p # 0 => mqueue[p] = q
  <2>1. p = At(s, d - 1) /\ OnList(q)
    BY <1>1, <1>2, Zenon DEF Linked, Lists
  <2> QED
    BY <2>1, ZenonT(40) DEF At, OnList
<1>7. n # 0 => mqueue[n] = q
  <2>1. n = At(s, d + 1) /\ OnList(q)
    BY <1>1, <1>2, Zenon DEF Linked, Lists
  <2> QED
    BY <2>1, SMTT(60) DEF At, OnList
<1>8. mqueue[m] = q
  BY <1>2, Zenon DEF Lists, OnList
<1>9. p = prev[m] /\ n = next[m] /\ s = fifo[q] /\ r = DropAt(s, d)
  BY Zenon
<1> HIDE DEF s, p, n, d, r
<1>5. r \in Seq(MsgIds) /\ Len(r) = Len(s) - 1 /\ Len(s) \in Nat
  <2>1. s \in Seq(MsgIds) /\ d \in 1..Len(s)
    BY ONLY <1>1, <1>2, <1>9, Zenon
  <2>2. DropAt(s, d) \in Seq(MsgIds) /\ Len(DropAt(s, d)) = Len(s) - 1
    BY ONLY <2>1, DropAtFacts, Zenon
  <2>3. Len(s) \in Nat
    BY ONLY <2>1
  <2> QED
    BY ONLY <1>9, <2>2, <2>3, Zenon
<1>10. ListTypes'
  <2>1. next' \in [MsgIds -> MsgIds \cup {0}] /\ prev' \in [MsgIds -> MsgIds \cup {0}]
    BY <1>3, <1>4, Zenon DEF ListTypes
  <2>2. head' \in [QueueNames -> MsgIds \cup {0}]
    BY <1>3, <1>4, Zenon DEF ListTypes
  <2>3. tail' \in [QueueNames -> MsgIds \cup {0}]
    BY <1>3, <1>4, Zenon DEF ListTypes
  <2>4. pending' \in [QueueNames -> Int] /\ fifo' \in [QueueNames -> Seq(MsgIds)]
    BY <1>4, <1>5, SMTT(60) DEF ListTypes
  <2> QED
    BY ONLY <2>1, <2>2, <2>3, <2>4, Zenon DEF ListTypes
<1>11. /\ fifo'[q] = r /\ pending'[q] = pending[q] - 1
       /\ head'[q] = IF p = 0 THEN n ELSE head[q]
       /\ tail'[q] = IF n = 0 THEN p ELSE tail[q]
  BY <1>4, Zenon DEF ListTypes
<1>12. /\ Linked(r, next', prev', IF p = 0 THEN n ELSE head[q], IF n = 0 THEN p ELSE tail[q])
       /\ Distinct(r)
       /\ \A i \in 1..Len(r) : r[i] # m
  <2>1. next \in [MsgIds -> MsgIds \cup {0}] /\ prev \in [MsgIds -> MsgIds \cup {0}]
    BY Zenon DEF ListTypes
  <2> QED
    <3>1. next' = LinkPast(next, m, p, n) /\ prev' = LinkPast(prev, m, n, p)
      BY <1>4, Zenon DEF LinkPast
    <3>2. BoundsAssumption
      BY BoundsAssumption, Zenon
    <3> QED
      BY ONLY <1>1, <1>2, <1>9, <2>1, <3>1, <3>2, <1>RemoveLinked, ZenonT(40)
<1>13. \A i \in 1..Len(r) : state'[r[i]] = "PENDING" /\ mqueue'[r[i]] = q
  <2>1. \A i \in 1..Len(r) : \E j \in 1..Len(s) : r[i] = s[j]
    <3>1. ASSUME NEW i \in 1..Len(r)
          PROVE  \E j \in 1..Len(s) : r[i] = s[j]
      <4>1. r[i] = IF i < d THEN s[i] ELSE s[i + 1]
        BY <1>1, <1>2, <1>5, <1>9, DropAtFacts, Zenon
      <4>2. i \in 1..Len(s) /\ i + 1 \in 1..Len(s)
        BY <1>5
      <4> QED
        BY <4>1, <4>2, Zenon
    <3> QED
      BY <3>1, Zenon
  <2>2. \A j \in 1..Len(s) : s[j] \in MsgIds /\ state[s[j]] = "PENDING" /\ mqueue[s[j]] = q
    <3>1. OnList(q)
      BY ONLY Lists, q \in QueueNames, Zenon DEF Lists
    <3>2. \A j \in 1..Len(s) : s[j] \in MsgIds
      BY ONLY <1>1, <1>9
    <3> QED
      BY ONLY <1>9, <3>1, <3>2, Zenon DEF OnList
  <2>3. ASSUME NEW i \in 1..Len(r)
        PROVE  state'[r[i]] = "PENDING" /\ mqueue'[r[i]] = q
    <3>1. PICK j \in 1..Len(s) : r[i] = s[j]
      BY <2>1, Zenon
    <3> QED
      BY <1>12, <2>2, <3>1, Zenon
  <2> QED
    BY <2>3, Zenon
<1>14. ASSUME NEW x \in QueueNames, x # q
       PROVE  /\ Linked(fifo'[x], next', prev', head'[x], tail'[x])
              /\ pending'[x] = Len(fifo'[x]) /\ Distinct(fifo'[x]) /\ OnList(x)'
  <2>1. fifo'[x] = fifo[x] /\ head'[x] = head[x] /\ tail'[x] = tail[x] /\ pending'[x] = pending[x]
    BY <1>4, <1>14, Zenon DEF ListTypes
  <2>2. /\ fifo[x] \in Seq(MsgIds) /\ Linked(fifo[x], next, prev, head[x], tail[x])
        /\ pending[x] = Len(fifo[x]) /\ Distinct(fifo[x]) /\ OnList(x)
    BY Zenon DEF ListTypes, Lists
  <2>3. \A i \in 1..Len(fifo[x]) :
          /\ fifo[x][i] \in MsgIds /\ fifo[x][i] # m /\ fifo[x][i] # 0
          /\ fifo[x][i] # p /\ fifo[x][i] # n
    <3>1. \A i \in 1..Len(fifo[x]) : fifo[x][i] \in MsgIds /\ mqueue[fifo[x][i]] = x
      BY ONLY <2>2 DEF OnList
    <3>2. 0 \notin MsgIds
      BY DEF MsgIds
    <3>3. \A i \in 1..Len(fifo[x]) :
            /\ fifo[x][i] \in MsgIds /\ fifo[x][i] # m /\ fifo[x][i] # 0
      BY ONLY <1>8, <1>14, <3>1, <3>2, Zenon
    <3> QED
      BY ONLY <1>6, <1>7, <1>14, <3>1, <3>3, Zenon
  <2>4. \A i \in 1..Len(fifo[x]) :
          /\ next'[fifo[x][i]] = next[fifo[x][i]] /\ prev'[fifo[x][i]] = prev[fifo[x][i]]
          /\ state'[fifo[x][i]] = state[fifo[x][i]]
    BY <1>4, <2>3, Zenon
  <2>5. Linked(fifo[x], next', prev', head[x], tail[x])
    BY ONLY <2>2, <2>4, ZenonT(40) DEF Linked
  <2>6. \A i \in 1..Len(fifo[x]) : state'[fifo[x][i]] = "PENDING" /\ mqueue'[fifo[x][i]] = x
    BY <2>2, <2>4, Zenon DEF OnList
  <2> QED
    BY ONLY <2>1, <2>2, <2>5, <2>6, Zenon DEF OnList
<1>15. /\ Linked(fifo'[q], next', prev', head'[q], tail'[q])
       /\ pending'[q] = Len(fifo'[q]) /\ Distinct(fifo'[q]) /\ OnList(q)'
  <2>1. pending'[q] = Len(fifo'[q])
    BY <1>1, <1>5, <1>11, ZenonT(40)
  <2> QED
    BY ONLY <1>11, <1>12, <1>13, <2>1, ZenonT(40) DEF OnList
<1> QED
  BY <1>10, <1>14, <1>15, Zenon DEF Lists

\* A new lease entry at the front of its chain keeps all chains.
LEMMA InsertKeepsChains ==
  LeaseTypes /\ Chains =>
    \A l \in LeaseIds, m \in MsgIds, e \in Nat :
      l \notin live /\ lease_insert(l, m, e) => LeaseTypes' /\ Chains'
\* Putting an element in front moves all others backward.
<1>ConsFacts.
    ASSUME NEW S, NEW s \in Seq(S), NEW x \in S
    PROVE  /\ <<x>> \o s \in Seq(S)
           /\ Len(<<x>> \o s) = Len(s) + 1
           /\ (<<x>> \o s)[1] = x
           /\ \A j \in 2..(Len(s) + 1) : (<<x>> \o s)[j] = s[j - 1]
    OBVIOUS
\* qdb__lease_insert: a new entry in front of its chain.
<1>ConsChained.
    ASSUME BoundsAssumption,
           NEW c \in Seq(LeaseIds), Distinct(c),
           NEW l \in LeaseIds, \A i \in 1..Len(c) : c[i] # l,
           NEW nx \in [LeaseIds -> LeaseIds \cup {0}], NEW h, Chained(c, nx, h),
           NEW nx2, nx2 = [nx EXCEPT ![l] = h]
    PROVE  Chained(<<l>> \o c, nx2, l) /\ Distinct(<<l>> \o c)
  <2> USE <1>ConsChained
  <2> DEFINE k == Len(c)
             d == <<l>> \o c
  <2>1. k \in Nat /\ d \in Seq(LeaseIds) /\ Len(d) = k + 1
    BY <1>ConsFacts
  <2>2. d[1] = l /\ \A j \in 2..(k + 1) : d[j] = c[j - 1]
    BY <1>ConsFacts
  <2>3. \A i \in 1..k : c[i] \in LeaseIds /\ c[i] # l /\ nx2[c[i]] = At(c, i + 1)
    BY DEF Chained
  <2>4. h = At(c, 1) /\ nx2[l] = h
    BY Zenon DEF Chained
  <2>5. \A i, j \in 1..k : c[i] = c[j] => i = j
    BY Zenon DEF Distinct
  <2>6. k = Len(c)
    BY Zenon
  <2> HIDE DEF k, d
  <2>7. \A j \in Int : j >= 2 => At(d, j) = At(c, j - 1)
    BY <2>1, <2>2, <2>6 DEF At
  <2>8. ASSUME NEW i \in 1..(k + 1)
        PROVE  nx2[d[i]] = At(d, i + 1)
    <3>1. CASE i = 1
      <4>1. At(d, 1 + 1) = At(c, 1)
        BY <2>7
      <4> QED
        BY <2>2, <2>4, <3>1, <4>1, Zenon
    <3>2. CASE i \in 2..(k + 1)
      <4>1. i - 1 \in 1..k /\ d[i] = c[i - 1]
        BY <2>1, <2>2, <3>2
      <4>2. At(d, i + 1) = At(c, (i - 1) + 1)
        BY <2>1, <2>7, <3>2
      <4> QED
        BY <2>3, <4>1, <4>2, Zenon
    <3> QED
      BY <2>1, <3>1, <3>2
  <2>9. ASSUME NEW i \in 1..(k + 1), NEW j \in 1..(k + 1), d[i] = d[j]
        PROVE  i = j
    <3>0. ASSUME NEW x \in 2..(k + 1)
          PROVE  d[x] # l
      <4>1. x - 1 \in 1..k
        BY <2>1
      <4> QED
        BY <2>2, <2>3, <4>1
    <3>1. CASE i = 1 \/ j = 1
      <4>1. i \in 2..(k + 1) => j # 1
        BY <2>2, <2>9, <3>0, Zenon
      <4>2. j \in 2..(k + 1) => i # 1
        BY <2>2, <2>9, <3>0, Zenon
      <4> QED
        BY <2>1, <3>1, <4>1, <4>2
    <3>2. CASE i \in 2..(k + 1) /\ j \in 2..(k + 1)
      <4>1. /\ i - 1 \in 1..k /\ j - 1 \in 1..k
            /\ c[i - 1] = c[j - 1]
        BY <2>1, <2>2, <2>9, <3>2
      <4>2. i - 1 = j - 1
        BY <2>5, <4>1, Zenon
      <4> QED
        BY <2>1, <4>2
    <3> QED
      BY <2>1, <3>1, <3>2
  <2>10. At(d, 1) = l
    BY <2>1, <2>2 DEF At
  <2> QED
    BY <2>1, <2>8, <2>9, <2>10, Zenon DEF Chained, Distinct, d
<1> SUFFICES ASSUME LeaseTypes, Chains, NEW l \in LeaseIds, l \notin live, NEW m \in MsgIds,
                    NEW e \in Nat, lease_insert(l, m, e)
             PROVE  LeaseTypes' /\ Chains'
  BY Zenon
<1> USE BoundsAssumption, BucketsAssumption
<1> DEFINE b == Bucket[l]
           c == chain[b]
           d == <<l>> \o c
<1>1. /\ b \in 1..Buckets /\ c \in Seq(LeaseIds) /\ Chained(c, lnext, bucket[b]) /\ Distinct(c)
      /\ bucket[b] \in LeaseIds \cup {0}
      /\ \A i \in 1..Len(c) : c[i] \in live /\ Bucket[c[i]] = b
  BY Zenon DEF LeaseTypes, Chains
<1>2. /\ live' = live \cup {l}
      /\ lmsg' = [lmsg EXCEPT ![l] = m] /\ lexp' = [lexp EXCEPT ![l] = e]
      /\ lnext' = [lnext EXCEPT ![l] = bucket[b]]
      /\ bucket' = [bucket EXCEPT ![b] = l]
      /\ chain' = [chain EXCEPT ![b] = d]
  BY Zenon DEF lease_insert
<1>3. b = Bucket[l] /\ c = chain[b] /\ d = <<l>> \o c
  BY Zenon
<1>4. /\ d \in Seq(LeaseIds) /\ Len(d) = Len(c) + 1 /\ Len(c) \in Nat
      /\ d[1] = l /\ \A j \in 2..(Len(c) + 1) : d[j] = c[j - 1]
  BY <1>1, <1>ConsFacts
<1> HIDE DEF b, c, d
<1>5. LeaseTypes'
  <2>1. live' \subseteq LeaseIds
    BY <1>2, Zenon DEF LeaseTypes
  <2>2. lmsg' \in [LeaseIds -> MsgIds \cup {0}] /\ lexp' \in [LeaseIds -> Nat]
    BY <1>2, Zenon DEF LeaseTypes
  <2>3. lnext' \in [LeaseIds -> LeaseIds \cup {0}]
    BY <1>1, <1>2, Zenon DEF LeaseTypes
  <2>4. bucket' \in [1..Buckets -> LeaseIds \cup {0}]
    BY <1>1, <1>2, Zenon DEF LeaseTypes
  <2>5. chain' \in [1..Buckets -> Seq(LeaseIds)]
    BY <1>1, <1>2, <1>4, Zenon DEF LeaseTypes
  <2> QED
    BY ONLY <2>1, <2>2, <2>3, <2>4, <2>5, Zenon DEF LeaseTypes
<1>6. chain'[b] = d /\ bucket'[b] = l
  BY <1>1, <1>2, Zenon DEF LeaseTypes
<1>7. Chained(d, lnext', l) /\ Distinct(d)
  <2>1. \A i \in 1..Len(c) : c[i] # l
    BY <1>1, Zenon
  <2>2. lnext \in [LeaseIds -> LeaseIds \cup {0}]
    BY Zenon DEF LeaseTypes
  <2> QED
    BY ONLY <1>1, <1>2, <1>3, <2>1, <2>2, l \in LeaseIds, BoundsAssumption, <1>ConsChained, Zenon
<1>8. \A i \in 1..Len(d) : d[i] \in live' /\ Bucket[d[i]] = b
  <2>1. ASSUME NEW i \in 1..Len(d)
        PROVE  d[i] \in live' /\ Bucket[d[i]] = b
    <3>1. CASE i = 1
      BY <1>2, <1>3, <1>4, <3>1, Zenon
    <3>2. CASE i # 1
      <4>1. i \in 2..(Len(c) + 1) /\ i - 1 \in 1..Len(c)
        BY <1>4, <3>2, SMTT(60)
      <4>2. d[i] = c[i - 1]
        BY ONLY <1>4, <4>1, Zenon
      <4>3. c[i - 1] \in live /\ Bucket[c[i - 1]] = b
        BY ONLY <1>1, <4>1, Zenon
      <4> QED
        BY <1>2, <4>2, <4>3, Zenon
    <3> QED
      BY <3>1, <3>2, Zenon
  <2> QED
    BY <2>1, Zenon
<1>9. ASSUME NEW x \in 1..Buckets, x # b
      PROVE  /\ Chained(chain'[x], lnext', bucket'[x]) /\ Distinct(chain'[x])
             /\ \A i \in 1..Len(chain'[x]) : chain'[x][i] \in live' /\ Bucket[chain'[x][i]] = x
  <2>1. chain'[x] = chain[x] /\ bucket'[x] = bucket[x] /\ chain[x] \in Seq(LeaseIds)
    BY <1>2, <1>9, Zenon DEF LeaseTypes
  <2>2. /\ Chained(chain[x], lnext, bucket[x]) /\ Distinct(chain[x])
        /\ \A i \in 1..Len(chain[x]) : chain[x][i] \in live /\ Bucket[chain[x][i]] = x
    BY Zenon DEF Chains
  <2>3. \A i \in 1..Len(chain[x]) : lnext'[chain[x][i]] = lnext[chain[x][i]]
    BY <1>2, <2>1, <2>2, ZenonT(40) DEF LeaseTypes
  <2>4. Chained(chain[x], lnext', bucket[x])
    BY ONLY <2>2, <2>3, Zenon DEF Chained
  <2> QED
    BY <1>2, <2>1, <2>2, <2>4
<1>10. ASSUME NEW k \in live'
       PROVE  \E i \in 1..Len(chain'[Bucket[k]]) : chain'[Bucket[k]][i] = k
  <2>1. CASE k = l
    <3>1. 1 \in 1..Len(d)
      BY <1>4
    <3> QED
      BY <1>3, <1>4, <1>6, <2>1, <3>1, Zenon
  <2>2. CASE k \in live
    <3>1. PICK i \in 1..Len(chain[Bucket[k]]) : chain[Bucket[k]][i] = k
      BY <2>2, Zenon DEF Chains
    <3>2. CASE Bucket[k] = b
      <4>1. i \in 1..Len(c) /\ c[i] = k
        BY <1>3, <3>1, <3>2, Zenon
      <4>2. i + 1 \in 2..(Len(c) + 1) /\ i + 1 \in 1..Len(d) /\ (i + 1) - 1 = i
        BY <1>4, <4>1
      <4>3. d[i + 1] = k
        BY <1>4, <4>1, <4>2, Zenon
      <4> QED
        BY <1>6, <3>2, <4>2, <4>3, Zenon
    <3>3. CASE Bucket[k] # b
      <4>1. chain'[Bucket[k]] = chain[Bucket[k]]
        BY <1>2, <2>2, <3>3, Zenon DEF LeaseTypes
      <4> QED
        BY <3>1, <4>1, Zenon
    <3> QED
      BY <3>2, <3>3, Zenon
  <2> QED
    BY <1>2, <2>1, <2>2, ZenonT(40)
<1>11. ASSUME NEW x \in 1..Buckets
       PROVE  /\ Chained(chain'[x], lnext', bucket'[x]) /\ Distinct(chain'[x])
              /\ \A i \in 1..Len(chain'[x]) : chain'[x][i] \in live' /\ Bucket[chain'[x][i]] = x
  BY ONLY <1>6, <1>7, <1>8, <1>9, x \in 1..Buckets, Zenon
<1> QED
  BY <1>5, <1>10, <1>11, Zenon DEF Chains

\* Cutting a lease out of its chain keeps all chains.
LEMMA CutKeepsChains ==
  LeaseTypes /\ Chains =>
    \A l \in live : lease_remove(l) => LeaseTypes' /\ Chains'
\* qdb__lease_remove on the entry at position e of its chain.
<1>CutChained.
    ASSUME BoundsAssumption,
           NEW c \in Seq(LeaseIds), Distinct(c), NEW e \in 1..Len(c),
           NEW nx \in [LeaseIds -> LeaseIds \cup {0}], NEW h, Chained(c, nx, h)
    PROVE  LET l == c[e] r == DropAt(c, e) IN
           /\ Chained(r, CutPast(nx, l), IF h = l THEN nx[l] ELSE h)
           /\ Distinct(r)
           /\ \A i \in 1..Len(r) : r[i] # l
  <2> USE <1>CutChained
  <2> DEFINE l == c[e]
             nx2 == CutPast(nx, l)
  <2>0. /\ l = c[e]
        /\ nx2 = [x \in LeaseIds |-> IF x = l THEN 0 ELSE IF nx[x] = l THEN nx[l] ELSE nx[x]]
    BY Zenon DEF CutPast
  <2> HIDE DEF l, nx2
  <2> USE <2>0
  <2> DEFINE k == Len(c)
             r == DropAt(c, e)
  <2>1. k \in Nat /\ e \in 1..k /\ r \in Seq(LeaseIds) /\ Len(r) = k - 1
    BY DropAtFacts
  <2>2. /\ \A j \in 1..(k - 1) : j < e => r[j] = c[j]
        /\ \A j \in 1..(k - 1) : j >= e => r[j] = c[j + 1]
    <3>1. \A j \in 1..(k - 1) : r[j] = IF j < e THEN c[j] ELSE c[j + 1]
      BY DropAtFacts, Zenon
    <3>2. \A j \in 1..(k - 1) : j >= e => ~(j < e)
      BY <2>1
    <3> QED
      BY <3>1, <3>2, Zenon
  <2>3. \A i \in 1..k : c[i] \in LeaseIds /\ c[i] # 0
    BY SMTT(60) DEF LeaseIds
  <2>4. h = At(c, 1) /\ \A i \in 1..k : nx[c[i]] = At(c, i + 1)
    BY Zenon DEF Chained
  <2>5. \A i, j \in 1..k : c[i] = c[j] => i = j
    BY Zenon DEF Distinct
  <2>6. k = Len(c) /\ r = DropAt(c, e)
    BY Zenon
  <2> HIDE DEF k, r
  <2>7. \A j \in Int : j < e => At(r, j) = At(c, j)
    BY <2>1, <2>2, <2>6 DEF At
  <2>8. \A j \in Int : j >= e => At(r, j) = At(c, j + 1)
    BY <2>1, <2>2, <2>6 DEF At
  <2>9. \A j \in Int : At(c, j) = l <=> j = e
    BY <2>1, <2>3, <2>5, <2>6, Zenon DEF At
  <2>10. nx[l] = At(c, e + 1)
    BY <2>1, <2>4, Zenon
  <2>11. ASSUME NEW i \in 1..(k - 1), NEW j \in 1..(k - 1), r[i] = r[j]
         PROVE  i = j
    BY <2>1, <2>2, <2>5, <2>11, SMTT(60)
  <2>12. \A i \in 1..(k - 1) : r[i] # l
    BY <2>1, <2>2, <2>5
  <2>13. (IF h = l THEN nx[l] ELSE h) = At(r, 1)
    <3>1. CASE h = l
      <4>1. e = 1
        BY <2>4, <2>9, <3>1
      <4> QED
        BY <2>8, <2>10, <3>1, <4>1
    <3>2. CASE h # l
      <4>1. 1 < e
        BY <2>1, <2>4, <2>9, <3>2, SMTT(60)
      <4> QED
        BY <2>4, <2>7, <3>2, <4>1
    <3> QED
      BY <3>1, <3>2, Zenon
  <2>14. ASSUME NEW j \in 1..(k - 1)
         PROVE  nx2[r[j]] = At(r, j + 1)
    <3>1. r[j] \in LeaseIds /\ r[j] # l /\ j \in Int
      BY <2>1, <2>12
    <3>2. CASE j = e - 1
      <4>1. j \in 1..k /\ r[j] = c[j] /\ nx[c[j]] = l
        BY <2>1, <2>2, <2>4, <2>9, <3>2, SMTT(60)
      <4>2. At(r, j + 1) = nx[l]
        BY <2>1, <2>8, <2>10, <3>2, SMTT(60)
      <4> QED
        BY <3>1, <4>1, <4>2, Zenon
    <3>3. CASE j < e - 1
      <4>0. j \in 1..k /\ j < e /\ j + 1 \in Int /\ j + 1 # e
        BY <2>1, <3>3, SMTT(60)
      <4>1. r[j] = c[j] /\ nx[c[j]] = At(c, j + 1) /\ nx[c[j]] # l
        BY <2>2, <2>4, <2>9, <4>0, Zenon
      <4>2. At(r, j + 1) = At(c, j + 1)
        BY <2>1, <2>7, <3>3
      <4> QED
        BY <3>1, <4>1, <4>2, Zenon
    <3>4. CASE j >= e
      <4>0. j + 1 \in 1..k /\ (j + 1) + 1 \in Int /\ (j + 1) + 1 # e
        BY <2>1, <3>4
      <4>1. r[j] = c[j + 1] /\ nx[c[j + 1]] = At(c, (j + 1) + 1) /\ nx[c[j + 1]] # l
        BY <2>2, <2>4, <2>9, <3>4, <4>0, Zenon
      <4>2. At(r, j + 1) = At(c, (j + 1) + 1)
        BY <2>1, <2>8, <3>4, SMTT(60)
      <4> QED
        BY <3>1, <4>1, <4>2, Zenon
    <3> QED
      BY <2>1, <3>1, <3>2, <3>3, <3>4, SMTT(30)
  <2> QED
    BY <2>1, <2>11, <2>12, <2>13, <2>14, Zenon DEF Chained, Distinct, r, l, nx2
<1> SUFFICES ASSUME LeaseTypes, Chains, NEW l \in live, lease_remove(l)
             PROVE  LeaseTypes' /\ Chains'
  BY Zenon
<1> USE BoundsAssumption, BucketsAssumption
<1> DEFINE b == Bucket[l]
           c == chain[b]
           e == IndexOf(c, l)
           r == DropAt(c, e)
<1>1. /\ l \in LeaseIds /\ b \in 1..Buckets /\ c \in Seq(LeaseIds)
      /\ Chained(c, lnext, bucket[b]) /\ Distinct(c)
      /\ \A i \in 1..Len(c) : c[i] \in live /\ Bucket[c[i]] = b
      /\ lnext[l] \in LeaseIds \cup {0} /\ lnext \in [LeaseIds -> LeaseIds \cup {0}]
  BY Zenon DEF LeaseTypes, Chains
<1>2. e \in 1..Len(c) /\ l = c[e]
  <2>1. PICK i \in 1..Len(c) : c[i] = l
    BY Zenon DEF Chains
  <2> QED
    BY <1>1, <2>1, IndexOfFacts, ZenonT(40)
<1>3. /\ live' = live \ {l}
      /\ lmsg' = [lmsg EXCEPT ![l] = 0] /\ lexp' = [lexp EXCEPT ![l] = 0]
      /\ lnext' = [k \in LeaseIds |-> IF k = l THEN 0 ELSE IF lnext[k] = l THEN lnext[l] ELSE lnext[k]]
      /\ bucket' = IF bucket[b] = l THEN [bucket EXCEPT ![b] = lnext[l]] ELSE bucket
      /\ chain' = [chain EXCEPT ![b] = r]
  BY Zenon DEF lease_remove, Scrap
<1>4. b = Bucket[l] /\ c = chain[b] /\ r = DropAt(c, e)
  BY Zenon
<1> HIDE DEF b, c, e, r
<1>5. /\ r \in Seq(LeaseIds) /\ Len(r) = Len(c) - 1 /\ Len(c) \in Nat
      /\ \A j \in 1..(Len(c) - 1) : r[j] = IF j < e THEN c[j] ELSE c[j + 1]
  <2>1. c \in Seq(LeaseIds) /\ e \in 1..Len(c)
    BY <1>1, <1>2, Zenon
  <2>2. Len(c) \in Nat /\ DropAt(c, e) \in Seq(LeaseIds) /\ Len(DropAt(c, e)) = Len(c) - 1
    BY ONLY <2>1, DropAtFacts
  <2>3. \A j \in 1..(Len(c) - 1) : DropAt(c, e)[j] = IF j < e THEN c[j] ELSE c[j + 1]
    BY ONLY <2>1, DropAtFacts, Zenon
  <2> QED
    BY ONLY <1>4, <2>2, <2>3, Zenon
<1>6. LeaseTypes'
  <2>1. live' \subseteq LeaseIds
    BY <1>3, Zenon DEF LeaseTypes
  <2>2. lmsg' \in [LeaseIds -> MsgIds \cup {0}] /\ lexp' \in [LeaseIds -> Nat]
    BY <1>3, Zenon DEF LeaseTypes
  <2>3. lnext' \in [LeaseIds -> LeaseIds \cup {0}]
    BY <1>1, <1>3, Zenon
  <2>4. bucket' \in [1..Buckets -> LeaseIds \cup {0}]
    BY <1>1, <1>3, Zenon DEF LeaseTypes
  <2>5. chain' \in [1..Buckets -> Seq(LeaseIds)]
    BY <1>1, <1>3, <1>5, Zenon DEF LeaseTypes
  <2> QED
    BY ONLY <2>1, <2>2, <2>3, <2>4, <2>5, Zenon DEF LeaseTypes
<1>7. chain'[b] = r /\ bucket'[b] = IF bucket[b] = l THEN lnext[l] ELSE bucket[b]
  BY <1>1, <1>3, Zenon DEF LeaseTypes
<1>8. /\ Chained(r, lnext', IF bucket[b] = l THEN lnext[l] ELSE bucket[b]) /\ Distinct(r)
      /\ \A i \in 1..Len(r) : r[i] # l
  <2>1. lnext' = CutPast(lnext, l)
    BY ONLY <1>3, Zenon DEF CutPast
  <2>2. /\ c \in Seq(LeaseIds) /\ Distinct(c) /\ e \in 1..Len(c)
        /\ lnext \in [LeaseIds -> LeaseIds \cup {0}] /\ Chained(c, lnext, bucket[b])
    BY <1>1, <1>2, Zenon
  <2>3. /\ Chained(DropAt(c, e), CutPast(lnext, c[e]), IF bucket[b] = c[e] THEN lnext[c[e]] ELSE bucket[b])
        /\ Distinct(DropAt(c, e))
        /\ \A i \in 1..Len(DropAt(c, e)) : DropAt(c, e)[i] # c[e]
    BY ONLY <2>2, BoundsAssumption, <1>CutChained, Zenon
  <2> QED
    BY ONLY <1>2, <1>4, <2>1, <2>3, Zenon
<1>9. \A i \in 1..Len(r) : r[i] \in live' /\ Bucket[r[i]] = b
  <2>1. ASSUME NEW i \in 1..Len(r)
        PROVE  r[i] \in live' /\ Bucket[r[i]] = b
    <3>1. i \in 1..(Len(c) - 1) /\ i \in 1..Len(c) /\ i + 1 \in 1..Len(c)
      BY <1>5
    <3>2. r[i] = c[i] \/ r[i] = c[i + 1]
      BY <1>5, <3>1, Zenon
    <3>3. r[i] \in live /\ Bucket[r[i]] = b
      BY <1>1, <3>1, <3>2, Zenon
    <3> QED
      BY <1>3, <1>8, <3>3, Zenon
  <2> QED
    BY <2>1, Zenon
<1>10. ASSUME NEW x \in 1..Buckets, x # b
       PROVE  /\ Chained(chain'[x], lnext', bucket'[x]) /\ Distinct(chain'[x])
              /\ \A i \in 1..Len(chain'[x]) : chain'[x][i] \in live' /\ Bucket[chain'[x][i]] = x
  <2>1. chain'[x] = chain[x] /\ bucket'[x] = bucket[x] /\ chain[x] \in Seq(LeaseIds)
    BY <1>3, <1>10, Zenon DEF LeaseTypes
  <2>2. /\ Chained(chain[x], lnext, bucket[x]) /\ Distinct(chain[x])
        /\ \A i \in 1..Len(chain[x]) : chain[x][i] \in live /\ Bucket[chain[x][i]] = x
    BY Zenon DEF Chains
  <2>3. ASSUME NEW i \in 1..Len(chain[x])
        PROVE  lnext'[chain[x][i]] = lnext[chain[x][i]] /\ chain[x][i] \in live'
    <3>1. chain[x][i] # l /\ chain[x][i] \in LeaseIds
      <4>1. chain[x][i] \in LeaseIds
        BY ONLY <2>1, i \in 1..Len(chain[x])
      <4>2. Bucket[chain[x][i]] = x /\ b # x
        BY ONLY <1>10, <2>2, i \in 1..Len(chain[x]), Zenon
      <4> QED
        BY ONLY <1>4, <4>1, <4>2, Zenon
    <3>2. lnext[chain[x][i]] = At(chain[x], i + 1)
      BY <2>2, ZenonT(40) DEF Chained
    <3>3. At(chain[x], i + 1) # l
      <4>1. l # 0
        BY <1>1, SMTT(60) DEF LeaseIds
      <4>2. \A j \in 1..Len(chain[x]) : chain[x][j] # l
        BY <1>4, <1>10, <2>2, Zenon
      <4> QED
        BY ONLY <4>1, <4>2, Zenon DEF At
    <3> QED
      BY <1>3, <2>2, <3>1, <3>2, <3>3, Zenon
  <2>4. Chained(chain[x], lnext', bucket[x])
    BY ONLY <2>2, <2>3, Zenon DEF Chained
  <2> QED
    BY ONLY <2>1, <2>2, <2>3, <2>4, Zenon
<1>11. ASSUME NEW k \in live'
       PROVE  \E i \in 1..Len(chain'[Bucket[k]]) : chain'[Bucket[k]][i] = k
  <2>1. k \in live /\ k # l
    BY <1>3, Zenon
  <2>2. PICK i \in 1..Len(chain[Bucket[k]]) : chain[Bucket[k]][i] = k
    BY <2>1, Zenon DEF Chains
  <2>3. CASE Bucket[k] = b
    <3>1. i \in 1..Len(c) /\ c[i] = k /\ i # e
      BY <1>2, <1>4, <2>1, <2>2, <2>3, ZenonT(40)
    <3>2. CASE i < e
      <4>1. i \in 1..(Len(c) - 1) /\ i \in 1..Len(r)
        BY <1>2, <1>5, <3>1, <3>2
      <4>2. r[i] = k
        BY <1>5, <3>1, <3>2, <4>1, Zenon
      <4> QED
        BY <1>7, <2>3, <4>1, <4>2, Zenon
    <3>3. CASE i > e
      <4>1. i - 1 \in 1..(Len(c) - 1) /\ i - 1 \in 1..Len(r) /\ ~(i - 1 < e) /\ (i - 1) + 1 = i
        BY <1>2, <1>5, <3>1, <3>3, SMTT(60)
      <4>2. r[i - 1] = k
        BY <1>5, <3>1, <4>1, Zenon
      <4> QED
        BY <1>7, <2>3, <4>1, <4>2, Zenon
    <3> QED
      BY <1>2, <1>5, <3>1, <3>2, <3>3, SMTT(60)
  <2>4. CASE Bucket[k] # b
    <3>1. chain'[Bucket[k]] = chain[Bucket[k]]
      BY <1>3, <2>1, <2>4, Zenon DEF LeaseTypes
    <3> QED
      BY <2>2, <3>1, Zenon
  <2> QED
    BY <2>3, <2>4, Zenon
<1>12. ASSUME NEW x \in 1..Buckets
       PROVE  /\ Chained(chain'[x], lnext', bucket'[x]) /\ Distinct(chain'[x])
              /\ \A i \in 1..Len(chain'[x]) : chain'[x][i] \in live' /\ Bucket[chain'[x][i]] = x
  BY ONLY <1>7, <1>8, <1>9, <1>10, x \in 1..Buckets, Zenon
<1> QED
  BY <1>6, <1>11, <1>12, Zenon DEF Chains

-----------------------------------------------------------------------------
(* One lemma per operation.                                                *)

\* The steps of a walk that touch no table.
LEMMA IdleKeeps ==
  ASSUME Base, UNCHANGED Tables
  PROVE  Base'
<1>1. MsgTypes' /\ ListTypes' /\ LeaseTypes'
  BY Zenon DEF Base, Tables, msgs, lists, leases, MsgTypes, ListTypes, LeaseTypes
<1>2. Lists' /\ Chains'
  BY ZenonT(90) DEF Base, Tables, msgs, lists, leases, Lists, OnList, Chains
<1>3. Leasing' /\ Fresh'
  BY Zenon DEF Base, Tables, msgs, lists, leases, Leasing, Leased, Fresh
<1> QED
  BY <1>1, <1>2, <1>3, Zenon DEF Base

\* What the calls below rely on while no walk is under way.
LEMMA QuietWalk ==
  ASSUME TInv, ~walk.on, walk' = walk
  PROVE  WalkType' /\ Walking'
  BY Zenon DEF TInv, WalkType, Walking

\* A committed push adds a message that is on no list and puts it at the tail.
LEMMA PushKeeps ==
  ASSUME TInv, NEW q \in QueueNames, qdb_push(q)
  PROVE  TInv'
<1> USE BoundsAssumption
<1> DEFINE m == next_msg
<1>1. /\ Base /\ ~walk.on /\ walk' = walk
      /\ m \in MsgIds /\ next_msg' = m + 1
      /\ state' = [state EXCEPT ![m] = "PENDING"] /\ mqueue' = [mqueue EXCEPT ![m] = q]
      /\ pending_append(q, m)
      /\ UNCHANGED <<mlease, leased, acked, leases, next_lease>>
  BY DEF TInv, Base, MsgTypes, qdb_push, MsgIds
<1>2. state[m] = "none"
  BY <1>1 DEF Base, Fresh, MsgTypes
<1> HIDE DEF m
<1>3. MsgTypes'
  BY <1>1, SMTT(60) DEF Base, MsgTypes, m, leases, MsgIds
<1>4. LeaseTypes' /\ Chains'
  BY <1>1, Zenon DEF Base, LeaseTypes, Chains, leases
<1>5. \A x \in QueueNames : \A i \in 1..Len(fifo[x]) : fifo[x][i] # m
  BY <1>1, <1>2, ZenonT(40) DEF Base, Lists, OnList
<1>6. ListTypes' /\ Lists'
  <2>1. /\ state'[m] = "PENDING" /\ mqueue'[m] = q
        /\ \A x \in MsgIds \ {m} : state'[x] = state[x] /\ mqueue'[x] = mqueue[x]
    BY <1>1, Zenon DEF Base, MsgTypes
  <2>2. ListTypes /\ Lists
    BY <1>1, Zenon DEF Base
  <2> QED
    BY ONLY <1>1, <1>5, <2>1, <2>2, q \in QueueNames, AppendKeepsLists, Zenon
<1>7. Leasing' /\ Fresh'
  <2>1. \A l \in live : lmsg[l] # m
    BY <1>1, <1>2, Zenon DEF Base, Leasing, Leased
  <2>2. Leasing'
    BY <1>1, <1>2, <2>1, Zenon DEF Base, Leasing, Leased, leases, MsgTypes
  <2>3. Fresh'
    BY <1>1, SMTT(60) DEF Base, Fresh, leases, MsgTypes, MsgIds, m
  <2> QED
    BY <2>2, <2>3, Zenon
<1> QED
  BY <1>1, <1>3, <1>4, <1>6, <1>7, QuietWalk, Zenon DEF TInv, Base

\* A push that fails after its record is durable leaves every list as it is: at
\* most it adds a PENDING message that is on no list.
LEMMA LostPushKeeps ==
  ASSUME TInv, NEW q \in QueueNames, LostPush(q)
  PROVE  TInv'
<1> USE BoundsAssumption
<1> DEFINE m == next_msg
<1>1. /\ Base /\ ~walk.on /\ walk' = walk
      /\ m \in MsgIds /\ next_msg' = m + 1
      /\ \/ UNCHANGED <<state, mqueue>>
         \/ state' = [state EXCEPT ![m] = "PENDING"] /\ mqueue' = [mqueue EXCEPT ![m] = q]
      /\ UNCHANGED <<mlease, lists, leased, acked, leases, next_lease>>
  BY DEF TInv, Base, MsgTypes, LostPush, MsgIds
<1>2. state[m] = "none"
  BY <1>1 DEF Base, Fresh, MsgTypes
<1>3. m = next_msg
  BY Zenon
<1> HIDE DEF m
<1>4. MsgTypes'
  <2>1. state' \in [MsgIds -> {"none", "PENDING", "LEASED", "ACKED"}]
    BY <1>1, Zenon DEF Base, MsgTypes
  <2>2. mqueue' \in [MsgIds -> QueueNames]
    BY <1>1, Zenon DEF Base, MsgTypes
  <2>3. next_msg' \in 1..(MaxMsg + 1)
    BY <1>1, SMTT(60) DEF MsgIds
  <2> QED
    BY <1>1, <2>1, <2>2, <2>3, Zenon DEF Base, MsgTypes
<1>5. LeaseTypes' /\ Chains' /\ ListTypes'
  BY <1>1, Zenon DEF Base, LeaseTypes, ListTypes, Chains, leases, lists
<1>6. \A x \in MsgIds \ {m} : state'[x] = state[x] /\ mqueue'[x] = mqueue[x]
  BY <1>1, Zenon DEF Base, MsgTypes
<1>7. Lists'
  <2>1. \A x \in QueueNames : \A i \in 1..Len(fifo[x]) : fifo[x][i] \in MsgIds \ {m}
    BY <1>1, <1>2 DEF Base, ListTypes, Lists, OnList
  <2>2. \A x \in QueueNames : OnList(x)'
    BY <1>1, <1>6, <2>1, ZenonT(40) DEF Base, Lists, OnList, lists
  <2> QED
    BY <1>1, <2>2, Zenon DEF Base, Lists, lists
<1>8. Leasing'
  <2>1. \A l \in live : lmsg[l] \in MsgIds \ {m}
    BY <1>1, <1>2, Zenon DEF Base, Leasing, Leased
  <2>2. state'[m] # "LEASED"
    BY <1>1, <1>2, Zenon DEF Base, MsgTypes
  <2> QED
    BY <1>1, <1>6, <2>1, <2>2, ZenonT(40) DEF Base, Leasing, Leased, leases
<1>9. Fresh'
  BY <1>1, <1>3, <1>6, SMTT(60) DEF Base, Fresh, leases, MsgTypes, MsgIds
<1> QED
  BY <1>1, <1>4, <1>5, <1>7, <1>8, <1>9, QuietWalk, Zenon DEF TInv, Base

\* A pop moves the head of the list to the lease table.
LEMMA PopKeeps ==
  ASSUME TInv, NEW q \in QueueNames, NEW c \in 1..Len(fifo[q]), NEW e \in Times,
         NEW m, m = fifo[q][c], do_pop(q, m, e)
  PROVE  TInv'
<1> USE BoundsAssumption
<1> DEFINE l == next_lease
<1>1. /\ Base /\ ~walk.on /\ walk' = walk
      /\ l \in LeaseIds /\ next_lease' = l + 1 /\ next_msg' = next_msg
      /\ pending_remove(q, m)
      /\ state' = [state EXCEPT ![m] = "LEASED"] /\ mlease' = [mlease EXCEPT ![m] = l]
      /\ leased' = [leased EXCEPT ![q] = @ + 1]
      /\ lease_insert(l, m, e)
      /\ UNCHANGED <<mqueue, acked>>
  BY SMTT(60) DEF TInv, Base, MsgTypes, do_pop, LeaseIds
<1>2. m \in MsgIds /\ state[m] = "PENDING" /\ e \in Nat
  BY <1>1, SMTT(60) DEF Base, ListTypes, Lists, OnList
<1>3. l \notin live /\ l = next_lease
  BY <1>1 DEF Base, Fresh, MsgTypes, LeaseTypes, LeaseIds
<1> HIDE DEF l
<1>4. MsgTypes'
  <2>1. state' \in [MsgIds -> {"none", "PENDING", "LEASED", "ACKED"}]
    BY <1>1, <1>2, ZenonT(40) DEF Base, MsgTypes
  <2>2. mlease' \in [MsgIds -> LeaseIds \cup {0}] /\ leased' \in [QueueNames -> Int]
    BY <1>1, <1>2, SMTT(60) DEF Base, MsgTypes
  <2>3. next_lease' \in 1..(MaxLease + 1)
    BY <1>1 DEF LeaseIds
  <2> QED
    BY <1>1, <2>1, <2>2, <2>3, ZenonT(40) DEF Base, MsgTypes
<1>5. \A x \in MsgIds \ {m} : state'[x] = state[x] /\ mlease'[x] = mlease[x]
  BY <1>1, ZenonT(40) DEF Base, MsgTypes
<1>6. ListTypes' /\ Lists'
  <2>1. ListTypes /\ Lists /\ c \in 1..Len(fifo[q]) /\ m = fifo[q][c] /\ q \in QueueNames
    BY <1>1, Zenon DEF Base
  <2> QED
    BY ONLY <1>1, <1>5, <2>1, RemoveKeepsLists, ZenonT(40)
<1>7. LeaseTypes' /\ Chains'
  <2>1. LeaseTypes /\ Chains
    BY <1>1, Zenon DEF Base
  <2> QED
    BY ONLY <1>1, <1>2, <1>3, <2>1, InsertKeepsChains, Zenon
<1>8. /\ live' = live \cup {l} /\ lmsg'[l] = m
      /\ \A k \in live : lmsg'[k] = lmsg[k]
  BY <1>1, <1>3, ZenonT(40) DEF lease_insert, Base, LeaseTypes
<1>9. state'[m] = "LEASED" /\ mlease'[m] = l
  BY <1>1, <1>2, ZenonT(40) DEF Base, MsgTypes
<1>10. Leasing'
  <2>1. ASSUME NEW k \in live'
        PROVE  lmsg'[k] \in MsgIds /\ state'[lmsg'[k]] = "LEASED" /\ mlease'[lmsg'[k]] = k
    <3>1. CASE k = l
      BY <1>2, <1>8, <1>9, <3>1, Zenon
    <3>2. CASE k \in live
      <4>1. lmsg[k] \in MsgIds \ {m} /\ state[lmsg[k]] = "LEASED" /\ mlease[lmsg[k]] = k
        BY <1>1, <1>2, <3>2, ZenonT(40) DEF Base, Leasing, Leased
      <4> QED
        BY <1>5, <1>8, <3>2, <4>1, Zenon
    <3> QED
      BY <1>8, <3>1, <3>2, Zenon
  <2>2. ASSUME NEW x \in MsgIds, state'[x] = "LEASED"
        PROVE  mlease'[x] \in live' /\ lmsg'[mlease'[x]] = x
    <3>1. CASE x = m
      BY <1>8, <1>9, <3>1, ZenonT(40)
    <3>2. CASE x # m
      BY <1>1, <1>5, <1>8, <2>2, <3>2, SMTT(60) DEF Base, Leasing
    <3> QED
      BY <3>1, <3>2, ZenonT(40)
  <2> QED
    BY <2>1, <2>2, ZenonT(40) DEF Leasing, Leased
<1>11. Fresh'
  <2>1. m < next_msg
    <3>1. next_msg \in Int /\ m \in Int
      <4>1. next_msg \in 1..MaxMsg + 1 /\ m \in 1..MaxMsg
        BY <1>1, <1>2, Zenon DEF Base, MsgTypes, MsgIds
      <4> QED
        BY ONLY <4>1
    <3>2. ~(m >= next_msg)
      BY <1>1, <1>2, Zenon DEF Base, Fresh
    <3> QED
      BY ONLY <3>1, <3>2
  <2>2. \A x \in MsgIds : x >= next_msg' => state'[x] = "none"
    BY <1>1, <1>5, <2>1, SMTT(60) DEF Base, Fresh, MsgTypes, MsgIds
  <2>3. \A k \in live' : k < next_lease'
    <3>1. next_lease \in Int /\ \A k \in live : k \in Int /\ k < next_lease
      BY <1>1, SMTT(60) DEF Base, Fresh, LeaseTypes, LeaseIds, MsgTypes
    <3> QED
      BY ONLY <1>1, <1>3, <1>8, <3>1, SMTT(60)
  <2> QED
    BY <2>2, <2>3, Zenon DEF Fresh
<1> QED
  BY <1>1, <1>4, <1>6, <1>7, <1>10, <1>11, QuietWalk, ZenonT(40) DEF TInv, Base

\* The head of a nonempty list is its first message.
LEMMA QdbPopKeeps ==
  ASSUME TInv, NEW q \in QueueNames, NEW e \in Times, qdb_pop(q, e)
  PROVE  TInv'
<1>1. pending[q] # 0 /\ do_pop(q, head[q], e)
  BY Zenon DEF qdb_pop
<1>2. fifo[q] \in Seq(MsgIds) /\ pending[q] = Len(fifo[q]) /\ head[q] = At(fifo[q], 1)
  BY Zenon DEF TInv, Base, ListTypes, Lists, Linked
<1>3. 1 \in 1..Len(fifo[q]) /\ head[q] = fifo[q][1]
  BY <1>1, <1>2 DEF At
<1> QED
  BY <1>1, <1>3, PopKeeps, Zenon

\* Replaying a LEASE takes a message out of the list wherever it stands.
LEMMA ReplayLeaseKeeps ==
  ASSUME TInv, NEW m \in MsgIds, NEW e \in Times, replay_lease(m, e)
  PROVE  TInv'
<1> DEFINE q == mqueue[m]
<1>1. In(m, fifo[q]) /\ do_pop(q, m, e)
  BY Zenon DEF replay_lease
<1>2. q \in QueueNames /\ fifo[q] \in Seq(MsgIds)
  BY Zenon DEF TInv, Base, MsgTypes, ListTypes
<1>3. PICK c \in 1..Len(fifo[q]) : m = fifo[q][c]
  BY <1>1, <1>2, SMTT(60) DEF In
<1> QED
  BY <1>1, <1>2, <1>3, PopKeeps, Zenon

\* Taking away the lease of a LEASED message that thereby stops being LEASED:
\* what ack, nack and expiry have in common.
LEMMA UnleaseKeeps ==
  ASSUME Base, NEW m \in MsgIds, NEW l \in LeaseIds, Leased(m, l), lease_remove(l),
         NEW st \in {"PENDING", "ACKED"}, state' = [state EXCEPT ![m] = st],
         mlease' = [mlease EXCEPT ![m] = 0],
         UNCHANGED <<mqueue, next_msg, next_lease>>,
         leased' = [leased EXCEPT ![mqueue[m]] = @ - 1], acked' \in [QueueNames -> Int]
  PROVE  /\ l \in live /\ lmsg[l] = m /\ live' = live \ {l}
         /\ MsgTypes' /\ LeaseTypes' /\ Chains' /\ Leasing' /\ Fresh'
         /\ \A q \in QueueNames : \A i \in 1..Len(fifo[q]) : fifo[q][i] # m
<1> USE BoundsAssumption
<1>1. l \in live /\ lmsg[l] = m /\ state[m] = "LEASED" /\ mlease[m] = l
  BY Zenon DEF Base, Leasing, Leased
<1>2. MsgTypes'
  <2>1. state' \in [MsgIds -> {"none", "PENDING", "LEASED", "ACKED"}]
    BY Zenon DEF Base, MsgTypes
  <2>2. mlease' \in [MsgIds -> LeaseIds \cup {0}] /\ leased' \in [QueueNames -> Int]
    BY DEF Base, MsgTypes
  <2> QED
    BY <2>1, <2>2, Zenon DEF Base, MsgTypes
<1>3. LeaseTypes' /\ Chains'
  <2>1. LeaseTypes /\ Chains
    BY Zenon DEF Base
  <2> QED
    BY ONLY <1>1, <2>1, lease_remove(l), CutKeepsChains, Zenon
<1>4. live' = live \ {l} /\ \A k \in live' : lmsg'[k] = lmsg[k]
  BY Zenon DEF lease_remove, Scrap, Base, LeaseTypes
<1>5. \A x \in MsgIds \ {m} : state'[x] = state[x] /\ mlease'[x] = mlease[x]
  BY Zenon DEF Base, MsgTypes
<1>6. state'[m] # "LEASED"
  BY Zenon DEF Base, MsgTypes
<1>7. Leasing'
  <2>1. ASSUME NEW k \in live'
        PROVE  lmsg'[k] \in MsgIds /\ state'[lmsg'[k]] = "LEASED" /\ mlease'[lmsg'[k]] = k
    <3>1. lmsg[k] \in MsgIds /\ state[lmsg[k]] = "LEASED" /\ mlease[lmsg[k]] = k /\ k # l
      BY <1>4, Zenon DEF Base, Leasing, Leased
    <3>2. lmsg[k] # m
      BY <1>1, <3>1, ZenonT(40)
    <3> QED
      BY <1>4, <1>5, <3>1, <3>2, Zenon
  <2>2. ASSUME NEW x \in MsgIds, state'[x] = "LEASED"
        PROVE  mlease'[x] \in live' /\ lmsg'[mlease'[x]] = x
    <3>1. x # m
      BY <1>6, <2>2, Zenon
    <3>2. state[x] = "LEASED" /\ mlease'[x] = mlease[x]
      BY <1>5, <2>2, <3>1, Zenon
    <3>3. mlease[x] \in live /\ lmsg[mlease[x]] = x
      BY <3>2, Zenon DEF Base, Leasing
    <3>4. mlease[x] # l
      BY <1>1, <3>1, <3>3, Zenon
    <3> QED
      BY <1>4, <3>2, <3>3, <3>4
  <2> QED
    BY <2>1, <2>2, Zenon DEF Leasing, Leased
<1>8. Fresh'
  <2>1. m < next_msg
    BY <1>1 DEF Base, Fresh, MsgTypes, MsgIds
  <2>2. \A x \in MsgIds : x >= next_msg' => state'[x] = "none"
    BY <1>5, <2>1, SMTT(60) DEF Base, Fresh, MsgTypes, MsgIds
  <2> QED
    BY <1>4, <2>2, Zenon DEF Base, Fresh
<1>9. \A q \in QueueNames : \A i \in 1..Len(fifo[q]) : fifo[q][i] # m
  BY <1>1 DEF Base, Lists, OnList
<1> QED
  BY <1>1, <1>2, <1>3, <1>4, <1>7, <1>8, <1>9, Zenon

\* An ack drops the lease; the message is on no list any more.
LEMMA AckKeeps ==
  ASSUME TInv, NEW m \in MsgIds, qdb_ack(m)
  PROVE  TInv'
<1>1. PICK l \in LeaseIds : Leased(m, l) /\ lease_remove(l)
  BY Zenon DEF qdb_ack
<1>2. /\ Base /\ ~walk.on /\ walk' = walk
      /\ leased' = [leased EXCEPT ![mqueue[m]] = @ - 1]
      /\ acked' = [acked EXCEPT ![mqueue[m]] = @ + 1]
      /\ state' = [state EXCEPT ![m] = "ACKED"] /\ mlease' = [mlease EXCEPT ![m] = 0]
      /\ UNCHANGED <<mqueue, lists, next_msg, next_lease>>
  BY Zenon DEF TInv, qdb_ack
<1>3. acked' \in [QueueNames -> Int]
  BY <1>2 DEF Base, MsgTypes
<1>4. /\ MsgTypes' /\ LeaseTypes' /\ Chains' /\ Leasing' /\ Fresh'
      /\ \A q \in QueueNames : \A i \in 1..Len(fifo[q]) : fifo[q][i] # m
  BY ONLY <1>1, <1>2, <1>3, m \in MsgIds, UnleaseKeeps, ZenonT(40)
<1>5. ListTypes' /\ Lists'
  <2>1. \A x \in MsgIds \ {m} : state'[x] = state[x]
    BY <1>2, Zenon DEF Base, MsgTypes
  <2>2. \A q \in QueueNames : \A i \in 1..Len(fifo[q]) : fifo[q][i] \in MsgIds \ {m}
    BY <1>2, <1>4 DEF Base, ListTypes
  <2>3. \A q \in QueueNames : OnList(q)'
    BY <1>2, <2>1, <2>2, ZenonT(40) DEF Base, Lists, OnList, lists
  <2> QED
    BY <1>2, <2>3, Zenon DEF Base, ListTypes, Lists, lists
<1> QED
  BY <1>2, <1>4, <1>5, QuietWalk, Zenon DEF TInv, Base

\* Giving a message back drops its lease and puts it at the tail of its list.
LEMMA GiveBackKeeps ==
  ASSUME Base, NEW m \in MsgIds, NEW l \in LeaseIds, Leased(m, l), GiveBack(m, l)
  PROVE  /\ Base' /\ l \in live /\ live' = live \ {l}
         /\ \A k \in live' : lexp'[k] = lexp[k]
         /\ chain' = [chain EXCEPT ![Bucket[l]] = DropAt(@, IndexOf(@, l))]
<1>1. /\ lease_remove(l) /\ pending_append(mqueue[m], m)
      /\ state' = [state EXCEPT ![m] = "PENDING"] /\ mlease' = [mlease EXCEPT ![m] = 0]
      /\ leased' = [leased EXCEPT ![mqueue[m]] = @ - 1]
      /\ UNCHANGED <<mqueue, acked, next_msg, next_lease>>
  BY Zenon DEF GiveBack
<1>2. acked' \in [QueueNames -> Int]
  BY <1>1, Zenon DEF Base, MsgTypes
<1>3. /\ l \in live /\ live' = live \ {l}
      /\ MsgTypes' /\ LeaseTypes' /\ Chains' /\ Leasing' /\ Fresh'
      /\ \A q \in QueueNames : \A i \in 1..Len(fifo[q]) : fifo[q][i] # m
  BY ONLY <1>1, <1>2, Base, Leased(m, l), m \in MsgIds, l \in LeaseIds, UnleaseKeeps, ZenonT(40)
<1>4. ListTypes' /\ Lists'
  <2>1. /\ ListTypes /\ Lists /\ mqueue[m] \in QueueNames
        /\ state'[m] = "PENDING" /\ mqueue'[m] = mqueue[m]
        /\ \A x \in MsgIds \ {m} : state'[x] = state[x] /\ mqueue'[x] = mqueue[x]
    BY <1>1, Zenon DEF Base, MsgTypes
  <2> QED
    BY ONLY <1>1, <1>3, <2>1, m \in MsgIds, AppendKeepsLists, ZenonT(40)
<1>5. /\ \A k \in live' : lexp'[k] = lexp[k]
      /\ chain' = [chain EXCEPT ![Bucket[l]] = DropAt(@, IndexOf(@, l))]
  BY <1>1, <1>3, ZenonT(40) DEF lease_remove, Scrap, Base, LeaseTypes
<1> QED
  BY <1>3, <1>4, <1>5, Zenon DEF Base

\* A nack gives the message back.
LEMMA NackKeeps ==
  ASSUME TInv, NEW m \in MsgIds, qdb_nack(m)
  PROVE  TInv'
<1>1. PICK l \in LeaseIds : Leased(m, l) /\ GiveBack(m, l)
  BY Zenon DEF qdb_nack
<1> QED
  BY <1>1, GiveBackKeeps, QuietWalk, Zenon DEF TInv, qdb_nack

-----------------------------------------------------------------------------
(* The expiry walk.                                                        *)

\* From the front of a bucket every entry of the bucket is ahead.
LEMMA FrontReaches ==
  ASSUME Base, NEW b \in 1..Buckets
  PROVE  /\ bucket[b] \in LeaseIds \cup {0}
         /\ bucket[b] # 0 => bucket[b] \in live /\ Bucket[bucket[b]] = b
         /\ \A l \in live : Bucket[l] = b =>
              \E i, j \in 1..Len(chain[b]) :
                chain[b][i] = bucket[b] /\ chain[b][j] = l /\ i <= j
<1>1. /\ bucket[b] \in LeaseIds \cup {0} /\ chain[b] \in Seq(LeaseIds)
      /\ bucket[b] = At(chain[b], 1)
      /\ \A i \in 1..Len(chain[b]) : chain[b][i] \in live /\ Bucket[chain[b][i]] = b
  BY Zenon DEF Base, LeaseTypes, Chains, Chained
<1>2. bucket[b] # 0 => bucket[b] \in live /\ Bucket[bucket[b]] = b
  BY <1>1, Zenon DEF At
<1>3. ASSUME NEW l \in live, Bucket[l] = b
      PROVE  \E i, j \in 1..Len(chain[b]) :
               chain[b][i] = bucket[b] /\ chain[b][j] = l /\ i <= j
  <2>1. PICK j \in 1..Len(chain[b]) : chain[b][j] = l
    BY <1>3, Zenon DEF Base, Chains
  <2>2. 1 \in 1..Len(chain[b]) /\ 1 <= j
    BY <1>1, <2>1, SMTT(60)
  <2>3. chain[b][1] = bucket[b]
    BY <1>1, <2>2, Zenon DEF At
  <2> QED
    BY <2>1, <2>2, <2>3, Zenon
<1> QED
  BY <1>1, <1>2, <1>3, Zenon

\* The entry after w in chain b is w's successor, and every entry that was
\* ahead of w, w itself excepted, is not behind it.
StepsOn(b, w) ==
  /\ lnext[w] \in LeaseIds \cup {0}
  /\ lnext[w] # 0 => lnext[w] \in live \ {w} /\ Bucket[lnext[w]] = b
  /\ \A i, j \in 1..Len(chain[b]) :
       chain[b][i] = w /\ i <= j /\ chain[b][j] # w =>
         i + 1 \in 1..Len(chain[b]) /\ i + 1 <= j /\ chain[b][i + 1] = lnext[w]

\* Past the current entry of a chain every other entry that was ahead still is.
LEMMA StepReaches ==
  ASSUME Base, NEW b \in 1..Buckets, NEW w \in live, Bucket[w] = b
  PROVE  StepsOn(b, w)
<1> DEFINE c == chain[b]
<1>1. /\ w \in LeaseIds /\ lnext[w] \in LeaseIds \cup {0} /\ c \in Seq(LeaseIds) /\ Len(c) \in Nat
      /\ Distinct(c)
      /\ \A i \in 1..Len(c) : /\ c[i] \in live /\ Bucket[c[i]] = b
                              /\ lnext[c[i]] = At(c, i + 1)
  <2>1. /\ w \in LeaseIds /\ lnext[w] \in LeaseIds \cup {0} /\ c \in Seq(LeaseIds)
    BY Zenon DEF Base, LeaseTypes
  <2>2. /\ Distinct(c) /\ Chained(c, lnext, bucket[b])
        /\ \A i \in 1..Len(c) : c[i] \in live /\ Bucket[c[i]] = b
    BY ZenonT(40) DEF Base, Chains
  <2> QED
    BY <2>1, <2>2 DEF Chained
<1>2. PICK e \in 1..Len(c) : c[e] = w
  BY Zenon DEF Base, Chains
<1>3. c = chain[b]
  BY Zenon
<1> HIDE DEF c
<1>4. lnext[w] # 0 => lnext[w] \in live \ {w} /\ Bucket[lnext[w]] = b
  <2>1. lnext[w] = At(c, e + 1)
    BY <1>1, <1>2, Zenon
  <2>2. CASE e + 1 \in 1..Len(c)
    <3>1. lnext[w] = c[e + 1] /\ e + 1 # e
      BY <2>1, <2>2, SMTT(60) DEF At
    <3>2. c[e + 1] # c[e]
      BY <1>2, <2>2, <3>1, <1>1, Zenon DEF Distinct
    <3> QED
      BY <1>1, <1>2, <2>2, <3>1, <3>2, Zenon
  <2>3. CASE ~(e + 1 \in 1..Len(c))
    BY <2>1, <2>3, Zenon DEF At
  <2> QED
    BY <2>2, <2>3, Zenon
<1>5. ASSUME NEW i \in 1..Len(c), NEW j \in 1..Len(c), c[i] = w, i <= j, c[j] # w
      PROVE  i + 1 \in 1..Len(c) /\ i + 1 <= j /\ c[i + 1] = lnext[w]
  <2>1. i # j
    BY <1>5, Zenon
  <2>2. i + 1 \in 1..Len(c) /\ i + 1 <= j
    BY <1>1, <1>5, <2>1
  <2>3. lnext[w] = At(c, i + 1)
    BY <1>1, <1>5, Zenon
  <2> QED
    BY <2>2, <2>3, Zenon DEF At
<1> QED
  BY <1>1, <1>3, <1>4, <1>5, ZenonT(40) DEF StepsOn

\* At the start of a walk every due lease is ahead of it.
LEMMA BeginKeeps ==
  ASSUME TInv, NEW now \in Times, ExpireBegin(now)
  PROVE  TInv'
<1> USE BoundsAssumption, BucketsAssumption
<1>1. /\ Base /\ UNCHANGED Tables
      /\ walk' = [on |-> TRUE, b |-> 1, l |-> bucket[1], now |-> now, processed |-> 0,
                  due |-> {l \in live : lexp[l] < now},
                  kept |-> {l \in live : lexp[l] >= now}]
  BY Zenon DEF TInv, ExpireBegin
<1>2. Base' /\ live' = live /\ lexp' = lexp /\ bucket' = bucket /\ chain' = chain
  BY <1>1, IdleKeeps, Zenon DEF Tables, leases
<1>3. live \subseteq LeaseIds /\ lexp \in [LeaseIds -> Nat] /\ now \in Nat /\ 1 \in 1..Buckets
  BY <1>1 DEF Base, LeaseTypes
<1>4. /\ bucket[1] \in LeaseIds \cup {0}
      /\ bucket[1] # 0 => bucket[1] \in live /\ Bucket[bucket[1]] = 1
      /\ \A l \in live : Bucket[l] = 1 =>
           \E i, j \in 1..Len(chain[1]) :
             chain[1][i] = bucket[1] /\ chain[1][j] = l /\ i <= j
  BY ONLY <1>1, <1>3, FrontReaches, ZenonT(40)
<1>5. /\ walk'.on = TRUE /\ walk'.b = 1 /\ walk'.l = bucket[1] /\ walk'.now = now
      /\ walk'.processed = 0 /\ walk'.due = {l \in live : lexp[l] < now}
      /\ walk'.kept = {l \in live : lexp[l] >= now}
  BY <1>1, ZenonT(40)
<1>6. WalkType'
  <2>1. walk'.due \in SUBSET LeaseIds /\ walk'.kept \in SUBSET LeaseIds
    BY <1>3, <1>5, Zenon
  <2> QED
    BY <1>1, <1>3, <1>4, <1>5, <2>1, SMTT(60) DEF WalkType
<1>7. Walking'
  <2>1. walk'.due \ live = {}
    BY <1>5, ZenonT(40)
  <2>2. Cardinality(walk'.due \ live') = walk'.processed
    BY <1>2, <1>5, <2>1, FS_EmptySet, Zenon
  <2>3. /\ walk'.kept \subseteq live' /\ live' \subseteq walk'.kept \cup walk'.due
        /\ walk'.kept \cap walk'.due = {}
        /\ \A l \in live' : l \in walk'.due <=> lexp'[l] < walk'.now
    BY <1>2, <1>3, <1>5, SMTT(60)
  <2>4. \A l \in live' \cap walk'.due :
          Bucket[l] > walk'.b \/ (Bucket[l] = walk'.b /\ Ahead(l)')
    <3>1. ASSUME NEW l \in live
          PROVE  Bucket[l] > 1 \/ (Bucket[l] = 1 /\ Ahead(l)')
      <4>1. Bucket[l] \in 1..Buckets
        BY <1>3, Zenon
      <4>2. CASE Bucket[l] = 1
        BY <1>2, <1>4, <1>5, <4>2, SMTT(30) DEF Ahead
      <4>3. CASE Bucket[l] # 1
        BY <4>1, <4>3
      <4> QED
        BY <4>2, <4>3, Zenon
    <3> QED
      BY <1>2, <1>5, <3>1, Zenon
  <2> QED
    BY <1>2, <1>3, <1>4, <1>5, <2>2, <2>3, <2>4, ZenonT(40) DEF Walking
<1> QED
  BY <1>2, <1>6, <1>7, Zenon DEF TInv

\* The walk goes on to the next bucket: no entry of the last one is still due.
LEMMA BucketKeeps ==
  ASSUME TInv, WalkBucket
  PROVE  TInv'
<1> USE BoundsAssumption, BucketsAssumption
<1> DEFINE w == walk.b + 1
<1>1. /\ Base /\ WalkType /\ Walking /\ walk.on /\ walk.l = 0 /\ walk.b < Buckets
      /\ walk' = [walk EXCEPT !.b = w, !.l = bucket[w]]
      /\ UNCHANGED Tables
  BY Zenon DEF TInv, WalkBucket
<1>2. Base' /\ live' = live /\ lexp' = lexp /\ bucket' = bucket /\ chain' = chain
  BY <1>1, IdleKeeps, Zenon DEF Tables, leases
<1>3. walk.b \in 1..Buckets /\ w \in 1..Buckets /\ w = walk.b + 1
  BY <1>1 DEF Walking
<1> HIDE DEF w
<1>4. /\ bucket[w] \in LeaseIds \cup {0}
      /\ bucket[w] # 0 => bucket[w] \in live /\ Bucket[bucket[w]] = w
      /\ \A l \in live : Bucket[l] = w =>
           \E i, j \in 1..Len(chain[w]) :
             chain[w][i] = bucket[w] /\ chain[w][j] = l /\ i <= j
  BY ONLY <1>1, <1>3, FrontReaches, Zenon
<1>5. /\ walk'.on = walk.on /\ walk'.b = w /\ walk'.l = bucket[w] /\ walk'.now = walk.now
      /\ walk'.processed = walk.processed /\ walk'.due = walk.due /\ walk'.kept = walk.kept
  BY <1>1, Zenon DEF WalkType
<1>6. WalkType'
  <2>1. w \in 0..Buckets
    BY <1>3
  <2> QED
    BY ONLY <1>1, <1>4, <2>1, Zenon DEF WalkType
<1>7. ASSUME NEW l \in live \cap walk.due
      PROVE  Bucket[l] > w \/ (Bucket[l] = w /\ Ahead(l)')
  <2>1. Bucket[l] \in 1..Buckets /\ chain[walk.b] \in Seq(LeaseIds)
    BY <1>1, <1>3, Zenon DEF Base, LeaseTypes
  <2>2. ~Ahead(l)
    BY <1>1, <2>1, SMTT(60) DEF Ahead, LeaseIds
  <2>3. Bucket[l] > walk.b
    BY <1>1, <2>2, Zenon DEF Walking
  <2>4. CASE Bucket[l] = w
    BY <1>2, <1>4, <1>5, <2>4, SMTT(60) DEF Ahead
  <2>5. CASE Bucket[l] # w
    BY <1>3, <2>1, <2>3, <2>5, SMTT(30)
  <2> QED
    BY <2>4, <2>5, Zenon
<1>8. Walking'
  BY <1>1, <1>2, <1>3, <1>4, <1>5, <1>7 DEF Walking
<1> QED
  BY <1>2, <1>6, <1>8, Zenon DEF TInv

\* The end of a walk, with or without an error.
LEMMA EndKeeps ==
  ASSUME TInv, WalkReturns \/ WalkFails
  PROVE  TInv'
<1>1. Base /\ UNCHANGED Tables /\ walk' = Off
  BY Zenon DEF TInv, WalkReturns, WalkFails
<1>2. WalkType'
  BY <1>1, BucketsAssumption DEF WalkType, Off
<1>3. Walking'
  BY <1>1, Zenon DEF Walking, Off
<1> QED
  BY <1>1, <1>2, <1>3, IdleKeeps, Zenon DEF TInv

\* An entry that is not due is passed.
LEMMA PassKeeps ==
  ASSUME TInv, WalkEntry, ~Expired(walk.l)
  PROVE  TInv'
<1> DEFINE w == walk.l
<1>1. /\ Base /\ WalkType /\ Walking /\ walk.on /\ w # 0 /\ ~(lexp[w] < walk.now)
      /\ UNCHANGED Tables /\ walk' = [walk EXCEPT !.l = lnext[w]]
  BY Zenon DEF TInv, WalkEntry, Expired, Advance
<1>2. Base' /\ live' = live /\ lexp' = lexp /\ chain' = chain
  BY <1>1, IdleKeeps, Zenon DEF Tables, leases
<1>3. walk.b \in 1..Buckets /\ w \in live /\ Bucket[w] = walk.b /\ w \notin walk.due /\ w = walk.l
  BY <1>1, Zenon DEF Walking
<1> HIDE DEF w
<1>4. /\ lnext[w] \in LeaseIds \cup {0}
      /\ lnext[w] # 0 => lnext[w] \in live \ {w} /\ Bucket[lnext[w]] = walk.b
      /\ \A i, j \in 1..Len(chain[walk.b]) :
           chain[walk.b][i] = w /\ i <= j /\ chain[walk.b][j] # w =>
             i + 1 \in 1..Len(chain[walk.b]) /\ i + 1 <= j /\ chain[walk.b][i + 1] = lnext[w]
  <2>1. Base
    BY <1>1, Zenon
  <2>2. StepsOn(walk.b, w)
    BY ONLY <1>3, <2>1, StepReaches, Zenon
  <2> QED
    BY ONLY <2>2, Zenon DEF StepsOn
<1>5. /\ walk'.on = walk.on /\ walk'.b = walk.b /\ walk'.l = lnext[w] /\ walk'.now = walk.now
      /\ walk'.processed = walk.processed /\ walk'.due = walk.due /\ walk'.kept = walk.kept
  BY <1>1, Zenon DEF WalkType
<1>6. WalkType'
  BY <1>1, <1>4, Zenon DEF WalkType
<1>7. ASSUME NEW l \in live \cap walk.due
      PROVE  Bucket[l] > walk.b \/ (Bucket[l] = walk.b /\ Ahead(l)')
  <2>1. CASE Bucket[l] = walk.b /\ Ahead(l)
    <3>1. PICK i, j \in 1..Len(chain[walk.b]) :
            chain[walk.b][i] = w /\ chain[walk.b][j] = l /\ i <= j
      BY <1>3, <2>1, Zenon DEF Ahead
    <3>2. l # w
      BY <1>3, ZenonT(40)
    <3>3. i + 1 \in 1..Len(chain[walk.b]) /\ i + 1 <= j /\ chain[walk.b][i + 1] = lnext[w]
      BY <1>4, <3>1, <3>2, ZenonT(40)
    <3>4. \E x, y \in 1..Len(chain[walk.b]) :
            chain[walk.b][x] = lnext[w] /\ chain[walk.b][y] = l /\ x <= y
      BY <3>1, <3>3, Zenon
    <3> QED
      BY <1>2, <1>5, <2>1, <3>4, Zenon DEF Ahead
  <2> QED
    BY <1>1, <2>1, Zenon DEF Walking
<1>8. Walking'
  BY <1>1, <1>2, <1>4, <1>5, <1>7 DEF Walking
<1> QED
  BY <1>2, <1>6, <1>8, Zenon DEF TInv

\* An entry that is due is expired: its successor was saved before it was cut
\* out, and is now where the cut entry was.
LEMMA ExpireKeeps ==
  ASSUME TInv, WalkEntry, Expired(walk.l)
  PROVE  TInv'
<1> USE BoundsAssumption, BucketsAssumption
<1> DEFINE w == walk.l
           m == lmsg[w]
           b == walk.b
           c == chain[b]
           e == IndexOf(c, w)
<1>1. /\ Base /\ WalkType /\ Walking /\ walk.on /\ w # 0 /\ lexp[w] < walk.now
      /\ expire_one(w) /\ walk' = [walk EXCEPT !.l = lnext[w], !.processed = @ + 1]
  BY Zenon DEF TInv, WalkEntry, Expired, Advance
<1>2. b \in 1..Buckets /\ w \in live /\ Bucket[w] = b /\ w \in walk.due /\ w = walk.l /\ b = walk.b
  BY <1>1, Zenon DEF Walking
<1>3. m \in MsgIds /\ w \in LeaseIds /\ Leased(m, w)
  BY <1>1, <1>2, Zenon DEF Base, Leasing, LeaseTypes
<1>4. GiveBack(m, w)
  BY <1>1, <1>3, Zenon DEF expire_one
<1>5. /\ Base' /\ live' = live \ {w}
      /\ \A k \in live' : lexp'[k] = lexp[k]
      /\ chain' = [chain EXCEPT ![Bucket[w]] = DropAt(@, IndexOf(@, w))]
  BY ONLY <1>1, <1>3, <1>4, GiveBackKeeps, ZenonT(40)
<1>6. /\ c \in Seq(LeaseIds) /\ Distinct(c) /\ Len(c) \in Nat /\ c = chain[b]
      /\ chain'[b] = DropAt(c, e)
  BY <1>1, <1>2, <1>5 DEF Base, LeaseTypes, Chains
<1>7. e \in 1..Len(c) /\ c[e] = w
  <2>0. \E i \in 1..Len(chain[Bucket[w]]) : chain[Bucket[w]][i] = w
    BY ONLY <1>1, <1>2, Zenon DEF Base, Chains
  <2>1. PICK i \in 1..Len(c) : c[i] = w
    BY ONLY <1>2, <1>6, <2>0, ZenonT(40)
  <2> QED
    BY <1>6, <2>1, IndexOfFacts, Zenon
<1> HIDE DEF w, m, b, c, e
<1>8. /\ lnext[w] \in LeaseIds \cup {0}
      /\ lnext[w] # 0 => lnext[w] \in live \ {w} /\ Bucket[lnext[w]] = b
      /\ \A i, j \in 1..Len(c) :
           c[i] = w /\ i <= j /\ c[j] # w =>
             i + 1 \in 1..Len(c) /\ i + 1 <= j /\ c[i + 1] = lnext[w]
  <2>1. Base
    BY <1>1, Zenon
  <2>2. StepsOn(b, w)
    BY ONLY <1>2, <2>1, StepReaches, Zenon
  <2>3. c = chain[b]
    BY <1>6, Zenon
  <2> QED
    BY ONLY <2>2, <2>3, Zenon DEF StepsOn
<1>9. /\ walk'.on = walk.on /\ walk'.b = b /\ walk'.l = lnext[w] /\ walk'.now = walk.now
      /\ walk'.processed = walk.processed + 1 /\ walk'.due = walk.due /\ walk'.kept = walk.kept
  BY <1>1, <1>2, Zenon DEF WalkType
<1>10. WalkType'
  <2>1. walk.processed + 1 \in Nat
    BY <1>1 DEF WalkType
  <2> QED
    BY ONLY <1>1, <1>8, <2>1, ZenonT(40) DEF WalkType
<1>11. /\ Len(DropAt(c, e)) = Len(c) - 1
       /\ \A j \in 1..(Len(c) - 1) : DropAt(c, e)[j] = IF j < e THEN c[j] ELSE c[j + 1]
  <2>1. c \in Seq(LeaseIds) /\ e \in 1..Len(c)
    BY <1>6, <1>7, Zenon
  <2> QED
    BY ONLY <2>1, DropAtFacts, Zenon
<1>12. ASSUME NEW l \in live' \cap walk.due
       PROVE  Bucket[l] > b \/ (Bucket[l] = b /\ Ahead(l)')
  <2>0. l \in live \cap walk.due /\ l # w
    BY <1>5, Zenon
  <2>1. CASE Bucket[l] = b /\ Ahead(l)
    <3>1. PICK i, j \in 1..Len(c) : c[i] = w /\ c[j] = l /\ i <= j
      BY <1>2, <1>6, <2>1, ZenonT(40) DEF Ahead
    <3>2. i = e
      BY <1>6, <1>7, <3>1, ZenonT(40) DEF Distinct
    <3>3. i + 1 \in 1..Len(c) /\ i + 1 <= j /\ c[i + 1] = lnext[w]
      BY <1>8, <2>0, <3>1, ZenonT(40)
    <3>4. /\ e \in 1..(Len(c) - 1) /\ ~(e < e)
          /\ j - 1 \in 1..(Len(c) - 1) /\ ~(j - 1 < e) /\ (j - 1) + 1 = j /\ e <= j - 1
      BY <1>6, <1>7, <3>1, <3>2, <3>3, SMTT(30)
    <3>5. DropAt(c, e)[e] = lnext[w] /\ DropAt(c, e)[j - 1] = l
      BY <1>11, <3>1, <3>2, <3>3, <3>4, ZenonT(40)
    <3>6. \E x, y \in 1..Len(chain'[b]) :
            chain'[b][x] = lnext[w] /\ chain'[b][y] = l /\ x <= y
      BY <1>6, <1>11, <3>4, <3>5, Zenon
    <3> QED
      BY <1>9, <2>1, <3>6, ZenonT(40) DEF Ahead
  <2> QED
    BY <1>1, <1>2, <2>0, <2>1, Zenon DEF Walking
<1>13. Cardinality(walk.due \ live') = walk.processed + 1
  <2>1. walk.due \ live' = (walk.due \ live) \cup {w} /\ w \notin walk.due \ live
    BY <1>2, <1>5, Zenon
  <2>2. IsFiniteSet(walk.due \ live)
    <3>1. walk.due \ live \subseteq LeaseIds
      BY <1>1, Zenon DEF WalkType
    <3>2. IsFiniteSet(LeaseIds)
      BY FS_Interval DEF LeaseIds
    <3> QED
      BY <3>1, <3>2, FS_Subset, Zenon
  <2>3. Cardinality(walk.due \ live) = walk.processed
    BY <1>1, Zenon DEF Walking
  <2> QED
    BY <2>1, <2>2, <2>3, FS_AddElement, ZenonT(40)
<1>14. /\ walk.kept \subseteq live' /\ live' \subseteq walk.kept \cup walk.due
       /\ walk.kept \cap walk.due = {}
       /\ \A l \in live' : l \in walk.due <=> lexp'[l] < walk.now
  BY <1>1, <1>2, <1>5, Zenon DEF Walking
<1>15. Walking'
  BY <1>2, <1>5, <1>8, <1>9, <1>12, <1>13, <1>14, ZenonT(40) DEF Walking
<1> QED
  BY <1>5, <1>10, <1>15, Zenon DEF TInv

-----------------------------------------------------------------------------
(* The theorems.                                                           *)

\* A fresh handle has empty lists and empty chains.
LEMMA InitEstablishes == Init => TInv
<1> USE BoundsAssumption, QueuesAssumption, BucketsAssumption
<1> SUFFICES ASSUME Init PROVE TInv
  BY Zenon
<1>1. MsgTypes /\ ListTypes
  BY DEF Init, MsgTypes, ListTypes
<1>2. LeaseTypes
  BY SMTT(60) DEF Init, LeaseTypes
<1>2a. WalkType
  BY SMTT(60) DEF Init, WalkType, Off
<1>3. Lists
  BY SMTT(60) DEF Init, Lists, Linked, Distinct, OnList, At
<1>4. Chains
  BY DEF Init, Chains, Chained, Distinct, At
<1>5. Leasing /\ Fresh /\ Walking
  BY Zenon DEF Init, Leasing, Fresh, Walking, Off
<1> QED
  BY <1>1, <1>2, <1>2a, <1>3, <1>4, <1>5, Zenon DEF TInv, Base

\* Every call, and every step of a walk, keeps the invariant.
LEMMA StepKeeps == TInv /\ [Next]_vars => TInv'
<1> SUFFICES ASSUME TInv, [Next]_vars PROVE TInv'
  BY Zenon
<1>1. CASE UNCHANGED vars
  <2>1. Base /\ UNCHANGED Tables /\ walk' = walk
    BY <1>1, Zenon DEF TInv, vars, Tables
  <2>2. WalkType'
    BY <2>1, Zenon DEF TInv, WalkType
  <2>3. \A l : Ahead(l)' <=> Ahead(l)
    BY <2>1, Zenon DEF Ahead, Tables, leases
  <2>4. walk' = walk /\ live' = live /\ lexp' = lexp /\ Walking
    BY <2>1, Zenon DEF TInv, Tables, leases
  <2>5. Walking'
    BY ONLY <2>3, <2>4, ZenonT(40) DEF Walking
  <2> QED
    BY <2>1, <2>2, <2>5, IdleKeeps, Zenon DEF TInv
<1>2. CASE Next
  <2>1. CASE \E q \in QueueNames : qdb_push(q) \/ LostPush(q)
    BY <2>1, PushKeeps, LostPushKeeps, Zenon
  <2>2. CASE \E q \in QueueNames, e \in Times : qdb_pop(q, e)
    BY <2>2, QdbPopKeeps, Zenon
  <2>3. CASE \E m \in MsgIds, e \in Times : replay_lease(m, e)
    BY <2>3, ReplayLeaseKeeps, Zenon
  <2>4. CASE \E m \in MsgIds : qdb_ack(m) \/ qdb_nack(m)
    BY <2>4, AckKeeps, NackKeeps, Zenon
  <2>5. CASE \E now \in Times : ExpireBegin(now)
    BY <2>5, BeginKeeps, Zenon
  <2>6. CASE WalkEntry
    BY <2>6, PassKeeps, ExpireKeeps, Zenon
  <2>7. CASE WalkFails \/ WalkReturns
    BY <2>7, EndKeeps, Zenon
  <2>8. CASE WalkBucket
    BY <2>8, BucketKeeps, Zenon
  <2> QED
    BY <1>2, <2>1, <2>2, <2>3, <2>4, <2>5, <2>6, <2>7, <2>8, Zenon DEF Next
<1> QED
  BY <1>1, <1>2, Zenon

\* The tables of a handle satisfy the inductive invariant after any sequence
\* of calls.
THEOREM TablesInvariant == Spec => []TInv
  BY InitEstablishes, StepKeeps, PTL DEF Spec

\* Whatever is pushed, leased from anywhere in the list, acknowledged and given
\* back, the pointers of every PENDING list spell the queue's order.
THEOREM ListsStayLinked == Spec => []ListsAgree
<1>1. TInv => ListsAgree
  BY Zenon DEF TInv, Base, Lists, Linked, ListsAgree
<1> QED
  BY <1>1, TablesInvariant, PTL

\* The lease table is exactly the leases of the LEASED messages, whatever the
\* hash function.
THEOREM LeaseTableExact == Spec => []ChainsAgree
<1>1. TInv => ChainsAgree
  BY ZenonT(40) DEF TInv, Base, Chains, Chained, Distinct, Leasing, ChainsAgree
<1> QED
  BY <1>1, TablesInvariant, PTL

\* The walk of qdb_process_expired_leases never stands on a freed entry.
THEOREM WalkNeverDangles == Spec => []WalkSafe
<1>1. TInv => WalkSafe
  BY Zenon DEF TInv, Walking, WalkSafe
<1> QED
  BY <1>1, TablesInvariant, PTL

\* A walk that returns has expired every lease that was due, counted them, and
\* touched no other.
THEOREM ExpiryIsComplete == Spec => ExpiryComplete
<1>1. ASSUME TInv, Next, walk.on, ~walk'.on
      PROVE  /\ walk.kept \subseteq live' /\ live' \subseteq walk.kept \cup walk.due
             /\ Cardinality(walk.due \ live') = walk.processed
             /\ walk.l = 0 => live' = walk.kept
  <2>1. WalkReturns \/ WalkFails
    <3>1. ~\E q \in QueueNames : qdb_push(q) \/ LostPush(q)
      BY <1>1, Zenon DEF qdb_push, LostPush
    <3>2. ~\E q \in QueueNames, e \in Times : qdb_pop(q, e)
      BY <1>1, ZenonT(40) DEF qdb_pop, do_pop
    <3>3. ~\E m \in MsgIds, e \in Times : replay_lease(m, e)
      BY <1>1, Zenon DEF replay_lease, do_pop
    <3>4. ~\E m \in MsgIds : qdb_ack(m) \/ qdb_nack(m)
      BY <1>1, Zenon DEF qdb_ack, qdb_nack
    <3>5. ~\E now \in Times : ExpireBegin(now)
      BY <1>1, Zenon DEF ExpireBegin
    <3>6. ~WalkEntry /\ ~WalkBucket
      BY <1>1, Zenon DEF WalkEntry, WalkBucket, TInv, WalkType
    <3> QED
      BY <1>1, <3>1, <3>2, <3>3, <3>4, <3>5, <3>6, Zenon DEF Next
  <2>2. live' = live /\ Walking /\ WalkType /\ Base
    BY <1>1, <2>1, ZenonT(40) DEF TInv, WalkReturns, WalkFails, Tables, leases
  <2>3. walk.l = 0 => live \cap walk.due = {}
    <3>1. SUFFICES ASSUME walk.l = 0, NEW l \in live \cap walk.due PROVE FALSE
      BY Zenon
    <3>2. walk.b = Buckets
      BY <2>1, <3>1, Zenon DEF WalkReturns, WalkFails
    <3>3. Bucket[l] \in 1..Buckets /\ chain[walk.b] \in Seq(LeaseIds)
      BY <1>1, <2>2, BucketsAssumption, ZenonT(40) DEF Base, LeaseTypes, Walking
    <3>4. ~Ahead(l)
      BY <3>1, <3>3, BoundsAssumption, SMTT(30) DEF Ahead, LeaseIds
    <3> QED
      BY <1>1, <2>2, <3>2, <3>3, <3>4, BucketsAssumption, SMTT(60) DEF Walking
  <2> QED
    BY <1>1, <2>2, <2>3, Zenon DEF Walking
<1>2. TInv /\ [Next]_vars =>
        [walk.on /\ ~walk'.on =>
           /\ walk.kept \subseteq live' /\ live' \subseteq walk.kept \cup walk.due
           /\ Cardinality(walk.due \ live') = walk.processed
           /\ walk.l = 0 => live' = walk.kept]_vars
  BY <1>1, Zenon
<1> QED
  BY <1>2, TablesInvariant, PTL DEF Spec, ExpiryComplete

-----------------------------------------------------------------------------
(* Induction, sums and walks.                                              *)

\* A set of naturals that is not empty has a least member.
LEMMA LeastNat ==
  ASSUME NEW T, T \subseteq Nat, T # {}
  PROVE  \E n \in T : \A k \in T : n <= k
<1>1. \E W : IsWellFoundedOn(W, Nat) /\ W = {ss \in Nat \X Nat : ss[1] < ss[2]}
  BY NatLessThanWellFounded, Zenon DEF OpToRel
<1>2. PICK W : IsWellFoundedOn(W, Nat) /\ W = {ss \in Nat \X Nat : ss[1] < ss[2]}
  BY <1>1, Zenon
<1>3. \E x \in T : \A y \in T : ~ (<<y, x>> \in W)
  BY <1>2, WFMin, Zenon
<1>4. \A x, y \in Nat : <<y, x>> \in W <=> y < x
  BY <1>2, Zenon
<1>5. PICK x \in T : \A y \in T : ~ (<<y, x>> \in W)
  BY <1>3, Zenon
<1>6. \A y \in T : x <= y
  <2> TAKE y \in T
  <2>1. ~ (y < x)
    BY <1>4, <1>5, Zenon
  <2> QED
    BY <2>1
<1> QED
  BY <1>6, Zenon

\* A set that holds 0, and with each natural the next one, holds all of them.
LEMMA Induct ==
  ASSUME NEW S, 0 \in S, \A n \in Nat : n \in S => n + 1 \in S
  PROVE  Nat \subseteq S
<1> SUFFICES ASSUME Nat \ S # {} PROVE FALSE
  BY Zenon
<1> DEFINE T == Nat \ S
<1>1. PICK n \in T : \A k \in T : n <= k
  BY LeastNat, Zenon
<1> QED
  BY <1>1

\* The queues of the first b buckets, as the loops of qdb_stats meet them.
LEMMA WalkRecursion ==
  \E u : /\ u[0] = << >>
         /\ \A b \in 1..QueueBuckets : u[b] = u[b - 1] \o qchain[b]
         /\ QueueWalk = u[QueueBuckets]
<1> DEFINE Def(n, g) == g = [b \in 0..n |-> IF b = 0 THEN << >> ELSE g[b - 1] \o qchain[b]]
           S == {n \in Nat : \E g : Def(n, g)}
<1>1. 0 \in S
  <2>1. Def(0, [b \in 0..0 |-> << >>])
    OBVIOUS
  <2> QED
    BY <2>1, Zenon
<1>2. ASSUME NEW n \in Nat, n \in S PROVE n + 1 \in S
  <2>1. PICK g : Def(n, g)
    BY <1>2, Zenon
  <2> DEFINE a == g[n] \o qchain[n + 1]
             h == [b \in 0..(n + 1) |-> IF b = n + 1 THEN a ELSE g[b]]
  <2> HIDE DEF a
  <2>2. \A b \in 0..n : g[b] = IF b = 0 THEN << >> ELSE g[b - 1] \o qchain[b]
    BY <2>1, Zenon
  <2>3. (\A b \in 0..n : h[b] = g[b]) /\ h[n + 1] = a
    OBVIOUS
  <2>4. h = [b \in 0..(n + 1) |-> h[b]]
    BY Zenon DEF h
  <2> HIDE DEF h
  <2>5. \A b \in 0..(n + 1) : h[b] = IF b = 0 THEN << >> ELSE h[b - 1] \o qchain[b]
    <3> TAKE b \in 0..(n + 1)
    <3>1. CASE b = n + 1
      <4>1. b # 0 /\ b - 1 = n /\ n \in 0..n
        BY <3>1
      <4> QED
        BY <2>3, <3>1, <4>1, Zenon DEF a
    <3>2. CASE b # n + 1
      <4>1. b \in 0..n /\ (b # 0 => b - 1 \in 0..n)
        BY <3>2
      <4> QED
        BY <2>2, <2>3, <4>1, Zenon
    <3> QED
      BY <3>1, <3>2, Zenon
  <2>6. Def(n + 1, h)
    BY <2>4, <2>5, Zenon
  <2>7. n + 1 \in Nat
    OBVIOUS
  <2> QED
    BY <2>6, <2>7, Zenon
<1> HIDE DEF S
<1>3. Nat \subseteq S
  BY <1>1, <1>2, Induct, Zenon
<1>4. \E g : Def(QueueBuckets, g)
  <2> HIDE DEF Def
  <2> QED
    BY <1>3, BucketsAssumption, Zenon DEF S
<1> DEFINE u == CHOOSE g : Def(QueueBuckets, g)
<1>5. Def(QueueBuckets, u)
  <2> HIDE DEF Def
  <2> QED
    BY <1>4, Zenon
<1>6. QueueWalk = u[QueueBuckets]
  BY Zenon DEF QueueWalk
<1> HIDE DEF u
<1>7. \A b \in 0..QueueBuckets : u[b] = IF b = 0 THEN << >> ELSE u[b - 1] \o qchain[b]
  BY <1>5, Zenon
<1>8. 0 \in 0..QueueBuckets /\ \A b \in 1..QueueBuckets : b \in 0..QueueBuckets /\ b # 0
  BY BucketsAssumption
<1> QED
  BY <1>6, <1>7, <1>8, Zenon

\* The running sums of qdb_stats over the queues w.
LEMMA SumsRecursion ==
  ASSUME NEW count, NEW w, Len(w) \in Nat
  PROVE  /\ Sums(count, w)[0] = 0
         /\ \A i \in 1..Len(w) : Sums(count, w)[i] = Sums(count, w)[i - 1] + count[w[i]]
<1> DEFINE Def(n, g) == g = [i \in 0..n |-> IF i = 0 THEN 0 ELSE g[i - 1] + count[w[i]]]
           S == {n \in Nat : \E g : Def(n, g)}
<1>1. 0 \in S
  <2>1. Def(0, [i \in 0..0 |-> 0])
    OBVIOUS
  <2> QED
    BY <2>1, Zenon
<1>2. ASSUME NEW n \in Nat, n \in S PROVE n + 1 \in S
  <2>1. PICK g : Def(n, g)
    BY <1>2, Zenon
  <2> DEFINE a == g[n] + count[w[n + 1]]
             h == [i \in 0..(n + 1) |-> IF i = n + 1 THEN a ELSE g[i]]
  <2> HIDE DEF a
  <2>2. \A i \in 0..n : g[i] = IF i = 0 THEN 0 ELSE g[i - 1] + count[w[i]]
    BY <2>1, Zenon
  <2>3. (\A i \in 0..n : h[i] = g[i]) /\ h[n + 1] = a
    OBVIOUS
  <2>4. h = [i \in 0..(n + 1) |-> h[i]]
    BY Zenon DEF h
  <2> HIDE DEF h
  <2>5. \A i \in 0..(n + 1) : h[i] = IF i = 0 THEN 0 ELSE h[i - 1] + count[w[i]]
    <3> TAKE i \in 0..(n + 1)
    <3>1. CASE i = n + 1
      <4>1. i # 0 /\ i - 1 = n /\ n \in 0..n
        BY <3>1
      <4> QED
        BY <2>3, <3>1, <4>1, Zenon DEF a
    <3>2. CASE i # n + 1
      <4>1. i \in 0..n /\ (i # 0 => i - 1 \in 0..n)
        BY <3>2
      <4> QED
        BY <2>2, <2>3, <4>1, Zenon
    <3> QED
      BY <3>1, <3>2, Zenon
  <2>6. Def(n + 1, h)
    BY <2>4, <2>5, Zenon
  <2>7. n + 1 \in Nat
    OBVIOUS
  <2> QED
    BY <2>6, <2>7, Zenon
<1> HIDE DEF S
<1>3. Nat \subseteq S
  BY <1>1, <1>2, Induct, Zenon
<1>4. \E g : Def(Len(w), g)
  <2> HIDE DEF Def
  <2> QED
    BY <1>3, Zenon DEF S
<1> DEFINE u == CHOOSE g : Def(Len(w), g)
<1>5. Def(Len(w), u)
  <2> HIDE DEF Def
  <2> QED
    BY <1>4, Zenon
<1>6. Sums(count, w) = u
  BY Zenon DEF Sums
<1> HIDE DEF u
<1>7. \A i \in 0..Len(w) : u[i] = IF i = 0 THEN 0 ELSE u[i - 1] + count[w[i]]
  BY <1>5, Zenon
<1>8. 0 \in 0..Len(w) /\ \A i \in 1..Len(w) : i \in 0..Len(w) /\ i # 0
  OBVIOUS
<1> QED
  BY <1>6, <1>7, <1>8, Zenon

\* What a concatenation holds.
LEMMA ConcatFacts ==
  ASSUME NEW S, NEW s \in Seq(S), NEW t \in Seq(S)
  PROVE  /\ s \o t \in Seq(S)
         /\ \A x : In(x, s \o t) <=> In(x, s) \/ In(x, t)
         /\ Distinct(s) /\ Distinct(t) /\ (\A x : ~(In(x, s) /\ In(x, t)))
              => Distinct(s \o t)
<1> DEFINE u == s \o t
           k == Len(s)
           n == Len(t)
<1>1. /\ k \in Nat /\ n \in Nat /\ u \in Seq(S) /\ Len(u) = k + n
      /\ DOMAIN s = 1..k /\ DOMAIN t = 1..n /\ DOMAIN u = 1..(k + n)
      /\ \A i \in 1..k : u[i] = s[i]
      /\ \A i \in 1..n : u[k + i] = t[i]
  OBVIOUS
<1> HIDE DEF u, k, n
<1>2. \A i \in 1..k : i \in 1..(k + n)
  BY <1>1
<1>3. \A i \in 1..n : k + i \in 1..(k + n)
  BY <1>1
<1>4. \A i \in 1..(k + n) : i \in 1..k \/ \E j \in 1..n : i = k + j
  <2> TAKE i \in 1..(k + n)
  <2>1. i \in 1..k \/ (i - k \in 1..n /\ i = k + (i - k))
    BY <1>1
  <2> QED
    BY <2>1, Zenon
<1>5. \A x : In(x, u) <=> In(x, s) \/ In(x, t)
  <2>1. ASSUME NEW x, NEW i \in 1..(k + n), u[i] = x
        PROVE  (\E j \in 1..k : s[j] = x) \/ (\E j \in 1..n : t[j] = x)
    BY <1>1, <1>4, <2>1, Zenon
  <2>2. ASSUME NEW x, (\E j \in 1..k : s[j] = x) \/ (\E j \in 1..n : t[j] = x)
        PROVE  \E i \in 1..(k + n) : u[i] = x
    BY <1>1, <1>2, <1>3, <2>2
  <2> QED
    BY <1>1, <2>1, <2>2, ZenonT(40) DEF In
<1>6. ASSUME Distinct(s), Distinct(t), \A x : ~(In(x, s) /\ In(x, t))
      PROVE  Distinct(u)
  <2>1. ASSUME NEW i \in 1..(k + n), NEW j \in 1..(k + n), u[i] = u[j]
        PROVE  i = j
    <3>1. \A a, b \in 1..k : s[a] = s[b] => a = b
      BY <1>6, Zenon DEF Distinct, k
    <3>2. \A a, b \in 1..n : t[a] = t[b] => a = b
      BY <1>6, Zenon DEF Distinct, n
    <3>3. \A a \in 1..k, b \in 1..n : s[a] # t[b]
      BY <1>1, <1>6, Zenon DEF In
    <3>4. CASE i \in 1..k /\ j \in 1..k
      BY <1>1, <2>1, <3>1, <3>4, Zenon
    <3>5. ASSUME NEW a \in 1..n, NEW b \in 1..n, i = k + a, j = k + b
          PROVE  i = j
      <4>1. t[a] = t[b]
        BY <1>1, <2>1, <3>5, Zenon
      <4> QED
        BY <3>2, <3>5, <4>1, Zenon
    <3>6. ASSUME NEW a \in 1..k, NEW b \in 1..n, u[a] = u[k + b]
          PROVE  FALSE
      BY <1>1, <3>3, <3>6, Zenon
    <3>7. CASE i \in 1..k
      BY <1>4, <2>1, <3>4, <3>6, <3>7, Zenon
    <3>8. CASE \E a \in 1..n : i = k + a
      BY <1>4, <2>1, <3>5, <3>6, <3>8, Zenon
    <3> QED
      BY <1>4, <3>7, <3>8, Zenon
  <2> QED
    BY <1>1, <2>1, Zenon DEF Distinct
<1> QED
  BY <1>1, <1>5, <1>6, Zenon DEF u

\* A sequence without repetitions has as many members as elements.
LEMMA CountMembers ==
  ASSUME NEW S, NEW s \in Seq(S), Distinct(s)
  PROVE  IsFiniteSet(Range(s)) /\ Cardinality(Range(s)) = Len(s)
<1>1. Len(s) \in Nat /\ DOMAIN s = 1..Len(s) /\ s \in [1..Len(s) -> S]
  OBVIOUS
<1>2. s \in [1..Len(s) -> Range(s)]
  BY <1>1, Zenon DEF Range
<1>3. s \in Bijection(1..Len(s), Range(s))
  BY <1>1, <1>2, Zenon DEF Bijection, Injection, Surjection, IsInjective, Range, Distinct
<1>4. IsFiniteSet(1..Len(s)) /\ Cardinality(1..Len(s)) = Len(s)
  <2>1. 1 \in Int /\ Len(s) \in Int
    BY <1>1
  <2>2. /\ IsFiniteSet(1..Len(s))
        /\ Cardinality(1..Len(s)) = IF 1 > Len(s) THEN 0 ELSE Len(s) - 1 + 1
    BY <2>1, FS_Interval, Zenon
  <2> QED
    BY <1>1, <2>2
<1> QED
  BY <1>3, <1>4, FS_Bijection, Zenon DEF ExistsBijection

\* Sets that have nothing in common.
LEMMA DisjointUnion ==
  ASSUME NEW A, NEW B, IsFiniteSet(A), IsFiniteSet(B), A \cap B = {}
  PROVE  Cardinality(A \cup B) = Cardinality(A) + Cardinality(B)
<1>1. Cardinality(A \cup B) = Cardinality(A) + Cardinality(B) - Cardinality(A \cap B)
  BY FS_Union, Zenon
<1>2. Cardinality(A \cap B) = 0
  BY FS_EmptySet, Zenon
<1>3. Cardinality(A) \in Nat /\ Cardinality(B) \in Nat
  BY FS_CardinalityType, Zenon
<1> QED
  BY <1>1, <1>2, <1>3

\* The chains of the queue table: each queue once, in the bucket of its name.
QueueTable ==
  /\ qchain \in [1..QueueBuckets -> Seq(QueueNames)]
  /\ \A b \in 1..QueueBuckets :
       Distinct(qchain[b]) /\ \A q : In(q, qchain[b]) => QueueBucket[q] = b

\* The walk meets every queue of the table once.
LEMMA WalkMeetsAll ==
  ASSUME QueueTable
  PROVE  /\ QueueWalk \in Seq(QueueNames) /\ Distinct(QueueWalk)
         /\ \A q \in QueueNames : In(q, QueueWalk) <=> Known(q)
<1>1. PICK u : /\ u[0] = << >>
               /\ \A b \in 1..QueueBuckets : u[b] = u[b - 1] \o qchain[b]
               /\ QueueWalk = u[QueueBuckets]
  BY WalkRecursion, Zenon
<1> DEFINE Good(n) == /\ u[n] \in Seq(QueueNames) /\ Distinct(u[n])
                      /\ \A q : In(q, u[n]) <=> \E b \in 1..n : In(q, qchain[b])
           S == {n \in Nat : n <= QueueBuckets => Good(n)}
<1>2. 0 \in S
  <2>1. << >> \in Seq(QueueNames) /\ Len(<< >>) = 0 /\ DOMAIN << >> = {} /\ 1..0 = {}
    OBVIOUS
  <2>2. Distinct(<< >>)
    BY <2>1, Zenon DEF Distinct
  <2>3. \A q : In(q, << >>) <=> \E b \in 1..0 : In(q, qchain[b])
    BY <2>1, Zenon DEF In
  <2> QED
    BY <1>1, <2>1, <2>2, <2>3, Zenon
<1>3. ASSUME NEW n \in Nat, n \in S PROVE n + 1 \in S
  <2>0. n + 1 \in Nat
    OBVIOUS
  <2> SUFFICES ASSUME n + 1 <= QueueBuckets PROVE Good(n + 1)
    BY <2>0, Zenon
  <2>1. /\ n <= QueueBuckets /\ n + 1 \in 1..QueueBuckets /\ (n + 1) - 1 = n
        /\ \A b : b \in 1..(n + 1) <=> b \in 1..n \/ b = n + 1
        /\ \A b \in 1..n : b \in 1..QueueBuckets /\ b # n + 1
    BY BucketsAssumption
  <2>2. Good(n)
    BY <1>3, <2>1, Zenon
  <2>3. u[n + 1] = u[n] \o qchain[n + 1]
    BY <1>1, <2>1, Zenon
  <2>4. qchain[n + 1] \in Seq(QueueNames) /\ Distinct(qchain[n + 1])
    BY <2>1, Zenon DEF QueueTable
  <2>5. \A q : ~(In(q, u[n]) /\ In(q, qchain[n + 1]))
    <3> SUFFICES ASSUME NEW q, In(q, u[n]), In(q, qchain[n + 1]) PROVE FALSE
      BY Zenon
    <3>1. PICK b \in 1..n : In(q, qchain[b])
      BY <2>2, Zenon
    <3>2. QueueBucket[q] = b /\ QueueBucket[q] = n + 1
      BY <2>1, <3>1, Zenon DEF QueueTable
    <3> QED
      BY <2>1, <3>2, Zenon
  <2>6. \A q : In(q, u[n] \o qchain[n + 1]) <=> In(q, u[n]) \/ In(q, qchain[n + 1])
    BY <2>2, <2>4, ConcatFacts, Zenon
  <2>7. u[n] \o qchain[n + 1] \in Seq(QueueNames) /\ Distinct(u[n] \o qchain[n + 1])
    BY <2>2, <2>4, <2>5, ConcatFacts, Zenon
  <2> QED
    <3>1. \A q : In(q, u[n + 1]) <=> \E b \in 1..(n + 1) : In(q, qchain[b])
      BY <2>1, <2>2, <2>3, <2>6, Zenon
    <3> QED
      BY <2>3, <2>7, <3>1, Zenon
<1> HIDE DEF S
<1>4. Nat \subseteq S
  BY <1>2, <1>3, Induct, Zenon
<1>5. QueueBuckets \in Nat /\ QueueBuckets <= QueueBuckets
  BY BucketsAssumption
<1>6. Good(QueueBuckets)
  <2> HIDE DEF Good
  <2> QED
    BY <1>4, <1>5, Zenon DEF S
<1>7. \A q \in QueueNames : QueueBucket[q] \in 1..QueueBuckets
  BY BucketsAssumption, ZenonT(40)
<1> QED
  BY <1>1, <1>6, <1>7, Zenon DEF Known, QueueTable

\* The things of U that belong to queue q.
Owned(U, own, q) == {x \in U : own[x] = q}

\* The counter of each queue of w is the number of the things of U that belong
\* to it, and all of U belongs to queues of w.
Covers(U, own, w, count) ==
  /\ IsFiniteSet(U) /\ Len(w) \in Nat /\ Distinct(w)
  /\ \A i \in 1..Len(w) : count[w[i]] = Cardinality(Owned(U, own, w[i]))
  /\ \A x \in U : \E i \in 1..Len(w) : own[x] = w[i]

\* Then the sum of the counters is the size of U.
LEMMA SumCounts ==
  ASSUME NEW U, NEW own, NEW w, NEW count, Covers(U, own, w, count)
  PROVE  Sums(count, w)[Len(w)] = Cardinality(U)
<1>0. /\ IsFiniteSet(U) /\ Len(w) \in Nat /\ Distinct(w)
      /\ \A i \in 1..Len(w) : count[w[i]] = Cardinality(Owned(U, own, w[i]))
      /\ \A x \in U : \E i \in 1..Len(w) : own[x] = w[i]
  BY ZenonT(40) DEF Covers
<1> USE <1>0
<1> DEFINE k == Len(w)
           f == Sums(count, w)
           Upto(n) == {x \in U : \E i \in 1..n : own[x] = w[i]}
           S == {n \in Nat : n <= k => f[n] = Cardinality(Upto(n))}
<1>1. k \in Nat /\ f[0] = 0 /\ \A i \in 1..k : f[i] = f[i - 1] + count[w[i]]
  BY SumsRecursion, SMTT(30)
<1> HIDE DEF f, k
<1>2. 0 \in S
  <2>1. Upto(0) = {}
    OBVIOUS
  <2> HIDE DEF Upto
  <2> QED
    BY <1>1, <2>1, FS_EmptySet, Zenon
<1>3. ASSUME NEW n \in Nat, n \in S PROVE n + 1 \in S
  <2>0. n + 1 \in Nat
    OBVIOUS
  <2> SUFFICES ASSUME n + 1 <= k PROVE f[n + 1] = Cardinality(Upto(n + 1))
    BY <2>0, Zenon
  <2> DEFINE V == {x \in U : own[x] = w[n + 1]}
  <2>1. /\ n <= k /\ n + 1 \in 1..k /\ (n + 1) - 1 = n
        /\ \A i : i \in 1..(n + 1) <=> i \in 1..n \/ i = n + 1
        /\ \A i \in 1..n : i \in 1..k /\ i # n + 1
    BY <1>1
  <2>2. Upto(n + 1) = Upto(n) \cup V
    BY <2>1, Zenon
  <2>3. Upto(n) \cap V = {}
    <3> SUFFICES ASSUME NEW x \in U, NEW i \in 1..n, own[x] = w[i], own[x] = w[n + 1]
                 PROVE  FALSE
      BY ZenonT(40)
    <3>1. w[i] = w[n + 1]
      BY Zenon
    <3> QED
      BY <2>1, <3>1, Zenon DEF Distinct, k
  <2>4. f[n + 1] = f[n] + Cardinality(V) /\ f[n] = Cardinality(Upto(n))
    BY <1>1, <1>3, <2>1, Zenon DEF k, Owned
  <2>5. Upto(n) \subseteq U /\ V \subseteq U
    BY Zenon
  <2> HIDE DEF Upto, V
  <2>6. IsFiniteSet(Upto(n)) /\ IsFiniteSet(V)
    BY <2>5, FS_Subset, Zenon
  <2>7. Cardinality(Upto(n) \cup V) = Cardinality(Upto(n)) + Cardinality(V)
    BY ONLY <2>3, <2>6, DisjointUnion, Zenon
  <2> QED
    BY ONLY <2>2, <2>4, <2>7, Zenon
<1>4. Upto(k) = U
  BY Zenon DEF k
<1> HIDE DEF S, Upto
<1>5. k \in S
  BY <1>1, <1>2, <1>3, Induct, Zenon
<1> QED
  BY <1>1, <1>4, <1>5 DEF S, f, k

-----------------------------------------------------------------------------
(* The counters of the queues.                                             *)

\* What the counters of a queue are to count.
LeasesOf(q) == {l \in live : mqueue[lmsg[l]] = q}
DoneOf(q) == {m \in MsgIds : state[m] = "ACKED" /\ mqueue[m] = q}

KnownQueues == {q \in QueueNames : Known(q)}

Counted ==
  /\ QueueTable
  /\ queue_count = Cardinality(KnownQueues)
  /\ \A q \in QueueNames : pending[q] # 0 => Known(q)
  /\ \A m \in MsgIds : state[m] \in {"LEASED", "ACKED"} => Known(mqueue[m])
  /\ \A q \in QueueNames :
       leased[q] = Cardinality(LeasesOf(q)) /\ acked[q] = Cardinality(DoneOf(q))

\* The ids are finitely many.
LEMMA FiniteIds ==
  /\ IsFiniteSet(MsgIds) /\ IsFiniteSet(LeaseIds)
  /\ \A T : T \subseteq MsgIds \/ T \subseteq LeaseIds =>
       IsFiniteSet(T) /\ Cardinality(T) \in Nat
<1>1. 1 \in Int /\ MaxMsg \in Int /\ MaxLease \in Int
  BY BoundsAssumption
<1>2. IsFiniteSet(MsgIds) /\ IsFiniteSet(LeaseIds)
  BY <1>1, FS_Interval, Zenon DEF MsgIds, LeaseIds
<1>3. \A T : T \subseteq MsgIds \/ T \subseteq LeaseIds => IsFiniteSet(T)
  BY <1>2, FS_Subset, Zenon
<1> QED
  BY <1>2, <1>3, FS_CardinalityType, Zenon

\* The queues of the table are those of the walk.
LEMMA KnownAreWalked ==
  ASSUME QueueTable
  PROVE  /\ KnownQueues = Range(QueueWalk) /\ IsFiniteSet(KnownQueues)
         /\ Cardinality(KnownQueues) = Len(QueueWalk)
<1> DEFINE w == QueueWalk
<1>1. w \in Seq(QueueNames) /\ Distinct(w) /\ \A q \in QueueNames : In(q, w) <=> Known(q)
  BY WalkMeetsAll, Zenon
<1> HIDE DEF w
<1>2. \A q : q \in Range(w) <=> In(q, w)
  BY Zenon DEF Range, In
<1>3. \A q : In(q, w) => q \in QueueNames
  BY <1>1 DEF In
<1>4. KnownQueues = Range(w)
  BY <1>1, <1>2, <1>3, Zenon DEF KnownQueues
<1> QED
  BY <1>1, <1>4, CountMembers, Zenon DEF w

\* A step that leaves the queue table alone leaves its queues in it.
LEMMA QueuesKept ==
  ASSUME Counted, UNCHANGED <<qchain, queue_count>>
  PROVE  /\ QueueTable' /\ queue_count' = Cardinality(KnownQueues')
         /\ \A x : Known(x)' <=> Known(x)
<1>1. QueueTable' /\ \A x : Known(x)' <=> Known(x)
  BY Zenon DEF Counted, QueueTable, Known
<1>2. KnownQueues' = KnownQueues
  BY <1>1, Zenon DEF KnownQueues
<1> QED
  BY <1>1, <1>2, Zenon DEF Counted

\* qdb__queue_get_or_create adds the queue, counts it and keeps the others.
LEMMA QueueAdded ==
  ASSUME Counted, NEW q \in QueueNames, queue_get_or_create(q)
  PROVE  /\ QueueTable' /\ queue_count' = Cardinality(KnownQueues')
         /\ Known(q)' /\ \A x \in QueueNames : Known(x) => Known(x)'
<1>0. QueueTable
  BY Zenon DEF Counted
<1> USE <1>0
<1> DEFINE b == QueueBucket[q]
           c == qchain[b]
<1>1. b \in 1..QueueBuckets /\ c \in Seq(QueueNames) /\ Distinct(c)
  BY BucketsAssumption, Zenon DEF QueueTable
<1>2. CASE In(q, c)
  BY <1>2, QueuesKept, Zenon DEF queue_get_or_create, Known
<1>3. CASE ~In(q, c)
  <2> DEFINE d == <<q>> \o c
  <2>1. qchain' = [qchain EXCEPT ![b] = d] /\ queue_count' = queue_count + 1
    BY <1>3, Zenon DEF queue_get_or_create
  <2>2. <<q>> \in Seq(QueueNames) /\ Distinct(<<q>>) /\ \A x : In(x, <<q>>) <=> x = q
    BY DEF Distinct, In
  <2>3. d \in Seq(QueueNames) /\ \A x : In(x, d) <=> x = q \/ In(x, c)
    BY <1>1, <2>2, ConcatFacts, Zenon
  <2>4. Distinct(d)
    <3>1. \A x : ~(In(x, <<q>>) /\ In(x, c))
      BY <1>3, <2>2, Zenon
    <3> QED
      BY ONLY <1>1, <2>2, <3>1, ConcatFacts, Zenon
  <2> HIDE DEF c, d
  <2>5. qchain'[b] = d /\ \A a \in 1..QueueBuckets \ {b} : qchain'[a] = qchain[a]
    BY <1>1, <2>1, Zenon DEF QueueTable
  <2>6. qchain' \in [1..QueueBuckets -> Seq(QueueNames)]
    BY <1>1, <2>1, <2>3, Zenon DEF QueueTable
  <2>7. ASSUME NEW a \in 1..QueueBuckets
        PROVE  Distinct(qchain'[a]) /\ \A x : In(x, qchain'[a]) => QueueBucket[x] = a
    <3>1. CASE a = b
      <4>1. \A x : In(x, c) => QueueBucket[x] = b
        BY <1>1, Zenon DEF QueueTable, c
      <4> QED
        BY <2>3, <2>4, <2>5, <3>1, <4>1, Zenon
    <3>2. CASE a # b
      BY <2>5, <3>2, Zenon DEF QueueTable
    <3> QED
      BY <3>1, <3>2, Zenon
  <2>8. \A x \in QueueNames : QueueBucket[x] \in 1..QueueBuckets
    BY BucketsAssumption, Zenon
  <2>9. \A x \in QueueNames : Known(x)' <=> Known(x) \/ x = q
    <3> TAKE x \in QueueNames
    <3>1. CASE QueueBucket[x] = b
      BY <2>3, <2>5, <3>1, Zenon DEF Known, c
    <3>2. CASE QueueBucket[x] # b
      BY <2>5, <2>8, <3>2, Zenon DEF Known
    <3> QED
      BY <3>1, <3>2, Zenon
  <2>10. KnownQueues' = KnownQueues \cup {q} /\ q \notin KnownQueues
    <3>1. ~Known(q)
      BY <1>3, Zenon DEF Known, c
    <3> QED
      BY <2>9, <3>1, Zenon DEF KnownQueues
  <2>11. Cardinality(KnownQueues') = Cardinality(KnownQueues) + 1
    BY <2>10, KnownAreWalked, FS_AddElement, Zenon
  <2>12. queue_count' = Cardinality(KnownQueues')
    BY <2>1, <2>11, Zenon DEF Counted
  <2> QED
    BY <2>6, <2>7, <2>9, <2>12, Zenon DEF QueueTable
<1> QED
  BY <1>2, <1>3, Zenon

\* A message that is new to the table is in no count.
LEMMA NewUncounted ==
  ASSUME Base, Counted, UNCHANGED <<leases, leased, acked>>,
         \A x \in MsgIds : state[x] # "none" => state'[x] = state[x] /\ mqueue'[x] = mqueue[x],
         \A x \in MsgIds : state[x] = "none" => state'[x] \in {"none", "PENDING"},
         QueueTable', queue_count' = Cardinality(KnownQueues'),
         \A x \in QueueNames : Known(x) => Known(x)',
         \A x \in QueueNames : pending'[x] # 0 => Known(x)'
  PROVE  Counted'
<1>1. live' = live /\ lmsg' = lmsg
  BY Zenon DEF leases
<1>2. \A l \in live : lmsg[l] \in MsgIds /\ state[lmsg[l]] = "LEASED"
  BY Zenon DEF Base, Leasing, Leased
<1>3. \A l \in live : mqueue'[lmsg[l]] = mqueue[lmsg[l]]
  BY <1>2, Zenon
<1>4. \A q : LeasesOf(q)' = LeasesOf(q)
  BY <1>1, <1>3, Zenon DEF LeasesOf
<1>5. \A q : DoneOf(q)' = DoneOf(q)
  BY Zenon DEF DoneOf
<1>6. ASSUME NEW x \in MsgIds, state'[x] \in {"LEASED", "ACKED"}
      PROVE  Known(mqueue[x])'
  <2>1. state[x] # "none" /\ state'[x] = state[x] /\ mqueue'[x] = mqueue[x]
    BY <1>6, Zenon
  <2>2. Known(mqueue[x]) /\ mqueue[x] \in QueueNames
    BY <1>6, <2>1, Zenon DEF Counted, Base, MsgTypes
  <2> QED
    BY <2>1, <2>2, Zenon DEF Known
<1> QED
  BY <1>4, <1>5, <1>6, Zenon DEF Counted

\* A push counts the message as pending, and its queue is in the table.
LEMMA PushCounted ==
  ASSUME Base, Counted, NEW q \in QueueNames, qdb_push(q) \/ LostPush(q)
  PROVE  Counted'
<1> DEFINE m == next_msg
<1>1. m \in MsgIds
  BY DEF Base, MsgTypes, MsgIds, qdb_push, LostPush
<1>2. state[m] = "none"
  BY <1>1 DEF Base, Fresh, MsgTypes
<1> HIDE DEF m
<1>3. /\ \A x \in MsgIds : state[x] # "none" => state'[x] = state[x] /\ mqueue'[x] = mqueue[x]
      /\ \A x \in MsgIds : state[x] = "none" => state'[x] \in {"none", "PENDING"}
  <2>1. state \in [MsgIds -> {"none", "PENDING", "LEASED", "ACKED"}] /\ mqueue \in [MsgIds -> QueueNames]
    BY Zenon DEF Base, MsgTypes
  <2>2. \/ UNCHANGED <<state, mqueue>>
        \/ state' = [state EXCEPT ![m] = "PENDING"] /\ mqueue' = [mqueue EXCEPT ![m] = q]
    BY Zenon DEF qdb_push, LostPush, m
  <2> QED
    BY <1>1, <1>2, <2>1, <2>2, ZenonT(40)
<1>4. UNCHANGED <<leases, leased, acked>>
  BY Zenon DEF qdb_push, LostPush
<1>5. CASE qdb_push(q)
  <2>1. /\ QueueTable' /\ queue_count' = Cardinality(KnownQueues')
        /\ Known(q)' /\ \A x \in QueueNames : Known(x) => Known(x)'
    BY <1>5, QueueAdded, Zenon DEF qdb_push
  <2>2. \A x \in QueueNames \ {q} : pending'[x] = pending[x]
    BY <1>5, Zenon DEF qdb_push, pending_append, Base, ListTypes
  <2>3. \A x \in QueueNames : pending'[x] # 0 => Known(x)'
    BY <2>1, <2>2, Zenon DEF Counted
  <2> QED
    BY <1>3, <1>4, <2>1, <2>3, NewUncounted, Zenon
<1>6. CASE LostPush(q)
  <2>1. UNCHANGED <<qchain, queue_count, pending>>
    BY <1>6, Zenon DEF LostPush, lists
  <2>2. /\ QueueTable' /\ queue_count' = Cardinality(KnownQueues')
        /\ \A x \in QueueNames : Known(x) => Known(x)'
    BY <2>1, QueuesKept, Zenon
  <2>3. \A x \in QueueNames : pending'[x] # 0 => Known(x)'
    BY <2>1, <2>2, Zenon DEF Counted
  <2> QED
    BY <1>3, <1>4, <2>2, <2>3, NewUncounted, Zenon
<1> QED
  BY <1>5, <1>6, ZenonT(40)

\* A pop counts the lease under the queue of the message.
LEMMA PopCounted ==
  ASSUME Base, Counted, NEW q \in QueueNames, NEW c \in 1..Len(fifo[q]), NEW e,
         NEW m, m = fifo[q][c], do_pop(q, m, e)
  PROVE  Counted'
<1> DEFINE l == next_lease
<1>1. m \in MsgIds /\ state[m] = "PENDING" /\ mqueue[m] = q
  <2>1. fifo[q] \in Seq(MsgIds)
    BY Zenon DEF Base, ListTypes
  <2>2. fifo[q][c] \in MsgIds
    BY <2>1, SMTT(30)
  <2> QED
    BY <2>2, Zenon DEF Base, Lists, OnList
<1>2. l \notin live /\ l \in LeaseIds
  BY DEF do_pop, Base, Fresh, MsgTypes, LeaseTypes, LeaseIds
<1>3. /\ live' = live \cup {l} /\ lmsg' = [lmsg EXCEPT ![l] = m]
      /\ state' = [state EXCEPT ![m] = "LEASED"] /\ leased' = [leased EXCEPT ![q] = @ + 1]
      /\ pending' = [pending EXCEPT ![q] = @ - 1]
      /\ UNCHANGED <<mqueue, acked, qchain, queue_count>>
  BY Zenon DEF do_pop, lease_insert, pending_remove
<1> HIDE DEF l
<1>4. lmsg'[l] = m /\ \A k \in live : lmsg'[k] = lmsg[k]
  BY <1>2, <1>3, Zenon DEF Base, LeaseTypes
<1>5. /\ state'[m] = "LEASED" /\ \A x \in MsgIds \ {m} : state'[x] = state[x]
      /\ leased'[q] = leased[q] + 1 /\ \A x \in QueueNames \ {q} : leased'[x] = leased[x]
      /\ \A x \in QueueNames \ {q} : pending'[x] = pending[x]
  BY <1>1, <1>3, Zenon DEF Base, MsgTypes, ListTypes
<1>6. Known(q)
  <2>1. pending[q] = Len(fifo[q]) /\ fifo[q] \in Seq(MsgIds)
    BY Zenon DEF Base, Lists, ListTypes
  <2>2. pending[q] # 0
    BY <2>1
  <2> QED
    BY <2>2, Zenon DEF Counted
<1>7. LeasesOf(q)' = LeasesOf(q) \cup {l}
  BY <1>1, <1>3, <1>4, Zenon DEF LeasesOf
<1>8. \A x \in QueueNames \ {q} : LeasesOf(x)' = LeasesOf(x)
  BY <1>1, <1>3, <1>4, ZenonT(40) DEF LeasesOf
<1>9. \A x \in QueueNames : DoneOf(x)' = DoneOf(x)
  <2>1. \A y \in MsgIds : state'[y] = "ACKED" <=> state[y] = "ACKED"
    BY <1>1, <1>5, Zenon
  <2> QED
    BY <1>3, <2>1, Zenon DEF DoneOf
<1>10. Cardinality(LeasesOf(q)') = Cardinality(LeasesOf(q)) + 1
  <2>1. IsFiniteSet(LeasesOf(q)) /\ l \notin LeasesOf(q)
    BY <1>2, FiniteIds, Zenon DEF LeasesOf, Base, LeaseTypes
  <2> QED
    BY <1>7, <2>1, FS_AddElement, Zenon
<1>11. \A x \in QueueNames : leased'[x] = Cardinality(LeasesOf(x)') /\ acked'[x] = Cardinality(DoneOf(x)')
  <2>1. ASSUME NEW x \in QueueNames PROVE leased'[x] = Cardinality(LeasesOf(x)')
    <3>1. CASE x = q
      <4>1. leased[q] = Cardinality(LeasesOf(q))
        BY Zenon DEF Counted
      <4> QED
        BY <1>5, <1>10, <3>1, <4>1, Zenon
    <3>2. CASE x # q
      <4>1. leased[x] = Cardinality(LeasesOf(x))
        BY Zenon DEF Counted
      <4> QED
        BY <1>5, <1>8, <3>2, <4>1, Zenon
    <3> QED
      BY <3>1, <3>2, Zenon
  <2>2. ASSUME NEW x \in QueueNames PROVE acked'[x] = Cardinality(DoneOf(x)')
    BY <1>3, <1>9, Zenon DEF Counted
  <2> QED
    BY <2>1, <2>2, Zenon
<1>12. /\ QueueTable' /\ queue_count' = Cardinality(KnownQueues')
       /\ \A x : Known(x)' <=> Known(x)
  BY <1>3, QueuesKept, Zenon
<1>13. \A x \in QueueNames : pending'[x] # 0 => Known(x)
  BY <1>5, <1>6, Zenon DEF Counted
<1>14. \A x \in MsgIds : state'[x] \in {"LEASED", "ACKED"} => Known(mqueue[x])
  BY <1>1, <1>5, <1>6, Zenon DEF Counted
<1>15. \A x \in MsgIds : Known(mqueue[x])' <=> Known(mqueue[x])
  BY <1>3, Zenon DEF Known
<1> QED
  BY <1>11, <1>12, <1>13, <1>14, <1>15, Zenon DEF Counted

\* An ack, a nack or an expiry takes the lease out of the count of its queue.
LEMMA LeaseUncounted ==
  ASSUME Base, Counted, NEW m \in MsgIds, NEW l \in LeaseIds, Leased(m, l), lease_remove(l),
         mqueue' = mqueue, leased' = [leased EXCEPT ![mqueue[m]] = @ - 1]
  PROVE  /\ mqueue[m] \in QueueNames /\ Known(mqueue[m])
         /\ \A x \in QueueNames : leased'[x] = Cardinality(LeasesOf(x)')
<1> DEFINE q == mqueue[m]
<1>1. l \in live /\ lmsg[l] = m /\ state[m] = "LEASED" /\ q \in QueueNames
  BY Zenon DEF Base, Leasing, Leased, MsgTypes
<1>2. live' = live \ {l} /\ \A k \in live' : lmsg'[k] = lmsg[k]
  BY Zenon DEF lease_remove, Scrap, Base, LeaseTypes
<1>3. leased'[q] = leased[q] - 1 /\ \A x \in QueueNames \ {q} : leased'[x] = leased[x]
  BY <1>1, Zenon DEF Base, MsgTypes
<1>4. Known(q)
  BY <1>1, Zenon DEF Counted
<1>5. l \in LeasesOf(q)
  BY <1>1, Zenon DEF LeasesOf
<1> HIDE DEF q
<1>6. q' = q
  BY Zenon DEF q
<1>7. LeasesOf(q)' = LeasesOf(q) \ {l}
  BY <1>2, <1>6, Zenon DEF LeasesOf
<1>8. \A x \in QueueNames \ {q} : LeasesOf(x)' = LeasesOf(x)
  BY <1>1, <1>2, ZenonT(40) DEF LeasesOf, q
<1>9. Cardinality(LeasesOf(q)') = Cardinality(LeasesOf(q)) - 1
  <2>1. IsFiniteSet(LeasesOf(q))
    BY FiniteIds, Zenon DEF LeasesOf, Base, LeaseTypes
  <2> QED
    BY <1>5, <1>7, <2>1, FS_RemoveElement, Zenon
<1>10. ASSUME NEW x \in QueueNames
      PROVE  leased'[x] = Cardinality(LeasesOf(x)')
  <2>1. CASE x = q
    BY <1>3, <1>9, <1>6, <2>1, Zenon DEF Counted
  <2>2. CASE x # q
    BY <1>3, <1>8, <2>2, Zenon DEF Counted
  <2> QED
    BY <2>1, <2>2, Zenon
<1> QED
  BY <1>1, <1>4, <1>10, Zenon DEF q

\* An ack counts the message as done.
LEMMA AckCounted ==
  ASSUME Base, Counted, NEW m \in MsgIds, qdb_ack(m)
  PROVE  Counted'
<1> DEFINE q == mqueue[m]
<1>1. PICK l \in LeaseIds : Leased(m, l) /\ lease_remove(l)
  BY Zenon DEF qdb_ack
<1>2. /\ leased' = [leased EXCEPT ![q] = @ - 1] /\ acked' = [acked EXCEPT ![q] = @ + 1]
      /\ state' = [state EXCEPT ![m] = "ACKED"]
      /\ UNCHANGED <<mqueue, pending, qchain, queue_count>>
  BY Zenon DEF qdb_ack, lists
<1>3. q \in QueueNames /\ Known(q) /\ \A x \in QueueNames : leased'[x] = Cardinality(LeasesOf(x)')
  BY <1>1, <1>2, LeaseUncounted, Zenon
<1>4. state[m] = "LEASED"
  BY <1>1, Zenon DEF Leased
<1>5. /\ state'[m] = "ACKED" /\ \A x \in MsgIds \ {m} : state'[x] = state[x]
      /\ acked'[q] = acked[q] + 1 /\ \A x \in QueueNames \ {q} : acked'[x] = acked[x]
  BY <1>2, <1>3, Zenon DEF Base, MsgTypes
<1>6. DoneOf(q)' = DoneOf(q) \cup {m}
  <2>1. q' = q
    BY <1>2, Zenon
  <2> QED
    BY <1>2, <1>5, <2>1, Zenon DEF DoneOf
<1>7. \A x \in QueueNames \ {q} : DoneOf(x)' = DoneOf(x)
  BY <1>2, <1>4, <1>5, ZenonT(40) DEF DoneOf
<1>8. Cardinality(DoneOf(q)') = Cardinality(DoneOf(q)) + 1
  <2>1. IsFiniteSet(DoneOf(q)) /\ m \notin DoneOf(q)
    BY <1>4, FiniteIds, Zenon DEF DoneOf
  <2> QED
    BY <1>6, <2>1, FS_AddElement, Zenon
<1>9. \A x \in QueueNames : acked'[x] = Cardinality(DoneOf(x)')
  <2>1. q' = q
    BY <1>2, Zenon
  <2> HIDE DEF q
  <2>2. ASSUME NEW x \in QueueNames PROVE acked'[x] = Cardinality(DoneOf(x)')
    <3>1. CASE x = q
      BY <1>5, <1>8, <2>1, <3>1, Zenon DEF Counted
    <3>2. CASE x # q
      BY <1>5, <1>7, <3>2, Zenon DEF Counted
    <3> QED
      BY <3>1, <3>2, Zenon
  <2> QED
    BY <2>2, Zenon
<1>10. /\ QueueTable' /\ queue_count' = Cardinality(KnownQueues')
       /\ \A x : Known(x)' <=> Known(x)
  BY <1>2, QueuesKept, Zenon
<1>11. \A x \in QueueNames : pending'[x] # 0 => Known(x)
  BY <1>2, Zenon DEF Counted
<1>12. \A x \in MsgIds : state'[x] \in {"LEASED", "ACKED"} => Known(mqueue[x])
  BY <1>3, <1>5, Zenon DEF Counted
<1>13. \A x \in MsgIds : Known(mqueue[x])' <=> Known(mqueue[x])
  BY <1>2, Zenon DEF Known
<1> QED
  BY <1>3, <1>9, <1>10, <1>11, <1>12, <1>13, Zenon DEF Counted

\* A message that is given back is pending again, in a queue of the table.
LEMMA GiveBackCounted ==
  ASSUME Base, Counted, NEW m \in MsgIds, NEW l \in LeaseIds, Leased(m, l), GiveBack(m, l)
  PROVE  Counted'
<1> DEFINE q == mqueue[m]
<1>1. /\ leased' = [leased EXCEPT ![q] = @ - 1] /\ lease_remove(l)
      /\ state' = [state EXCEPT ![m] = "PENDING"]
      /\ pending' = [pending EXCEPT ![q] = @ + 1]
      /\ UNCHANGED <<mqueue, acked, qchain, queue_count>>
  BY Zenon DEF GiveBack, pending_append
<1>2. q \in QueueNames /\ Known(q) /\ \A x \in QueueNames : leased'[x] = Cardinality(LeasesOf(x)')
  BY <1>1, LeaseUncounted, Zenon
<1>3. /\ state[m] = "LEASED" /\ state'[m] = "PENDING"
      /\ \A x \in MsgIds \ {m} : state'[x] = state[x]
      /\ \A x \in QueueNames \ {q} : pending'[x] = pending[x]
  BY <1>1, <1>2, Zenon DEF Base, MsgTypes, ListTypes, Leased
<1>4. \A x : DoneOf(x)' = DoneOf(x)
  BY <1>1, <1>3, ZenonT(40) DEF DoneOf
<1>5. \A x \in QueueNames : acked'[x] = Cardinality(DoneOf(x)')
  BY <1>1, <1>4, Zenon DEF Counted
<1>6. /\ QueueTable' /\ queue_count' = Cardinality(KnownQueues')
      /\ \A x : Known(x)' <=> Known(x)
  BY <1>1, QueuesKept, Zenon
<1>7. \A x \in QueueNames : pending'[x] # 0 => Known(x)
  BY <1>2, <1>3, Zenon DEF Counted
<1>8. \A x \in MsgIds : state'[x] \in {"LEASED", "ACKED"} => Known(mqueue[x])
  BY <1>3, Zenon DEF Counted
<1>9. \A x \in MsgIds : Known(mqueue[x])' <=> Known(mqueue[x])
  BY <1>1, Zenon DEF Known
<1> QED
  BY <1>2, <1>5, <1>6, <1>7, <1>8, <1>9, Zenon DEF Counted

\* A step that leaves the tables as they are leaves the counts true.
LEMMA IdleCounted ==
  ASSUME Counted, UNCHANGED Tables
  PROVE  Counted'
<1>1. UNCHANGED <<state, mqueue, pending, leased, acked, qchain, queue_count, live, lmsg>>
  BY Zenon DEF Tables, msgs, lists, leases
<1>2. /\ QueueTable' /\ queue_count' = Cardinality(KnownQueues')
      /\ \A q : Known(q)' <=> Known(q)
  BY <1>1, QueuesKept, Zenon
<1>3. \A q : LeasesOf(q)' = LeasesOf(q) /\ DoneOf(q)' = DoneOf(q)
  BY <1>1, Zenon DEF LeasesOf, DoneOf
<1>4. \A m \in MsgIds : Known(mqueue[m])' <=> Known(mqueue[m])
  BY <1>1, Zenon DEF Known
<1> QED
  BY <1>1, <1>2, <1>3, <1>4, Zenon DEF Counted

\* The counters of every queue are true after any sequence of calls, and no
\* message is waiting, leased or done in a queue the table has lost.
THEOREM CountersTrue == Spec => []Counted
<1>1. Init => Counted
  <2> SUFFICES ASSUME Init PROVE Counted
    BY Zenon
  <2>1. /\ << >> \in Seq(QueueNames) /\ Distinct(<< >>) /\ \A q : ~In(q, << >>)
    BY DEF Distinct, In
  <2>2. QueueTable
    BY <2>1, Zenon DEF Init, QueueTable
  <2>3. \A q : LeasesOf(q) = {} /\ DoneOf(q) = {}
    BY Zenon DEF Init, LeasesOf, DoneOf
  <2>4. \A q \in QueueNames : pending[q] = 0 /\ leased[q] = 0 /\ acked[q] = 0
    BY Zenon DEF Init
  <2>5. \A m \in MsgIds : state[m] = "none"
    BY Zenon DEF Init
  <2>6. KnownQueues = {} /\ queue_count = 0
    BY <2>1, BucketsAssumption, Zenon DEF Init, KnownQueues, Known
  <2> QED
    BY <2>2, <2>3, <2>4, <2>5, <2>6, FS_EmptySet, Zenon DEF Counted
<1>2. TInv /\ Counted /\ [Next]_vars => Counted'
  <2> SUFFICES ASSUME TInv, Counted, [Next]_vars PROVE Counted'
    BY Zenon
  <2>1. Base
    BY Zenon DEF TInv
  <2>2. CASE UNCHANGED vars
    BY <2>2, IdleCounted, Zenon DEF vars, Tables
  <2>3. ASSUME NEW q \in QueueNames, qdb_push(q) \/ LostPush(q)
        PROVE  Counted'
    BY <2>1, <2>3, PushCounted, Zenon
  <2>4. ASSUME NEW q \in QueueNames, NEW e \in Times, qdb_pop(q, e)
        PROVE  Counted'
    <3>1. 1 \in 1..Len(fifo[q]) /\ head[q] = fifo[q][1]
      <4>1. pending[q] = Len(fifo[q]) /\ fifo[q] \in Seq(MsgIds) /\ head[q] = At(fifo[q], 1)
        BY <2>1, Zenon DEF Base, Lists, ListTypes, Linked
      <4>2. pending[q] # 0
        BY <2>4, Zenon DEF qdb_pop
      <4>3. 1 \in 1..Len(fifo[q])
        BY <4>1, <4>2
      <4> QED
        BY <4>1, <4>3, Zenon DEF At
    <3> QED
      BY <2>1, <2>4, <3>1, PopCounted, Zenon DEF qdb_pop
  <2>5. ASSUME NEW m \in MsgIds, NEW e \in Times, replay_lease(m, e)
        PROVE  Counted'
    <3>1. mqueue[m] \in QueueNames /\ fifo[mqueue[m]] \in Seq(MsgIds)
      BY <2>1, Zenon DEF Base, MsgTypes, ListTypes
    <3>2. PICK c \in DOMAIN fifo[mqueue[m]] : fifo[mqueue[m]][c] = m
      BY <2>5, Zenon DEF replay_lease, In
    <3>3. c \in 1..Len(fifo[mqueue[m]])
      BY <3>1, <3>2
    <3> QED
      BY <2>1, <2>5, <3>1, <3>2, <3>3, PopCounted, Zenon DEF replay_lease
  <2>6. ASSUME NEW m \in MsgIds, qdb_ack(m) \/ qdb_nack(m)
        PROVE  Counted'
    BY <2>1, <2>6, AckCounted, GiveBackCounted, Zenon DEF qdb_nack
  <2>7. CASE WalkEntry
    <3>1. CASE UNCHANGED Tables
      BY <3>1, IdleCounted, Zenon
    <3>2. CASE Leased(lmsg[walk.l], walk.l) /\ GiveBack(lmsg[walk.l], walk.l)
      <4>1. walk.l \in live /\ live \subseteq LeaseIds
        BY <2>1, <2>7, Zenon DEF WalkEntry, TInv, Walking, Base, LeaseTypes
      <4>2. lmsg[walk.l] \in MsgIds /\ walk.l \in LeaseIds
        BY <2>1, <4>1, Zenon DEF Base, Leasing
      <4> QED
        BY <2>1, <3>2, <4>2, GiveBackCounted, Zenon
    <3> QED
      BY <2>7, <3>1, <3>2, Zenon DEF WalkEntry, expire_one
  <2>8. CASE (\E now \in Times : ExpireBegin(now)) \/ WalkFails \/ WalkBucket \/ WalkReturns
    BY <2>8, IdleCounted, Zenon DEF ExpireBegin, WalkFails, WalkBucket, WalkReturns
  <2> QED
    BY <2>2, <2>3, <2>4, <2>5, <2>6, <2>7, <2>8, Zenon DEF Next
<1> QED
  BY <1>1, <1>2, TablesInvariant, PTL DEF Spec

-----------------------------------------------------------------------------
(* The statistics.                                                         *)

\* What qdb_stats, qdb_queue_stats, qdb_queue_list and qdb_compact_recommended
\* report is true of the tables, in every state.
LEMMA TrueReports ==
  ASSUME Base, Counted
  PROVE  StatsTrue
<1> DEFINE w == QueueWalk
           W == {m \in MsgIds : \E q \in QueueNames : In(m, fifo[q])}
           D == {m \in MsgIds : state[m] = "ACKED"}
           own == [l \in live |-> mqueue[lmsg[l]]]
<1>1. /\ w \in Seq(QueueNames) /\ Distinct(w) /\ Len(w) \in Nat
      /\ \A q \in QueueNames : In(q, w) <=> Known(q)
  <2>1. w \in Seq(QueueNames) /\ Distinct(w) /\ \A q \in QueueNames : In(q, w) <=> Known(q)
    BY WalkMeetsAll, Zenon DEF Counted
  <2>2. Len(w) \in Nat
    BY <2>1
  <2> QED
    BY <2>1, <2>2, Zenon
<1>2. Range(w) = KnownQueues /\ Cardinality(KnownQueues) = Len(w)
  BY KnownAreWalked, Zenon DEF Counted
<1> HIDE DEF w
<1>3. DOMAIN w = 1..Len(w) /\ \A i \in 1..Len(w) : w[i] \in QueueNames
  BY <1>1
<1>4. \A q \in QueueNames : Known(q) => \E i \in 1..Len(w) : q = w[i]
  BY <1>1, <1>3, Zenon DEF In
<1>5. \A q \in QueueNames :
        /\ fifo[q] \in Seq(MsgIds) /\ pending[q] = Len(fifo[q])
        /\ Range(fifo[q]) = {m \in W : mqueue[m] = q}
        /\ Cardinality(Range(fifo[q])) = Len(fifo[q])
  <2> TAKE q \in QueueNames
  <2>1. fifo[q] \in Seq(MsgIds) /\ pending[q] = Len(fifo[q]) /\ Distinct(fifo[q])
    BY Zenon DEF Base, Lists, ListTypes
  <2>2. \A x \in QueueNames : \A i \in DOMAIN fifo[x] : fifo[x][i] \in MsgIds /\ mqueue[fifo[x][i]] = x
    <3> TAKE x \in QueueNames
    <3>1. fifo[x] \in Seq(MsgIds)
      BY Zenon DEF Base, ListTypes
    <3>2. DOMAIN fifo[x] = 1..Len(fifo[x]) /\ \A i \in DOMAIN fifo[x] : fifo[x][i] \in MsgIds
      BY <3>1
    <3> QED
      BY <3>2, Zenon DEF Base, Lists, OnList
  <2>3. Range(fifo[q]) = {m \in W : mqueue[m] = q}
    <3>1. ASSUME NEW i \in DOMAIN fifo[q]
          PROVE  fifo[q][i] \in W /\ mqueue[fifo[q][i]] = q
      BY <2>2, Zenon DEF In
    <3>2. ASSUME NEW m \in W, mqueue[m] = q
          PROVE  \E i \in DOMAIN fifo[q] : fifo[q][i] = m
      <4>1. PICK x \in QueueNames : \E i \in DOMAIN fifo[x] : fifo[x][i] = m
        BY Zenon DEF In
      <4> QED
        <5>1. PICK i \in DOMAIN fifo[x] : fifo[x][i] = m
          BY <4>1, Zenon
        <5>2. x = q
          BY <2>2, <3>2, <5>1, Zenon
        <5> QED
          BY <5>1, <5>2, Zenon
    <3> HIDE DEF W
    <3> QED
      BY <3>1, <3>2, Zenon DEF Range
  <2>4. Cardinality(Range(fifo[q])) = Len(fifo[q])
    BY <2>1, CountMembers, Zenon
  <2> QED
    BY <2>1, <2>3, <2>4, ZenonT(40)
<1>6. IsFiniteSet(W) /\ IsFiniteSet(live) /\ IsFiniteSet(D)
  BY FiniteIds, Zenon DEF Base, LeaseTypes
<1>7. Total(pending) = Cardinality(W)
  <2>1. \A i \in 1..Len(w) : pending[w[i]] = Cardinality(Owned(W, mqueue, w[i]))
    BY <1>3, <1>5, Zenon DEF Owned
  <2>2. \A m \in W : \E i \in 1..Len(w) : mqueue[m] = w[i]
    <3> TAKE m \in W
    <3>1. PICK q \in QueueNames : In(m, fifo[q])
      BY Zenon
    <3>2. m \in Range(fifo[q])
      BY <3>1, Zenon DEF Range, In
    <3>3. mqueue[m] = q
      BY <1>5, <3>2, Zenon
    <3>4. pending[q] # 0
      <4>1. fifo[q] \in Seq(MsgIds) /\ pending[q] = Len(fifo[q]) /\ \E i \in DOMAIN fifo[q] : TRUE
        BY <1>5, <3>1, Zenon DEF In
      <4> QED
        BY <4>1
    <3> QED
      BY <1>4, <3>3, <3>4, ZenonT(40) DEF Counted
  <2> HIDE DEF W, D, own
  <2>3. Sums(pending, w)[Len(w)] = Cardinality(W)
    <3>1. Covers(W, mqueue, w, pending)
      BY <1>1, <1>6, <2>1, <2>2, Zenon DEF Covers
    <3> QED
      BY <3>1, SumCounts, Zenon
  <2> QED
    BY <2>3, Zenon DEF Total, w
<1>8. Total(leased) = Cardinality(live)
  <2>1. \A q : Owned(live, own, q) = LeasesOf(q)
    BY Zenon DEF LeasesOf, Owned
  <2>2. \A l \in live : own[l] \in QueueNames /\ Known(own[l])
    BY Zenon DEF Base, Leasing, Leased, MsgTypes, Counted
  <2>3. \A i \in 1..Len(w) : leased[w[i]] = Cardinality(Owned(live, own, w[i]))
    BY <1>3, <2>1, Zenon DEF Counted
  <2>4. \A l \in live : \E i \in 1..Len(w) : own[l] = w[i]
    BY <1>4, <2>2, Zenon
  <2> HIDE DEF W, D, own
  <2>5. Sums(leased, w)[Len(w)] = Cardinality(live)
    <3>1. Covers(live, own, w, leased)
      BY <1>1, <1>6, <2>3, <2>4, Zenon DEF Covers
    <3> QED
      BY <3>1, SumCounts, Zenon
  <2> QED
    BY <2>5, Zenon DEF Total, w
<1>9. Total(acked) = Cardinality(D)
  <2>1. \A q : Owned(D, mqueue, q) = DoneOf(q)
    BY Zenon DEF DoneOf, Owned
  <2>2. \A m \in D : mqueue[m] \in QueueNames /\ Known(mqueue[m])
    BY Zenon DEF Base, MsgTypes, Counted
  <2>3. \A i \in 1..Len(w) : acked[w[i]] = Cardinality(Owned(D, mqueue, w[i]))
    BY <1>3, <2>1, Zenon DEF Counted
  <2>4. \A m \in D : \E i \in 1..Len(w) : mqueue[m] = w[i]
    BY <1>4, <2>2, Zenon
  <2> HIDE DEF W, D, own
  <2>5. Sums(acked, w)[Len(w)] = Cardinality(D)
    <3>1. Covers(D, mqueue, w, acked)
      BY <1>1, <1>6, <2>3, <2>4, Zenon DEF Covers
    <3> QED
      BY <3>1, SumCounts, Zenon
  <2> QED
    BY <2>5, Zenon DEF Total, w
<1>10. compact_recommended <=> Cardinality(D) > Cardinality(W) + Cardinality(live)
  <2>1. Cardinality(D) \in Nat /\ Cardinality(W) \in Nat /\ Cardinality(live) \in Nat
    BY <1>6, FS_CardinalityType, Zenon
  <2>2. compact_recommended <=>
          Cardinality(D) > 0 /\ Cardinality(D) > Cardinality(W) + Cardinality(live)
    BY <1>7, <1>8, <1>9, Zenon DEF compact_recommended, qdb_stats
  <2> HIDE DEF D, W
  <2> QED
    BY <2>1, <2>2
<1>11. ASSUME NEW q \in QueueNames
       PROVE  LET s == qdb_queue_stats(q) IN
              /\ s.rc = "OK" <=> q \in Range(QueueWalk)
              /\ s.rc = "OK" =>
                   /\ s.pending = Len(fifo[q])
                   /\ s.leased = Cardinality({l \in live : mqueue[lmsg[l]] = q})
                   /\ s.acked = Cardinality({m \in MsgIds : state[m] = "ACKED" /\ mqueue[m] = q})
  <2>1. q \in Range(QueueWalk) <=> Known(q)
    BY <1>2, ZenonT(40) DEF w, KnownQueues
  <2>2. CASE Known(q)
    <3>1. qdb_queue_stats(q) = [rc |-> "OK", pending |-> pending[q], leased |-> leased[q], acked |-> acked[q]]
      BY <2>2, Zenon DEF qdb_queue_stats
    <3> QED
      <4>1. leased[q] = Cardinality(LeasesOf(q)) /\ acked[q] = Cardinality(DoneOf(q))
        BY Zenon DEF Counted
      <4>2. pending[q] = Len(fifo[q])
        BY <1>5, Zenon
      <4> QED
        BY <2>1, <2>2, <3>1, <4>1, <4>2, SMTT(30) DEF LeasesOf, DoneOf
  <2>3. CASE ~Known(q)
    <3>1. qdb_queue_stats(q).rc = "NOENT"
      BY <2>3, Zenon DEF qdb_queue_stats
    <3> QED
      BY <2>1, <2>3, <3>1, Zenon
  <2> QED
    BY <2>2, <2>3, Zenon
<1>12. ASSUME NEW cap \in Nat
       PROVE  LET r == qdb_queue_list(cap) IN
              /\ r.count = Cardinality({q \in QueueNames : Known(q)})
              /\ Cardinality(Range(r.out)) = IF cap < r.count THEN cap ELSE r.count
  <2> DEFINE k == IF cap < Len(w) THEN cap ELSE Len(w)
             v == SubSeq(w, 1, k)
  <2>1. qdb_queue_list(cap) = [out |-> v, count |-> Len(w)]
    BY Zenon DEF qdb_queue_list, w
  <2>2. Cardinality({q \in QueueNames : Known(q)}) = Len(w)
    BY <1>2, Zenon DEF KnownQueues
  <2>3. k \in 0..Len(w)
    BY <1>1, SMTT(30)
  <2>4. v \in Seq(QueueNames) /\ Len(v) = k /\ \A i \in 1..k : i \in 1..Len(w) /\ v[i] = w[i]
    <3> HIDE DEF k
    <3> QED
      BY <1>1, <2>3
  <2> HIDE DEF v
  <2>5. Distinct(v)
    BY <1>1, <2>4, Zenon DEF Distinct
  <2>6. Cardinality(Range(v)) = k
    BY <2>4, <2>5, CountMembers, Zenon
  <2> HIDE DEF w
  <2> QED
    BY <2>1, <2>2, <2>6
<1>13. \A cap \in 0..(qdb_stats.queue_count + 1) : cap \in Nat
  <2>1. qdb_stats.queue_count = Len(w)
    BY <1>2, Zenon DEF qdb_stats, Counted
  <2> QED
    BY <1>1, <2>1
<1>14. qdb_stats.queue_count = Cardinality({q \in QueueNames : Known(q)})
  BY Zenon DEF qdb_stats, Counted, KnownQueues
<1> QED
  BY <1>7, <1>8, <1>9, <1>10, <1>11, <1>12, <1>13, <1>14, ZenonT(40) DEF StatsTrue, qdb_stats

\* The statistics are true of the tables after any sequence of calls.
THEOREM StatisticsTrue == Spec => []StatsTrue
<1>1. TInv /\ Counted => StatsTrue
  BY TrueReports, Zenon DEF TInv
<1> QED
  BY <1>1, TablesInvariant, CountersTrue, PTL
=============================================================================
