-------------------------- MODULE QdbServiceProofs --------------------------
(***************************************************************************)
(* QdbEngine implements QueueService: read off what the file holds         *)
(* durably, every step of every call, failure, crash and recovery is one   *)
(* operation of the service, or none.  With it, the order in which         *)
(* messages are delivered for the first time.                              *)
(***************************************************************************)
EXTENDS QdbEngineProofs

-----------------------------------------------------------------------------
(* The service's view of a state, and what a record does to it.            *)

FifoOf(st) ==
  [q \in Queues |-> IF q \in DOMAIN st.queues THEN st.queues[q].pending
                                              ELSE << >>]

LeasedOf(st) ==
  [l \in DOMAIN st.leases |->
     LET m == st.leases[l].msg
     IN  [msg |-> m, queue |-> st.msgs[m].queue]]

AckedOf(st) == {m \in DOMAIN st.msgs : st.msgs[m].state = "ACKED"}

\* The messages of a list that were never returned stand in the order of
\* their ids.
Ordered(msgs, s) ==
  \A i, j \in 1..Len(s) :
    (/\ i < j
     /\ msgs[s[i]].retry = 0
     /\ msgs[s[j]].retry = 0) => s[i] < s[j]

InOrder(st) ==
  \A q \in DOMAIN st.queues : Ordered(st.msgs, st.queues[q].pending)

\* What stands on the list of a queue.
LEMMA OnList ==
  ASSUME NEW st, WellFormed(st), NEW q \in DOMAIN st.queues
  PROVE  LET s == st.queues[q].pending
         IN  /\ s \in Seq(Ids)
             /\ IsInjective(s)
             /\ Range(s) = InQueue(st, q, "PENDING")
             /\ \A i \in 1..Len(s) : s[i] \in DOMAIN st.msgs
<1> DEFINE s == st.queues[q].pending
<1>1. s \in Seq(Ids) /\ IsInjective(s) /\ Range(s) = InQueue(st, q, "PENDING")
  BY Zenon DEF WellFormed, IsState, Queue, ListsExact
<1> HIDE DEF s
<1>2. \A i \in 1..Len(s) : s[i] \in Range(s)
  BY <1>1 DEF Range
<1>3. InQueue(st, q, "PENDING") \subseteq DOMAIN st.msgs
  BY Zenon DEF InQueue
<1> QED
  BY <1>1, <1>2, <1>3, Zenon DEF s

\* A change of the message table that resets no retry_count.
LEMMA OrderedSame ==
  ASSUME NEW s, NEW f, NEW g, Ordered(f, s),
         \A i \in 1..Len(s) : g[s[i]].retry = 0 => f[s[i]].retry = 0
  PROVE  Ordered(g, s)
  BY Zenon DEF Ordered

\* A message at the tail (qdb__queue_pending_append) that was returned, or
\* is younger than the rest.
LEMMA OrderedAppend ==
  ASSUME NEW s \in Seq(Ids), NEW m \in Ids, NEW f, Ordered(f, s),
         f[m].retry # 0 \/ \A i \in 1..Len(s) : s[i] < m
  PROVE  Ordered(f, Append(s, m))
<1> DEFINE t == Append(s, m)
<1>1. /\ Len(s) \in Nat /\ Len(t) = Len(s) + 1 /\ t[Len(s) + 1] = m
      /\ \A i \in 1..Len(s) : t[i] = s[i]
  OBVIOUS
<1> HIDE DEF t
<1>2. ASSUME NEW i \in 1..Len(t), NEW j \in 1..Len(t), i < j,
             f[t[i]].retry = 0, f[t[j]].retry = 0
      PROVE  t[i] < t[j]
  <2>1. i \in 1..Len(s) /\ t[i] = s[i]
    BY <1>1, <1>2
  <2>2. CASE j = Len(s) + 1
    BY <1>1, <1>2, <2>1, <2>2, Zenon
  <2>3. CASE j \in 1..Len(s)
    BY <1>1, <1>2, <2>1, <2>3, Zenon DEF Ordered
  <2> QED
    BY <1>1, <2>2, <2>3
<1> QED
  BY <1>2, Zenon DEF Ordered, t

\* The four operations, as the service sees them.
PushSeen(st, n, m, q) ==
  /\ q \in Queues
  /\ FifoOf(n) = [FifoOf(st) EXCEPT ![q] = Append(@, m)]
  /\ LeasedOf(n) = LeasedOf(st)
  /\ AckedOf(n) = AckedOf(st)
  /\ DOMAIN n.msgs = DOMAIN st.msgs \cup {m}

PopSeen(st, n, m, l, q) ==
  /\ q \in Queues
  /\ FifoOf(st)[q] # << >> /\ m = Head(FifoOf(st)[q])
  /\ FifoOf(n) = [FifoOf(st) EXCEPT ![q] = Tail(@)]
  /\ LeasedOf(n) = [k \in DOMAIN LeasedOf(st) \cup {l} |->
                      IF k = l THEN [msg |-> m, queue |-> q]
                               ELSE LeasedOf(st)[k]]
  /\ AckedOf(n) = AckedOf(st)
  /\ DOMAIN n.msgs = DOMAIN st.msgs

EndSeen(st, n, m, l) ==
  /\ l \in DOMAIN LeasedOf(st)
  /\ LeasedOf(st)[l].msg = m
  /\ LeasedOf(n) = [k \in DOMAIN LeasedOf(st) \ {l} |-> LeasedOf(st)[k]]
  /\ DOMAIN n.msgs = DOMAIN st.msgs

AckSeen(st, n, m, l) ==
  /\ EndSeen(st, n, m, l)
  /\ FifoOf(n) = FifoOf(st)
  /\ AckedOf(n) = AckedOf(st) \cup {m}

ReturnSeen(st, n, m, l) ==
  /\ EndSeen(st, n, m, l)
  /\ LeasedOf(st)[l].queue \in Queues
  /\ FifoOf(n) = [FifoOf(st) EXCEPT ![LeasedOf(st)[l].queue] = Append(@, m)]
  /\ AckedOf(n) = AckedOf(st)

\* A pushed message: the tail of its queue (replay_push).
LEMMA PushView ==
  ASSUME NEW st, WellFormed(st), NEW off \in Nat,
         NEW rec \in Record, rec.type = "PUSH", replay_check(st, rec)
  PROVE  LET n == replay_push(st, rec, off)
         IN  /\ PushSeen(st, n, rec.msg, rec.queue)
             /\ (InOrder(st) /\ DOMAIN st.msgs = 1..rec.msg - 1) => InOrder(n)
<1> DEFINE n == replay_push(st, rec, off)
           m == rec.msg
           q == rec.queue
<1>1. m \in Ids /\ q \in Queues /\ m \notin DOMAIN st.msgs
  BY Zenon DEF Record, replay_check
<1>2. IsState(st) /\ LeasesExact(st)
  BY Zenon DEF WellFormed
<1>3. n.leases = st.leases
  BY <1>2, Zenon DEF replay_push, IsState
<1>4. /\ DOMAIN n.msgs = DOMAIN st.msgs \cup {m}
      /\ n.msgs[m] = NewMsg(q, off)
      /\ \A x \in DOMAIN st.msgs : n.msgs[x] = st.msgs[x]
  BY <1>1, <1>2, Zenon DEF replay_push, IsState, Put
<1> DEFINE old == IF q \in DOMAIN st.queues THEN st.queues[q] ELSE NewQueue
<1>5. /\ DOMAIN n.queues = DOMAIN st.queues \cup {q}
      /\ n.queues[q] = [old EXCEPT !.pending = Append(@, m)]
      /\ \A x \in DOMAIN st.queues \ {q} : n.queues[x] = st.queues[x]
  <2>1. n.queues = pending_append(queue_get_or_create(st.queues, q), q, m)
    BY <1>2, Zenon DEF replay_push, IsState
  <2> QED
    BY <2>1, Zenon DEF pending_append, queue_get_or_create, Put
<1>6. old \in Queue /\ old.pending = FifoOf(st)[q]
  <2>1. CASE q \in DOMAIN st.queues
    BY <1>1, <1>2, <2>1, Zenon DEF IsState, FifoOf
  <2>2. CASE q \notin DOMAIN st.queues
    BY <1>1, <2>2 DEF FifoOf, NewQueue, Queue
  <2> QED
    BY <2>1, <2>2, Zenon
<1> HIDE DEF n, m, q, old
<1>7. n.queues[q].pending = Append(FifoOf(st)[q], m)
  BY <1>5, <1>6, Zenon DEF Queue
<1>8. FifoOf(n) = [FifoOf(st) EXCEPT ![q] = Append(@, m)]
  <2>1. \A x \in Queues : FifoOf(n)[x] = IF x = q THEN Append(FifoOf(st)[q], m)
                                                  ELSE FifoOf(st)[x]
    BY <1>1, <1>5, <1>7, Zenon DEF FifoOf
  <2> QED
    BY <1>1, <2>1, Zenon DEF FifoOf
<1>9. LeasedOf(n) = LeasedOf(st)
  <2>1. \A l \in DOMAIN st.leases :
          n.msgs[st.leases[l].msg] = st.msgs[st.leases[l].msg]
    BY <1>2, <1>4, Zenon DEF LeasesExact
  <2> QED
    BY <1>3, <2>1, Zenon DEF LeasedOf
<1>10. AckedOf(n) = AckedOf(st)
  BY <1>1, <1>4 DEF AckedOf, NewMsg
<1>11. ASSUME InOrder(st), DOMAIN st.msgs = 1..m - 1
       PROVE  InOrder(n)
  <2>1. ASSUME NEW x \in DOMAIN st.queues
        PROVE  Ordered(n.msgs, st.queues[x].pending)
    <3> DEFINE s == st.queues[x].pending
    <3>1. \A i \in 1..Len(s) : n.msgs[s[i]] = st.msgs[s[i]]
      BY <1>4, OnList, Zenon
    <3>2. Ordered(st.msgs, s)
      BY <1>11, Zenon DEF InOrder
    <3> HIDE DEF s
    <3>3. Ordered(n.msgs, s)
      BY <3>1, <3>2, OrderedSame, Zenon
    <3> QED
      BY <3>3, Zenon DEF s
  <2>2. Ordered(n.msgs, Append(FifoOf(st)[q], m))
    <3> DEFINE s == FifoOf(st)[q]
    <3>1. CASE q \in DOMAIN st.queues
      <4>1. s = st.queues[q].pending
        BY <1>1, <3>1, Zenon DEF FifoOf
      <4>2. s \in Seq(Ids) /\ \A i \in 1..Len(s) : s[i] \in 1..m - 1
        BY <1>11, <3>1, <4>1, OnList, Zenon
      <4>3. \A i \in 1..Len(s) : s[i] < m
        BY <1>1, <4>2 DEF Ids
      <4>4. Ordered(n.msgs, s)
        BY <2>1, <3>1, <4>1, Zenon
      <4> HIDE DEF s
      <4>5. Ordered(n.msgs, Append(s, m))
        BY <1>1, <4>2, <4>3, <4>4, OrderedAppend, Zenon
      <4> QED
        BY <4>5, Zenon DEF s
    <3>2. CASE q \notin DOMAIN st.queues
      <4>1. s = << >>
        BY <1>1, <3>2, Zenon DEF FifoOf
      <4> QED
        BY <1>1, <4>1, OrderedAppend DEF Ordered
    <3> QED
      BY <3>1, <3>2, Zenon
  <2> QED
    BY <1>5, <1>7, <2>1, <2>2, Zenon DEF InOrder
<1>12. PushSeen(st, n, m, q)
  BY <1>1, <1>4, <1>8, <1>9, <1>10, Zenon DEF PushSeen
<1> QED
  BY <1>11, <1>12, Zenon DEF n, m, q

\* A leased message leaves the head of its queue (replay_lease).
LEMMA LeaseView ==
  ASSUME NEW st, WellFormed(st),
         NEW rec \in Record, rec.type = "LEASE", replay_check(st, rec),
         rec.msg = Head(st.queues[st.msgs[rec.msg].queue].pending)
  PROVE  LET n == replay_lease(st, rec)
         IN  /\ PopSeen(st, n, rec.msg, rec.lease, st.msgs[rec.msg].queue)
             /\ InOrder(st) => InOrder(n)
\* A list without its head.
<1>OrderedShift.
    ASSUME NEW s, NEW t, NEW f, Len(s) \in Nat, Len(t) = Len(s) - 1,
           \A i \in 1..Len(s) - 1 : t[i] = s[i + 1], Ordered(f, s)
    PROVE  Ordered(f, t)
  <2> USE <1>OrderedShift
  <2> SUFFICES ASSUME NEW i \in 1..Len(t), NEW j \in 1..Len(t), i < j,
                      f[t[i]].retry = 0, f[t[j]].retry = 0
               PROVE  t[i] < t[j]
    BY Zenon DEF Ordered
  <2>1. /\ t[i] = s[i + 1] /\ t[j] = s[j + 1] /\ i + 1 < j + 1
        /\ i + 1 \in 1..Len(s) /\ j + 1 \in 1..Len(s)
    BY SMTT(30)
  <2> QED
    BY <2>1, Zenon DEF Ordered
\* A list with something on it.
<1>NotEmpty.
    ASSUME NEW s, NEW m \in Range(s)
    PROVE  s # << >>
    BY DEF Range
\* Taking the head of a list off it (do_pop).
<1>UnlinkHead.
    ASSUME NEW S, NEW s \in Seq(S), s # << >>, IsInjective(s)
    PROVE  /\ Unlink(s, Head(s)) = Tail(s)
           /\ Tail(s) \in Seq(S)
           /\ Len(Tail(s)) = Len(s) - 1
           /\ \A i \in 1..Len(s) - 1 : Tail(s)[i] = s[i + 1]
  <2> USE <1>UnlinkHead
  <2>1. Len(s) \in Nat /\ Len(s) > 0 /\ DOMAIN s = 1..Len(s) /\ Head(s) = s[1]
    OBVIOUS
  <2>2. \A i, j \in 1..Len(s) : s[i] = s[j] => i = j
    BY <2>1, Zenon DEF IsInjective
  <2> DEFINE u == Unlink(s, s[1])
             t == Tail(s)
  <2>3. /\ u \in Seq(S) /\ Len(u) = Len(s) - 1
        /\ \A j \in 1..Len(s) - 1 : u[j] = IF j < 1 THEN s[j] ELSE s[j + 1]
    <3>1. 1 \in 1..Len(s)
      BY <2>1, SMTT(30)
    <3> QED
      BY <2>2, <3>1, UnlinkProperties, Zenon
  <2>4. /\ t \in Seq(S) /\ Len(t) = Len(s) - 1
        /\ \A j \in 1..Len(s) - 1 : t[j] = s[j + 1]
    BY SMTT(30)
  <2> HIDE DEF u, t
  <2>5. u = t
    BY <2>1, <2>3, <2>4
  <2> QED
    BY <2>1, <2>4, <2>5, Zenon DEF u, t
<1> DEFINE n == replay_lease(st, rec)
           m == rec.msg
           l == rec.lease
           e == rec.expiry
           q == st.msgs[m].queue
           s == st.queues[q].pending
           ent == [st.msgs[m] EXCEPT !.state = "LEASED", !.lease = l,
                                     !.expiry = e]
<1>1. /\ m \in DOMAIN st.msgs /\ st.msgs[m].state = "PENDING"
      /\ l \in Ids /\ e \in Nat /\ l \notin DOMAIN st.leases
      /\ q \in DOMAIN st.queues
  BY Zenon DEF Record, replay_check
<1>2. IsState(st) /\ LeasesExact(st)
  BY Zenon DEF WellFormed
<1>3. st.msgs[m] \in Msg /\ st.queues[q] \in Queue /\ q \in Queues
  BY <1>1, <1>2, Zenon DEF IsState
<1>4. /\ n.msgs = [st.msgs EXCEPT ![m] = ent]
      /\ n.leases = Put(st.leases, l, [msg |-> m, expiry |-> e])
      /\ n.queues = [pending_remove(st.queues, q, m)
                       EXCEPT ![q].leased = st.queues[q].leased + 1]
  BY <1>1, <1>2, Zenon DEF replay_lease, lease_insert, IsState
<1>5. /\ DOMAIN n.msgs = DOMAIN st.msgs
      /\ n.msgs[m] = ent
      /\ \A x \in DOMAIN st.msgs \ {m} : n.msgs[x] = st.msgs[x]
  BY <1>1, <1>4, Zenon
<1>6. ent.queue = q /\ ent.state = "LEASED" /\ ent.retry = st.msgs[m].retry
  BY <1>1, <1>3, Zenon DEF Msg
<1>7. /\ DOMAIN n.leases = DOMAIN st.leases \cup {l}
      /\ n.leases[l] = [msg |-> m, expiry |-> e]
      /\ \A x \in DOMAIN st.leases : n.leases[x] = st.leases[x]
  BY <1>1, <1>4, Zenon DEF Put
<1>8. /\ DOMAIN n.queues = DOMAIN st.queues
      /\ n.queues[q].pending = Unlink(s, m)
      /\ \A x \in DOMAIN st.queues \ {q} : n.queues[x] = st.queues[x]
  <2> DEFINE que == st.queues[q]
             k == que.leased + 1
             t == Unlink(s, m)
  <2>1. /\ DOMAIN n.queues = DOMAIN st.queues
        /\ n.queues[q] = [que EXCEPT !.pending = t, !.leased = k]
        /\ \A x \in DOMAIN st.queues \ {q} : n.queues[x] = st.queues[x]
    BY <1>1, <1>3, <1>4, Zenon DEF pending_remove, Queue
  <2>2. que \in Queue
    BY <1>3, Zenon
  <2> HIDE DEF que, k, t
  <2>3. n.queues[q].pending = t
    BY <2>1, <2>2, Zenon DEF Queue
  <2> QED
    BY <2>1, <2>3, Zenon DEF t
<1>9. /\ m = Head(s) /\ st.msgs[m].queue = q /\ s = st.queues[q].pending
      /\ rec.msg = m /\ rec.lease = l
  BY Zenon
<1> HIDE DEF n, m, l, e, q, s, ent
<1>17. s \in Seq(Ids) /\ IsInjective(s) /\ Range(s) = InQueue(st, q, "PENDING")
  BY <1>1, <1>9, OnList, Zenon
<1>18. m \in Range(s)
  BY <1>1, <1>9, <1>17, Zenon DEF InQueue
<1>10. FifoOf(st)[q] = s
  BY <1>1, <1>3, <1>9, Zenon DEF FifoOf
<1>11. s # << >>
  BY ONLY <1>18, <1>NotEmpty, Zenon
<1>12. /\ n.queues[q].pending = Tail(s)
       /\ Tail(s) \in Seq(Ids) /\ Len(Tail(s)) = Len(s) - 1
       /\ \A i \in 1..Len(s) - 1 : Tail(s)[i] = s[i + 1]
  BY <1>8, <1>9, <1>11, <1>17, <1>UnlinkHead, Zenon
<1>13. FifoOf(n) = [FifoOf(st) EXCEPT ![q] = Tail(@)]
  <2>1. \A x \in Queues : FifoOf(n)[x] = IF x = q THEN Tail(s) ELSE FifoOf(st)[x]
    BY <1>1, <1>3, <1>8, <1>12, Zenon DEF FifoOf
  <2> QED
    BY <1>3, <1>10, <2>1, Zenon DEF FifoOf
<1>14. LeasedOf(n) =
         [x \in DOMAIN LeasedOf(st) \cup {l} |->
            IF x = l THEN [msg |-> m, queue |-> q] ELSE LeasedOf(st)[x]]
  <2>1. DOMAIN LeasedOf(st) = DOMAIN st.leases
    BY Zenon DEF LeasedOf
  <2>2. n.msgs[n.leases[l].msg].queue = q /\ n.leases[l].msg = m
    <3>1. n.leases[l].msg = m
      BY ONLY <1>7, SMTT(30)
    <3> QED
      BY ONLY <1>5, <1>6, <3>1, Zenon
  <2>7. /\ \A x \in DOMAIN st.leases : st.leases[x].msg \in DOMAIN st.msgs
        /\ \A x \in DOMAIN st.msgs : n.msgs[x].queue = st.msgs[x].queue
    BY <1>2, <1>5, <1>6, <1>9, Zenon DEF LeasesExact
  <2>3. \A x \in DOMAIN st.leases :
          /\ n.leases[x].msg = st.leases[x].msg
          /\ n.msgs[n.leases[x].msg].queue = st.msgs[st.leases[x].msg].queue
    BY <1>7, <2>7, Zenon
  <2>4. LeasedOf(n)[l] = [msg |-> m, queue |-> q]
    BY <1>7, <2>2, Zenon DEF LeasedOf
  <2>5. \A x \in DOMAIN st.leases : LeasedOf(n)[x] = LeasedOf(st)[x]
    BY <1>7, <2>3, Zenon DEF LeasedOf
  <2>6. LeasedOf(n) = [x \in DOMAIN st.leases \cup {l} |-> LeasedOf(n)[x]]
    BY <1>7, Zenon DEF LeasedOf
  <2> QED
    BY <1>1, <2>1, <2>4, <2>5, <2>6, Zenon
<1>15. AckedOf(n) = AckedOf(st)
  BY <1>1, <1>5, <1>6, Zenon DEF AckedOf
<1>16. ASSUME InOrder(st) PROVE InOrder(n)
  <2>1. \A x \in DOMAIN st.msgs : n.msgs[x].retry = st.msgs[x].retry
    BY <1>5, <1>6, Zenon
  <2>2. ASSUME NEW x \in DOMAIN st.queues
        PROVE  Ordered(n.msgs, st.queues[x].pending)
    <3> DEFINE t == st.queues[x].pending
    <3>1. \A i \in 1..Len(t) : n.msgs[t[i]].retry = st.msgs[t[i]].retry
      BY <2>1, OnList, Zenon
    <3>2. Ordered(st.msgs, t)
      BY <1>16, Zenon DEF InOrder
    <3> HIDE DEF t
    <3>3. Ordered(n.msgs, t)
      BY <3>1, <3>2, OrderedSame, Zenon
    <3> QED
      BY <3>3, Zenon DEF t
  <2>3. Ordered(n.msgs, s)
    BY <1>1, <1>9, <2>2, Zenon
  <2>4. Ordered(n.msgs, Tail(s))
    <3> DEFINE t == Tail(s)
    <3>1. /\ Len(s) \in Nat /\ Len(t) = Len(s) - 1
          /\ \A i \in 1..Len(s) - 1 : t[i] = s[i + 1]
      BY ONLY <1>12, <1>17
    <3> HIDE DEF t
    <3>2. Ordered(n.msgs, t)
      BY <2>3, <3>1, <1>OrderedShift, Zenon
    <3> QED
      BY <3>2, Zenon DEF t
  <2> QED
    BY <1>8, <1>12, <2>2, <2>4, Zenon DEF InOrder
<1>19. PopSeen(st, n, m, l, q)
  BY <1>3, <1>5, <1>9, <1>10, <1>11, <1>13, <1>14, <1>15, Zenon DEF PopSeen
<1> QED
  BY <1>9, <1>16, <1>19, Zenon DEF n

\* An acknowledged message: its lease ends, it is done (replay_ack).
LEMMA AckView ==
  ASSUME NEW st, WellFormed(st),
         NEW rec \in Record, rec.type = "ACK", replay_check(st, rec)
  PROVE  LET n == replay_ack(st, rec)
         IN  /\ AckSeen(st, n, rec.msg, rec.lease)
             /\ InOrder(st) => InOrder(n)
<1> DEFINE n == replay_ack(st, rec)
           m == rec.msg
           l == rec.lease
           msg == st.msgs[m]
           q == msg.queue
           que == st.queues[q]
           ent == [msg EXCEPT !.state = "ACKED", !.lease = 0, !.expiry = 0]
           cnt == [que EXCEPT !.leased = que.leased - 1,
                              !.acked = que.acked + 1]
<1>1. /\ m \in DOMAIN st.msgs /\ q \in DOMAIN st.queues
      /\ msg.state = "LEASED" /\ msg.lease = l
  BY Zenon DEF replay_check
<1>2. IsState(st) /\ LeasesExact(st)
  BY Zenon DEF WellFormed
<1>3. msg \in Msg /\ que \in Queue
  BY <1>1, <1>2, Zenon DEF IsState
<1>4. /\ n.msgs = [st.msgs EXCEPT ![m] = ent]
      /\ n.leases = lease_remove(st.leases, l)
      /\ n.queues = [st.queues EXCEPT ![q] = cnt]
  BY <1>2, Zenon DEF replay_ack, IsState
<1>5. /\ st.msgs[m] = msg /\ st.queues[q] = que /\ msg.queue = q
      /\ rec.msg = m /\ rec.lease = l
  BY Zenon
<1> HIDE DEF n, m, l, msg, q, que
<1>6. /\ l \in DOMAIN st.leases
      /\ DOMAIN n.leases = DOMAIN st.leases \ {l}
      /\ \A x \in DOMAIN st.leases \ {l} : n.leases[x] = st.leases[x]
  <2>1. st.msgs[m].state = "LEASED" /\ st.msgs[m].lease = l
    BY <1>1, <1>5, Zenon
  <2>2. LeaseGone(st, m, st.msgs[m].lease)
    BY <1>1, <2>1, LeaseEnds, Zenon
  <2> QED
    BY <1>4, <2>1, <2>2, Zenon DEF LeaseGone
<1>7. ent.queue = q /\ ent.state = "ACKED" /\ ent.retry = msg.retry
  BY <1>3, <1>5, Zenon DEF Msg
<1>8. cnt.pending = que.pending
  BY <1>3, Zenon DEF Queue
<1> HIDE DEF ent, cnt
<1>9. /\ DOMAIN n.msgs = DOMAIN st.msgs
      /\ n.msgs[m] = ent
      /\ \A x \in DOMAIN st.msgs \ {m} : n.msgs[x] = st.msgs[x]
  BY <1>1, <1>4, Zenon
<1>10. /\ DOMAIN n.queues = DOMAIN st.queues
       /\ \A x \in DOMAIN st.queues : n.queues[x].pending = st.queues[x].pending
  BY <1>1, <1>4, <1>5, <1>8, Zenon
<1>11. FifoOf(n) = FifoOf(st)
  BY <1>10, Zenon DEF FifoOf
<1>12. st.leases[l].msg = m
  BY <1>1, <1>2, <1>5, Zenon DEF LeasesExact
<1>13. LeasedOf(st)[l].msg = m /\ DOMAIN LeasedOf(st) = DOMAIN st.leases
  BY <1>6, <1>12, Zenon DEF LeasedOf
<1>14. LeasedOf(n) = [x \in DOMAIN LeasedOf(st) \ {l} |-> LeasedOf(st)[x]]
  <2>1. \A x \in DOMAIN st.msgs : n.msgs[x].queue = st.msgs[x].queue
    BY <1>5, <1>7, <1>9, Zenon
  <2>2. \A x \in DOMAIN st.leases : st.leases[x].msg \in DOMAIN st.msgs
    BY <1>2, Zenon DEF LeasesExact
  <2>3. \A x \in DOMAIN st.leases \ {l} : LeasedOf(n)[x] = LeasedOf(st)[x]
    BY <1>6, <2>1, <2>2, Zenon DEF LeasedOf
  <2>4. LeasedOf(n) = [x \in DOMAIN st.leases \ {l} |-> LeasedOf(n)[x]]
    BY <1>6, Zenon DEF LeasedOf
  <2> QED
    BY <1>13, <2>3, <2>4, Zenon
<1>15. AckedOf(n) = AckedOf(st) \cup {m}
  BY <1>1, <1>7, <1>9, Zenon DEF AckedOf
<1>16. ASSUME InOrder(st) PROVE InOrder(n)
  <2>1. \A x \in DOMAIN st.msgs : n.msgs[x].retry = st.msgs[x].retry
    BY <1>5, <1>7, <1>9, Zenon
  <2>2. ASSUME NEW x \in DOMAIN st.queues
        PROVE  Ordered(n.msgs, st.queues[x].pending)
    <3> DEFINE t == st.queues[x].pending
    <3>1. \A i \in 1..Len(t) : n.msgs[t[i]].retry = st.msgs[t[i]].retry
      BY <2>1, OnList, Zenon
    <3>2. Ordered(st.msgs, t)
      BY <1>16, Zenon DEF InOrder
    <3> HIDE DEF t
    <3>3. Ordered(n.msgs, t)
      BY <3>1, <3>2, OrderedSame, Zenon
    <3> QED
      BY <3>3, Zenon DEF t
  <2> QED
    BY <1>10, <2>2, Zenon DEF InOrder
<1>17. AckSeen(st, n, m, l)
  BY <1>6, <1>9, <1>11, <1>13, <1>14, <1>15, Zenon DEF AckSeen, EndSeen
<1> QED
  BY <1>5, <1>16, <1>17, Zenon DEF n

\* A returned message goes back to the tail of its queue, with one more
\* retry (replay_nack, replay_expire).
LEMMA NackView ==
  ASSUME NEW st, WellFormed(st),
         NEW rec \in Record, rec.type \in {"NACK", "EXPIRE"},
         replay_check(st, rec)
  PROVE  LET n == replay_nack(st, rec)
         IN  /\ ReturnSeen(st, n, rec.msg, rec.lease)
             /\ InOrder(st) => InOrder(n)
<1> DEFINE n == replay_nack(st, rec)
           m == rec.msg
           l == rec.lease
           msg == st.msgs[m]
           q == msg.queue
           que == st.queues[q]
           s == que.pending
           ent == [msg EXCEPT !.state = "PENDING", !.lease = 0,
                              !.expiry = 0, !.retry = msg.retry + 1]
           cnt == [que EXCEPT !.leased = que.leased - 1,
                              !.pending = Append(s, m)]
<1>1. /\ m \in DOMAIN st.msgs /\ q \in DOMAIN st.queues
      /\ msg.state = "LEASED" /\ msg.lease = l
  BY Zenon DEF replay_check
<1>2. IsState(st) /\ LeasesExact(st)
  BY Zenon DEF WellFormed
<1>3. msg \in Msg /\ que \in Queue /\ m \in Ids /\ q \in Queues
  BY <1>1, <1>2, Zenon DEF IsState
<1>4. /\ n.msgs = [st.msgs EXCEPT ![m] = ent]
      /\ n.leases = lease_remove(st.leases, l)
      /\ n.queues = pending_append(
                      [st.queues EXCEPT ![q].leased = que.leased - 1], q, m)
  BY <1>2, Zenon DEF replay_nack, IsState
<1>5. /\ st.msgs[m] = msg /\ st.queues[q] = que /\ msg.queue = q
      /\ que.pending = s /\ rec.msg = m /\ rec.lease = l
  BY Zenon
<1> HIDE DEF n, m, l, msg, q, que, s
<1>6. /\ l \in DOMAIN st.leases
      /\ DOMAIN n.leases = DOMAIN st.leases \ {l}
      /\ \A x \in DOMAIN st.leases \ {l} : n.leases[x] = st.leases[x]
  <2>1. st.msgs[m].state = "LEASED" /\ st.msgs[m].lease = l
    BY <1>1, <1>5, Zenon
  <2>2. LeaseGone(st, m, st.msgs[m].lease)
    BY <1>1, <2>1, LeaseEnds, Zenon
  <2> QED
    BY <1>4, <2>1, <2>2, Zenon DEF LeaseGone
<1>7. ent.queue = q /\ ent.state = "PENDING" /\ ent.retry # 0
  <2> DEFINE k == msg.retry + 1
  <2>1. k # 0
    BY <1>3 DEF Msg
  <2> HIDE DEF k
  <2>2. LET f == [msg EXCEPT !.state = "PENDING", !.lease = 0,
                             !.expiry = 0, !.retry = k]
        IN  f.queue = q /\ f.state = "PENDING" /\ f.retry # 0
    BY <1>3, <1>5, <2>1, Zenon DEF Msg
  <2> QED
    BY <2>2, Zenon DEF k
<1>8. /\ DOMAIN n.queues = DOMAIN st.queues
      /\ n.queues[q] = cnt
      /\ \A x \in DOMAIN st.queues \ {q} : n.queues[x] = st.queues[x]
  BY <1>1, <1>3, <1>4, <1>5 DEF pending_append, Queue
<1>9. cnt.pending = Append(s, m)
  BY <1>3, Zenon DEF Queue
<1>17. s \in Seq(Ids)
  BY <1>3, <1>5, Zenon DEF Queue
<1> HIDE DEF ent, cnt
<1>10. /\ DOMAIN n.msgs = DOMAIN st.msgs
       /\ n.msgs[m] = ent
       /\ \A x \in DOMAIN st.msgs \ {m} : n.msgs[x] = st.msgs[x]
  BY <1>1, <1>4, Zenon
<1>11. st.leases[l].msg = m
  BY <1>1, <1>2, <1>5, Zenon DEF LeasesExact
<1>12. /\ LeasedOf(st)[l].msg = m /\ LeasedOf(st)[l].queue = q
       /\ DOMAIN LeasedOf(st) = DOMAIN st.leases
  BY <1>5, <1>6, <1>11, Zenon DEF LeasedOf
<1>13. FifoOf(n) = [FifoOf(st) EXCEPT ![q] = Append(@, m)]
  <2>1. FifoOf(st)[q] = s
    BY <1>1, <1>3, <1>5, Zenon DEF FifoOf
  <2>2. \A x \in Queues : FifoOf(n)[x] = IF x = q THEN Append(s, m)
                                                  ELSE FifoOf(st)[x]
    BY <1>1, <1>3, <1>8, <1>9, Zenon DEF FifoOf
  <2> QED
    BY <1>3, <2>1, <2>2, Zenon DEF FifoOf
<1>14. LeasedOf(n) = [x \in DOMAIN LeasedOf(st) \ {l} |-> LeasedOf(st)[x]]
  <2>1. \A x \in DOMAIN st.msgs : n.msgs[x].queue = st.msgs[x].queue
    BY <1>5, <1>7, <1>10, Zenon
  <2>2. \A x \in DOMAIN st.leases : st.leases[x].msg \in DOMAIN st.msgs
    BY <1>2, Zenon DEF LeasesExact
  <2>3. \A x \in DOMAIN st.leases \ {l} : LeasedOf(n)[x] = LeasedOf(st)[x]
    BY <1>6, <2>1, <2>2, Zenon DEF LeasedOf
  <2>4. LeasedOf(n) = [x \in DOMAIN st.leases \ {l} |-> LeasedOf(n)[x]]
    BY <1>6, Zenon DEF LeasedOf
  <2> QED
    BY <1>12, <2>3, <2>4, Zenon
<1>15. AckedOf(n) = AckedOf(st)
  BY <1>1, <1>5, <1>7, <1>10 DEF AckedOf
<1>16. ASSUME InOrder(st) PROVE InOrder(n)
  <2>1. \A x \in DOMAIN st.msgs : n.msgs[x].retry = 0 => st.msgs[x].retry = 0
    BY <1>7, <1>10, Zenon
  <2>2. ASSUME NEW x \in DOMAIN st.queues
        PROVE  Ordered(n.msgs, st.queues[x].pending)
    <3> DEFINE t == st.queues[x].pending
    <3>1. \A i \in 1..Len(t) : n.msgs[t[i]].retry = 0 => st.msgs[t[i]].retry = 0
      BY <2>1, OnList, Zenon
    <3>2. Ordered(st.msgs, t)
      BY <1>16, Zenon DEF InOrder
    <3> HIDE DEF t
    <3>3. Ordered(n.msgs, t)
      BY <3>1, <3>2, OrderedSame, Zenon
    <3> QED
      BY <3>3, Zenon DEF t
  <2>3. Ordered(n.msgs, s)
    BY <1>1, <1>5, <2>2, Zenon
  <2>4. n.msgs[m].retry # 0
    BY <1>7, <1>10, Zenon
  <2>5. Ordered(n.msgs, Append(s, m))
    BY <1>3, <1>17, <2>3, <2>4, OrderedAppend, Zenon
  <2> QED
    BY <1>8, <1>9, <2>2, <2>5, Zenon DEF InOrder
<1>18. ReturnSeen(st, n, m, l)
  BY <1>3, <1>6, <1>10, <1>12, <1>13, <1>14, <1>15, Zenon DEF ReturnSeen, EndSeen
<1> QED
  BY <1>5, <1>16, <1>18, Zenon DEF n

-----------------------------------------------------------------------------
(* What the records of the log look like.                                  *)

\* A record the calls of the engine write behind the replayed state r: no
\* CHECKPOINT, ids without gaps, and a lease only on the head of a queue.
Shape(r, rec) ==
  /\ rec.type # "CHECKPOINT"
  /\ rec.type = "PUSH" => DOMAIN r.state.msgs = 1..rec.msg - 1
  /\ rec.type = "LEASE" =>
       /\ rec.lease = r.next_lease
       /\ rec.msg = Head(r.state.queues[r.state.msgs[rec.msg].queue].pending)

ShapeOK == \A i \in 1..LogTop : Shape(hist[i - 1], disk.log[i].rec)

OrderOK == \A n \in 0..LogTop : InOrder(hist[n].state)

\* next_message_id, in the header and in memory, is the number of pushes.
NumbersOK ==
  /\ DOMAIN Durable.state.msgs = 1..disk.next_msg - 1
  /\ pc \in {"idle", "header", "expire"} =>
       DOMAIN hist[db.log_end].state.msgs = 1..db.next_msg - 1
  /\ pc = "replay" => db.next_msg = disk.next_msg

\* After a failed header update or allocation the memory is one record
\* behind; a message entry without a queue may have been added to it.
HalfDone ==
  stale =>
    LET st == hist[db.log_end - 1].state
    IN  /\ db.log_end > 0
        /\ db.state.queues = st.queues
        /\ \A m \in DOMAIN st.msgs :
             m \in DOMAIN db.state.msgs /\ db.state.msgs[m] = st.msgs[m]

SInv == IInv /\ ShapeOK /\ OrderOK /\ NumbersOK /\ HalfDone

\* The history only loses records.
Kept ==
  /\ LogTop' <= LogTop
  /\ \A n \in 0..LogTop' : hist'[n] = hist[n]
  /\ \A i \in 1..LogTop' : disk'.log[i] = disk.log[i]

-----------------------------------------------------------------------------
(* First consequences.                                                     *)

\* Types, and how far the header and the history reach.
LEMMA Basics ==
  ASSUME IInv
  PROVE  /\ disk.log_end \in Nat /\ db.log_end \in Nat
         /\ disk.next_msg \in Ids /\ db.next_msg \in Ids
         /\ disk.log \in Seq(Entry)
         /\ DOMAIN disk = {"kind", "log", "log_end", "next_msg"}
         /\ DOMAIN db = {"state", "next_msg", "next_lease", "log_end"}
         /\ disk.log_end <= LogTop /\ LogTop <= Len(disk.log)
  BY Zenon DEF IInv, TypeOK, LogOK

\* The head of a list is a PENDING message of that queue.
LEMMA HeadPending ==
  ASSUME WellFormed(db.state), NEW q \in Poppable
  PROVE  /\ q \in DOMAIN db.state.queues
         /\ HeadOf(q) \in DOMAIN db.state.msgs
         /\ db.state.msgs[HeadOf(q)].state = "PENDING"
         /\ db.state.msgs[HeadOf(q)].queue = q
         /\ HeadOf(q) \in Ids
<1> DEFINE s == db.state.queues[q].pending
<1>1. q \in DOMAIN db.state.queues /\ s # << >>
  BY Zenon DEF Poppable
<1>2. db.state.queues[q] \in Queue /\ DOMAIN db.state.msgs \subseteq Ids
  BY <1>1, Zenon DEF WellFormed, IsState
<1>3. s \in Seq(Ids)
  BY <1>2, Zenon DEF Queue
<1>4. Range(s) = InQueue(db.state, q, "PENDING")
  BY <1>1, Zenon DEF WellFormed, ListsExact
<1>5. HeadOf(q) = Head(s)
  BY Zenon DEF HeadOf
<1> HIDE DEF s
<1>6. 1 \in DOMAIN s /\ HeadOf(q) = s[1]
  BY <1>1, <1>3, <1>5
<1>7. HeadOf(q) \in InQueue(db.state, q, "PENDING")
  BY <1>4, <1>6, Zenon DEF Range
<1> QED
  BY <1>1, <1>2, <1>7, Zenon DEF InQueue

-----------------------------------------------------------------------------
(* SInv is inductive.                                                      *)

\* The first state.
LEMMA InitShaped ==
  ASSUME Init
  PROVE  SInv
<1>1. IInv
  BY InitInv, Zenon
<1>2. /\ pc = "closed" /\ disk.log_end = 0 /\ disk.next_msg = 1 /\ ~stale
      /\ hist[0] = replay_start
  BY Zenon DEF Init, NoFile
<1>3. LogTop = 0
  BY <1>2, Zenon DEF LogTop
<1>4. DOMAIN replay_start.state.msgs = {} /\ DOMAIN replay_start.state.queues = {}
  BY Zenon DEF replay_start, state_alloc, EmptyFcn
<1>5. ShapeOK /\ OrderOK
  BY <1>2, <1>3, <1>4, SMTT(60) DEF ShapeOK, OrderOK, InOrder
<1>6. NumbersOK
  <2>1. 1..1 - 1 = {}
    OBVIOUS
  <2> QED
    BY <1>2, <1>4, <2>1, Zenon DEF NumbersOK, Durable
<1> QED
  BY <1>1, <1>2, <1>5, <1>6, Zenon DEF SInv, HalfDone

\* A step moves the header over at most one record of the log, and leaves the
\* history of the record it reaches as it was.
HeaderMoves ==
  /\ \/ disk'.log_end = disk.log_end
     \/ disk'.log_end = disk.log_end + 1 /\ disk.log_end + 1 <= LogTop
  /\ hist'[disk'.log_end] = hist[disk'.log_end]

\* Every step preserves SInv.
LEMMA NextShaped ==
  SInv /\ [Next]_vars /\ ~RetryAfterError => SInv' /\ HeaderMoves
\* Replaying a record of that shape keeps the lists in order, and adds a
\* message only if it is a PUSH (qdb__replay_log).
<1>ShapedStep.
    ASSUME NEW r, Sound(r), NEW rec \in Record, NEW i \in Nat, NEW s,
           Applied(r, s, rec, i), Shape(r, rec), InOrder(r.state)
    PROVE  /\ InOrder(s.state)
           /\ DOMAIN s.state.msgs =
                IF rec.type = "PUSH" THEN DOMAIN r.state.msgs \cup {rec.msg}
                                     ELSE DOMAIN r.state.msgs
  <2> USE <1>ShapedStep
  <2> DEFINE st == r.state
  <2>1. WellFormed(st) /\ replay_check(st, rec) /\ s.state = replay_step(st, rec, i)
    BY AppliedParts, Zenon DEF Sound, Applied
  <2>2. InOrder(st)
    BY Zenon
  <2> HIDE DEF st
  <2>3. CASE rec.type = "PUSH"
    <3>1. s.state = replay_push(st, rec, i)
      BY <2>1, <2>3, Zenon DEF replay_step
    <3>2. DOMAIN st.msgs = 1..rec.msg - 1
      BY <2>3, Zenon DEF Shape, st
    <3>3. PushSeen(st, s.state, rec.msg, rec.queue) /\ InOrder(s.state)
      BY <2>1, <2>2, <2>3, <3>1, <3>2, PushView, Zenon
    <3> QED
      BY <2>3, <3>3, Zenon DEF PushSeen, st
  <2>4. CASE rec.type = "LEASE"
    <3>1. s.state = replay_lease(st, rec)
      BY <2>1, <2>4, Zenon DEF replay_step
    <3>2. rec.msg = Head(st.queues[st.msgs[rec.msg].queue].pending)
      BY <2>4, Zenon DEF Shape, st
    <3>3. /\ PopSeen(st, s.state, rec.msg, rec.lease, st.msgs[rec.msg].queue)
          /\ InOrder(s.state)
      BY <2>1, <2>2, <2>4, <3>1, <3>2, LeaseView, Zenon
    <3> QED
      BY <2>4, <3>3, Zenon DEF PopSeen, st
  <2>5. CASE rec.type = "ACK"
    <3>1. s.state = replay_ack(st, rec)
      BY <2>1, <2>5, Zenon DEF replay_step
    <3>3. AckSeen(st, s.state, rec.msg, rec.lease) /\ InOrder(s.state)
      BY <2>1, <2>2, <2>5, <3>1, AckView, Zenon
    <3> QED
      BY <2>5, <3>3, Zenon DEF AckSeen, EndSeen, st
  <2>6. CASE rec.type \in {"NACK", "EXPIRE"}
    <3>1. s.state = replay_nack(st, rec)
      BY <2>1, <2>6, Zenon DEF replay_step
    <3>3. ReturnSeen(st, s.state, rec.msg, rec.lease) /\ InOrder(s.state)
      BY <2>1, <2>2, <2>6, <3>1, NackView, Zenon
    <3> QED
      BY <2>6, <3>3, Zenon DEF ReturnSeen, EndSeen, st
  <2> QED
    BY <2>3, <2>4, <2>5, <2>6, Zenon DEF Record, Shape
\* Then the records left have their shape, and their states are in order.
<1>KeptShapes.
    ASSUME SInv, IInv', Kept
    PROVE  ShapeOK' /\ OrderOK'
  <2> USE <1>KeptShapes
  <2>1. LogTop \in Nat /\ LogTop' \in Nat
    BY Zenon DEF SInv, IInv, TypeOK, LogTop
  <2>2. ASSUME NEW i \in 1..LogTop'
        PROVE  Shape(hist'[i - 1], disk'.log[i].rec)
    <3>1. i \in 1..LogTop /\ i - 1 \in 0..LogTop'
      BY <2>1 DEF Kept
    <3>2. hist'[i - 1] = hist[i - 1] /\ disk'.log[i] = disk.log[i]
      BY <3>1, Zenon DEF Kept
    <3> QED
      BY <3>1, <3>2, Zenon DEF SInv, ShapeOK
  <2>3. ASSUME NEW n \in 0..LogTop'
        PROVE  InOrder(hist'[n].state)
    <3>1. n \in 0..LogTop /\ hist'[n] = hist[n]
      BY <2>1 DEF Kept
    <3> QED
      BY <3>1, Zenon DEF SInv, OrderOK
  <2> QED
    BY <2>2, <2>3, Zenon DEF ShapeOK, OrderOK
\* A header update with the record already behind it.
<1>HeaderShaped.
    ASSUME SInv, IInv', pc = "header", pc' \in {"idle", "expire"},
           disk' \in {disk, header_update(disk)}, ~stale' => disk' # disk,
           db'.log_end = db.log_end, db'.next_msg = db.next_msg,
           hist' = hist, HalfDone'
    PROVE  SInv'
  <2> USE <1>HeaderShaped
  <2> DEFINE k == db.log_end
  <2>1. /\ k \in Nat /\ LogTop = k /\ LogTop' = k
        /\ DOMAIN disk = {"kind", "log", "log_end", "next_msg"}
    BY Basics, Zenon DEF SInv, LogTop
  <2>2. /\ disk'.log = disk.log
        /\ \/ disk'.log_end = disk.log_end /\ disk'.next_msg = disk.next_msg
           \/ disk'.log_end = k /\ disk'.next_msg = db.next_msg
    BY <2>1, Zenon DEF header_update
  <2>3. Kept
    BY <2>1, <2>2 DEF Kept
  <2>4. ShapeOK' /\ OrderOK'
    BY <2>3, <1>KeptShapes, Zenon
  <2>5. NumbersOK'
    BY <2>2, Zenon DEF SInv, NumbersOK, Durable
  <2> QED
    BY <2>4, <2>5, Zenon DEF SInv
\* The second half of a call that succeeds.
<1>FinishShaped.
    ASSUME SInv, IInv', FinishPush \/ FinishPop \/ FinishAck \/ FinishNack \/ FinishExpire
    PROVE  SInv'
  <2> USE <1>FinishShaped
  <2>1. /\ pc = "header" /\ disk' = header_update(disk) /\ hist' = hist
        /\ stale' = stale
        /\ \E st : db' = [db EXCEPT !.state = st]
    BY Zenon DEF FinishPush, FinishPop, FinishAck, FinishNack, FinishExpire, HeaderOk, Return
  <2>2. pc' \in {"idle", "expire"}
    BY Zenon DEF FinishPush, FinishPop, FinishAck, FinishNack, FinishExpire, Return
  <2>3. db'.log_end = db.log_end /\ db'.next_msg = db.next_msg
    BY <2>1, Basics, Zenon DEF SInv
  <2>4. ~stale
    BY <2>1, Zenon DEF SInv, IInv, MemoryOK, HeaderOK
  <2>5. HalfDone'
    BY <2>1, <2>4, Zenon DEF HalfDone
  <2>6. disk' # disk
    <3>1. db.log_end = disk.log_end + 1 /\ disk.log_end \in Nat
      BY <2>1, Basics, Zenon DEF SInv, IInv, MemoryOK, HeaderOK
    <3>2. disk'.log_end = db.log_end
      BY <2>1, Basics, Zenon DEF SInv, header_update
    <3> QED
      BY <3>1, <3>2
  <2> QED
    BY <2>1, <2>2, <2>3, <2>5, <2>6, <1>HeaderShaped, Zenon
\* The second half of a call that fails: the header update, or the
\* allocation after it.
<1>FailShaped.
    ASSUME SInv, IInv', HeaderFail \/ FinishPushNoMem
    PROVE  SInv'
  <2> USE <1>FailShaped
  <2> DEFINE k == db.log_end
             st == hist[k - 1].state
  <2>1. /\ pc = "header" /\ hist' = hist /\ stale' = TRUE /\ pc' = "idle"
        /\ disk' \in {disk, header_update(disk)}
    BY Zenon DEF HeaderFail, FinishPushNoMem, HeaderOk
  <2>2. /\ k = disk.log_end + 1 /\ disk.log_end \in Nat /\ op \in Record
        /\ Applied(hist[disk.log_end], hist[k], op, k)
        /\ db.state = hist[disk.log_end].state
    BY <2>1, Basics, Pending, Zenon DEF SInv
  <2>3. k > 0 /\ k - 1 = disk.log_end /\ db.state = st
    BY <2>2
  <2>4. replay_check(db.state, op)
    BY <2>2, Zenon DEF Applied
  <2>5. /\ db'.log_end = k /\ db'.next_msg = db.next_msg
        /\ db'.state.queues = st.queues
        /\ \A m \in DOMAIN st.msgs :
             m \in DOMAIN db'.state.msgs /\ db'.state.msgs[m] = st.msgs[m]
    <3>1. CASE UNCHANGED db
      BY <2>3, <3>1, Zenon
    <3>2. CASE ~UNCHANGED db
      <4>1. /\ op.type = "PUSH"
            /\ db' = [db EXCEPT !.state.msgs =
                        Put(@, op.msg, NewMsg(op.queue, db.log_end))]
        BY <3>2, Zenon DEF HeaderFail, FinishPushNoMem, HeaderOk
      <4>2. op.msg \notin DOMAIN db.state.msgs
        BY <2>4, <4>1, Zenon DEF replay_check
      <4>3. IsState(db.state) /\ DOMAIN db = {"state", "next_msg", "next_lease", "log_end"}
        BY Zenon DEF SInv, IInv, TypeOK
      <4>4. /\ db'.log_end = db.log_end /\ db'.next_msg = db.next_msg
            /\ db'.state.queues = db.state.queues
            /\ db'.state.msgs = Put(db.state.msgs, op.msg, NewMsg(op.queue, db.log_end))
        BY <4>1, <4>3, Zenon DEF IsState
      <4>5. \A m \in DOMAIN db.state.msgs :
              m \in DOMAIN db'.state.msgs /\ db'.state.msgs[m] = db.state.msgs[m]
        BY <4>2, <4>4, Zenon DEF Put
      <4> QED
        BY <2>3, <4>4, <4>5, Zenon
    <3> QED
      BY <3>1, <3>2, Zenon
  <2> HIDE DEF k, st
  <2>6. HalfDone'
    BY <2>1, <2>3, <2>5, Zenon DEF HalfDone, st
  <2> QED
    BY <2>1, <2>5, <2>6, <1>HeaderShaped, Zenon DEF k
\* The history only loses records, and the handle is as its file.
<1>KeptShaped.
    ASSUME SInv, IInv', Kept, NumbersOK', ~stale'
    PROVE  SInv'
    BY <1>KeptShaped, <1>KeptShapes, Zenon DEF SInv, HalfDone
\* A file without a header has given out no id.
<1>NothingYet.
    ASSUME SInv, disk.kind # "db"
    PROVE  /\ pc = "closed" /\ disk.log_end = 0 /\ LogTop = 0
           /\ hist[0] = replay_start /\ disk.next_msg = 1
           /\ DOMAIN replay_start.state.msgs = {}
  <2> USE <1>NothingYet
  <2>1. pc = "closed" /\ disk.log_end = 0 /\ LogTop = 0
    BY Zenon DEF SInv, IInv, LogOK, LogTop
  <2>2. hist[0] = replay_start /\ DOMAIN replay_start.state.msgs = {}
    BY ClosedType, Zenon DEF SInv, IInv, HistOK, replay_start
  <2>3. 1..disk.next_msg - 1 = {}
    BY <2>1, <2>2, Zenon DEF SInv, NumbersOK, Durable
  <2>4. disk.next_msg \in Ids
    BY Basics, Zenon DEF SInv
  <2>5. disk.next_msg = 1
    <3>1. 1 \notin 1..disk.next_msg - 1
      BY <2>3, Zenon
    <3> QED
      BY <2>4, <3>1 DEF Ids
  <2> QED
    BY <2>1, <2>2, <2>5, Zenon
\* The file is created.
<1>CreateShaped.
    ASSUME SInv, IInv', OpenCreate \/ OpenCreateTorn
    PROVE  /\ SInv'
           /\ disk'.log_end = 0 /\ disk'.next_msg = 1 /\ hist' = hist
  <2> USE <1>CreateShaped
  <2>1. /\ pc = "closed" /\ disk.kind # "db" /\ hist' = hist /\ stale' = stale
    BY Zenon DEF OpenCreate, OpenCreateTorn
  <2>2. /\ disk.log_end = 0 /\ LogTop = 0 /\ hist[0] = replay_start
        /\ disk.next_msg = 1 /\ DOMAIN replay_start.state.msgs = {}
    BY <2>1, <1>NothingYet, Zenon
  <2>3. /\ disk'.log_end = 0 /\ disk'.next_msg = 1
        /\ pc' = "closed" \/ (pc' = "idle" /\ db' = Closed)
    <3>1. CASE OpenCreate
      BY <3>1, Zenon DEF OpenCreate, NoFile
    <3>2. CASE OpenCreateTorn
      BY <2>1, <2>2, <3>2, Basics, Zenon DEF OpenCreateTorn, SInv
    <3> QED
      BY <3>1, <3>2, Zenon
  <2>4. LogTop' = 0
    BY <2>3, ClosedType, Zenon DEF LogTop
  <2>5. Kept
    BY <2>1, <2>2, <2>4 DEF Kept
  <2>6. NumbersOK'
    <3>1. 1..1 - 1 = {}
      OBVIOUS
    <3> QED
      BY <2>1, <2>2, <2>3, <3>1, ClosedType, Zenon DEF NumbersOK, Durable
  <2>7. ~stale'
    BY <2>1, Zenon DEF SInv, IInv, MemoryOK, StaleOK
  <2> QED
    BY <2>1, <2>3, <2>5, <2>6, <2>7, <1>KeptShaped, Zenon
\* A torn header is refused, or nothing happens at all.
<1>StutterShaped.
    ASSUME SInv, IInv', UNCHANGED <<disk, db, pc, stale, hist>>
    PROVE  SInv'
  <2> USE <1>StutterShaped
  <2>1. LogTop' = LogTop
    BY Zenon DEF LogTop
  <2> QED
    BY <2>1, Zenon DEF SInv, ShapeOK, OrderOK, NumbersOK, HalfDone, Durable
\* The file is cut behind the header's log_end, and the replay starts.
<1>OpenBeginShaped.
    ASSUME SInv, IInv', OpenBegin
    PROVE  /\ SInv'
           /\ disk'.log_end = disk.log_end /\ disk'.next_msg = disk.next_msg
           /\ hist'[disk.log_end] = hist[disk.log_end]
  <2> USE <1>OpenBeginShaped
  <2> DEFINE k == disk.log_end
  <2>1. /\ k \in Nat /\ LogTop = k /\ k <= Len(disk.log) /\ disk.log \in Seq(Entry)
        /\ \A i \in 1..k : disk.log[i].mark = TRUE
        /\ DOMAIN hist = 0..k
        /\ DOMAIN disk = {"kind", "log", "log_end", "next_msg"}
    BY Basics, Zenon DEF OpenBegin, SInv, IInv, LogOK, LogTop, HistOK
  <2>2. Valid(disk.log, k) = k
    BY <2>1, Zenon DEF Valid
  <2>3. /\ disk' = [disk EXCEPT !.log = SubSeq(@, 1, k), !.log_end = k]
        /\ db' = [Closed EXCEPT !.next_msg = disk.next_msg, !.log_end = k]
        /\ hist' = Restrict(hist, 0..k)
        /\ pc' = "replay" /\ stale' = FALSE
    BY <2>2, Zenon DEF OpenBegin
  <2> HIDE DEF k
  <2>4. /\ disk'.log = SubSeq(disk.log, 1, k) /\ disk'.log_end = k
        /\ disk'.next_msg = disk.next_msg
        /\ db'.next_msg = disk.next_msg /\ db'.log_end = k
    BY <2>1, <2>3, ClosedType, Zenon
  <2>5. \A i \in 1..k : disk'.log[i] = disk.log[i]
    BY <2>1, <2>4, LogCut
  <2>6. \A n \in 0..k : hist'[n] = hist[n]
    BY <2>1, <2>3, Zenon DEF Restrict
  <2>7. LogTop' = k
    BY <2>3, <2>4, Zenon DEF LogTop
  <2>8. Kept
    BY <2>1, <2>5, <2>6, <2>7 DEF Kept
  <2>9. hist'[k] = hist[k]
    BY <2>1, <2>6
  <2>10. NumbersOK'
    BY <2>3, <2>4, <2>9, Zenon DEF SInv, NumbersOK, Durable, k
  <2> QED
    BY <2>3, <2>4, <2>8, <2>9, <2>10, <1>KeptShaped, Zenon DEF k
\* Replay never moves next_message_id: the header's is already behind every
\* PUSH record in front of log_end.
<1>OpenReplayShaped.
    ASSUME SInv, IInv', OpenReplay
    PROVE  SInv'
  <2> USE <1>OpenReplayShaped
  <2> DEFINE k == db.log_end
             rec == disk.log[pos + 1].rec
  <2>1. /\ pc = "replay" /\ pos < k
        /\ UNCHANGED <<disk, pc, stale, hist>>
    BY Zenon DEF OpenReplay
  <2>2. /\ DOMAIN db = {"state", "next_msg", "next_lease", "log_end"}
        /\ k \in Nat /\ pos \in Nat /\ disk.log \in Seq(Entry)
        /\ disk.next_msg \in Ids /\ LogTop = k /\ k <= Len(disk.log)
        /\ disk.log_end = k /\ ~stale /\ db.next_msg = disk.next_msg
    BY <2>1, Basics, Zenon DEF SInv, IInv, TypeOK, LogTop, MemoryOK, ReplayOK, NumbersOK
  <2>3. db'.log_end = k /\ db'.next_msg = replay_next_msg(db.next_msg, rec)
    BY <2>2, Zenon DEF OpenReplay
  <2> HIDE DEF k
  <2>4. /\ pos + 1 \in 1..k /\ pos + 1 \in 0..k /\ (pos + 1) - 1 = pos
        /\ pos + 1 <= k
    BY <2>1, <2>2
  <2>5. disk.log[pos + 1] \in Entry
    BY <2>2, <2>4, SMTT(60)
  <2>6. rec \in Record
    BY <2>5, Zenon DEF Entry
  <2>7. Applied(hist[pos], hist[pos + 1], rec, pos + 1) /\ Shape(hist[pos], rec)
    BY <2>2, <2>4, Zenon DEF SInv, IInv, HistOK, ShapeOK
  <2>8. InOrder(hist[pos].state) /\ Sound(hist[pos])
    <3>1. pos \in 0..k
      BY <2>1, <2>2
    <3> QED
      BY <2>2, <3>1, Zenon DEF SInv, OrderOK, IInv, HistOK
  <2> HIDE DEF rec
  <2>9. replay_next_msg(db.next_msg, rec) = db.next_msg
    <3>1. CASE rec.type = "PUSH"
      <4>1. rec.msg \in DOMAIN hist[pos + 1].state.msgs
        <5>1. pos + 1 \in Nat
          BY <2>2
        <5>2. DOMAIN hist[pos + 1].state.msgs =
                IF rec.type = "PUSH" THEN DOMAIN hist[pos].state.msgs \cup {rec.msg}
                                     ELSE DOMAIN hist[pos].state.msgs
          BY ONLY <2>6, <2>7, <2>8, <5>1, <1>ShapedStep, Zenon
        <5> QED
          BY <3>1, <5>2, Zenon
      <4>2. MsgOK(pos + 1, rec.msg)
        BY <2>2, <2>4, <4>1, Zenon DEF SInv, IInv, MsgsOK
      <4>3. rec.msg < disk.next_msg
        BY <2>2, <2>4, <4>2, Zenon DEF MsgOK, IdOK
      <4>4. rec.msg \in Ids
        BY <2>6, <3>1, Zenon DEF Record
      <4> QED
        BY <2>2, <3>1, <4>3, <4>4 DEF replay_next_msg, Ids
    <3>2. CASE rec.type # "PUSH"
      BY <2>7, <3>2, Zenon DEF replay_next_msg, Shape
    <3> QED
      BY <3>1, <3>2, Zenon
  <2>10. LogTop' = k
    BY <2>1, <2>3, Zenon DEF LogTop
  <2>11. Kept
    BY <2>1, <2>2, <2>10 DEF Kept
  <2>12. NumbersOK'
    BY <2>1, <2>2, <2>3, <2>9, Zenon DEF SInv, NumbersOK, Durable
  <2> QED
    BY <2>1, <2>2, <2>11, <2>12, <1>KeptShaped, Zenon
\* The header is persisted at the end of the replay, with what it held.
<1>OpenDoneShaped.
    ASSUME SInv, IInv', OpenDone
    PROVE  /\ SInv'
           /\ disk'.log_end = disk.log_end /\ disk'.next_msg = disk.next_msg
           /\ hist' = hist
  <2> USE <1>OpenDoneShaped
  <2>1. /\ pc = "replay" /\ pc' = "idle" /\ disk' = header_update(disk)
        /\ UNCHANGED <<db, stale, hist>>
    BY Zenon DEF OpenDone
  <2>2. /\ DOMAIN disk = {"kind", "log", "log_end", "next_msg"}
        /\ disk.log_end = db.log_end /\ ~stale /\ db.next_msg = disk.next_msg
        /\ LogTop = db.log_end /\ db.log_end \in Nat
    BY <2>1, Basics, Zenon DEF SInv, IInv, MemoryOK, ReplayOK, NumbersOK, LogTop
  <2>3. /\ disk'.log_end = disk.log_end /\ disk'.next_msg = disk.next_msg
        /\ disk'.log = disk.log
    BY <2>1, <2>2, Zenon DEF header_update
  <2>4. LogTop' = LogTop
    BY <2>1, <2>2, Zenon DEF LogTop
  <2>5. Kept
    BY <2>1, <2>2, <2>3, <2>4 DEF Kept
  <2>6. NumbersOK'
    BY <2>1, <2>2, <2>3, Zenon DEF SInv, NumbersOK, Durable
  <2> QED
    BY <2>1, <2>2, <2>3, <2>5, <2>6, <1>KeptShaped, Zenon
\* The handle goes away: what is left is what the header covers.
<1>ReleaseShaped.
    ASSUME SInv, IInv', qdb_close \/ Crash
    PROVE  /\ SInv' /\ disk'.log_end \in 0..LogTop
           /\ hist'[disk'.log_end] = hist[disk'.log_end]
  <2> USE <1>ReleaseShaped
  <2> DEFINE j == disk'.log_end
  <2>1. /\ pc # "closed" /\ pc' = "closed" /\ stale' = FALSE
        /\ hist' = Restrict(hist, 0..j)
        /\ disk' = disk \/ (pc = "idle" /\ disk' = header_update(disk))
    BY Zenon DEF qdb_close, Crash, Release
  <2>2. /\ DOMAIN disk = {"kind", "log", "log_end", "next_msg"}
        /\ LogTop = db.log_end /\ disk.log_end <= LogTop
        /\ db.log_end \in Nat /\ disk.log_end \in Nat /\ DOMAIN hist = 0..LogTop
    BY <2>1, Basics, Zenon DEF SInv, IInv, HistOK, LogTop
  <2>3. /\ disk'.log = disk.log
        /\ \/ j = disk.log_end /\ disk'.next_msg = disk.next_msg
           \/ pc = "idle" /\ j = db.log_end /\ disk'.next_msg = db.next_msg
    BY <2>1, <2>2, Zenon DEF header_update
  <2>4. LogTop' = j
    BY <2>1, Zenon DEF LogTop
  <2> HIDE DEF j
  <2>5. j \in 0..LogTop
    BY <2>2, <2>3
  <2>6. \A n \in 0..j : hist'[n] = hist[n]
    BY <2>1, <2>2, <2>5, Zenon DEF Restrict
  <2>7. Kept
    BY <2>2, <2>3, <2>4, <2>5, <2>6 DEF Kept
  <2>8. hist'[j] = hist[j]
    BY <2>2, <2>5, <2>6
  <2>9. DOMAIN hist[j].state.msgs = 1..disk'.next_msg - 1
    BY <2>3, Zenon DEF SInv, NumbersOK, Durable
  <2>10. NumbersOK'
    BY <2>1, <2>8, <2>9, Zenon DEF NumbersOK, Durable, j
  <2> QED
    BY <2>1, <2>5, <2>7, <2>8, <2>10, <1>KeptShaped, Zenon DEF j
\* The start of a call, or a turn of the walk over the expired leases.
<1>CallShaped.
    SInv /\ IInv' /\ Call /\ ~RetryAfterError
      => /\ SInv' /\ disk'.log_end = disk.log_end /\ disk'.next_msg = disk.next_msg
         /\ hist'[disk.log_end] = hist[disk.log_end]
  \* Appending keeps what was there.
  <2>AppendAny.
      ASSUME NEW S, NEW s \in Seq(S), NEW e
      PROVE  /\ Len(Append(s, e)) = Len(s) + 1
             /\ \A i \in 1..Len(s) : Append(s, e)[i] = s[i]
    <3> DEFINE T == S \cup {e}
    <3>1. s \in Seq(T) /\ e \in T
      OBVIOUS
    <3> HIDE DEF T
    <3> QED
      BY <3>1
  \* A record of that shape is appended (qdb__append_record succeeds).
  <2>AppendShaped.
      ASSUME SInv, IInv', Ready, NEW rec \in Record, NEW nm \in Ids, NEW nl,
             append_ok(rec, nm, nl), Shape(hist[db.log_end], rec),
             IF rec.type = "PUSH" THEN rec.msg = db.next_msg /\ nm = db.next_msg + 1
                                  ELSE nm = db.next_msg
      PROVE  SInv'
    <3> USE <2>AppendShaped
    <3> DEFINE k == db.log_end
    <3>1. /\ k \in Nat /\ disk.log_end = k /\ pc \in {"idle", "expire"} /\ ~stale
          /\ disk.log \in Seq(Entry) /\ k <= Len(disk.log) /\ db.next_msg \in Ids
          /\ disk.next_msg = db.next_msg
          /\ LogTop = k
          /\ DOMAIN disk = {"kind", "log", "log_end", "next_msg"}
          /\ DOMAIN db = {"state", "next_msg", "next_lease", "log_end"}
      BY Basics, Zenon DEF SInv, IInv, MemoryOK, IdleOK, Ready, LogTop
    <3>2. /\ disk'.log = Append(SubSeq(disk.log, 1, k), Committed(rec))
          /\ disk'.log_end = k /\ disk'.next_msg = disk.next_msg
          /\ db'.log_end = k + 1 /\ db'.next_msg = nm
          /\ pc' = "header" /\ stale' = stale
      BY <3>1, Zenon DEF append_ok
    <3>3. hist' = Put(hist, k + 1, replay_record(hist[k], rec, k + 1))
      BY Zenon DEF append_ok
    <3>4. DOMAIN hist = 0..k
      BY <3>1, Zenon DEF SInv, IInv, HistOK
    <3> HIDE DEF k
    <3>5. Committed(rec) \in Entry /\ Committed(rec).rec = rec
      BY Zenon DEF Committed, Entry
    <3>6. disk'.log[k + 1] = Committed(rec) /\ \A i \in 1..k : disk'.log[i] = disk.log[i]
      BY <3>1, <3>2, <3>5, LogAppend, SMTT(30)
    <3>7. \A n \in 0..k : hist'[n] = hist[n]
      BY <3>1, <3>3, <3>4 DEF Put
    <3>8. LogTop' = k + 1
      BY <3>2, Zenon DEF LogTop
    <3>9. /\ Applied(hist[k], hist'[k + 1], rec, k + 1)
          /\ Sound(hist[k])
      <4>1. /\ \A i \in 1..k + 1 : Applied(hist'[i - 1], hist'[i], disk'.log[i].rec, i)
            /\ \A n \in 0..k + 1 : Sound(hist'[n])
        BY <3>8, Zenon DEF IInv, HistOK
      <4>2. k + 1 \in 1..k + 1 /\ k + 1 - 1 = k /\ k \in 0..k /\ k \in 0..k + 1
        BY <3>1, SMTT(60)
      <4>3. disk'.log[k + 1].rec = rec /\ hist'[k] = hist[k]
        BY <3>5, <3>6, <3>7, <4>2, Zenon
      <4> QED
        BY <4>1, <4>2, <4>3
    <3>10. InOrder(hist[k].state)
      BY <3>1 DEF SInv, OrderOK
    <3>11. Shape(hist[k], rec)
      BY Zenon DEF k
    <3>12. /\ InOrder(hist'[k + 1].state)
           /\ DOMAIN hist'[k + 1].state.msgs =
                IF rec.type = "PUSH" THEN DOMAIN hist[k].state.msgs \cup {rec.msg}
                                     ELSE DOMAIN hist[k].state.msgs
      <4>1. k + 1 \in Nat
        BY <3>1, SMTT(60)
      <4> QED
        BY <3>9, <3>10, <3>11, <4>1, <1>ShapedStep, Zenon
    <3>13. ShapeOK'
      <4>1. ASSUME NEW i \in 1..k + 1
            PROVE  Shape(hist'[i - 1], disk'.log[i].rec)
        <5>1. CASE i = k + 1
          <6>1. i - 1 = k /\ hist'[k] = hist[k]
            BY <3>1, <3>7, <5>1, SMTT(60)
          <6> QED
            BY <3>5, <3>6, <3>11, <5>1, <6>1, Zenon
        <5>2. CASE i \in 1..k
          <6>1. hist'[i - 1] = hist[i - 1] /\ disk'.log[i] = disk.log[i]
            BY <3>1, <3>6, <3>7, <5>2
          <6>2. Shape(hist[i - 1], disk.log[i].rec)
            BY <3>1, <5>2, Zenon DEF SInv, ShapeOK
          <6> QED
            BY <6>1, <6>2, Zenon
        <5> QED
          BY <3>1, <5>1, <5>2, SMTT(60)
      <4> QED
        BY <3>8, <4>1, Zenon DEF ShapeOK
    <3>14. OrderOK'
      <4>1. ASSUME NEW n \in 0..k + 1
            PROVE  InOrder(hist'[n].state)
        <5>1. CASE n = k + 1
          BY <3>12, <5>1, Zenon
        <5>2. CASE n \in 0..k
          BY <3>1, <3>7, <5>2, Zenon DEF SInv, OrderOK
        <5> QED
          BY <3>1, <5>1, <5>2, SMTT(60)
      <4> QED
        BY <3>8, <4>1, Zenon DEF OrderOK
    <3>15. NumbersOK'
      <4>1. DOMAIN hist[k].state.msgs = 1..db.next_msg - 1
        BY <3>1, Zenon DEF SInv, NumbersOK, k
      <4>2. DOMAIN hist'[k + 1].state.msgs = 1..nm - 1
        <5> DEFINE d == db.next_msg
        <5>1. d \in Ids /\ (1..d - 1) \cup {d} = 1..d
          BY <3>1 DEF Ids
        <5>2. CASE rec.type = "PUSH"
          <6>1. rec.msg = d /\ nm = d + 1
            BY <5>2, Zenon
          <6>2. DOMAIN hist'[k + 1].state.msgs = (1..d - 1) \cup {d}
            BY ONLY <3>12, <4>1, <5>2, <6>1, Zenon
          <6>3. nm - 1 = d
            BY <5>1, <6>1 DEF Ids
          <6> QED
            BY ONLY <5>1, <6>2, <6>3, Zenon
        <5>3. CASE rec.type # "PUSH"
          <6>1. nm = d
            BY <5>3, Zenon
          <6> QED
            BY ONLY <3>12, <4>1, <5>3, <6>1, Zenon
        <5> QED
          BY <5>2, <5>3, Zenon
      <4>3. Durable' = hist[k]
        BY <3>1, <3>2, <3>7, SMTT(60) DEF Durable
      <4> QED
        BY <3>1, <3>2, <4>1, <4>2, <4>3, Zenon DEF NumbersOK
    <3>16. HalfDone'
      BY <3>1, <3>2, Zenon DEF HalfDone
    <3> QED
      BY <3>13, <3>14, <3>15, <3>16, Zenon DEF SInv
  \* One of its writes fails.
  <2>AppendFailShaped.
      ASSUME SInv, IInv', Ready, NEW rec, append_fail(rec)
      PROVE  SInv'
    <3> USE <2>AppendFailShaped
    <3> DEFINE k == db.log_end
    <3>1. /\ k \in Nat /\ pc \in {"idle", "expire"} /\ ~stale
          /\ disk.log \in Seq(Entry) /\ k <= Len(disk.log)
          /\ LogTop = k
          /\ DOMAIN disk = {"kind", "log", "log_end", "next_msg"}
      BY Basics, Zenon DEF SInv, Ready, LogTop
    <3>2. pc' = "idle" /\ UNCHANGED <<db, stale, hist>> /\ LogTop' = k
      BY Zenon DEF append_fail, LogTop
    <3>3. /\ disk'.log_end = disk.log_end /\ disk'.next_msg = disk.next_msg
          /\ \A i \in 1..k : disk'.log[i] = disk.log[i]
      <4>1. CASE UNCHANGED disk
        BY <4>1, Zenon
      <4>2. CASE ~UNCHANGED disk
        <5>1. PICK e : disk' = [disk EXCEPT !.log = Append(SubSeq(@, 1, k), e)]
          BY <4>2, Zenon DEF append_fail
        <5> DEFINE t == SubSeq(disk.log, 1, k)
        <5>2. t \in Seq(Entry) /\ Len(t) = k /\ \A i \in 1..k : t[i] = disk.log[i]
          BY <3>1, LogCut, Zenon
        <5>3. /\ disk'.log = Append(t, e) /\ disk'.log_end = disk.log_end
              /\ disk'.next_msg = disk.next_msg
          BY <3>1, <5>1, Zenon
        <5> HIDE DEF t
        <5>4. \A i \in 1..k : Append(t, e)[i] = t[i]
          BY <5>2, <2>AppendAny
        <5> QED
          BY <5>2, <5>3, <5>4, Zenon
      <4> QED
        BY <4>1, <4>2, Zenon
    <3>4. Kept
      BY <3>1, <3>2, <3>3 DEF Kept
    <3>5. ShapeOK' /\ OrderOK'
      BY <3>4, <1>KeptShapes, Zenon
    <3>6. NumbersOK'
      BY <3>1, <3>2, <3>3, Zenon DEF SInv, NumbersOK, Durable
    <3>7. HalfDone'
      BY <3>1, <3>2, Zenon DEF HalfDone
    <3> QED
      BY <3>5, <3>6, <3>7, Zenon DEF SInv
  \* A handle a call can be made on holds the newest state of the history.
  <2>ReadyHist.
      ASSUME SInv, Ready
      PROVE  /\ db.state = hist[db.log_end].state
             /\ db.next_lease = hist[db.log_end].next_lease
             /\ DOMAIN hist[db.log_end].state.msgs = 1..db.next_msg - 1
             /\ disk.log_end = db.log_end /\ LogTop = db.log_end
      BY <2>ReadyHist, Zenon DEF SInv, IInv, MemoryOK, IdleOK, NumbersOK, Ready, LogTop
  \* qdb_push writes the next id (qdb.c: next_message_id++ before the append).
  <2>PushShaped.
      ASSUME SInv, IInv', NEW q \in Queues, qdb_push(q), ~RetryAfterError
      PROVE  SInv'
    <3> USE <2>PushShaped
    <3> DEFINE m == db.next_msg
               rec == PushRec(m, q)
    <3>1. /\ Ready
          /\ append_ok(rec, m + 1, db.next_lease) \/ append_fail(rec)
      BY Zenon DEF qdb_push, CanCall, Ready
    <3>2. m \in Ids /\ m + 1 \in Ids
      <4>1. m \in Ids
        BY Basics, Zenon DEF SInv
      <4> HIDE DEF m
      <4> QED
        BY <4>1 DEF Ids
    <3>3. DOMAIN hist[db.log_end].state.msgs = 1..m - 1
      BY <3>1, <2>ReadyHist, Zenon
    <3>4. rec \in Record /\ rec.type = "PUSH" /\ rec.msg = m
      BY <3>2, Zenon DEF PushRec, Record
    <3> HIDE DEF rec
    <3>5. Shape(hist[db.log_end], rec)
      BY <3>3, <3>4, Zenon DEF Shape
    <3>6. CASE append_fail(rec)
      BY <3>1, <3>6, <2>AppendFailShaped, Zenon
    <3>7. CASE append_ok(rec, m + 1, db.next_lease)
      BY <3>1, <3>2, <3>4, <3>5, <3>7, <2>AppendShaped, Zenon
    <3> QED
      BY <3>1, <3>6, <3>7, Zenon
  \* qdb_pop and qdb_pop_any lease the head of a list (do_pop).
  <2>PopShaped.
      ASSUME SInv, IInv', Ready, NEW q \in Poppable, do_pop(HeadOf(q))
      PROVE  SInv'
    <3> USE <2>PopShaped
    <3> DEFINE m == HeadOf(q)
               l == db.next_lease
    <3>1. PICK now \in Times :
            LET rec == LeaseRec(m, l, now + Timeout)
            IN  append_ok(rec, db.next_msg, l + 1) \/ append_fail(rec)
      BY Zenon DEF do_pop
    <3> DEFINE e == now + Timeout
               rec == LeaseRec(m, l, e)
    <3>2. WellFormed(db.state) /\ l \in Ids /\ db.next_msg \in Ids
      BY ReadyState, Zenon DEF SInv
    <3>3. m \in Ids /\ e \in Nat
      BY <3>2, HeadPending, EngineAssumption, SMTT(60)
    <3>4. m = Head(db.state.queues[db.state.msgs[m].queue].pending)
      BY <3>2, HeadPending, Zenon DEF HeadOf
    <3>5. db.state = hist[db.log_end].state /\ l = hist[db.log_end].next_lease
      BY <2>ReadyHist, Zenon
    <3> HIDE DEF m, l, e
    <3>6. rec \in Record /\ rec.type = "LEASE" /\ rec.msg = m /\ rec.lease = l
      BY <3>2, <3>3, Zenon DEF LeaseRec, Record
    <3>7. append_ok(rec, db.next_msg, l + 1) \/ append_fail(rec)
      BY <3>1, Zenon DEF e
    <3> HIDE DEF rec
    <3>8. Shape(hist[db.log_end], rec)
      BY <3>4, <3>5, <3>6, Zenon DEF Shape
    <3>9. CASE append_fail(rec)
      BY <3>9, <2>AppendFailShaped, Zenon
    <3>10. CASE append_ok(rec, db.next_msg, l + 1)
      BY <3>2, <3>6, <3>8, <3>10, <2>AppendShaped, Zenon
    <3> QED
      BY <3>7, <3>9, <3>10, Zenon
  \* The records of qdb_ack, qdb_nack and expire_one.
  <2>EndShaped.
      ASSUME SInv, IInv', Ready, NEW rec \in Record,
             rec.type \in {"ACK", "NACK", "EXPIRE"},
             append_ok(rec, db.next_msg, db.next_lease) \/ append_fail(rec)
      PROVE  SInv'
    <3> USE <2>EndShaped
    <3>1. Shape(hist[db.log_end], rec)
      BY Zenon DEF Shape
    <3>2. db.next_msg \in Ids
      BY Basics, Zenon DEF SInv
    <3>3. CASE append_fail(rec)
      BY <3>3, <2>AppendFailShaped, Zenon
    <3>4. CASE append_ok(rec, db.next_msg, db.next_lease)
      BY <3>1, <3>2, <3>4, <2>AppendShaped, Zenon
    <3> QED
      BY <3>3, <3>4, Zenon
  \* An ack or a nack.
  <2>AckShaped.
      ASSUME SInv, IInv', NEW m \in 1..MaxMsg, NEW l \in 1..MaxLease,
             qdb_ack(m, l) \/ qdb_nack(m, l), ~RetryAfterError
      PROVE  SInv'
    <3> USE <2>AckShaped
    <3>1. Ready
      BY Zenon DEF qdb_ack, qdb_nack, CanCall, Ready
    <3>2. m \in Ids /\ l \in Ids
      BY EngineAssumption DEF Ids
    <3>3. /\ AckRec(m, l) \in Record /\ AckRec(m, l).type = "ACK"
          /\ NackRec(m, l) \in Record /\ NackRec(m, l).type = "NACK"
      BY <3>2, Zenon DEF AckRec, NackRec, Record
    <3>4. \E rec \in {AckRec(m, l), NackRec(m, l)} :
            append_ok(rec, db.next_msg, db.next_lease) \/ append_fail(rec)
      BY Zenon DEF qdb_ack, qdb_nack
    <3> QED
      BY <3>1, <3>3, <3>4, <2>EndShaped, Zenon
  \* One turn of the walk of qdb_process_expired_leases.
  <2>ExpireShaped.
      ASSUME SInv, IInv', NEW l \in todo, expire_one(l)
      PROVE  SInv'
    <3> USE <2>ExpireShaped
    <3> DEFINE m == db.state.leases[l].msg
               rec == ExpireRec(m, l)
    <3>1. /\ todo \subseteq DOMAIN db.state.leases /\ Ready
          /\ append_ok(rec, db.next_msg, db.next_lease) \/ append_fail(rec)
      BY Zenon DEF expire_one, SInv, IInv, MemoryOK, TodoOK, StaleOK, Ready
    <3>2. WellFormed(db.state)
      BY <3>1, ReadyState, Zenon DEF SInv
    <3>3. m \in Ids /\ l \in Ids
      BY <3>1, <3>2, Zenon DEF WellFormed, IsState, Lease
    <3> HIDE DEF m
    <3>4. rec \in Record /\ rec.type = "EXPIRE"
      BY <3>3, Zenon DEF ExpireRec, Record
    <3> HIDE DEF rec
    <3> QED
      BY <3>1, <3>4, <2>EndShaped, Zenon
  <2> SUFFICES ASSUME SInv, IInv', Call, ~RetryAfterError
               PROVE  SInv' /\ disk'.log_end = disk.log_end /\ disk'.next_msg = disk.next_msg
                      /\ hist'[disk.log_end] = hist[disk.log_end]
    BY Zenon
  <2>1. ASSUME NEW q \in Queues, qdb_push(q) PROVE SInv'
    BY <2>1, <2>PushShaped, Zenon
  <2>2. ASSUME NEW q \in Queues, qdb_pop(q) PROVE SInv'
    BY <2>2, <2>PopShaped, Zenon DEF qdb_pop, CanCall, Ready
  <2>3. ASSUME qdb_pop_any PROVE SInv'
    BY <2>3, <2>PopShaped, Zenon DEF qdb_pop_any, CanCall, Ready
  <2>4. ASSUME NEW m \in 1..MaxMsg, NEW l \in 1..MaxLease,
               qdb_ack(m, l) \/ qdb_nack(m, l)
        PROVE  SInv'
    BY <2>4, <2>AckShaped, Zenon
  <2>5. ASSUME process_expired_leases PROVE SInv'
    <3>1. /\ UNCHANGED <<disk, db, stale, hist>>
          /\ pc = "idle" /\ pc' = "expire" /\ ~stale
      BY <2>5, Zenon DEF process_expired_leases, CanCall
    <3>2. LogTop' = LogTop
      BY <3>1, Zenon DEF LogTop
    <3> QED
      BY <3>1, <3>2, Zenon DEF SInv, ShapeOK, OrderOK, NumbersOK, HalfDone, Durable
  <2>6. ASSUME NEW l \in todo, expire_one(l) PROVE SInv'
    BY <2>6, <2>ExpireShaped, Zenon
  <2>7. SInv'
    BY <2>1, <2>2, <2>3, <2>4, <2>5, <2>6, Zenon DEF Call
  <2>8. \/ \E rec, nm, nl : append_ok(rec, nm, nl)
        \/ \E rec : append_fail(rec)
        \/ UNCHANGED <<disk, hist>>
    BY Zenon DEF Call, qdb_push, qdb_pop, qdb_pop_any, do_pop, qdb_ack, qdb_nack,
           process_expired_leases, expire_one
  <2>9. /\ DOMAIN disk = {"kind", "log", "log_end", "next_msg"}
        /\ disk.log_end \in Nat /\ db.log_end \in Nat
        /\ pc \in {"idle", "expire"} /\ DOMAIN hist = 0..db.log_end
        /\ disk.log_end <= db.log_end
    <3>1. pc \in {"idle", "expire"}
      BY Zenon DEF Call, qdb_push, qdb_pop, qdb_pop_any, qdb_ack, qdb_nack,
             process_expired_leases, expire_one, CanCall
    <3> QED
      BY <3>1, Basics, Zenon DEF SInv, IInv, HistOK, LogTop
  <2>10. disk'.log_end = disk.log_end /\ disk'.next_msg = disk.next_msg
    BY <2>8, <2>9, Zenon DEF append_ok, append_fail
  <2>11. hist'[disk.log_end] = hist[disk.log_end]
    <3>1. \/ hist' = hist
          \/ \E v : hist' = Put(hist, db.log_end + 1, v)
      BY <2>8, Zenon DEF append_ok, append_fail
    <3>2. disk.log_end # db.log_end + 1 /\ disk.log_end \in DOMAIN hist
      BY <2>9
    <3> QED
      BY <3>1, <3>2, Zenon DEF Put
  <2> QED
    BY <2>7, <2>10, <2>11, Zenon
\* Every step of the engine moves the header so.
<1>StepMoves.
    ASSUME SInv, SInv', IInv', [Next]_vars, ~RetryAfterError
    PROVE  HeaderMoves
  <2> USE <1>StepMoves
  <2>1. SInv' /\ IInv'
    BY Zenon
  <2>2. /\ disk.log_end \in Nat /\ db.log_end \in Nat
        /\ DOMAIN disk = {"kind", "log", "log_end", "next_msg"}
    BY Basics, Zenon DEF SInv
  <2>3. CASE UNCHANGED vars
    BY <2>1, <2>3, Zenon DEF HeaderMoves, vars, engine
  <2>4. CASE Open
    <3>1. CASE UNCHANGED <<disk, hist>>
      BY <2>1, <3>1, Zenon DEF HeaderMoves
    <3>2. CASE OpenCreate \/ OpenCreateTorn
      <4>1. disk.kind # "db"
        BY <3>2, Zenon DEF OpenCreate, OpenCreateTorn
      <4> QED
        BY <2>1, <3>2, <4>1, <1>CreateShaped, <1>NothingYet, Zenon DEF HeaderMoves
    <3>3. CASE OpenBegin
      BY <2>1, <3>3, <1>OpenBeginShaped, Zenon DEF HeaderMoves
    <3>4. CASE OpenDone
      BY <2>1, <3>4, <1>OpenDoneShaped, Zenon DEF HeaderMoves
    <3> QED
      BY <2>4, <3>1, <3>2, <3>3, <3>4, Zenon DEF Open, OpenShort, OpenReplay, OpenRefuse
  <2>5. CASE Call
    BY <2>1, <2>5, <1>CallShaped, Zenon DEF HeaderMoves
  <2>6. CASE Finish
    <3>1. /\ pc = "header" /\ hist' = hist /\ disk' \in {disk, header_update(disk)}
      BY <2>6, Zenon DEF Finish, FinishPush, FinishPushNoMem, FinishPop, FinishAck,
                  FinishNack, FinishExpire, HeaderOk, HeaderFail
    <3>2. db.log_end = disk.log_end + 1 /\ LogTop = db.log_end
      BY <3>1, Zenon DEF SInv, IInv, MemoryOK, HeaderOK, LogTop
    <3>3. disk'.log_end \in {disk.log_end, disk.log_end + 1}
      BY <2>2, <3>1, <3>2, Zenon DEF header_update
    <3>4. disk.log_end + 1 <= LogTop
      BY <2>2, <3>2
    <3>5. hist'[disk'.log_end] = hist[disk'.log_end]
      BY <3>1, Zenon
    <3> QED
      BY <2>1, <3>3, <3>4, <3>5, Zenon DEF HeaderMoves
  <2>7. CASE qdb_close \/ Crash
    <3>1. disk'.log_end \in 0..LogTop /\ hist'[disk'.log_end] = hist[disk'.log_end]
      BY <2>1, <2>7, <1>ReleaseShaped, Zenon
    <3>2. disk' = disk \/ (pc = "idle" /\ disk' = header_update(disk))
      BY <2>7, Zenon DEF qdb_close, Crash
    <3>3. pc = "idle" => disk.log_end \in {db.log_end - 1, db.log_end}
      BY Zenon DEF SInv, IInv, MemoryOK, IdleOK, StaleOK
    <3>4. db.log_end - 1 = disk.log_end => db.log_end = disk.log_end + 1
      BY <2>2
    <3>5. disk'.log_end \in {disk.log_end, db.log_end}
      BY <2>2, <3>2, Zenon DEF header_update
    <3>6. disk'.log_end \in {disk.log_end, disk.log_end + 1}
      BY <3>2, <3>3, <3>4, <3>5, Zenon
    <3>7. disk'.log_end <= LogTop
      BY <3>1
    <3> QED
      BY <2>1, <3>1, <3>6, <3>7, Zenon DEF HeaderMoves
  <2> QED
    BY <2>3, <2>4, <2>5, <2>6, <2>7, Zenon DEF Next
<1> SUFFICES ASSUME SInv, [Next]_vars, ~RetryAfterError
             PROVE  SInv' /\ HeaderMoves
  BY Zenon
<1>1. IInv'
  BY NextInv, Zenon DEF SInv
<1>2. SInv'
  <2>1. CASE UNCHANGED vars
    BY <1>1, <2>1, <1>StutterShaped, Zenon DEF vars, engine
  <2>2. CASE Open
    <3>1. CASE OpenShort
      BY <1>1, <3>1, <1>StutterShaped, Zenon DEF OpenShort
    <3>2. CASE OpenRefuse
      BY <3>2, OpenRefuseNever, Zenon DEF SInv
    <3> QED
      BY <1>1, <2>2, <3>1, <3>2, <1>CreateShaped, <1>OpenBeginShaped, <1>OpenReplayShaped,
         <1>OpenDoneShaped, Zenon DEF Open
  <2>3. CASE Call
    BY <1>1, <2>3, <1>CallShaped, Zenon
  <2>4. CASE Finish
    BY <1>1, <2>4, <1>FinishShaped, <1>FailShaped, Zenon DEF Finish
  <2>5. CASE qdb_close \/ Crash
    BY <1>1, <2>5, <1>ReleaseShaped, Zenon
  <2> QED
    BY <2>1, <2>2, <2>3, <2>4, <2>5, Zenon DEF Next
<1> QED
  BY <1>1, <1>2, <1>StepMoves, Zenon

\* The records of the log keep their shape, its ids have no gaps, and the
\* lists of every state it replays to are in order.
THEOREM ShapeInvariance ==
  ASSUME ~RetryAfterError
  PROVE  Spec => []SInv
<1>1. Init => SInv
  BY InitShaped, Zenon
<1>2. SInv /\ [Next]_vars => SInv'
  BY NextShaped, Zenon
<1> QED
  BY <1>1, <1>2, PTL DEF Spec

-----------------------------------------------------------------------------
(* The order of delivery.                                                  *)

\* The lists in memory are those of a replayed state.
LEMMA MemoryInOrder ==
  ASSUME SInv
  PROVE  InOrder(db.state)
<1>1. /\ pc \in {"closed", "replay", "idle", "header", "expire"}
      /\ db.log_end \in Nat /\ disk.log_end \in Nat /\ pos \in Nat
  BY Zenon DEF SInv, IInv, TypeOK
<1>2. CASE pc = "closed"
  <2>1. db.state.queues = EmptyFcn
    BY <1>2, SMTT(60) DEF SInv, IInv, MemoryOK, ClosedOK, Closed, state_alloc
  <2>2. DOMAIN db.state.queues = {}
    BY <2>1, Zenon DEF EmptyFcn
  <2> QED
    BY <2>2, Zenon DEF InOrder
<1>3. CASE pc = "replay"
  <2>1. pos \in 0..LogTop /\ db.state = hist[pos].state
    BY <1>1, <1>3, SMTT(60) DEF SInv, IInv, MemoryOK, ReplayOK, LogTop
  <2> QED
    BY <2>1, Zenon DEF SInv, OrderOK
<1>4. CASE pc \in {"idle", "expire"} /\ ~stale
  <2>1. db.log_end \in 0..LogTop /\ db.state = hist[db.log_end].state
    BY <1>1, <1>4, SMTT(60) DEF SInv, IInv, MemoryOK, IdleOK, LogTop
  <2> QED
    BY <2>1, Zenon DEF SInv, OrderOK
<1>5. CASE pc = "header"
  <2>1. db.state = hist[disk.log_end].state /\ disk.log_end \in 0..LogTop
    BY <1>5, HeaderInHist, Zenon DEF SInv, IInv, MemoryOK, HeaderOK
  <2> QED
    BY <2>1, Zenon DEF SInv, OrderOK
<1>6. CASE stale
  <2> DEFINE j == db.log_end - 1
             st == hist[j].state
  <2>1. /\ db.log_end > 0 /\ db.state.queues = st.queues
        /\ \A m \in DOMAIN st.msgs : db.state.msgs[m] = st.msgs[m]
    BY <1>6, Zenon DEF SInv, HalfDone
  <2>2. LogTop = db.log_end
    BY <1>6, Zenon DEF SInv, IInv, MemoryOK, StaleOK, LogTop
  <2>3. j \in 0..LogTop
    BY <1>1, <2>1, <2>2, SMTT(60)
  <2>4. InOrder(st) /\ WellFormed(st)
    BY <2>3, Zenon DEF SInv, IInv, HistOK, OrderOK, Sound
  <2> HIDE DEF st
  <2>5. ASSUME NEW q \in DOMAIN st.queues
        PROVE  Ordered(db.state.msgs, st.queues[q].pending)
    <3> DEFINE s == st.queues[q].pending
    <3>1. \A i \in 1..Len(s) : s[i] \in DOMAIN st.msgs
      BY <2>4, OnList, Zenon
    <3>2. Ordered(st.msgs, s)
      BY <2>4, Zenon DEF InOrder
    <3> HIDE DEF s
    <3>3. \A i \in 1..Len(s) : db.state.msgs[s[i]].retry = 0 => st.msgs[s[i]].retry = 0
      BY <2>1, <3>1, Zenon
    <3>4. Ordered(db.state.msgs, s)
      BY <3>2, <3>3, OrderedSame, Zenon
    <3> QED
      BY <3>4, Zenon DEF s
  <2> QED
    BY <2>1, <2>5, Zenon DEF InOrder
<1> QED
  BY <1>1, <1>2, <1>3, <1>4, <1>5, <1>6, Zenon

\* Messages that were never returned are delivered in push order.
THEOREM FirstDeliveryInOrder ==
  ASSUME ~RetryAfterError
  PROVE  Spec => []FirstDeliveryFifo
<1>1. SInv => FirstDeliveryFifo
  BY MemoryInOrder, ZenonT(40) DEF InOrder, Ordered, FirstDeliveryFifo
<1> QED
  BY <1>1, ShapeInvariance, PTL

\* Between two calls no record is under way.
OpOK == pc # "header" => op = NoOp

\* Every step keeps it so: each second half of a call ends with NoOp.
LEMMA OpStep ==
  ASSUME OpOK, [Next]_vars
  PROVE  OpOK'
<1>1. \/ op' = NoOp
      \/ pc' = "header" /\ pc # "header"
      \/ UNCHANGED <<pc, op>>
      \/ pc # "header" /\ UNCHANGED op
  <2>1. CASE UNCHANGED vars \/ Open
    BY <2>1, Zenon DEF vars, engine, Open, OpenCreate, OpenCreateTorn, OpenShort,
       OpenBegin, OpenReplay, OpenRefuse, OpenDone
  <2>2. CASE Call
    BY <2>2, Zenon DEF Call, CanCall, qdb_push, qdb_pop, qdb_pop_any, do_pop,
       qdb_ack, qdb_nack, process_expired_leases, expire_one, append_ok, append_fail
  <2>3. CASE Finish
    BY <2>3, Zenon DEF Finish, FinishPush, FinishPushNoMem, FinishPop, FinishAck,
       FinishNack, FinishExpire, HeaderOk, HeaderFail
  <2>4. CASE qdb_close \/ Crash
    BY <2>4, Zenon DEF qdb_close, Crash, Release
  <2> QED
    BY <2>1, <2>2, <2>3, <2>4, Zenon DEF Next
<1> QED
  BY <1>1, ZenonT(40) DEF OpOK

\* What qdb_pop_any leases: the smallest head, and with it the oldest message
\* as far as nothing was returned.
Oldest ==
  (qdb_pop_any /\ op'.type = "LEASE") =>
    \A q \in Poppable :
      db.state.msgs[HeadOf(q)].retry = 0 =>
        \A m \in InQueue(db.state, q, "PENDING") :
          db.state.msgs[m].retry = 0 => op'.msg <= m

\* It does so in every state of the invariant.
LEMMA PopAnyStep ==
  ASSUME SInv, OpOK, ~RetryAfterError
  PROVE  Oldest
\* On a list in order, the head is not younger than any message that, like
\* itself, was never returned.
<1>HeadOldest.
    ASSUME WellFormed(db.state), InOrder(db.state), NEW q \in Poppable,
           db.state.msgs[HeadOf(q)].retry = 0,
           NEW m \in InQueue(db.state, q, "PENDING"), db.state.msgs[m].retry = 0
    PROVE  HeadOf(q) <= m
  <2> USE <1>HeadOldest
  <2> DEFINE s == db.state.queues[q].pending
  <2>1. q \in DOMAIN db.state.queues /\ s # << >> /\ HeadOf(q) = Head(s)
    BY Zenon DEF Poppable, HeadOf
  <2>2. s \in Seq(Ids) /\ m \in Range(s)
    BY <2>1, OnList, Zenon
  <2>3. Ordered(db.state.msgs, s)
    BY <2>1, Zenon DEF InOrder
  <2> HIDE DEF s
  <2>4. PICK i \in 1..Len(s) : s[i] = m
    BY <2>2, SMTT(60) DEF Range
  <2>5. 1 \in 1..Len(s) /\ Head(s) = s[1] /\ s[1] \in Ids
    BY <2>1, <2>2, SMTT(60)
  <2>6. CASE i = 1
    BY <2>1, <2>4, <2>5, <2>6, SMTT(60) DEF Ids
  <2>7. CASE i # 1
    <3>1. 1 < i
      BY <2>4, <2>7, SMTT(60)
    <3>2. s[1] < s[i]
      BY <2>1, <2>3, <2>4, <2>5, <3>1, Zenon DEF Ordered
    <3> QED
      BY <2>1, <2>2, <2>4, <2>5, <3>2, SMTT(60) DEF Ids
  <2> QED
    BY <2>6, <2>7, Zenon
<1> SUFFICES ASSUME qdb_pop_any, op'.type = "LEASE", NEW q \in Poppable,
                    db.state.msgs[HeadOf(q)].retry = 0,
                    NEW m \in InQueue(db.state, q, "PENDING"),
                    db.state.msgs[m].retry = 0
             PROVE  op'.msg <= m
  BY Zenon DEF Oldest
<1>1. Ready /\ op = NoOp
  BY Zenon DEF qdb_pop_any, CanCall, Ready, OpOK
<1>2. WellFormed(db.state)
  BY <1>1, ReadyState, Zenon DEF SInv
<1>3. PICK p \in Poppable : /\ \A x \in Poppable : HeadOf(p) <= HeadOf(x)
                            /\ do_pop(HeadOf(p))
  BY Zenon DEF qdb_pop_any
<1>4. PICK now : LET rec == LeaseRec(HeadOf(p), db.next_lease, now + Timeout)
                 IN  \/ append_ok(rec, db.next_msg, db.next_lease + 1)
                     \/ append_fail(rec)
  BY <1>3, Zenon DEF do_pop
<1>5. op' = LeaseRec(HeadOf(p), db.next_lease, now + Timeout) \/ op' = op
  BY <1>4, Zenon DEF append_ok, append_fail
<1>6. op'.msg = HeadOf(p)
  BY <1>1, <1>5, SMTT(60) DEF LeaseRec, NoOp
<1>7. HeadOf(p) <= HeadOf(q) /\ HeadOf(q) <= m
  BY <1>2, <1>3, <1>HeadOldest, MemoryInOrder, Zenon
<1>8. HeadOf(p) \in Ids /\ HeadOf(q) \in Ids
  BY <1>2, HeadPending, Zenon
<1>9. m \in Ids
  BY <1>2, Zenon DEF WellFormed, IsState, InQueue
<1> QED
  BY <1>6, <1>7, <1>8, <1>9, SMTT(60) DEF Ids

\* qdb_pop_any leases the oldest message, as far as nothing was returned.
THEOREM PopAnyTakesOldest ==
  ASSUME ~RetryAfterError
  PROVE  Spec => PopAnyOldest
<1>1. Init => OpOK
  BY Zenon DEF Init, OpOK
<1>2. OpOK /\ [Next]_vars => OpOK'
  BY OpStep, Zenon
<1>3. SInv /\ OpOK => Oldest
  BY PopAnyStep, Zenon
<1>4. PopAnyOldest <=> [][Oldest]_vars
  BY Zenon DEF PopAnyOldest, Oldest
<1> QED
  BY <1>1, <1>2, <1>3, <1>4, ShapeInvariance, PTL DEF Spec

-----------------------------------------------------------------------------
(* The refinement.                                                         *)

\* An interval from 1 has one upper end.
LEMMA SameInterval ==
  ASSUME NEW a \in Ids, NEW b \in Ids, 1..a - 1 = 1..b - 1
  PROVE  a = b
<1>1. \A i \in Int : i \in 1..a - 1 <=> i \in 1..b - 1
  BY Zenon
<1>2. ~ a < b
  <2>1. a \in Int /\ a \notin 1..a - 1 /\ (a < b => a \in 1..b - 1)
    BY DEF Ids
  <2> QED
    BY <1>1, <2>1, Zenon
<1>3. ~ b < a
  <2>1. b \in Int /\ b \notin 1..b - 1 /\ (b < a => b \in 1..a - 1)
    BY DEF Ids
  <2> QED
    BY <1>1, <2>1, Zenon
<1> QED
  BY <1>2, <1>3 DEF Ids

\* One record becomes durable: one operation of the service.
LEMMA RecordOperation ==
  SInv /\ SInv'
    => \A rec \in Record, i \in Nat :
         Applied(Durable, Durable', rec, i) /\ Shape(Durable, rec)
           => Service!ServiceNext
\* The acknowledged messages are what the service calls done.
<1>DoneIsAcked.
    ASSUME NEW st, NEW n, DOMAIN st.msgs = 1..n - 1
    PROVE  {m \in 1..n - 1 : m \in DOMAIN st.msgs => st.msgs[m].state = "ACKED"}
             = AckedOf(st)
    BY <1>DoneIsAcked, Zenon DEF AckedOf
\* A PUSH record becomes durable: the service's Push.
<1>PushOperation.
    ASSUME SInv, SInv', NEW q, NEW m,
           PushSeen(Durable.state, Durable'.state, m, q),
           DOMAIN Durable.state.msgs = 1..m - 1, m \in Ids,
           Durable'.next_lease = Durable.next_lease
    PROVE  Service!Push(q)
  <2> USE <1>PushOperation
  <2> DEFINE a == disk.next_msg
             b == disk'.next_msg
  <2>1. DOMAIN Durable.state.msgs = 1..a - 1 /\ DOMAIN Durable'.state.msgs = 1..b - 1
    BY Zenon DEF SInv, NumbersOK
  <2>2. a \in Ids /\ b \in Ids
    BY Zenon DEF SInv, IInv, TypeOK
  <2>3. a = m
    BY <2>1, <2>2, SameInterval, Zenon
  <2>4. b = m + 1
    <3>1. DOMAIN Durable'.state.msgs = 1..m - 1 \cup {m}
      BY Zenon DEF PushSeen
    <3>2. 1..b - 1 = 1..(m + 1) - 1
      <4>1. (1..m - 1) \cup {m} = 1..m /\ (m + 1) - 1 = m
        BY DEF Ids
      <4>2. 1..b - 1 = 1..m
        BY ONLY <2>1, <3>1, <4>1, Zenon
      <4> QED
        BY ONLY <4>1, <4>2, Zenon
    <3> QED
      BY <2>2, <3>2, SameInterval DEF Ids
  <2>5. (a - 1) + 1 = m /\ b - 1 = (a - 1) + 1
    BY <2>3, <2>4, SMTT(60) DEF Ids
  <2>6. {x \in 1..a - 1 : x \in DOMAIN Durable.state.msgs =>
                            Durable.state.msgs[x].state = "ACKED"}
          = AckedOf(Durable.state)
    BY <2>1, <1>DoneIsAcked, Zenon
  <2>7. {x \in 1..b - 1 : x \in DOMAIN Durable'.state.msgs =>
                            Durable'.state.msgs[x].state = "ACKED"}
          = AckedOf(Durable'.state)
    BY <2>1, <1>DoneIsAcked, Zenon
  <2> QED
    BY <2>5, <2>6, <2>7, Zenon DEF Service!Push, PushSeen, FifoOf, LeasedOf
\* A LEASE record becomes durable: the service's Pop.
<1>PopOperation.
    ASSUME SInv, SInv', NEW q, NEW m,
           PopSeen(Durable.state, Durable'.state, m, Durable.next_lease, q),
           Durable.next_lease \in Ids,
           Durable'.next_lease = Durable.next_lease + 1
    PROVE  Service!Pop(q)
  <2> USE <1>PopOperation
  <2> DEFINE a == disk.next_msg
             b == disk'.next_msg
             l == Durable.next_lease
  <2>1. DOMAIN Durable.state.msgs = 1..a - 1 /\ DOMAIN Durable'.state.msgs = 1..b - 1
    BY Zenon DEF SInv, NumbersOK
  <2>2. a \in Ids /\ b \in Ids
    BY Zenon DEF SInv, IInv, TypeOK
  <2>3. b = a
    <3>1. 1..a - 1 = 1..b - 1
      BY <2>1, Zenon DEF PopSeen
    <3> QED
      BY <2>2, <3>1, SameInterval, Zenon
  <2>4. (l - 1) + 1 = l /\ (l + 1) - 1 = l
    BY DEF Ids
  <2>5. {x \in 1..a - 1 : x \in DOMAIN Durable.state.msgs =>
                            Durable.state.msgs[x].state = "ACKED"}
          = AckedOf(Durable.state)
    BY <2>1, <1>DoneIsAcked, Zenon
  <2>6. {x \in 1..b - 1 : x \in DOMAIN Durable'.state.msgs =>
                            Durable'.state.msgs[x].state = "ACKED"}
          = AckedOf(Durable'.state)
    BY <2>1, <1>DoneIsAcked, Zenon
  <2>7. /\ FifoOf(Durable.state)[q] # << >>
        /\ FifoOf(Durable'.state) = [FifoOf(Durable.state) EXCEPT ![q] = Tail(@)]
        /\ LeasedOf(Durable'.state) =
             [k \in DOMAIN LeasedOf(Durable.state) \cup {(l - 1) + 1} |->
                IF k = (l - 1) + 1
                  THEN [msg |-> Head(FifoOf(Durable.state)[q]), queue |-> q]
                  ELSE LeasedOf(Durable.state)[k]]
        /\ AckedOf(Durable'.state) = AckedOf(Durable.state)
    BY <2>4 DEF PopSeen
  <2>8. b - 1 = a - 1 /\ Durable'.next_lease - 1 = (l - 1) + 1
    BY <2>3, <2>4, Zenon
  <2> HIDE DEF a, b, l
  <2> QED
    BY ONLY <2>5, <2>6, <2>7, <2>8, Zenon DEF Service!Pop, FifoOf, LeasedOf, a, b, l
\* An ACK record becomes durable: the service's Ack.
<1>AckOperation.
    ASSUME SInv, SInv', NEW l, NEW m,
           AckSeen(Durable.state, Durable'.state, m, l),
           Durable'.next_lease = Durable.next_lease
    PROVE  Service!Ack(l)
  <2> USE <1>AckOperation
  <2> DEFINE a == disk.next_msg
             b == disk'.next_msg
  <2>1. DOMAIN Durable.state.msgs = 1..a - 1 /\ DOMAIN Durable'.state.msgs = 1..b - 1
    BY Zenon DEF SInv, NumbersOK
  <2>2. a \in Ids /\ b \in Ids
    BY Zenon DEF SInv, IInv, TypeOK
  <2>3. b = a
    <3>1. 1..a - 1 = 1..b - 1
      BY <2>1, Zenon DEF AckSeen, EndSeen
    <3> QED
      BY <2>2, <3>1, SameInterval, Zenon
  <2>4. {x \in 1..a - 1 : x \in DOMAIN Durable.state.msgs =>
                            Durable.state.msgs[x].state = "ACKED"}
          = AckedOf(Durable.state)
    BY <2>1, <1>DoneIsAcked, Zenon
  <2>5. {x \in 1..b - 1 : x \in DOMAIN Durable'.state.msgs =>
                            Durable'.state.msgs[x].state = "ACKED"}
          = AckedOf(Durable'.state)
    BY <2>1, <1>DoneIsAcked, Zenon
  <2> QED
    BY <2>3, <2>4, <2>5, Zenon
       DEF Service!Ack, Service!EndLease, AckSeen, EndSeen, FifoOf, LeasedOf
\* A NACK or EXPIRE record becomes durable: the service's Return.
<1>ReturnOperation.
    ASSUME SInv, SInv', NEW l, NEW m,
           ReturnSeen(Durable.state, Durable'.state, m, l),
           Durable'.next_lease = Durable.next_lease
    PROVE  Service!Return(l)
  <2> USE <1>ReturnOperation
  <2> DEFINE a == disk.next_msg
             b == disk'.next_msg
  <2>1. DOMAIN Durable.state.msgs = 1..a - 1 /\ DOMAIN Durable'.state.msgs = 1..b - 1
    BY Zenon DEF SInv, NumbersOK
  <2>2. a \in Ids /\ b \in Ids
    BY Zenon DEF SInv, IInv, TypeOK
  <2>3. b = a
    <3>1. 1..a - 1 = 1..b - 1
      BY <2>1, Zenon DEF ReturnSeen, EndSeen
    <3> QED
      BY <2>2, <3>1, SameInterval, Zenon
  <2>4. {x \in 1..a - 1 : x \in DOMAIN Durable.state.msgs =>
                            Durable.state.msgs[x].state = "ACKED"}
          = AckedOf(Durable.state)
    BY <2>1, <1>DoneIsAcked, Zenon
  <2>5. {x \in 1..b - 1 : x \in DOMAIN Durable'.state.msgs =>
                            Durable'.state.msgs[x].state = "ACKED"}
          = AckedOf(Durable'.state)
    BY <2>1, <1>DoneIsAcked, Zenon
  <2> QED
    BY <2>3, <2>4, <2>5, Zenon
       DEF Service!Return, Service!EndLease, ReturnSeen, EndSeen, FifoOf, LeasedOf
<1> SUFFICES ASSUME SInv, SInv', NEW rec \in Record, NEW i \in Nat,
                    Applied(Durable, Durable', rec, i), Shape(Durable, rec)
             PROVE  Service!ServiceNext
  BY Zenon
<1> DEFINE st == Durable.state
           n == Durable'.state
<1>1. WellFormed(st) /\ Durable.next_lease \in Ids
  BY DurableSound, Zenon DEF SInv, Sound
<1>2. /\ replay_check(st, rec) /\ n = replay_step(st, rec, i)
      /\ Durable'.next_lease = replay_next_lease(Durable.next_lease, rec)
  BY AppliedParts, Zenon DEF Applied
<1> HIDE DEF st, n
<1>3. CASE rec.type = "PUSH"
  <2>1. n = replay_push(st, rec, i)
    BY <1>2, <1>3, Zenon DEF replay_step
  <2>2. PushSeen(st, n, rec.msg, rec.queue)
    BY <1>1, <1>2, <1>3, <2>1, PushView, Zenon
  <2>3. Durable'.next_lease = Durable.next_lease
    BY <1>1, <1>2, <1>3, NextLease, Zenon
  <2>4. DOMAIN Durable.state.msgs = 1..rec.msg - 1 /\ rec.msg \in Ids
    BY <1>3, Zenon DEF Shape, Record
  <2>5. Service!Push(rec.queue)
    BY <2>2, <2>3, <2>4, <1>PushOperation, Zenon DEF st, n
  <2> QED
    BY <2>2, <2>5, Zenon DEF Service!ServiceNext, PushSeen
<1>4. CASE rec.type = "LEASE"
  <2>1. n = replay_lease(st, rec)
    BY <1>2, <1>4, Zenon DEF replay_step
  <2>2. /\ rec.lease = Durable.next_lease
        /\ rec.msg = Head(st.queues[st.msgs[rec.msg].queue].pending)
    BY <1>4, Zenon DEF Shape, st
  <2>3. PopSeen(st, n, rec.msg, rec.lease, st.msgs[rec.msg].queue)
    BY <1>1, <1>2, <1>4, <2>1, <2>2, LeaseView, Zenon
  <2>4. PICK q \in Queues : q = st.msgs[rec.msg].queue
    BY <2>3, Zenon DEF PopSeen
  <2>5. Durable'.next_lease = Durable.next_lease + 1
    BY <1>1, <1>2, <1>4, <2>2, NextLease, Zenon
  <2>6. PopSeen(Durable.state, Durable'.state, rec.msg, Durable.next_lease, q)
    BY <2>2, <2>3, <2>4, Zenon DEF st, n
  <2>7. Service!Pop(q)
    BY <1>1, <2>5, <2>6, <1>PopOperation, Zenon
  <2> QED
    BY <2>7, Zenon DEF Service!ServiceNext
<1>5. CASE rec.type = "ACK"
  <2>1. n = replay_ack(st, rec)
    BY <1>2, <1>5, Zenon DEF replay_step
  <2>2. AckSeen(st, n, rec.msg, rec.lease)
    BY <1>1, <1>2, <1>5, <2>1, AckView, Zenon
  <2>3. Durable'.next_lease = Durable.next_lease
    BY <1>1, <1>2, <1>5, NextLease, Zenon
  <2>4. Service!Ack(rec.lease)
    BY <2>2, <2>3, <1>AckOperation, Zenon DEF st, n
  <2>5. rec.lease \in DOMAIN LeasedOf(Durable.state)
    BY <2>2, Zenon DEF AckSeen, EndSeen, st
  <2> QED
    BY <2>4, <2>5, Zenon DEF Service!ServiceNext, LeasedOf
<1>6. CASE rec.type \in {"NACK", "EXPIRE"}
  <2>1. n = replay_nack(st, rec)
    BY <1>2, <1>6, Zenon DEF replay_step
  <2>2. ReturnSeen(st, n, rec.msg, rec.lease)
    BY <1>1, <1>2, <1>6, <2>1, NackView, Zenon
  <2>3. Durable'.next_lease = Durable.next_lease
    BY <1>1, <1>2, <1>6, NextLease, Zenon
  <2>4. Service!Return(rec.lease)
    BY <2>2, <2>3, <1>ReturnOperation, Zenon DEF st, n
  <2>5. rec.lease \in DOMAIN LeasedOf(Durable.state)
    BY <2>2, Zenon DEF ReturnSeen, EndSeen, st
  <2> QED
    BY <2>4, <2>5, Zenon DEF Service!ServiceNext, LeasedOf
<1> QED
  BY <1>3, <1>4, <1>5, <1>6, Zenon DEF Record, Shape

\* The header's log_end moves over at most one record of the history.
LEMMA HeaderOperation ==
  ASSUME SInv, SInv',
         disk'.log_end = disk.log_end
           \/ (disk'.log_end = disk.log_end + 1 /\ disk.log_end + 1 <= LogTop),
         hist'[disk'.log_end] = hist[disk'.log_end]
  PROVE  [Service!ServiceNext]_(Service!svars)
\* A step that leaves the durable state alone is no operation.
<1>NoOperation.
    ASSUME SInv, SInv', Durable' = Durable
    PROVE  UNCHANGED Service!svars
  <2> USE <1>NoOperation
  <2>1. 1..disk.next_msg - 1 = 1..disk'.next_msg - 1
    BY Zenon DEF SInv, NumbersOK
  <2>2. disk.next_msg \in Ids /\ disk'.next_msg \in Ids
    BY Zenon DEF SInv, IInv, TypeOK
  <2>3. disk.next_msg = disk'.next_msg
    BY <2>1, <2>2, SameInterval, Zenon
  <2> QED
    BY <2>3, Zenon DEF Service!svars
<1>1. CASE disk'.log_end = disk.log_end
  <2>1. Durable' = Durable
    BY <1>1, Zenon DEF Durable
  <2> QED
    BY <2>1, <1>NoOperation, Zenon
<1>2. CASE disk'.log_end = disk.log_end + 1 /\ disk.log_end + 1 <= LogTop
  <2> DEFINE k == disk.log_end
             rec == disk.log[k + 1].rec
  <2>1. k \in Nat /\ LogTop \in Nat /\ LogTop <= Len(disk.log) /\ disk.log \in Seq(Entry)
    BY Basics, Zenon DEF SInv, LogTop
  <2> HIDE DEF k
  <2>2. k + 1 \in 1..LogTop /\ (k + 1) - 1 = k /\ k + 1 \in Nat
    BY <1>2, <2>1, SMTT(60) DEF k
  <2>3. Applied(hist[k], hist[k + 1], rec, k + 1) /\ Shape(hist[k], rec)
    BY <2>2, Zenon DEF SInv, IInv, HistOK, ShapeOK
  <2>4. Durable = hist[k] /\ Durable' = hist[k + 1]
    BY <1>2, Zenon DEF Durable, k
  <2>5. disk.log[k + 1] \in Entry
    BY <2>1, <2>2
  <2>6. rec \in Record
    BY <2>5, Zenon DEF Entry
  <2> HIDE DEF rec
  <2>7. Service!ServiceNext
    BY <2>2, <2>3, <2>4, <2>6, RecordOperation, Zenon
  <2> QED
    BY <2>7, Zenon
<1> QED
  BY <1>1, <1>2, Zenon

\* Every step of the engine is an operation of the service, or none.
LEMMA StepOperation ==
  ASSUME SInv, [Next]_vars, ~RetryAfterError
  PROVE  [Service!ServiceNext]_(Service!svars)
  BY NextShaped, HeaderOperation, Zenon DEF HeaderMoves

\* The empty file is the empty service.
LEMMA InitService ==
  ASSUME Init
  PROVE  Service!ServiceInit
<1>1. Durable = replay_start /\ disk.next_msg = 1
  BY Zenon DEF Init, Durable, NoFile
<1>2. /\ DOMAIN replay_start.state.queues = {} /\ DOMAIN replay_start.state.leases = {}
      /\ replay_start.next_lease = 1
  BY Zenon DEF replay_start, state_alloc, EmptyFcn
<1>3. 1 - 1 = 0 /\ 1..1 - 1 = {}
  OBVIOUS
<1> QED
  BY <1>1, <1>2, <1>3, Zenon DEF Service!ServiceInit

\* The engine implements the queue service: read off what the file holds,
\* every step of every call, failure, crash and recovery is one atomic
\* operation of the service, or nothing.
THEOREM EngineImplementsService ==
  ASSUME ~RetryAfterError
  PROVE  Spec => ImplementsService
<1>1. Init => Service!ServiceInit
  BY InitService, Zenon
<1>2. SInv /\ [Next]_vars => [Service!ServiceNext]_(Service!svars)
  BY StepOperation, Zenon
<1> QED
  BY <1>1, <1>2, ShapeInvariance, PTL DEF Spec, ImplementsService, Service!ServiceSpec

=============================================================================






