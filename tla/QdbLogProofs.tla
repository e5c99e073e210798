----------------------------- MODULE QdbLogProofs ---------------------------
(***************************************************************************)
(* The in-memory state of QdbEngine: a record that passes the checks of    *)
(* its replay handler takes a well-formed state to a well-formed state.    *)
(*                                                                         *)
(* The file of QdbEngine: its log is append-only, the header never covers  *)
(* a record that is not complete, and every offset kept in memory is that  *)
(* of the message's own PUSH record.  This holds whatever callers do after *)
(* an error, also when they go on using the handle (RetryAfterError TRUE). *)
(***************************************************************************)
EXTENDS QdbEngine, TLAPS

-----------------------------------------------------------------------------
(* The in-memory state.                                                    *)

WellFormed(st) == IsState(st) /\ ListsExact(st) /\ LeasesExact(st)

-----------------------------------------------------------------------------
(* Sequences and tables.                                                   *)

\* Unlinking an element that occurs once removes it and keeps the others in
\* order (qdb__queue_pending_remove).
LEMMA UnlinkProperties ==
  ASSUME NEW S, NEW s \in Seq(S), NEW k \in 1..Len(s),
         \A i, j \in 1..Len(s) : s[i] = s[j] => i = j
  PROVE  /\ Unlink(s, s[k]) \in Seq(S)
         /\ Len(Unlink(s, s[k])) = Len(s) - 1
         /\ \A j \in 1..Len(s) - 1 :
              Unlink(s, s[k])[j] = IF j < k THEN s[j] ELSE s[j + 1]
<1> DEFINE i == CHOOSE j \in 1..Len(s) : s[j] = s[k]
<1>1. i \in 1..Len(s) /\ s[i] = s[k]
  BY Zenon
<1>2. i = k
  BY <1>1, Zenon
<1>3. Unlink(s, s[k]) = SubSeq(s, 1, k - 1) \o SubSeq(s, k + 1, Len(s))
  BY <1>2, Zenon DEF Unlink
<1> HIDE DEF i
<1>4. /\ SubSeq(s, 1, k - 1) \in Seq(S)
      /\ Len(SubSeq(s, 1, k - 1)) = k - 1
      /\ \A j \in 1..k - 1 : SubSeq(s, 1, k - 1)[j] = s[j]
  OBVIOUS
<1>5. /\ SubSeq(s, k + 1, Len(s)) \in Seq(S)
      /\ Len(SubSeq(s, k + 1, Len(s))) = Len(s) - k
      /\ \A j \in 1..Len(s) - k : SubSeq(s, k + 1, Len(s))[j] = s[k + j]
  OBVIOUS
<1> DEFINE a == SubSeq(s, 1, k - 1)
           b == SubSeq(s, k + 1, Len(s))
           u == Unlink(s, s[k])
<1> HIDE DEF a, b, u
<1>6. u = a \o b /\ a \in Seq(S) /\ b \in Seq(S)
  BY <1>3, <1>4, <1>5, Zenon DEF a, b, u
<1>7. Len(a) = k - 1 /\ Len(b) = Len(s) - k
  BY <1>4, <1>5, Zenon DEF a, b
<1>8. u \in Seq(S) /\ Len(u) = Len(s) - 1
  <2>1. a \o b \in Seq(S) /\ Len(a \o b) = Len(a) + Len(b)
    BY ONLY <1>6
  <2> QED
    BY <1>6, <1>7, <2>1
<1>9. ASSUME NEW j \in 1..Len(s) - 1
      PROVE  u[j] = IF j < k THEN s[j] ELSE s[j + 1]
  <2>1. CASE j < k
    <3>1. u[j] = a[j]
      BY <1>6, <1>7, <2>1
    <3> QED
      BY <3>1, <2>1, <1>4 DEF a
  <2>2. CASE ~(j < k)
    <3>1. u[j] = b[j - (k - 1)] /\ j - (k - 1) \in 1..Len(s) - k
      BY <1>6, <1>7, <2>2, SMTT(30)
    <3>2. b[j - (k - 1)] = s[k + (j - (k - 1))]
      BY <3>1, <1>5, Zenon DEF b
    <3> QED
      BY <3>1, <3>2, <2>2
  <2> QED
    BY <2>1, <2>2, Zenon
<1> QED
  BY <1>8, <1>9, Zenon DEF u

-----------------------------------------------------------------------------
(* The lease table, entry by entry.                                        *)

LeaseOk(st, l) ==
  LET m == st.leases[l].msg
  IN  /\ m \in DOMAIN st.msgs
      /\ st.msgs[m].state = "LEASED"
      /\ st.msgs[m].lease = l
      /\ st.msgs[m].expiry = st.leases[l].expiry

LeasedOk(st, m) ==
  st.msgs[m].state = "LEASED" =>
    /\ st.msgs[m].lease \in DOMAIN st.leases
    /\ st.leases[st.msgs[m].lease].msg = m

-----------------------------------------------------------------------------
(* The handlers of replay.                                                 *)

\* What ACK, NACK and EXPIRE have in common: the message is LEASED under
\* that lease, and the lease, its only one, leaves the table.
LeaseGone(st, m, l) ==
  /\ l \in DOMAIN st.leases
  /\ DOMAIN lease_remove(st.leases, l) = DOMAIN st.leases \ {l}
  /\ \A x \in DOMAIN st.leases \ {l} :
       /\ lease_remove(st.leases, l)[x] = st.leases[x]
       /\ st.leases[x].msg # m

\* A LEASED message has one entry in the lease table, which is the one that
\* replay_ack and replay_nack remove (qdb__lease_remove).
LEMMA LeaseEnds ==
  ASSUME NEW st, WellFormed(st), NEW m \in DOMAIN st.msgs,
         st.msgs[m].state = "LEASED"
  PROVE  LeaseGone(st, m, st.msgs[m].lease)
<1> DEFINE l == st.msgs[m].lease
<1>1. LeasesExact(st)
  BY Zenon DEF WellFormed
<1>2. /\ l \in DOMAIN st.leases
      /\ \A x \in DOMAIN st.leases \ {l} : st.leases[x].msg # m
  BY <1>1, Zenon DEF LeasesExact
<1> HIDE DEF l
<1>3. /\ DOMAIN lease_remove(st.leases, l) = DOMAIN st.leases \ {l}
      /\ \A x \in DOMAIN st.leases \ {l} :
           lease_remove(st.leases, l)[x] = st.leases[x]
  BY Zenon DEF lease_remove, Drop, Restrict
<1>4. LeaseGone(st, m, l)
  BY <1>2, <1>3, Zenon DEF LeaseGone
<1> QED
  BY <1>4, Zenon DEF l

\* A record that passes the checks of its handler keeps the state
\* well-formed (qdb__replay_log).
THEOREM ReplayWellFormed ==
  \A st, rec, off :
    WellFormed(st) /\ rec \in Record /\ off \in Nat /\ replay_check(st, rec)
      => WellFormed(replay_step(st, rec, off))
\* A list with a new element at its tail (qdb__queue_pending_append).
<1>AppendList.
    ASSUME NEW S, NEW s \in Seq(S), NEW m \in S, IsInjective(s), m \notin Range(s)
    PROVE  /\ Append(s, m) \in Seq(S)
           /\ IsInjective(Append(s, m))
           /\ Range(Append(s, m)) = Range(s) \cup {m}
  <2> USE <1>AppendList
  <2> DEFINE t == Append(s, m)
  <2>1. t \in Seq(S) /\ Len(t) = Len(s) + 1 /\ DOMAIN t = 1..Len(s) + 1
    OBVIOUS
  <2>2. t[Len(s) + 1] = m /\ \A i \in 1..Len(s) : t[i] = s[i]
    OBVIOUS
  <2>3. DOMAIN s = 1..Len(s) /\ Len(s) \in Nat
    OBVIOUS
  <2> HIDE DEF t
  <2>4. \A i \in 1..Len(s) : s[i] # m
    BY <2>3, Zenon DEF Range
  <2>5. IsInjective(t)
    BY <2>1, <2>2, <2>3, <2>4 DEF IsInjective
  <2>6. Range(t) \subseteq Range(s) \cup {m}
    BY <2>1, <2>2, <2>3 DEF Range
  <2>7. m \in Range(t)
    BY <2>1, <2>2, <2>3 DEF Range
  <2>8. Range(s) \subseteq Range(t)
    BY <2>1, <2>2, <2>3 DEF Range
  <2> QED
    BY <2>1, <2>5, <2>6, <2>7, <2>8, Zenon DEF t
\* A list without one of its elements (qdb__queue_pending_remove).
<1>UnlinkList.
    ASSUME NEW S, NEW s \in Seq(S), NEW m \in Range(s), IsInjective(s)
    PROVE  /\ Unlink(s, m) \in Seq(S)
           /\ IsInjective(Unlink(s, m))
           /\ Range(Unlink(s, m)) = Range(s) \ {m}
  <2> USE <1>UnlinkList
  <2> DEFINE t == Unlink(s, m)
  <2>1. DOMAIN s = 1..Len(s) /\ Len(s) \in Nat
    OBVIOUS
  <2>2. PICK k \in 1..Len(s) : m = s[k]
    BY <2>1, Zenon DEF Range
  <2>3. \A i, j \in 1..Len(s) : s[i] = s[j] => i = j
    BY <2>1, Zenon DEF IsInjective
  <2>4. /\ t \in Seq(S)
        /\ Len(t) = Len(s) - 1
        /\ \A j \in 1..Len(s) - 1 : t[j] = IF j < k THEN s[j] ELSE s[j + 1]
    BY <2>2, <2>3, UnlinkProperties, Zenon
  <2> HIDE DEF t
  <2>5. DOMAIN t = 1..Len(s) - 1
    BY <2>4
  <2>6. IsInjective(t)
    <3> SUFFICES ASSUME NEW i \in 1..Len(s) - 1, NEW j \in 1..Len(s) - 1,
                        t[i] = t[j]
                 PROVE  i = j
      BY <2>5, Zenon DEF IsInjective
    <3>1. i \in 1..Len(s) /\ i + 1 \in 1..Len(s)
      BY <2>1
    <3>2. j \in 1..Len(s) /\ j + 1 \in 1..Len(s)
      BY <2>1
    <3> QED
      BY <2>3, <2>4, <3>1, <3>2, SMTT(30)
  <2>7. ASSUME NEW j \in 1..Len(s) - 1
        PROVE  t[j] \in Range(s) \ {m}
    <3>1. j \in 1..Len(s) /\ j + 1 \in 1..Len(s)
      BY <2>1
    <3>2. CASE j < k
      BY <2>1, <2>2, <2>3, <2>4, <3>1, <3>2, SMTT(30) DEF Range
    <3>3. CASE ~(j < k)
      <4>1. t[j] = s[j + 1] /\ j + 1 # k
        BY <2>4, <3>3
      <4> QED
        BY <2>1, <2>2, <2>3, <3>1, <4>1, Zenon DEF Range
    <3> QED
      BY <3>2, <3>3, Zenon
  <2>8. ASSUME NEW x \in Range(s) \ {m}
        PROVE  x \in Range(t)
    <3>1. PICK i \in 1..Len(s) : x = s[i]
      BY <2>1, Zenon DEF Range
    <3>2. i # k
      BY <2>2, <3>1, Zenon
    <3>3. CASE i < k
      BY <2>1, <2>4, <2>5, <3>1, <3>3 DEF Range
    <3>4. CASE i > k
      <4>1. i - 1 \in 1..Len(s) - 1 /\ t[i - 1] = s[i]
        BY <2>1, <2>4, <3>4
      <4> QED
        BY <2>5, <3>1, <4>1, Zenon DEF Range
    <3> QED
      BY <3>2, <3>3, <3>4
  <2> QED
    BY <2>4, <2>5, <2>6, <2>7, <2>8, Zenon DEF Range, t
\* The entry of a message whose lease ends and which is delivered again.
<1>ReturnedEntry.
    ASSUME NEW e \in Msg
    PROVE  LET f == [e EXCEPT !.state = "PENDING", !.lease = 0,
                              !.expiry = 0, !.retry = e.retry + 1]
           IN  f \in Msg /\ f.queue = e.queue /\ f.state = "PENDING"
  <2> DEFINE r == e.retry + 1
  <2>1. r \in Nat
    BY DEF Msg
  <2> HIDE DEF r
  <2>2. LET f == [e EXCEPT !.state = "PENDING", !.lease = 0,
                           !.expiry = 0, !.retry = r]
        IN  f \in Msg /\ f.queue = e.queue /\ f.state = "PENDING"
    BY <2>1, Zenon DEF Msg
  <2> QED
    BY <2>2, Zenon DEF r
\* The entry of a queue with another list and another number of leases.
<1>ReturnedQueue.
    ASSUME NEW e \in Queue, NEW s \in Seq(Ids), NEW k \in Int
    PROVE  /\ [e EXCEPT !.leased = k, !.pending = s] \in Queue
           /\ [e EXCEPT !.leased = k, !.pending = s].pending = s
    BY Zenon DEF Queue
\* replay_ack's change of the two counters of a queue keeps its entry typed
\* and its list as it is.
<1>AckedQueue.
    ASSUME NEW e \in Queue, NEW k \in Int, NEW a \in Nat
    PROVE  /\ [e EXCEPT !.leased = k, !.acked = a] \in Queue
           /\ [e EXCEPT !.leased = k, !.acked = a].pending = e.pending
    BY Zenon DEF Queue
\* LeasesExact looks at one lease, or one message, at a time (lease_get).
<1>LeasesParts.
    ASSUME NEW st
    PROVE  LeasesExact(st) <=> /\ \A l \in DOMAIN st.leases : LeaseOk(st, l)
                               /\ \A m \in DOMAIN st.msgs : LeasedOk(st, m)
    BY Zenon DEF LeasesExact, LeaseOk, LeasedOk
\* A lease and its message that a step leaves alone (lease_insert,
\* lease_remove on another entry).
<1>LeaseFrame.
    ASSUME NEW st, NEW n, NEW l, LeaseOk(st, l),
           n.leases[l] = st.leases[l],
           st.leases[l].msg \in DOMAIN n.msgs,
           n.msgs[st.leases[l].msg] = st.msgs[st.leases[l].msg]
    PROVE  LeaseOk(n, l)
    BY <1>LeaseFrame, Zenon DEF LeaseOk
\* A message whose entry, and whose lease, a step leaves alone.
<1>LeasedFrame.
    ASSUME NEW st, NEW n, NEW m, LeasedOk(st, m),
           n.msgs[m] = st.msgs[m],
           \A l \in DOMAIN st.leases :
             st.leases[l].msg = m => l \in DOMAIN n.leases
                                     /\ n.leases[l] = st.leases[l]
    PROVE  LeasedOk(n, m)
    BY <1>LeasedFrame, Zenon DEF LeasedOk
\* Ending the lease of a message keeps the two tables in agreement.
<1>LeaseDropped.
    ASSUME NEW st, NEW n, NEW m \in DOMAIN st.msgs, NEW l, LeasesExact(st),
           st.msgs[m].state = "LEASED", st.msgs[m].lease = l,
           n.msgs[m].state # "LEASED",
           DOMAIN n.msgs = DOMAIN st.msgs,
           \A x \in DOMAIN st.msgs \ {m} : n.msgs[x] = st.msgs[x],
           DOMAIN n.leases = DOMAIN st.leases \ {l},
           \A x \in DOMAIN st.leases \ {l} :
             n.leases[x] = st.leases[x] /\ st.leases[x].msg # m
    PROVE  LeasesExact(n)
  <2> USE <1>LeaseDropped
  <2>1. /\ \A x \in DOMAIN st.leases : LeaseOk(st, x)
        /\ \A x \in DOMAIN st.msgs : LeasedOk(st, x)
    BY <1>LeasesParts, Zenon
  <2>2. ASSUME NEW x \in DOMAIN n.leases PROVE LeaseOk(n, x)
    <3>1. st.leases[x].msg \in DOMAIN st.msgs \ {m}
      BY <2>1, Zenon DEF LeaseOk
    <3> QED
      BY <2>1, <3>1, <1>LeaseFrame
  <2>3. ASSUME NEW x \in DOMAIN n.msgs PROVE LeasedOk(n, x)
    <3>1. CASE x = m
      BY <3>1, Zenon DEF LeasedOk
    <3>2. CASE x # m
      <4>1. st.leases[l].msg = m
        BY <2>1, Zenon DEF LeasedOk
      <4> QED
        BY <2>1, <3>2, <4>1, <1>LeasedFrame
    <3> QED
      BY <3>1, <3>2, Zenon
  <2> QED
    BY <2>2, <2>3, <1>LeasesParts, Zenon
\* A PUSH of a new id puts the message at the tail of its queue's list and
\* keeps the state well-formed (replay_push).
<1>PushWellFormed.
    ASSUME NEW st, WellFormed(st), NEW off \in Nat,
           NEW rec \in Record, rec.type = "PUSH", replay_check(st, rec)
    PROVE  WellFormed(replay_push(st, rec, off))
  <2> USE <1>PushWellFormed
  <2> DEFINE n == replay_push(st, rec, off)
             m == rec.msg
             q == rec.queue
             old == IF q \in DOMAIN st.queues THEN st.queues[q] ELSE NewQueue
  <2>1. m \in Ids /\ q \in Queues /\ m \notin DOMAIN st.msgs
    BY Zenon DEF Record, replay_check
  <2>2. IsState(st) /\ ListsExact(st) /\ LeasesExact(st)
    BY Zenon DEF WellFormed
  <2>3. DOMAIN n = {"msgs", "queues", "leases"} /\ n.leases = st.leases
    BY <2>2, Zenon DEF replay_push, IsState
  <2>4. /\ DOMAIN n.msgs = DOMAIN st.msgs \cup {m}
        /\ n.msgs[m] = NewMsg(q, off)
        /\ \A x \in DOMAIN st.msgs : n.msgs[x] = st.msgs[x]
    BY <2>1, <2>2, Zenon DEF replay_push, IsState, Put
  <2>5. n.queues = pending_append(queue_get_or_create(st.queues, q), q, m)
    BY <2>2, Zenon DEF replay_push, IsState
  <2>6. /\ old \in Queue
        /\ IsInjective(old.pending)
        /\ Range(old.pending) = InQueue(st, q, "PENDING")
    <3>1. CASE q \in DOMAIN st.queues
      BY <2>2, <3>1, Zenon DEF IsState, ListsExact
    <3>2. CASE q \notin DOMAIN st.queues
      <4>1. old = NewQueue
        BY <3>2, Zenon
      <4>2. InQueue(st, q, "PENDING") = {}
        BY <2>2, <3>2, Zenon DEF ListsExact, InQueue
      <4>3. NewQueue \in Queue /\ NewQueue.pending = << >>
        BY DEF NewQueue, Queue
      <4>4. IsInjective(<< >>) /\ Range(<< >>) = {}
        BY SMTT(60) DEF IsInjective, Range
      <4> QED
        BY <4>1, <4>2, <4>3, <4>4, Zenon
    <3> QED
      BY <3>1, <3>2, Zenon
  <2>7. /\ DOMAIN n.queues = DOMAIN st.queues \cup {q}
        /\ n.queues[q] = [old EXCEPT !.pending = Append(@, m)]
        /\ \A x \in DOMAIN st.queues \ {q} : n.queues[x] = st.queues[x]
    BY <2>5, Zenon DEF pending_append, queue_get_or_create, Put
  <2> HIDE DEF n, m, q, old
  <2>8. m \notin Range(old.pending)
    BY <2>1, <2>6, Zenon DEF InQueue
  <2>9. /\ Append(old.pending, m) \in Seq(Ids)
        /\ IsInjective(Append(old.pending, m))
        /\ Range(Append(old.pending, m)) = InQueue(st, q, "PENDING") \cup {m}
    BY <2>1, <2>6, <2>8, <1>AppendList DEF Queue
  <2>10. n.queues[q] \in Queue /\ n.queues[q].pending = Append(old.pending, m)
    BY <2>6, <2>7, <2>9, Zenon DEF Queue
  <2>11. NewMsg(q, off) \in Msg
    BY <2>1, Zenon DEF NewMsg, Msg
  <2>12. IsState(n)
    BY <2>1, <2>2, <2>3, <2>4, <2>7, <2>10, <2>11, Zenon DEF IsState
  <2>13. InQueue(n, q, "PENDING") = InQueue(st, q, "PENDING") \cup {m}
    BY <2>1, <2>4 DEF InQueue, NewMsg
  <2>14. \A x \in DOMAIN st.queues \ {q} :
           InQueue(n, x, "PENDING") = InQueue(st, x, "PENDING")
    BY <2>1, <2>4 DEF InQueue, NewMsg
  <2>15. \A x \in DOMAIN n.msgs : n.msgs[x].queue \in DOMAIN n.queues
    BY <2>2, <2>4, <2>7 DEF ListsExact, NewMsg
  <2>16. ListsExact(n)
    BY <2>2, <2>7, <2>9, <2>10, <2>13, <2>14, <2>15, Zenon DEF ListsExact
  <2>17. LeasesExact(n)
    <3>1. /\ \A x \in DOMAIN st.leases : LeaseOk(st, x)
          /\ \A x \in DOMAIN st.msgs : LeasedOk(st, x)
      BY <2>2, <1>LeasesParts, Zenon
    <3>2. ASSUME NEW x \in DOMAIN n.leases PROVE LeaseOk(n, x)
      <4>1. st.leases[x].msg \in DOMAIN st.msgs
        BY <2>3, <3>1, Zenon DEF LeaseOk
      <4> QED
        BY <2>1, <2>3, <2>4, <3>1, <4>1, <1>LeaseFrame, Zenon
    <3>3. ASSUME NEW x \in DOMAIN n.msgs PROVE LeasedOk(n, x)
      <4>1. CASE x = m
        BY <2>4, <4>1 DEF LeasedOk, NewMsg
      <4>2. CASE x \in DOMAIN st.msgs
        BY <2>1, <2>3, <2>4, <3>1, <4>2, <1>LeasedFrame, Zenon
      <4> QED
        BY <2>4, <4>1, <4>2, Zenon
    <3> QED
      BY <3>2, <3>3, <1>LeasesParts, Zenon
  <2> QED
    BY <2>12, <2>16, <2>17, Zenon DEF WellFormed, n
\* A LEASE of a pending message under a new lease id takes it off its list
\* and enters it in the lease table (replay_lease).
<1>LeaseWellFormed.
    ASSUME NEW st, WellFormed(st),
           NEW rec \in Record, rec.type = "LEASE", replay_check(st, rec)
    PROVE  WellFormed(replay_lease(st, rec))
  <2> USE <1>LeaseWellFormed
  <2> DEFINE n == replay_lease(st, rec)
             m == rec.msg
             l == rec.lease
             e == rec.expiry
             q == st.msgs[m].queue
             s == st.queues[q].pending
             ent == [st.msgs[m] EXCEPT !.state = "LEASED", !.lease = l,
                                       !.expiry = e]
  <2>1. /\ m \in DOMAIN st.msgs /\ st.msgs[m].state = "PENDING"
        /\ l \in Ids /\ e \in Nat /\ l \notin DOMAIN st.leases
        /\ q \in DOMAIN st.queues
    BY Zenon DEF Record, replay_check
  <2>2. IsState(st) /\ ListsExact(st) /\ LeasesExact(st)
    BY Zenon DEF WellFormed
  <2>3. st.msgs[m] \in Msg /\ st.queues[q] \in Queue
    BY <2>1, <2>2, Zenon DEF IsState
  <2>4. /\ DOMAIN n = {"msgs", "queues", "leases"}
        /\ n.msgs = [st.msgs EXCEPT ![m] = ent]
        /\ n.leases = Put(st.leases, l, [msg |-> m, expiry |-> e])
        /\ n.queues = [pending_remove(st.queues, q, m)
                         EXCEPT ![q].leased = st.queues[q].leased + 1]
    BY <2>1, <2>2, Zenon DEF replay_lease, lease_insert, IsState
  <2>5. /\ DOMAIN n.msgs = DOMAIN st.msgs
        /\ n.msgs[m] = ent
        /\ \A x \in DOMAIN st.msgs \ {m} : n.msgs[x] = st.msgs[x]
    BY <2>1, <2>4, Zenon
  <2>6. /\ ent \in Msg /\ ent.queue = q /\ ent.state = "LEASED"
        /\ ent.lease = l /\ ent.expiry = e
    BY <2>1, <2>3, Zenon DEF Msg, Ids
  <2>7. /\ DOMAIN n.leases = DOMAIN st.leases \cup {l}
        /\ n.leases[l] = [msg |-> m, expiry |-> e]
        /\ \A x \in DOMAIN st.leases : n.leases[x] = st.leases[x]
    BY <2>1, <2>4, ZenonT(40) DEF Put
  <2>8. /\ DOMAIN n.queues = DOMAIN st.queues
        /\ n.queues[q] = [st.queues[q] EXCEPT !.pending = Unlink(s, m),
                                              !.leased = st.queues[q].leased + 1]
        /\ \A x \in DOMAIN st.queues \ {q} : n.queues[x] = st.queues[x]
    BY <2>1, <2>3, <2>4, ZenonT(40) DEF pending_remove, Queue
  <2>9. s \in Seq(Ids) /\ IsInjective(s) /\ Range(s) = InQueue(st, q, "PENDING")
    BY <2>1, <2>2, <2>3, Zenon DEF ListsExact, Queue
  <2>10. m \in Range(s)
    BY <2>1, <2>9, Zenon DEF InQueue
  <2> HIDE DEF n, m, l, e, q, s, ent
  <2>11. /\ Unlink(s, m) \in Seq(Ids)
         /\ IsInjective(Unlink(s, m))
         /\ Range(Unlink(s, m)) = InQueue(st, q, "PENDING") \ {m}
    BY <2>9, <2>10, <1>UnlinkList
  <2>12. n.queues[q] \in Queue /\ n.queues[q].pending = Unlink(s, m)
    <3> DEFINE que == st.queues[q]
               k == que.leased + 1
               t == Unlink(s, m)
    <3>1. que \in Queue /\ t \in Seq(Ids)
      BY <2>3, <2>11, Zenon
    <3>2. k \in Int
      BY <3>1 DEF Queue
    <3>3. n.queues[q] = [que EXCEPT !.pending = t, !.leased = k]
      BY <2>8, Zenon
    <3> HIDE DEF que, k, t
    <3>4. n.queues[q] \in Queue /\ n.queues[q].pending = t
      BY <3>1, <3>2, <3>3, Zenon DEF Queue
    <3> QED
      BY <3>4, Zenon DEF t
  <2>13. [msg |-> m, expiry |-> e] \in Lease
    BY <2>1, <2>2, Zenon DEF Lease, IsState
  <2>14. IsState(n)
    BY <2>1, <2>2, <2>4, <2>5, <2>6, <2>7, <2>8, <2>12, <2>13 DEF IsState
  <2>15. InQueue(n, q, "PENDING") = InQueue(st, q, "PENDING") \ {m}
    BY <2>5, <2>6, Zenon DEF InQueue
  <2>16. st.msgs[m].queue = q
    BY Zenon DEF q
  <2>17. \A x \in DOMAIN st.queues \ {q} :
           InQueue(n, x, "PENDING") = InQueue(st, x, "PENDING")
    BY <2>5, <2>6, <2>16, Zenon DEF InQueue
  <2>18. \A x \in DOMAIN n.msgs : n.msgs[x].queue \in DOMAIN n.queues
    BY <2>1, <2>2, <2>5, <2>6, <2>8 DEF ListsExact
  <2>19. ListsExact(n)
    BY <2>2, <2>8, <2>11, <2>12, <2>15, <2>17, <2>18, Zenon DEF ListsExact
  <2>20. LeasesExact(n)
    <3>1. /\ \A x \in DOMAIN st.leases : LeaseOk(st, x)
          /\ \A x \in DOMAIN st.msgs : LeasedOk(st, x)
      BY <2>2, <1>LeasesParts, Zenon
    <3>2. ASSUME NEW x \in DOMAIN n.leases PROVE LeaseOk(n, x)
      <4>1. CASE x = l
        BY <2>1, <2>5, <2>6, <2>7, <4>1, SMTT(60) DEF LeaseOk
      <4>2. CASE x \in DOMAIN st.leases
        <5>1. st.leases[x].msg \in DOMAIN st.msgs \ {m}
          BY <2>1, <3>1, <4>2, Zenon DEF LeaseOk
        <5> QED
          BY <2>5, <2>7, <3>1, <4>2, <5>1, <1>LeaseFrame, Zenon
      <4> QED
        BY <2>7, <4>1, <4>2, Zenon
    <3>3. ASSUME NEW x \in DOMAIN n.msgs PROVE LeasedOk(n, x)
      <4>1. CASE x = m
        BY <2>5, <2>6, <2>7, <4>1 DEF LeasedOk
      <4>2. CASE x # m
        BY <2>5, <2>7, <3>1, <4>2, <1>LeasedFrame
      <4> QED
        BY <4>1, <4>2, Zenon
    <3> QED
      BY <3>2, <3>3, <1>LeasesParts, Zenon
  <2> QED
    BY <2>14, <2>19, <2>20, Zenon DEF WellFormed, n
\* An ACK under the current lease (replay_ack).
<1>AckWellFormed.
    ASSUME NEW st, WellFormed(st),
           NEW rec \in Record, rec.type = "ACK", replay_check(st, rec)
    PROVE  WellFormed(replay_ack(st, rec))
  <2> USE <1>AckWellFormed
  <2> DEFINE n == replay_ack(st, rec)
             m == rec.msg
             l == rec.lease
             msg == st.msgs[m]
             q == msg.queue
             que == st.queues[q]
             ent == [msg EXCEPT !.state = "ACKED", !.lease = 0, !.expiry = 0]
             cnt == [que EXCEPT !.leased = que.leased - 1,
                                !.acked = que.acked + 1]
  <2>1. /\ m \in DOMAIN st.msgs /\ q \in DOMAIN st.queues
        /\ msg.state = "LEASED" /\ msg.lease = l
    BY Zenon DEF replay_check
  <2>2. IsState(st) /\ ListsExact(st) /\ LeasesExact(st)
    BY Zenon DEF WellFormed
  <2>3. msg \in Msg
    BY <2>1, <2>2, Zenon DEF IsState
  <2>15. que \in Queue
    BY <2>1, <2>2, Zenon DEF IsState
  <2>4. /\ DOMAIN n = {"msgs", "queues", "leases"}
        /\ n.msgs = [st.msgs EXCEPT ![m] = ent]
        /\ n.leases = lease_remove(st.leases, l)
        /\ n.queues = [st.queues EXCEPT ![q] = cnt]
    BY <2>2, Zenon DEF replay_ack, IsState
  <2>5. /\ st.msgs[m] = msg /\ st.queues[q] = que /\ msg.queue = q
    BY Zenon
  <2> HIDE DEF n, m, l, msg, q, que
  <2>6. /\ l \in DOMAIN st.leases
        /\ DOMAIN lease_remove(st.leases, l) = DOMAIN st.leases \ {l}
        /\ \A x \in DOMAIN st.leases \ {l} :
             /\ lease_remove(st.leases, l)[x] = st.leases[x]
             /\ st.leases[x].msg # m
    <3>1. st.msgs[m].state = "LEASED" /\ st.msgs[m].lease = l
      BY <2>1, <2>5, Zenon
    <3>2. LeaseGone(st, m, st.msgs[m].lease)
      BY <2>1, <3>1, LeaseEnds, Zenon
    <3> QED
      BY <3>1, <3>2, Zenon DEF LeaseGone
  <2>7. ent \in Msg /\ ent.queue = q /\ ent.state = "ACKED"
    <3>1. msg.queue = q
      BY <2>5, Zenon
    <3> QED
      BY <2>3, <3>1, Zenon DEF Msg
  <2>8. cnt \in Queue /\ cnt.pending = que.pending
    <3>1. que.leased - 1 \in Int /\ que.acked + 1 \in Nat
      BY <2>15 DEF Queue
    <3> QED
      BY <2>15, <3>1, <1>AckedQueue, Zenon
  <2> HIDE DEF ent, cnt
  <2>9. /\ DOMAIN n.msgs = DOMAIN st.msgs
        /\ n.msgs[m] = ent
        /\ \A x \in DOMAIN st.msgs \ {m} : n.msgs[x] = st.msgs[x]
    BY <2>1, <2>4, Zenon
  <2>10. /\ DOMAIN n.queues = DOMAIN st.queues
         /\ n.queues[q] = cnt
         /\ \A x \in DOMAIN st.queues \ {q} : n.queues[x] = st.queues[x]
    BY <2>1, <2>4, Zenon
  <2>11. IsState(n)
    BY <2>1, <2>2, <2>4, <2>6, <2>7, <2>8, <2>9, <2>10 DEF IsState
  <2>12. \A x \in DOMAIN st.queues :
           InQueue(n, x, "PENDING") = InQueue(st, x, "PENDING")
    BY <2>1, <2>5, <2>7, <2>9, Zenon DEF InQueue
  <2>13. ListsExact(n)
    BY <2>1, <2>2, <2>5, <2>7, <2>8, <2>9, <2>10, <2>12, SMTT(60) DEF ListsExact
  <2>14. LeasesExact(n)
    <3>1. n.msgs[m].state # "LEASED" /\ st.msgs[m].state = "LEASED"
      BY <2>1, <2>5, <2>7, <2>9, Zenon
    <3>2. st.msgs[m].lease = l
      BY <2>1, <2>5, Zenon
    <3> QED
      BY <2>1, <2>2, <2>4, <2>6, <2>9, <3>1, <3>2, <1>LeaseDropped, SMTT(60)
  <2> QED
    BY <2>11, <2>13, <2>14, Zenon DEF WellFormed, n
\* A NACK or EXPIRE under the current lease puts the message at the tail of
\* its queue's list (replay_nack, replay_expire).
<1>NackWellFormed.
    ASSUME NEW st, WellFormed(st),
           NEW rec \in Record, rec.type \in {"NACK", "EXPIRE"},
           replay_check(st, rec)
    PROVE  WellFormed(replay_nack(st, rec))
  <2> USE <1>NackWellFormed
  <2> DEFINE n == replay_nack(st, rec)
             m == rec.msg
             l == rec.lease
             msg == st.msgs[m]
             q == msg.queue
             que == st.queues[q]
             s == que.pending
             ent == [msg EXCEPT !.state = "PENDING", !.lease = 0,
                                !.expiry = 0, !.retry = msg.retry + 1]
             cnt == [que EXCEPT !.leased = que.leased - 1,
                                !.pending = Append(s, m)]
  <2>1. /\ m \in DOMAIN st.msgs /\ q \in DOMAIN st.queues
        /\ msg.state = "LEASED" /\ msg.lease = l
    BY Zenon DEF replay_check
  <2>2. IsState(st) /\ ListsExact(st) /\ LeasesExact(st)
    BY Zenon DEF WellFormed
  <2>3. msg \in Msg
    BY <2>1, <2>2, Zenon DEF IsState
  <2>20. que \in Queue
    BY <2>1, <2>2, Zenon DEF IsState
  <2>21. m \in Ids
    BY <2>1, <2>2, Zenon DEF IsState
  <2>4. /\ DOMAIN n = {"msgs", "queues", "leases"}
        /\ n.msgs = [st.msgs EXCEPT ![m] = ent]
        /\ n.leases = lease_remove(st.leases, l)
        /\ n.queues = pending_append(
                        [st.queues EXCEPT ![q].leased = que.leased - 1], q, m)
    BY <2>2, Zenon DEF replay_nack, IsState
  <2>5. /\ st.msgs[m] = msg /\ st.queues[q] = que /\ msg.queue = q
        /\ que.pending = s
    BY Zenon
  <2> HIDE DEF n, m, l, msg, q, que, s
  <2>6. /\ l \in DOMAIN st.leases
        /\ DOMAIN lease_remove(st.leases, l) = DOMAIN st.leases \ {l}
        /\ \A x \in DOMAIN st.leases \ {l} :
             /\ lease_remove(st.leases, l)[x] = st.leases[x]
             /\ st.leases[x].msg # m
    <3>1. st.msgs[m].state = "LEASED" /\ st.msgs[m].lease = l
      BY <2>1, <2>5, Zenon
    <3>2. LeaseGone(st, m, st.msgs[m].lease)
      BY <2>1, <3>1, LeaseEnds, Zenon
    <3> QED
      BY <3>1, <3>2, Zenon DEF LeaseGone
  <2>7. ent \in Msg /\ ent.queue = q /\ ent.state = "PENDING"
    <3>1. msg.queue = q
      BY <2>5, Zenon
    <3> QED
      BY <2>3, <3>1, <1>ReturnedEntry, Zenon
  <2>8. s \in Seq(Ids) /\ IsInjective(s) /\ Range(s) = InQueue(st, q, "PENDING")
    BY <2>1, <2>2, <2>20, <2>5, Zenon DEF ListsExact, Queue
  <2>9. m \notin Range(s)
    BY <2>1, <2>5, <2>8, Zenon DEF InQueue
  <2>10. /\ Append(s, m) \in Seq(Ids)
         /\ IsInjective(Append(s, m))
         /\ Range(Append(s, m)) = InQueue(st, q, "PENDING") \cup {m}
    BY <2>21, <2>8, <2>9, <1>AppendList
  <2>11. cnt \in Queue /\ cnt.pending = Append(s, m)
    <3>1. que.leased - 1 \in Int
      BY <2>20 DEF Queue
    <3> QED
      BY <2>20, <2>10, <3>1, <1>ReturnedQueue, Zenon
  <2>12. /\ DOMAIN n.queues = DOMAIN st.queues
         /\ n.queues[q] = cnt
         /\ \A x \in DOMAIN st.queues \ {q} : n.queues[x] = st.queues[x]
    BY <2>1, <2>20, <2>4, <2>5, SMTT(60) DEF pending_append, Queue
  <2> HIDE DEF ent, cnt
  <2>13. /\ DOMAIN n.msgs = DOMAIN st.msgs
         /\ n.msgs[m] = ent
         /\ \A x \in DOMAIN st.msgs \ {m} : n.msgs[x] = st.msgs[x]
    BY <2>1, <2>4, Zenon
  <2>14. IsState(n)
    <3>1. /\ DOMAIN n.leases \subseteq Ids
          /\ \A x \in DOMAIN n.leases : n.leases[x] \in Lease
      BY <2>2, <2>4, <2>6, Zenon DEF IsState
    <3>2. /\ DOMAIN n.msgs \subseteq Ids
          /\ \A x \in DOMAIN n.msgs : n.msgs[x] \in Msg
      BY <2>2, <2>7, <2>13, Zenon DEF IsState
    <3>3. /\ DOMAIN n.queues \subseteq Queues
          /\ \A x \in DOMAIN n.queues : n.queues[x] \in Queue
      BY <2>2, <2>11, <2>12, Zenon DEF IsState
    <3> QED
      BY <2>4, <3>1, <3>2, <3>3, Zenon DEF IsState
  <2>15. InQueue(n, q, "PENDING") = InQueue(st, q, "PENDING") \cup {m}
    BY <2>1, <2>7, <2>13, Zenon DEF InQueue
  <2>16. \A x \in DOMAIN st.queues \ {q} :
           InQueue(n, x, "PENDING") = InQueue(st, x, "PENDING")
    BY <2>1, <2>5, <2>7, <2>13, Zenon DEF InQueue
  <2>17. \A x \in DOMAIN n.msgs : n.msgs[x].queue \in DOMAIN n.queues
    BY <2>1, <2>2, <2>7, <2>12, <2>13, Zenon DEF ListsExact
  <2>18. ListsExact(n)
    BY <2>2, <2>10, <2>11, <2>12, <2>15, <2>16, <2>17, Zenon DEF ListsExact
  <2>19. LeasesExact(n)
    <3>1. n.msgs[m].state # "LEASED" /\ st.msgs[m].state = "LEASED"
      BY <2>1, <2>5, <2>7, <2>13, Zenon
    <3>2. st.msgs[m].lease = l
      BY <2>1, <2>5, Zenon
    <3> QED
      BY <2>1, <2>2, <2>4, <2>6, <2>13, <3>1, <3>2, <1>LeaseDropped, SMTT(30)
  <2> QED
    BY <2>14, <2>18, <2>19, Zenon DEF WellFormed, n
<1> SUFFICES ASSUME NEW st, WellFormed(st), NEW rec \in Record, NEW off \in Nat,
                    replay_check(st, rec)
             PROVE  WellFormed(replay_step(st, rec, off))
  BY Zenon
<1>1. rec.type \in {"PUSH", "LEASE", "ACK", "NACK", "EXPIRE", "CHECKPOINT"}
  BY Zenon DEF Record
<1>2. CASE rec.type = "PUSH"
  BY <1>2, <1>PushWellFormed, Zenon DEF replay_step
<1>3. CASE rec.type = "LEASE"
  BY <1>3, <1>LeaseWellFormed, Zenon DEF replay_step
<1>4. CASE rec.type = "ACK"
  BY <1>4, <1>AckWellFormed, Zenon DEF replay_step
<1>5. CASE rec.type \in {"NACK", "EXPIRE"}
  BY <1>5, <1>NackWellFormed, Zenon DEF replay_step
<1>6. CASE rec.type = "CHECKPOINT"
  BY <1>6, Zenon DEF replay_step
<1> QED
  BY <1>1, <1>2, <1>3, <1>4, <1>5, <1>6, Zenon

-----------------------------------------------------------------------------
(* What a step does to the messages and leases that exist already.         *)

\* No record removes a message, moves it to another queue or to another
\* offset, or lowers its retry_count; only a PUSH adds one.
KeepsMsgs(st, rec, off, n) ==
  /\ DOMAIN st.msgs \subseteq DOMAIN n.msgs
  /\ \A m \in DOMAIN n.msgs \ DOMAIN st.msgs :
       rec.type = "PUSH" /\ m = rec.msg /\ n.msgs[m] = NewMsg(rec.queue, off)
  /\ \A m \in DOMAIN st.msgs :
       /\ n.msgs[m].queue = st.msgs[m].queue
       /\ n.msgs[m].off = st.msgs[m].off
       /\ n.msgs[m].retry >= st.msgs[m].retry

\* ACKED is final, and only an ACK leads to it.
KeepsAcked(st, rec, n) ==
  \A m \in DOMAIN st.msgs :
    /\ st.msgs[m].state = "ACKED" => n.msgs[m].state = "ACKED"
    /\ n.msgs[m].state = "ACKED" =>
         st.msgs[m].state = "ACKED" \/ (rec.type = "ACK" /\ m = rec.msg)

\* Only a LEASE adds a lease, its own.
KeepsLeases(st, rec, n) ==
  \A l \in DOMAIN n.leases :
    l \in DOMAIN st.leases \/ (rec.type = "LEASE" /\ l = rec.lease)

\* Every replay handler keeps the three (qdb__replay_log).
THEOREM ReplayEffect ==
  ASSUME NEW st, WellFormed(st), NEW rec \in Record, NEW off \in Nat,
         replay_check(st, rec)
  PROVE  LET n == replay_step(st, rec, off)
         IN  KeepsMsgs(st, rec, off, n) /\ KeepsAcked(st, rec, n)
               /\ KeepsLeases(st, rec, n)
\* A handler that replaces the entry of one message.
<1>OneEntry.
    ASSUME NEW n, NEW m \in DOMAIN st.msgs, NEW ent,
           \A x \in DOMAIN st.msgs : st.msgs[x] \in Msg,
           n.msgs = [st.msgs EXCEPT ![m] = ent],
           st.msgs[m].state # "ACKED",
           ent.queue = st.msgs[m].queue, ent.off = st.msgs[m].off,
           ent.retry >= st.msgs[m].retry,
           ent.state = "ACKED" => rec.type = "ACK" /\ m = rec.msg
    PROVE  KeepsMsgs(st, rec, off, n) /\ KeepsAcked(st, rec, n)
  <2> USE <1>OneEntry
  <2>1. /\ DOMAIN n.msgs = DOMAIN st.msgs
        /\ n.msgs[m] = ent
        /\ \A x \in DOMAIN st.msgs \ {m} : n.msgs[x] = st.msgs[x]
    BY Zenon
  <2>2. \A x \in DOMAIN st.msgs : st.msgs[x].retry >= st.msgs[x].retry
    BY DEF Msg
  <2>3. KeepsMsgs(st, rec, off, n)
    BY <2>1, <2>2, Zenon DEF KeepsMsgs
  <2>4. KeepsAcked(st, rec, n)
    BY <2>1, Zenon DEF KeepsAcked
  <2> QED
    BY <2>3, <2>4, Zenon
<1> DEFINE n == replay_step(st, rec, off)
<1>1. rec.type \in {"PUSH", "LEASE", "ACK", "NACK", "EXPIRE", "CHECKPOINT"}
  BY Zenon DEF Record
<1>2. IsState(st) /\ \A m \in DOMAIN st.msgs : st.msgs[m] \in Msg
  BY Zenon DEF WellFormed, IsState
<1>3. CASE rec.type = "PUSH"
  <2>1. n = replay_push(st, rec, off) /\ rec.msg \notin DOMAIN st.msgs
    BY <1>3, Zenon DEF replay_step, replay_check
  <2>2. n.leases = st.leases /\ n.msgs = Put(st.msgs, rec.msg, NewMsg(rec.queue, off))
    BY <2>1, <1>2, Zenon DEF replay_push, IsState
  <2> HIDE DEF n
  <2>3. /\ DOMAIN n.msgs = DOMAIN st.msgs \cup {rec.msg}
        /\ n.msgs[rec.msg] = NewMsg(rec.queue, off)
        /\ \A m \in DOMAIN st.msgs : n.msgs[m] = st.msgs[m]
    BY <2>1, <2>2, Zenon DEF Put
  <2>4. \A m \in DOMAIN st.msgs : st.msgs[m].retry >= st.msgs[m].retry
    BY <1>2 DEF Msg
  <2>5. KeepsMsgs(st, rec, off, n)
    BY <1>3, <2>3, <2>4, Zenon DEF KeepsMsgs
  <2>6. KeepsAcked(st, rec, n)
    BY <2>3, Zenon DEF KeepsAcked
  <2>7. KeepsLeases(st, rec, n)
    BY <2>2, Zenon DEF KeepsLeases
  <2> QED
    BY <2>5, <2>6, <2>7, Zenon DEF n
<1>4. CASE rec.type = "LEASE"
  <2> DEFINE m == rec.msg
             msg == st.msgs[m]
             ent == [msg EXCEPT !.state = "LEASED", !.lease = rec.lease,
                                !.expiry = rec.expiry]
  <2>1. n = replay_lease(st, rec) /\ m \in DOMAIN st.msgs /\ msg.state = "PENDING"
    BY <1>4, Zenon DEF replay_step, replay_check
  <2>2. n.msgs = [st.msgs EXCEPT ![m] = ent]
    BY <2>1, <1>2, Zenon DEF replay_lease, IsState
  <2>3. n.leases = Put(st.leases, rec.lease, [msg |-> m, expiry |-> rec.expiry])
    BY <2>1, <1>2, Zenon DEF replay_lease, lease_insert, IsState
  <2>4. msg \in Msg
    BY <1>2, <2>1, Zenon
  <2> HIDE DEF n, m, msg
  <2>5. /\ ent.queue = msg.queue /\ ent.off = msg.off
        /\ ent.retry >= msg.retry /\ ent.state = "LEASED"
    BY <2>4 DEF Msg
  <2> QED
    BY <1>2, <1>4, <2>1, <2>2, <2>3, <2>5, <1>OneEntry, ZenonT(40)
       DEF KeepsLeases, Put, n, msg
<1>5. CASE rec.type = "ACK"
  <2> DEFINE m == rec.msg
             msg == st.msgs[m]
             ent == [msg EXCEPT !.state = "ACKED", !.lease = 0, !.expiry = 0]
  <2>1. n = replay_ack(st, rec) /\ m \in DOMAIN st.msgs /\ msg.state = "LEASED"
    BY <1>5, Zenon DEF replay_step, replay_check
  <2>2. n.msgs = [st.msgs EXCEPT ![m] = ent]
    BY <2>1, <1>2, Zenon DEF replay_ack, IsState
  <2>3. n.leases = lease_remove(st.leases, rec.lease)
    BY <2>1, <1>2, Zenon DEF replay_ack, IsState
  <2>4. msg \in Msg
    BY <1>2, <2>1, Zenon
  <2> HIDE DEF n, m, msg
  <2>5. /\ ent.queue = msg.queue /\ ent.off = msg.off
        /\ ent.retry >= msg.retry /\ ent.state = "ACKED"
    BY <2>4 DEF Msg
  <2>6. KeepsLeases(st, rec, n)
    BY <2>3, Zenon DEF KeepsLeases, lease_remove, Drop, Restrict
  <2> HIDE DEF ent
  <2>7. KeepsMsgs(st, rec, off, n) /\ KeepsAcked(st, rec, n)
    BY <1>2, <1>5, <2>1, <2>2, <2>5, <1>OneEntry, Zenon DEF m, msg
  <2> QED
    BY <2>6, <2>7, Zenon DEF n
<1>6. CASE rec.type \in {"NACK", "EXPIRE"}
  <2> DEFINE m == rec.msg
             msg == st.msgs[m]
             ent == [msg EXCEPT !.state = "PENDING", !.lease = 0,
                                !.expiry = 0, !.retry = msg.retry + 1]
  <2>1. n = replay_nack(st, rec) /\ m \in DOMAIN st.msgs /\ msg.state = "LEASED"
    BY <1>6, Zenon DEF replay_step, replay_check
  <2>2. n.msgs = [st.msgs EXCEPT ![m] = ent]
    BY <2>1, <1>2, Zenon DEF replay_nack, IsState
  <2>3. n.leases = lease_remove(st.leases, rec.lease)
    BY <2>1, <1>2, Zenon DEF replay_nack, IsState
  <2>4. msg \in Msg
    BY <1>2, <2>1, Zenon
  <2> HIDE DEF n, m, msg
  <2>5. /\ ent.queue = msg.queue /\ ent.off = msg.off
        /\ ent.retry >= msg.retry /\ ent.state = "PENDING"
    BY <2>4 DEF Msg
  <2>6. KeepsLeases(st, rec, n)
    BY <2>3, Zenon DEF KeepsLeases, lease_remove, Drop, Restrict
  <2> HIDE DEF ent
  <2>7. KeepsMsgs(st, rec, off, n) /\ KeepsAcked(st, rec, n)
    BY <1>2, <1>6, <2>1, <2>2, <2>5, <1>OneEntry, Zenon DEF m, msg
  <2> QED
    BY <2>6, <2>7, Zenon DEF n
<1>7. CASE rec.type = "CHECKPOINT"
  <2>1. n = st
    BY <1>7, Zenon DEF replay_step
  <2>2. \A m \in DOMAIN st.msgs : st.msgs[m].retry >= st.msgs[m].retry
    BY <1>2 DEF Msg
  <2> QED
    BY <2>1, <2>2, Zenon DEF KeepsMsgs, KeepsAcked, KeepsLeases
<1> QED
  BY <1>1, <1>3, <1>4, <1>5, <1>6, <1>7, Zenon

-----------------------------------------------------------------------------
(* The file: the inductive invariant.                                      *)

\* The records the handle, or the header of a closed file, counts.
Covered == IF pc = "closed" THEN disk.log_end ELSE db.log_end

\* What qdb__append_record is called with.
Written(rec) ==
  /\ rec.type \in {"PUSH", "LEASE", "ACK", "NACK", "EXPIRE", "CHECKPOINT"}
  /\ rec.type = "PUSH" => rec = PushRec(rec.msg, rec.queue)

HandleOK ==
  /\ pc \in {"closed", "replay", "idle", "header", "expire"}
  /\ DOMAIN disk = {"kind", "log", "log_end", "next_msg"}
  /\ DOMAIN db = {"state", "next_msg", "next_lease", "log_end"}
  /\ disk.log_end \in Nat /\ db.log_end \in Nat /\ pos \in Nat
  /\ disk.kind # "db" => pc = "closed" /\ disk.log_end = 0
  /\ pc = "closed" => db = Closed
  /\ pc = "header" => db.log_end > 0 /\ op = disk.log[db.log_end].rec

\* Everything in front of Covered is complete.
FileOK ==
  /\ disk.log \in Seq(Range(disk.log))
  /\ disk.log_end <= Covered
  /\ Covered <= Len(disk.log)
  /\ \A i \in 1..Covered :
       /\ Written(disk.log[i].rec)
       /\ disk.log[i] = Committed(disk.log[i].rec)

\* An entry of the message table, and the record its offset names.
EntryOK(log, n, m, msg) ==
  /\ DOMAIN msg = {"queue", "state", "lease", "expiry", "retry", "off"}
  /\ msg.off \in 1..n
  /\ log[msg.off] = Committed(PushRec(m, msg.queue))

OffsetsOK(log, n, st) ==
  /\ DOMAIN st = {"msgs", "queues", "leases"}
  /\ \A m \in DOMAIN st.msgs : EntryOK(log, n, m, st.msgs[m])

FInv == HandleOK /\ FileOK /\ OffsetsOK(disk.log, db.log_end, db.state)

\* What FInv says of the numbers.
LEMMA FileNumbers ==
  FInv => /\ disk.log_end \in Nat /\ Covered \in Nat /\ Len(disk.log) \in Nat
          /\ disk.log_end <= Covered /\ Covered <= Len(disk.log)
<1> SUFFICES ASSUME FInv
             PROVE  /\ disk.log_end \in Nat /\ Covered \in Nat /\ Len(disk.log) \in Nat
                    /\ disk.log_end <= Covered /\ Covered <= Len(disk.log)
  BY Zenon
<1>1. disk.log_end \in Nat /\ db.log_end \in Nat
  BY Zenon DEF FInv, HandleOK
<1>2. /\ disk.log \in Seq(Range(disk.log))
      /\ disk.log_end <= Covered /\ Covered <= Len(disk.log)
  BY Zenon DEF FInv, FileOK
<1>3. Len(disk.log) \in Nat
  <2>1. PICK s, S : s = disk.log /\ S = Range(disk.log)
    BY Zenon
  <2>2. s \in Seq(S)
    BY <1>2, <2>1, Zenon
  <2>3. Len(s) \in Nat
    BY ONLY <2>2
  <2> QED
    BY <2>1, <2>3, Zenon
<1>4. Covered \in Nat
  BY <1>1, Zenon DEF Covered
<1> QED
  BY <1>1, <1>2, <1>3, <1>4, Zenon

-----------------------------------------------------------------------------
(* The steps.                                                              *)

\* What a step may do to the file: the header moves forward, and the records
\* it covered stay what they were.
CoveredKept ==
  /\ disk'.log_end >= disk.log_end
  /\ Len(disk'.log) >= disk.log_end
  /\ \A i \in 1..disk.log_end : disk'.log[i] = disk.log[i]

\* An empty message table.
LEMMA ClosedOffsets ==
  /\ DOMAIN Closed = {"state", "next_msg", "next_lease", "log_end"}
  /\ Closed.log_end = 0
  /\ Closed.state = state_alloc
  /\ \A log, n : OffsetsOK(log, n, state_alloc)
  BY Zenon DEF Closed, state_alloc, EmptyFcn, OffsetsOK

\* Every step preserves the invariant, and what the header covers.
LEMMA NextFile ==
  FInv /\ [Next]_vars => FInv' /\ [CoveredKept]_vars
\* A sequence is one over its own elements.
<1>OwnRange.
    ASSUME NEW S, NEW s \in Seq(S)
    PROVE  s \in Seq(Range(s))
  <2>1. Len(s) \in Nat /\ s \in [1..Len(s) -> S]
    OBVIOUS
  <2>2. s \in [1..Len(s) -> Range(s)]
    BY <2>1, Zenon DEF Range
  <2> QED
    BY <2>1, <2>2
\* Cutting the log at n, and writing one record there.
<1>Cut.
    ASSUME NEW S, NEW s \in Seq(S), NEW n \in Nat, n <= Len(s)
    PROVE  /\ SubSeq(s, 1, n) \in Seq(S)
           /\ Len(SubSeq(s, 1, n)) = n
           /\ \A i \in 1..n : SubSeq(s, 1, n)[i] = s[i]
    BY <1>Cut
\* The record written there is the last one.
<1>CutAppend.
    ASSUME NEW S, NEW s \in Seq(S), NEW n \in Nat, n <= Len(s), NEW e
    PROVE  LET new == Append(SubSeq(s, 1, n), e)
           IN  /\ new \in Seq(Range(new))
               /\ Len(new) = n + 1
               /\ new[n + 1] = e
               /\ \A i \in 1..n : new[i] = s[i]
  <2> USE <1>CutAppend
  <2> DEFINE T == S \cup {e}
             t == SubSeq(s, 1, n)
             new == Append(t, e)
  <2>1. t \in Seq(S) /\ Len(t) = n /\ \A i \in 1..n : t[i] = s[i]
    BY <1>Cut, Zenon
  <2> HIDE DEF t
  <2>2. t \in Seq(T) /\ e \in T
    BY <2>1
  <2> HIDE DEF T
  <2>3. new \in Seq(T) /\ Len(new) = n + 1 /\ new[n + 1] = e
        /\ \A i \in 1..n : new[i] = t[i]
    BY <2>1, <2>2
  <2> HIDE DEF new
  <2>4. new \in Seq(Range(new))
    BY <2>3, <1>OwnRange, Zenon
  <2> QED
    BY <2>1, <2>3, <2>4, Zenon DEF new, t
\* A longer log with the same records in front keeps them.
<1>OffsetsFrame.
    ASSUME NEW log, NEW n \in Nat, NEW st, OffsetsOK(log, n, st),
           NEW new, NEW k \in Nat, n <= k, \A i \in 1..n : new[i] = log[i]
    PROVE  OffsetsOK(new, k, st)
  <2> USE <1>OffsetsFrame
  <2>1. ASSUME NEW m \in DOMAIN st.msgs
        PROVE  EntryOK(new, k, m, st.msgs[m])
    <3>1. EntryOK(log, n, m, st.msgs[m])
      BY Zenon DEF OffsetsOK
    <3>2. st.msgs[m].off \in 1..n
      BY <3>1, Zenon DEF EntryOK
    <3>3. st.msgs[m].off \in 1..k
      BY <3>2
    <3> QED
      BY <3>1, <3>2, <3>3, Zenon DEF EntryOK
  <2> QED
    BY <2>1, Zenon DEF OffsetsOK
\* An operation that changes other fields of one message.
<1>OffsetsSame.
    ASSUME NEW log, NEW n, NEW st, OffsetsOK(log, n, st), NEW m, NEW y, NEW new,
           DOMAIN new = DOMAIN st, new.msgs = [st.msgs EXCEPT ![m] = y],
           m \in DOMAIN st.msgs =>
             /\ DOMAIN y = DOMAIN st.msgs[m]
             /\ y.off = st.msgs[m].off
             /\ y.queue = st.msgs[m].queue
    PROVE  OffsetsOK(log, n, new)
    BY <1>OffsetsSame DEF OffsetsOK, EntryOK
\* The calls, and the handlers of replay other than replay_push, keep the
\* PUSH record of every message.
<1>OffsetsKept.
    ASSUME NEW log, NEW n, NEW st, OffsetsOK(log, n, st)
    PROVE  /\ \A m, l, e : OffsetsOK(log, n, pop_apply(st, m, l, e))
           /\ \A m, l : OffsetsOK(log, n, ack_apply(st, m, l))
           /\ \A m, l : OffsetsOK(log, n, nack_apply(st, m, l))
           /\ \A rec : OffsetsOK(log, n, replay_lease(st, rec))
           /\ \A rec : OffsetsOK(log, n, replay_ack(st, rec))
           /\ \A rec : OffsetsOK(log, n, replay_nack(st, rec))
  <2> USE <1>OffsetsKept
  <2>1. /\ DOMAIN st = {"msgs", "queues", "leases"}
        /\ \A m \in DOMAIN st.msgs :
             DOMAIN st.msgs[m] = {"queue", "state", "lease", "expiry", "retry", "off"}
    BY Zenon DEF OffsetsOK, EntryOK
  <2>2. ASSUME NEW m, NEW l, NEW e PROVE OffsetsOK(log, n, pop_apply(st, m, l, e))
    <3> DEFINE new == pop_apply(st, m, l, e)
               y == [st.msgs[m] EXCEPT !.state = "LEASED",
                                    !.lease = l, !.expiry = e]
    <3>1. DOMAIN new = DOMAIN st /\ new.msgs = [st.msgs EXCEPT ![m] = y]
      BY <2>1, Zenon DEF pop_apply
    <3>2. m \in DOMAIN st.msgs =>
            /\ DOMAIN y = DOMAIN st.msgs[m]
            /\ y.off = st.msgs[m].off /\ y.queue = st.msgs[m].queue
      BY <2>1, Zenon
    <3> HIDE DEF new, y
    <3>3. OffsetsOK(log, n, new)
      BY <3>1, <3>2, <1>OffsetsSame, Zenon
    <3> QED
      BY <3>3, Zenon DEF new
  <2>3. ASSUME NEW m, NEW l PROVE OffsetsOK(log, n, ack_apply(st, m, l))
    <3> DEFINE new == ack_apply(st, m, l)
               y == [st.msgs[m] EXCEPT !.state = "ACKED",
                                    !.lease = 0, !.expiry = 0]
    <3>1. DOMAIN new = DOMAIN st /\ new.msgs = [st.msgs EXCEPT ![m] = y]
      BY <2>1, Zenon DEF ack_apply
    <3>2. m \in DOMAIN st.msgs =>
            /\ DOMAIN y = DOMAIN st.msgs[m]
            /\ y.off = st.msgs[m].off /\ y.queue = st.msgs[m].queue
      BY <2>1, Zenon
    <3> HIDE DEF new, y
    <3>3. OffsetsOK(log, n, new)
      BY <3>1, <3>2, <1>OffsetsSame, Zenon
    <3> QED
      BY <3>3, Zenon DEF new
  <2>4. ASSUME NEW m, NEW l PROVE OffsetsOK(log, n, nack_apply(st, m, l))
    <3> DEFINE new == nack_apply(st, m, l)
               y == [st.msgs[m] EXCEPT !.state = "PENDING", !.lease = 0,
                                    !.expiry = 0, !.retry = st.msgs[m].retry + 1]
    <3>1. DOMAIN new = DOMAIN st /\ new.msgs = [st.msgs EXCEPT ![m] = y]
      BY <2>1, Zenon DEF nack_apply
    <3>2. m \in DOMAIN st.msgs =>
            /\ DOMAIN y = DOMAIN st.msgs[m]
            /\ y.off = st.msgs[m].off /\ y.queue = st.msgs[m].queue
      BY <2>1, Zenon
    <3> HIDE DEF new, y
    <3>3. OffsetsOK(log, n, new)
      BY <3>1, <3>2, <1>OffsetsSame, Zenon
    <3> QED
      BY <3>3, Zenon DEF new
  <2>5. ASSUME NEW rec PROVE OffsetsOK(log, n, replay_lease(st, rec))
    <3> DEFINE new == replay_lease(st, rec)
               y == [st.msgs[rec.msg] EXCEPT !.state = "LEASED",
                                    !.lease = rec.lease, !.expiry = rec.expiry]
    <3>1. DOMAIN new = DOMAIN st /\ new.msgs = [st.msgs EXCEPT ![rec.msg] = y]
      BY <2>1, Zenon DEF replay_lease
    <3>2. rec.msg \in DOMAIN st.msgs =>
            /\ DOMAIN y = DOMAIN st.msgs[rec.msg]
            /\ y.off = st.msgs[rec.msg].off /\ y.queue = st.msgs[rec.msg].queue
      BY <2>1, Zenon
    <3> HIDE DEF new, y
    <3>3. OffsetsOK(log, n, new)
      BY <3>1, <3>2, <1>OffsetsSame, Zenon
    <3> QED
      BY <3>3, Zenon DEF new
  <2>6. ASSUME NEW rec PROVE OffsetsOK(log, n, replay_ack(st, rec))
    <3> DEFINE new == replay_ack(st, rec)
               y == [st.msgs[rec.msg] EXCEPT !.state = "ACKED",
                                    !.lease = 0, !.expiry = 0]
    <3>1. DOMAIN new = DOMAIN st /\ new.msgs = [st.msgs EXCEPT ![rec.msg] = y]
      BY <2>1, Zenon DEF replay_ack
    <3>2. rec.msg \in DOMAIN st.msgs =>
            /\ DOMAIN y = DOMAIN st.msgs[rec.msg]
            /\ y.off = st.msgs[rec.msg].off /\ y.queue = st.msgs[rec.msg].queue
      BY <2>1, Zenon
    <3> HIDE DEF new, y
    <3>3. OffsetsOK(log, n, new)
      BY <3>1, <3>2, <1>OffsetsSame, Zenon
    <3> QED
      BY <3>3, Zenon DEF new
  <2>7. ASSUME NEW rec PROVE OffsetsOK(log, n, replay_nack(st, rec))
    <3> DEFINE new == replay_nack(st, rec)
               y == [st.msgs[rec.msg] EXCEPT !.state = "PENDING", !.lease = 0,
                                    !.expiry = 0, !.retry = st.msgs[rec.msg].retry + 1]
    <3>1. DOMAIN new = DOMAIN st /\ new.msgs = [st.msgs EXCEPT ![rec.msg] = y]
      BY <2>1, Zenon DEF replay_nack
    <3>2. rec.msg \in DOMAIN st.msgs =>
            /\ DOMAIN y = DOMAIN st.msgs[rec.msg]
            /\ y.off = st.msgs[rec.msg].off /\ y.queue = st.msgs[rec.msg].queue
      BY <2>1, Zenon
    <3> HIDE DEF new, y
    <3>3. OffsetsOK(log, n, new)
      BY <3>1, <3>2, <1>OffsetsSame, Zenon
    <3> QED
      BY <3>3, Zenon DEF new
  <2> QED
    BY <2>2, <2>3, <2>4, <2>5, <2>6, <2>7, Zenon
\* A new message, with the offset of its PUSH record.
<1>OffsetsPush.
    ASSUME NEW log, NEW n, NEW st, OffsetsOK(log, n, st), NEW m, NEW q,
           NEW off \in 1..n, log[off] = Committed(PushRec(m, q)), NEW new,
           DOMAIN new = DOMAIN st, new.msgs = Put(st.msgs, m, NewMsg(q, off))
    PROVE  OffsetsOK(log, n, new)
  <2> USE <1>OffsetsPush
  <2>1. EntryOK(log, n, m, NewMsg(q, off))
    BY Zenon DEF EntryOK, NewMsg
  <2>2. \A x \in DOMAIN new.msgs : EntryOK(log, n, x, new.msgs[x])
    BY <2>1, Zenon DEF OffsetsOK, Put
  <2> QED
    BY <2>2, Zenon DEF OffsetsOK
\* A write at the handle's log_end, complete or not.
<1>WriteLog.
    ASSUME FInv, pc # "closed", NEW e,
           disk' = [disk EXCEPT !.log = Append(SubSeq(@, 1, db.log_end), e)]
    PROVE  /\ CoveredKept
           /\ DOMAIN disk' = DOMAIN disk /\ disk'.kind = disk.kind
           /\ disk'.log_end = disk.log_end
           /\ disk'.log \in Seq(Range(disk'.log))
           /\ Len(disk'.log) = db.log_end + 1
           /\ disk'.log[db.log_end + 1] = e
           /\ \A i \in 1..db.log_end : disk'.log[i] = disk.log[i]
  <2> USE <1>WriteLog
  <2> DEFINE k == db.log_end
             new == Append(SubSeq(disk.log, 1, k), e)
  <2>1. /\ disk.log \in Seq(Range(disk.log)) /\ k \in Nat /\ disk.log_end \in Nat
        /\ disk.log_end <= k /\ k <= Len(disk.log)
        /\ DOMAIN disk = {"kind", "log", "log_end", "next_msg"}
    BY Zenon DEF FInv, HandleOK, FileOK, Covered
  <2>2. /\ disk'.log_end = disk.log_end /\ disk'.log = new
        /\ DOMAIN disk' = DOMAIN disk /\ disk'.kind = disk.kind
    BY <2>1, Zenon
  <2> HIDE DEF k
  <2>3. /\ new \in Seq(Range(new)) /\ Len(new) = k + 1 /\ new[k + 1] = e
        /\ \A i \in 1..k : new[i] = disk.log[i]
    BY <2>1, <1>CutAppend
  <2> HIDE DEF new
  <2>4. CoveredKept
    <3>1. /\ \A i \in 1..disk.log_end : i \in 1..k
          /\ disk.log_end >= disk.log_end /\ k + 1 >= disk.log_end
      BY <2>1
    <3> QED
      BY ONLY <2>2, <2>3, <3>1, Zenon DEF CoveredKept
  <2> QED
    BY <2>2, <2>3, <2>4, Zenon DEF k
\* The append of a call succeeds.
<1>AppendOkFile.
    ASSUME FInv, pc # "closed", NEW rec, Written(rec), NEW nm, NEW nl,
           append_ok(rec, nm, nl)
    PROVE  FInv' /\ CoveredKept
  <2> USE <1>AppendOkFile
  <2> DEFINE k == db.log_end
  <2>1. /\ disk' = [disk EXCEPT !.log = Append(SubSeq(@, 1, k), Committed(rec))]
        /\ db' = [db EXCEPT !.log_end = @ + 1, !.next_msg = nm, !.next_lease = nl]
        /\ op' = rec /\ pc' = "header" /\ pos' = pos
    BY Zenon DEF append_ok
  <2>2. /\ CoveredKept
        /\ DOMAIN disk' = DOMAIN disk /\ disk'.kind = disk.kind
        /\ disk'.log_end = disk.log_end
        /\ disk'.log \in Seq(Range(disk'.log)) /\ Len(disk'.log) = k + 1
        /\ disk'.log[k + 1] = Committed(rec)
        /\ \A i \in 1..k : disk'.log[i] = disk.log[i]
    BY <2>1, <1>WriteLog, Zenon
  <2>3. /\ DOMAIN db = {"state", "next_msg", "next_lease", "log_end"}
        /\ k \in Nat /\ disk.log_end \in Nat /\ disk.log_end <= k /\ Covered = k
        /\ disk.kind = "db"
    BY Zenon DEF FInv, HandleOK, FileOK, Covered
  <2>4. db'.log_end = k + 1 /\ db'.state = db.state /\ DOMAIN db' = DOMAIN db
    BY <2>1, <2>3, Zenon
  <2>5. Committed(rec).rec = rec
    BY Zenon DEF Committed
  <2> HIDE DEF k
  <2>6. HandleOK'
    BY <2>1, <2>2, <2>3, <2>4, <2>5 DEF FInv, HandleOK
  <2>7. FileOK'
    <3>1. Covered' = k + 1
      BY <2>1, <2>4, Zenon DEF Covered
    <3>2. ASSUME NEW i \in 1..k + 1
          PROVE  Written(disk'.log[i].rec) /\ disk'.log[i] = Committed(disk'.log[i].rec)
      <4>1. CASE i = k + 1
        BY <2>2, <2>5, <4>1, Zenon
      <4>2. CASE i # k + 1
        <5>1. i \in 1..k
          BY <2>3, <4>2
        <5> QED
          BY <2>2, <2>3, <5>1, Zenon DEF FInv, FileOK
      <4> QED
        BY <4>1, <4>2, Zenon
    <3>3. disk'.log_end <= k + 1 /\ k + 1 <= Len(disk'.log)
      BY <2>2, <2>3
    <3> QED
      BY ONLY <2>2, <3>1, <3>2, <3>3, Zenon DEF FileOK
  <2>8. OffsetsOK(disk'.log, db'.log_end, db'.state)
    <3>1. OffsetsOK(disk.log, k, db.state)
      BY Zenon DEF FInv, k
    <3> DEFINE j == k + 1
    <3>2. j \in Nat /\ k \in Nat /\ k <= j
      BY <2>3
    <3> HIDE DEF j
    <3>3. \A i \in 1..k : disk'.log[i] = disk.log[i]
      BY <2>2, Zenon
    <3>4. OffsetsOK(disk'.log, j, db.state)
      BY ONLY <3>1, <3>2, <3>3, <1>OffsetsFrame, Zenon
    <3> QED
      BY <2>4, <3>4, Zenon DEF j
  <2> QED
    BY <2>2, <2>6, <2>7, <2>8, Zenon DEF FInv
\* A step that leaves the handle between two calls, with the same records
\* in front of its log_end.
<1>FileFrame.
    ASSUME FInv, pc # "closed", pc' \in {"replay", "idle", "expire"}, pos' \in Nat,
           DOMAIN disk' = DOMAIN disk, disk'.kind = disk.kind,
           disk'.log_end \in {disk.log_end, db.log_end},
           disk'.log \in Seq(Range(disk'.log)), db.log_end <= Len(disk'.log),
           \A i \in 1..db.log_end : disk'.log[i] = disk.log[i],
           DOMAIN db' = DOMAIN db, db'.log_end = db.log_end,
           OffsetsOK(disk'.log, db.log_end, db'.state)
    PROVE  FInv'
  <2> USE <1>FileFrame
  <2> DEFINE k == db.log_end
  <2>1. /\ k \in Nat /\ disk.log_end \in Nat /\ disk.log_end <= k /\ Covered = k
        /\ disk.kind = "db"
    BY Zenon DEF FInv, HandleOK, FileOK, Covered
  <2>2. HandleOK'
    BY <2>1, Zenon DEF FInv, HandleOK
  <2>3. Covered' = k
    BY Zenon DEF Covered
  <2>4. FileOK'
    BY <2>1, <2>3 DEF FInv, FileOK
  <2> QED
    BY <2>2, <2>4, Zenon DEF FInv
\* The append fails.
<1>AppendFailFile.
    ASSUME FInv, pc # "closed", NEW rec, append_fail(rec)
    PROVE  FInv' /\ CoveredKept
  <2> USE <1>AppendFailFile
  <2> DEFINE k == db.log_end
  <2>1. pc' = "idle" /\ UNCHANGED <<db, pos>>
    BY Zenon DEF append_fail
  <2>2. /\ k \in Nat /\ disk.log_end \in Nat /\ disk.log_end <= k /\ pos \in Nat
        /\ k <= Len(disk.log) /\ disk.log \in Seq(Range(disk.log))
        /\ OffsetsOK(disk.log, k, db.state)
    BY Zenon DEF FInv, HandleOK, FileOK, Covered
  <2>3. CASE UNCHANGED disk
    BY <2>1, <2>2, <2>3, <1>FileFrame DEF CoveredKept
  <2>4. ASSUME NEW e, disk' = [disk EXCEPT !.log = Append(SubSeq(@, 1, k), e)]
        PROVE  FInv' /\ CoveredKept
    <3>1. /\ CoveredKept
          /\ DOMAIN disk' = DOMAIN disk /\ disk'.kind = disk.kind
          /\ disk'.log_end = disk.log_end
          /\ disk'.log \in Seq(Range(disk'.log)) /\ Len(disk'.log) = k + 1
          /\ \A i \in 1..k : disk'.log[i] = disk.log[i]
      BY <2>4, <1>WriteLog, Zenon
    <3>2. k <= k /\ k <= k + 1
      BY <2>2
    <3>3. OffsetsOK(disk'.log, k, db.state)
      BY <2>2, <3>1, <3>2, <1>OffsetsFrame, ZenonT(40)
    <3> QED
      BY <2>1, <2>2, <3>1, <3>2, <3>3, <1>FileFrame, Zenon
  <2> QED
    BY <2>3, <2>4, Zenon DEF append_fail
\* A header update, or none.
<1>HeaderFile.
    ASSUME FInv, pc # "closed", disk' \in {disk, header_update(disk)}
    PROVE  /\ CoveredKept
           /\ DOMAIN disk' = DOMAIN disk /\ disk'.kind = disk.kind
           /\ disk'.log = disk.log
           /\ disk'.log_end \in {disk.log_end, db.log_end}
  <2> USE <1>HeaderFile
  <2>1. /\ db.log_end \in Nat /\ disk.log_end \in Nat /\ Len(disk.log) \in Nat
        /\ disk.log_end <= db.log_end /\ db.log_end <= Len(disk.log)
        /\ DOMAIN disk = {"kind", "log", "log_end", "next_msg"}
    BY DEF FInv, HandleOK, FileOK, Covered
  <2>2. /\ DOMAIN disk' = DOMAIN disk /\ disk'.kind = disk.kind
        /\ disk'.log = disk.log
        /\ disk'.log_end \in {disk.log_end, db.log_end}
    BY <2>1, ZenonT(40) DEF header_update
  <2> QED
    BY <2>1, <2>2 DEF CoveredKept
\* A step of an open handle that writes no record.
<1>SameLog.
    ASSUME FInv, pc # "closed", pc' \in {"replay", "idle", "expire"}, pos' \in Nat,
           disk' \in {disk, header_update(disk)},
           DOMAIN db' = DOMAIN db, db'.log_end = db.log_end,
           OffsetsOK(disk.log, db.log_end, db'.state)
    PROVE  FInv' /\ CoveredKept
  <2> USE <1>SameLog
  <2>1. /\ CoveredKept
        /\ DOMAIN disk' = DOMAIN disk /\ disk'.kind = disk.kind
        /\ disk'.log = disk.log
        /\ disk'.log_end \in {disk.log_end, db.log_end}
    BY <1>HeaderFile, Zenon
  <2>2. disk.log \in Seq(Range(disk.log)) /\ db.log_end <= Len(disk.log)
    BY Zenon DEF FInv, FileOK, Covered
  <2> QED
    BY <2>1, <2>2, <1>FileFrame, Zenon
\* The second half of a call: the header is persisted, memory is changed.
<1>FinishFile.
    ASSUME FInv, Finish
    PROVE  FInv' /\ CoveredKept
  <2> USE <1>FinishFile
  <2> DEFINE k == db.log_end
  <2>1. /\ pc = "header" /\ pc' \in {"idle", "expire"} /\ pos' = pos
        /\ disk' \in {disk, header_update(disk)}
    BY Zenon DEF Finish, FinishPush, FinishPushNoMem, FinishPop, FinishAck, FinishNack,
           FinishExpire, HeaderOk, HeaderFail, Return
  <2>2. /\ DOMAIN db = {"state", "next_msg", "next_lease", "log_end"}
        /\ k \in Nat /\ k > 0 /\ op = disk.log[k].rec /\ pos \in Nat
        /\ OffsetsOK(disk.log, k, db.state)
    BY <2>1, Zenon DEF FInv, HandleOK
  <2>3. Written(op) /\ disk.log[k] = Committed(op) /\ k \in 1..k
    BY <2>1, <2>2, SMTT(60) DEF FInv, FileOK, Covered
  <2>4. DOMAIN db.state = {"msgs", "queues", "leases"}
    BY <2>2, Zenon DEF OffsetsOK
  <2> SUFFICES /\ DOMAIN db' = DOMAIN db /\ db'.log_end = k
               /\ OffsetsOK(disk.log, k, db'.state)
    BY <2>1, <2>2, <1>SameLog, Zenon
  <2>5. ASSUME NEW st, db' = [db EXCEPT !.state = st], OffsetsOK(disk.log, k, st)
        PROVE  /\ DOMAIN db' = DOMAIN db /\ db'.log_end = k
               /\ OffsetsOK(disk.log, k, db'.state)
    BY <2>2, <2>5, Zenon
  <2>6. CASE FinishPop
    BY <2>2, <2>5, <2>6, <1>OffsetsKept, Zenon DEF FinishPop
  <2>7. CASE FinishAck
    BY <2>2, <2>5, <2>7, <1>OffsetsKept, Zenon DEF FinishAck
  <2>8. CASE FinishNack \/ FinishExpire
    BY <2>2, <2>5, <2>8, <1>OffsetsKept, ZenonT(40) DEF FinishNack, FinishExpire
  <2>9. CASE UNCHANGED db
    BY <2>2, <2>9, Zenon
  <2>10. CASE op.type = "PUSH" /\ ~UNCHANGED db
    <3>1. disk.log[k] = Committed(PushRec(op.msg, op.queue))
      BY <2>3, <2>10, Zenon DEF Written
    <3>2. ASSUME NEW st, db' = [db EXCEPT !.state = st], DOMAIN st = DOMAIN db.state,
                 st.msgs = Put(db.state.msgs, op.msg, NewMsg(op.queue, k))
          PROVE  /\ DOMAIN db' = DOMAIN db /\ db'.log_end = k
                 /\ OffsetsOK(disk.log, k, db'.state)
      <4>1. OffsetsOK(disk.log, k, db.state) /\ k \in 1..k
        BY <2>2, <2>3, Zenon
      <4> HIDE DEF k
      <4>2. OffsetsOK(disk.log, k, st)
        BY ONLY <3>1, <3>2, <4>1, <1>OffsetsPush, Zenon
      <4> QED
        BY <2>5, <3>2, <4>2, Zenon
    <3>3. CASE FinishPush
      <4> DEFINE st == push_apply(db.state, op.msg, op.queue, k)
      <4>1. DOMAIN st = DOMAIN db.state
            /\ st.msgs = Put(db.state.msgs, op.msg, NewMsg(op.queue, k))
        BY <2>4, Zenon DEF push_apply
      <4>2. db' = [db EXCEPT !.state = st]
        BY <3>3, Zenon DEF FinishPush
      <4> HIDE DEF st
      <4> QED
        BY <3>2, <4>1, <4>2, Zenon
    <3>4. CASE FinishPushNoMem
      <4> DEFINE st == [db.state EXCEPT !.msgs = Put(@, op.msg, NewMsg(op.queue, k))]
      <4>1. DOMAIN st = DOMAIN db.state
            /\ st.msgs = Put(db.state.msgs, op.msg, NewMsg(op.queue, k))
        BY <2>4, Zenon
      <4>2. db' = [db EXCEPT !.state = st]
        BY <2>2, <2>10, <3>4, Zenon DEF FinishPushNoMem
      <4> HIDE DEF st
      <4> QED
        BY <3>2, <4>1, <4>2, Zenon
    <3> QED
      BY <2>6, <2>7, <2>8, <2>9, <3>3, <3>4, Zenon DEF Finish, HeaderFail
  <2> QED
    BY <2>6, <2>7, <2>8, <2>9, <2>10, Zenon
       DEF Finish, FinishPush, FinishPushNoMem, HeaderOk, HeaderFail
\* The start of a call, or a turn of the walk over the expired leases.
<1>CallFile.
    ASSUME FInv, Call
    PROVE  FInv' /\ CoveredKept
  <2> USE <1>CallFile
  <2>1. pc \in {"idle", "expire"}
    BY Zenon DEF Call, qdb_push, qdb_pop, qdb_pop_any, qdb_ack, qdb_nack,
           process_expired_leases, expire_one, CanCall
  <2>2. ASSUME NEW rec, Written(rec),
               (\E nm, nl : append_ok(rec, nm, nl)) \/ append_fail(rec)
        PROVE  FInv' /\ CoveredKept
    BY <2>1, <2>2, <1>AppendOkFile, <1>AppendFailFile, Zenon
  <2>3. /\ \A m, q : Written(PushRec(m, q))
        /\ \A m, l, e : Written(LeaseRec(m, l, e))
        /\ \A m, l : Written(AckRec(m, l)) /\ Written(NackRec(m, l))
                       /\ Written(ExpireRec(m, l))
    BY Zenon DEF Written, PushRec, LeaseRec, AckRec, NackRec, ExpireRec
  <2>4. CASE process_expired_leases
    <3>1. pc' = "expire" /\ UNCHANGED <<disk, db, pos>>
      BY <2>4, Zenon DEF process_expired_leases
    <3>2. pos \in Nat /\ OffsetsOK(disk.log, db.log_end, db.state)
      BY Zenon DEF FInv, HandleOK
    <3> QED
      BY <2>1, <3>1, <3>2, <1>SameLog, Zenon
  <2>5. ASSUME NEW q, qdb_push(q) PROVE FInv' /\ CoveredKept
    BY <2>2, <2>3, <2>5, Zenon DEF qdb_push
  <2>6. ASSUME NEW m, do_pop(m) PROVE FInv' /\ CoveredKept
    BY <2>2, <2>3, <2>6, Zenon DEF do_pop
  <2>7. ASSUME NEW m, NEW l, qdb_ack(m, l) PROVE FInv' /\ CoveredKept
    BY <2>2, <2>3, <2>7, Zenon DEF qdb_ack
  <2>8. ASSUME NEW m, NEW l, qdb_nack(m, l) PROVE FInv' /\ CoveredKept
    BY <2>2, <2>3, <2>8, Zenon DEF qdb_nack
  <2>9. ASSUME NEW l, expire_one(l) PROVE FInv' /\ CoveredKept
    BY <2>2, <2>3, <2>9, Zenon DEF expire_one
  <2> QED
    BY <2>4, <2>5, <2>6, <2>7, <2>8, <2>9, Zenon DEF Call, qdb_pop, qdb_pop_any
\* A closed file.
<1>ClosedFile.
    ASSUME FInv, pc' = "closed", db' = Closed, pos' \in Nat,
           DOMAIN disk' = DOMAIN disk, disk'.log = disk.log,
           disk'.log_end \in Nat, disk'.log_end <= Covered,
           disk'.kind # "db" => disk'.log_end = 0
    PROVE  FInv'
  <2> USE <1>ClosedFile
  <2>1. HandleOK'
    <3>1. DOMAIN disk = {"kind", "log", "log_end", "next_msg"}
      BY Zenon DEF FInv, HandleOK
    <3>2. /\ DOMAIN db' = {"state", "next_msg", "next_lease", "log_end"}
          /\ db'.log_end \in Nat
      <4>1. 0 \in Nat
        BY Zenon
      <4> QED
        BY <4>1, ClosedOffsets, Zenon
    <3> QED
      BY <3>1, <3>2, ZenonT(40) DEF HandleOK
  <2>2. Covered' = disk'.log_end
    BY Zenon DEF Covered
  <2>3. Covered \in Nat /\ Len(disk.log) \in Nat /\ Covered <= Len(disk.log)
    BY FileNumbers, Zenon
  <2>4. disk'.log_end <= disk'.log_end /\ disk'.log_end <= Len(disk.log)
        /\ \A i \in 1..disk'.log_end : i \in 1..Covered
    BY <2>3
  <2>5. FileOK'
    BY <2>2, <2>4, ZenonT(40) DEF FInv, FileOK
  <2> QED
    BY <2>1, <2>5, ClosedOffsets, Zenon DEF FInv
\* The file is created, refused as too short, or left closed.
<1>CreateFile.
    ASSUME FInv, OpenCreate \/ OpenCreateTorn \/ OpenShort
    PROVE  FInv' /\ CoveredKept
  <2> USE <1>CreateFile
  <2>1. /\ pc = "closed" /\ disk.kind # "db" /\ pos' = pos /\ pos \in Nat
        /\ db = Closed /\ disk.log_end = 0 /\ disk.log \in Seq(Range(disk.log))
        /\ DOMAIN disk = {"kind", "log", "log_end", "next_msg"}
    BY Zenon DEF FInv, HandleOK, FileOK, OpenCreate, OpenCreateTorn, OpenShort
  <2>2. Len(disk.log) \in Nat /\ Covered = 0
    BY <2>1, SMTT(60) DEF Covered
  <2>3. CASE OpenCreate
    <3>1. /\ disk' = [kind |-> "db", log |-> << >>, log_end |-> 0, next_msg |-> 1]
          /\ db' = Closed /\ pc' = "idle"
      BY <2>3, Zenon DEF OpenCreate, NoFile
    <3>2. << >> \in Seq(Range(<< >>)) /\ Len(<< >>) = 0
      BY SMTT(60)
    <3>3. CoveredKept
      BY <2>1, <3>1, <3>2, SMTT(60) DEF CoveredKept
    <3>4. HandleOK'
      BY <2>1, <3>1, ClosedOffsets, SMTT(60) DEF HandleOK
    <3>5. Covered' = 0
      BY <3>1, ClosedOffsets, Zenon DEF Covered
    <3>6. FileOK'
      BY <3>1, <3>2, <3>5 DEF FileOK
    <3> QED
      BY <3>1, <3>3, <3>4, <3>6, ClosedOffsets, Zenon DEF FInv
  <2>4. CASE OpenCreateTorn
    <3>1. /\ disk' = [disk EXCEPT !.kind = "short"]
          /\ db' = Closed /\ pc' = "closed"
      BY <2>1, <2>4, Zenon DEF OpenCreateTorn
    <3>2. /\ DOMAIN disk' = DOMAIN disk /\ disk'.log = disk.log
          /\ disk'.log_end = 0 /\ disk'.kind = "short"
      BY <2>1, <3>1, Zenon
    <3>3. CoveredKept
      BY <2>1, <2>2, <3>2, SMTT(60) DEF CoveredKept
    <3> QED
      BY <2>1, <2>2, <3>1, <3>2, <3>3, <1>ClosedFile, SMTT(60)
  <2>5. CASE OpenShort
    <3>1. UNCHANGED <<disk, pc, db>>
      BY <2>5, Zenon DEF OpenShort
    <3>2. CoveredKept
      BY <2>1, <2>2, <3>1, SMTT(60) DEF CoveredKept
    <3> QED
      BY <2>1, <2>2, <3>1, <3>2, <1>ClosedFile, SMTT(60)
  <2> QED
    BY <2>3, <2>4, <2>5, Zenon
\* The file is cut behind what its header covers, and nothing else.
<1>OpenBeginFile.
    ASSUME FInv, OpenBegin
    PROVE  FInv' /\ CoveredKept
  <2> USE <1>OpenBeginFile
  <2> DEFINE k == disk.log_end
             new == SubSeq(disk.log, 1, k)
  <2>1. /\ k \in Nat /\ Covered = k /\ k <= Len(disk.log)
        /\ disk.log \in Seq(Range(disk.log)) /\ disk.kind = "db"
        /\ DOMAIN disk = {"kind", "log", "log_end", "next_msg"}
    BY Zenon DEF OpenBegin, FInv, HandleOK, FileOK, Covered
  <2>2. \A i \in 1..k : disk.log[i].mark = TRUE
    <3>1. \A rec : Committed(rec).mark = TRUE
      BY Zenon DEF Committed
    <3> QED
      BY <2>1, <3>1, Zenon DEF FInv, FileOK
  <2>3. Valid(disk.log, k) = k
    BY <2>2, Zenon DEF Valid
  <2>4. /\ disk' = [disk EXCEPT !.log = new, !.log_end = k]
        /\ db' = [Closed EXCEPT !.next_msg = disk.next_msg, !.log_end = k]
        /\ pc' = "replay" /\ pos' = 0
    BY <2>3, Zenon DEF OpenBegin
  <2> HIDE DEF k
  <2>5. new \in Seq(Range(disk.log)) /\ Len(new) = k /\ \A i \in 1..k : new[i] = disk.log[i]
    BY <2>1, <1>Cut
  <2>6. /\ disk'.log = new /\ disk'.log_end = k /\ disk'.kind = "db"
        /\ DOMAIN disk' = DOMAIN disk
        /\ db'.log_end = k /\ db'.state = state_alloc /\ DOMAIN db' = DOMAIN Closed
    BY <2>1, <2>4, ClosedOffsets, Zenon
  <2> HIDE DEF new
  <2>7. new \in Seq(Range(new)) /\ k <= k /\ k >= k
    BY <2>1, <2>5, <1>OwnRange, SMTT(60)
  <2>8. CoveredKept
    BY <2>5, <2>6, <2>7, Zenon DEF CoveredKept, k
  <2>9. HandleOK'
    BY <2>1, <2>4, <2>6, ClosedOffsets, Zenon DEF HandleOK
  <2>10. FileOK'
    <3>1. Covered' = k
      BY <2>4, <2>6, Zenon DEF Covered
    <3> QED
      BY <2>1, <2>5, <2>6, <2>7, <3>1, ZenonT(40) DEF FInv, FileOK
  <2> QED
    BY <2>6, <2>8, <2>9, <2>10, ClosedOffsets, Zenon DEF FInv
\* One record is replayed: a PUSH record at pos + 1 is the one the new
\* message's offset names.
<1>OpenReplayFile.
    ASSUME FInv, OpenReplay
    PROVE  FInv' /\ CoveredKept
  <2> USE <1>OpenReplayFile
  <2> DEFINE k == db.log_end
             rec == disk.log[pos + 1].rec
             st == replay_step(db.state, rec, pos + 1)
  <2>1. /\ pc = "replay" /\ pc' = "replay" /\ pos < k /\ pos' = pos + 1
        /\ disk' = disk
    BY Zenon DEF OpenReplay
  <2>2. /\ DOMAIN db = {"state", "next_msg", "next_lease", "log_end"}
        /\ k \in Nat /\ pos \in Nat /\ Covered = k
        /\ OffsetsOK(disk.log, k, db.state)
    BY <2>1, Zenon DEF FInv, HandleOK, Covered
  <2>3. db'.state = st /\ db'.log_end = k /\ DOMAIN db' = DOMAIN db
    BY <2>2, Zenon DEF OpenReplay
  <2> HIDE DEF k
  <2>4. pos + 1 \in 1..k /\ pos + 1 \in Nat
    BY <2>1, <2>2, SMTT(60)
  <2>5. Written(rec) /\ disk.log[pos + 1] = Committed(rec)
    BY <2>2, <2>4, Zenon DEF FInv, FileOK
  <2> HIDE DEF rec
  <2>6. OffsetsOK(disk.log, k, st)
    <3>1. CASE rec.type = "PUSH"
      <4>1. disk.log[pos + 1] = Committed(PushRec(rec.msg, rec.queue))
        BY <2>5, <3>1, Zenon DEF Written
      <4>2. /\ DOMAIN st = DOMAIN db.state
            /\ st.msgs = Put(db.state.msgs, rec.msg, NewMsg(rec.queue, pos + 1))
        BY <2>2, <3>1, Zenon DEF replay_step, replay_push, OffsetsOK
      <4> DEFINE j == pos + 1
      <4> HIDE DEF st, j
      <4> QED
        BY <2>2, <2>4, <4>1, <4>2, <1>OffsetsPush, Zenon DEF j
    <3>2. CASE rec.type # "PUSH"
      <4>1. st \in {replay_lease(db.state, rec), replay_ack(db.state, rec),
                    replay_nack(db.state, rec), db.state}
        BY <2>5, <3>2, Zenon DEF replay_step, Written
      <4> HIDE DEF st
      <4> QED
        BY <2>2, <4>1, <1>OffsetsKept, Zenon
    <3> QED
      BY <3>1, <3>2, Zenon
  <2> HIDE DEF st
  <2> QED
    BY <2>1, <2>3, <2>4, <2>6, <1>SameLog, Zenon DEF k
\* The end of the replay, or its refusal of a record.
<1>OpenEndFile.
    ASSUME FInv, OpenDone \/ OpenRefuse
    PROVE  FInv' /\ CoveredKept
  <2> USE <1>OpenEndFile
  <2>1. /\ pc = "replay" /\ pos' = 0 /\ disk.kind = "db"
        /\ disk.log_end \in Nat /\ disk.log_end <= Covered
        /\ OffsetsOK(disk.log, db.log_end, db.state)
    BY ZenonT(40) DEF OpenDone, OpenRefuse, FInv, HandleOK, FileOK
  <2>2. CASE OpenDone
    BY <2>1, <2>2, <1>SameLog, SMTT(60) DEF OpenDone
  <2>3. CASE OpenRefuse
    <3>1. disk' = disk /\ pc' = "closed" /\ db' = Closed
      BY <2>3, ZenonT(40) DEF OpenRefuse
    <3> QED
      BY <2>1, <3>1, <1>HeaderFile, <1>ClosedFile, Zenon
  <2> QED
    BY <2>2, <2>3, Zenon
\* The handle goes away.
<1>ReleaseFile.
    ASSUME FInv, qdb_close \/ Crash
    PROVE  FInv' /\ CoveredKept
  <2> USE <1>ReleaseFile
  <2>1. /\ pc # "closed" /\ pc' = "closed" /\ db' = Closed /\ pos' = 0
        /\ disk' \in {disk, header_update(disk)}
    BY Zenon DEF qdb_close, Crash, Release
  <2>2. /\ CoveredKept
        /\ DOMAIN disk' = DOMAIN disk /\ disk'.kind = disk.kind
        /\ disk'.log = disk.log
        /\ disk'.log_end \in {disk.log_end, db.log_end}
    BY <2>1, <1>HeaderFile, Zenon
  <2>3. /\ disk.log_end \in Nat /\ db.log_end \in Nat /\ disk.kind = "db"
        /\ Covered = db.log_end /\ disk.log_end <= Covered
    BY <2>1, ZenonT(40) DEF FInv, HandleOK, FileOK, Covered
  <2>4. disk'.log_end \in Nat /\ disk'.log_end <= Covered
    BY <2>2, <2>3, SMTT(60)
  <2> QED
    BY <2>1, <2>2, <2>3, <2>4, <1>ClosedFile, Zenon
<1> SUFFICES ASSUME FInv, [Next]_vars
             PROVE  FInv' /\ [CoveredKept]_vars
  BY Zenon
<1>1. CASE UNCHANGED vars
  <2>1. UNCHANGED <<disk, pc, db, op, pos>>
    BY <1>1, Zenon DEF vars, engine
  <2>2. Covered' = Covered
    BY <2>1, Zenon DEF Covered
  <2> QED
    BY <1>1, <2>1, <2>2, ZenonT(40) DEF FInv, HandleOK, FileOK
<1>2. CASE Open
  BY <1>2, <1>CreateFile, <1>OpenBeginFile, <1>OpenReplayFile, <1>OpenEndFile, Zenon DEF Open
<1>3. CASE Call
  BY <1>3, <1>CallFile, Zenon
<1>4. CASE Finish
  BY <1>4, <1>FinishFile, Zenon
<1>5. CASE qdb_close \/ Crash
  BY <1>5, <1>ReleaseFile, Zenon
<1> QED
  BY <1>1, <1>2, <1>3, <1>4, <1>5, Zenon DEF Next

\* No file yet.
LEMMA InitFile ==
  ASSUME Init
  PROVE  FInv
<1>1. /\ pc = "closed" /\ db = Closed /\ pos = 0
      /\ disk = [kind |-> "none", log |-> << >>, log_end |-> 0, next_msg |-> 1]
  BY Zenon DEF Init, NoFile
<1>2. << >> \in Seq(Range(<< >>)) /\ Len(<< >>) = 0
  BY SMTT(60)
<1>3. HandleOK
  BY <1>1, ClosedOffsets, SMTT(60) DEF HandleOK
<1>4. Covered = 0
  BY <1>1, Zenon DEF Covered
<1>5. FileOK
  BY <1>1, <1>2, <1>4 DEF FileOK
<1> QED
  BY <1>1, <1>3, <1>5, ClosedOffsets, Zenon DEF FInv

-----------------------------------------------------------------------------
(* The theorems.                                                           *)

\* The invariant of the file holds in every reachable state.
THEOREM FileInvariance ==
  Spec => []FInv
<1>1. Init => FInv
  BY InitFile, Zenon
<1>2. FInv /\ [Next]_vars => FInv'
  BY NextFile, Zenon
<1> QED
  BY <1>1, <1>2, PTL DEF Spec

\* A crash at any point leaves every record in front of the header's log_end
\* complete: appends go before header updates in every call, also in the
\* calls on a handle that failed before.
THEOREM CommittedPrefix ==
  Spec => []HeaderBehindLog
<1>1. FInv => HeaderBehindLog
  <2> SUFFICES ASSUME FInv PROVE HeaderBehindLog
    BY Zenon
  <2>1. /\ disk.log_end \in Nat /\ Covered \in Nat /\ Len(disk.log) \in Nat
        /\ disk.log_end <= Covered /\ Covered <= Len(disk.log)
    BY FileNumbers, Zenon
  <2>2. ASSUME NEW i \in 1..disk.log_end PROVE disk.log[i].mark = TRUE
    <3>1. i \in 1..Covered
      BY <2>1, SMTT(60)
    <3>2. \A rec : Committed(rec).mark = TRUE
      BY Zenon DEF Committed
    <3> QED
      BY <3>1, <3>2, ZenonT(40) DEF FInv, FileOK
  <2>3. disk.log_end <= Len(disk.log)
    BY <2>1
  <2> QED
    BY <2>2, <2>3, Zenon DEF HeaderBehindLog
<1> QED
  BY <1>1, FileInvariance, PTL

\* The offset kept for a message is that of its own PUSH record, in front of
\* the handle's log_end: a payload is never read from anywhere else.
THEOREM PayloadsReachable ==
  Spec => []PayloadReachable
<1>1. FInv => PayloadReachable
  BY Zenon DEF FInv, OffsetsOK, EntryOK, PayloadReachable
<1> QED
  BY <1>1, FileInvariance, PTL

\* No call, failure, crash or recovery changes or removes a record that the
\* header covers.
THEOREM LogAppendOnly ==
  Spec => AppendOnly
<1>1. FInv /\ [Next]_vars => [CoveredKept]_vars
  BY NextFile, Zenon
<1>2. AppendOnly <=> [][CoveredKept]_vars
  BY Zenon DEF AppendOnly, CoveredKept
<1> QED
  BY <1>1, <1>2, FileInvariance, PTL DEF Spec

=============================================================================



