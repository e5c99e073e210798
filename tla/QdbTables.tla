----------------------------- MODULE QdbTables -----------------------------
(***************************************************************************)
(* The data structures under QdbState, pointer by pointer (qdb_state.c):   *)
(* the doubly linked PENDING list of each queue, the hash chains of the    *)
(* lease table and of the queue table, and the code that walks the lease   *)
(* table while changing it (qdb_process_expired_leases).                   *)
(*                                                                         *)
(* An action is the in-memory part of a call, after its record is durable. *)
(* A call whose append or header update fails changes nothing here; one    *)
(* that runs out of memory afterwards is LostPush.  What the lists ought   *)
(* to hold is kept in the sequences fifo and chain, which no code reads.   *)
(***************************************************************************)
EXTENDS Integers, Sequences, FiniteSets

CONSTANTS
  QueueNames,   \* the queue names
  MaxMsg,       \* bound on message ids
  MaxLease,     \* bound on lease ids
  Times,        \* readings of the clock, and expiry times
  Buckets,      \* number of lease buckets
  QueueBuckets, \* number of queue buckets
  Bucket,       \* lease_bucket: lease id -> bucket
  QueueBucket   \* queue_bucket: name -> bucket

MsgIds == 1..MaxMsg
LeaseIds == 1..MaxLease

ASSUME BoundsAssumption == MaxMsg \in Nat /\ MaxLease \in Nat /\ Times \subseteq Nat
ASSUME QueuesAssumption == QueueNames # {}
ASSUME BucketsAssumption ==
  /\ Buckets \in Nat \ {0} /\ QueueBuckets \in Nat \ {0}
  /\ Bucket \in [LeaseIds -> 1..Buckets]
  /\ QueueBucket \in [QueueNames -> 1..QueueBuckets]

VARIABLES
  state,      \* message -> "none" (not in the table), "PENDING", "LEASED", "ACKED"
  mqueue,     \* message -> its queue
  mlease,     \* message -> its lease_id, 0 for none
  next, prev, \* message -> next_pending, prev_pending
  head, tail, \* queue -> pending_head, pending_tail
  pending, leased, acked,  \* queue -> its three counters
  qchain,     \* queue bucket -> the queues of its chain, in chain order
  queue_count,
  live,       \* the allocated lease entries
  lmsg, lexp, \* lease -> msg_id, expiry_us
  lnext,      \* lease -> next_in_bucket, 0 for NULL
  bucket,     \* lease bucket -> first entry of its chain, 0 for NULL
  next_msg, next_lease,
  walk,       \* the state of qdb_process_expired_leases
  fifo,       \* queue -> what its list ought to hold, oldest first
  chain       \* lease bucket -> what its chain ought to hold, in order

lists == <<next, prev, head, tail, pending, fifo>>
msgs == <<state, mqueue, mlease>>
leases == <<live, lmsg, lexp, lnext, bucket, chain>>
vars == <<msgs, lists, leased, acked, qchain, queue_count, leases, next_msg, next_lease, walk>>

Off == [on |-> FALSE, b |-> 0, l |-> 0, now |-> 0, processed |-> 0,
        due |-> {}, kept |-> {}]

Init ==
  /\ state = [m \in MsgIds |-> "none"]
  /\ mqueue = [m \in MsgIds |-> CHOOSE q \in QueueNames : TRUE]
  /\ mlease = [m \in MsgIds |-> 0]
  /\ next = [m \in MsgIds |-> 0] /\ prev = [m \in MsgIds |-> 0]
  /\ head = [q \in QueueNames |-> 0] /\ tail = [q \in QueueNames |-> 0]
  /\ pending = [q \in QueueNames |-> 0]
  /\ leased = [q \in QueueNames |-> 0] /\ acked = [q \in QueueNames |-> 0]
  /\ qchain = [b \in 1..QueueBuckets |-> << >>] /\ queue_count = 0
  /\ live = {}
  /\ lmsg = [l \in LeaseIds |-> 0] /\ lexp = [l \in LeaseIds |-> 0]
  /\ lnext = [l \in LeaseIds |-> 0]
  /\ bucket = [b \in 1..Buckets |-> 0]
  /\ next_msg = 1 /\ next_lease = 1
  /\ walk = Off
  /\ fifo = [q \in QueueNames |-> << >>]
  /\ chain = [b \in 1..Buckets |-> << >>]

In(x, s) == \E i \in DOMAIN s : s[i] = x

IndexOf(s, x) == CHOOSE i \in DOMAIN s : s[i] = x

\* s without its i-th element.
DropAt(s, i) == SubSeq(s, 1, i - 1) \o SubSeq(s, i + 1, Len(s))

-----------------------------------------------------------------------------
(* qdb_state.c *)

\* qdb__queue_get_or_create: a new queue goes to the front of its chain.
queue_get_or_create(q) ==
  LET b == QueueBucket[q] IN
  \/ In(q, qchain[b]) /\ UNCHANGED <<qchain, queue_count>>
  \/ /\ ~In(q, qchain[b])
     /\ qchain' = [qchain EXCEPT ![b] = <<q>> \o @]
     /\ queue_count' = queue_count + 1

pending_append(q, m) ==
  LET t == tail[q] IN
  /\ prev' = [prev EXCEPT ![m] = t]
  /\ next' = [n \in MsgIds |-> IF n = m THEN 0 ELSE IF n = t THEN m ELSE next[n]]
  /\ head' = IF t = 0 THEN [head EXCEPT ![q] = m] ELSE head
  /\ tail' = [tail EXCEPT ![q] = m]
  /\ pending' = [pending EXCEPT ![q] = @ + 1]
  /\ fifo' = [fifo EXCEPT ![q] = Append(@, m)]

\* Mutant: the successor keeps pointing back at the removed message.
pending_remove_OneWay(q, m) ==
  LET p == prev[m] n == next[m] IN
  /\ next' = [x \in MsgIds |-> IF x = m THEN 0 ELSE IF x = p THEN n ELSE next[x]]
  /\ prev' = [prev EXCEPT ![m] = 0]
  /\ head' = IF p = 0 THEN [head EXCEPT ![q] = n] ELSE head
  /\ tail' = IF n = 0 THEN [tail EXCEPT ![q] = p] ELSE tail
  /\ pending' = [pending EXCEPT ![q] = @ - 1]
  /\ fifo' = [fifo EXCEPT ![q] = DropAt(@, IndexOf(@, m))]

pending_remove(q, m) ==
  LET p == prev[m] n == next[m] IN
  /\ next' = [x \in MsgIds |-> IF x = m THEN 0 ELSE IF x = p THEN n ELSE next[x]]
  /\ prev' = [x \in MsgIds |-> IF x = m THEN 0 ELSE IF x = n THEN p ELSE prev[x]]
  /\ head' = IF p = 0 THEN [head EXCEPT ![q] = n] ELSE head
  /\ tail' = IF n = 0 THEN [tail EXCEPT ![q] = p] ELSE tail
  /\ pending' = [pending EXCEPT ![q] = @ - 1]
  /\ fifo' = [fifo EXCEPT ![q] = DropAt(@, IndexOf(@, m))]

lease_insert(l, m, expiry) ==
  LET b == Bucket[l] IN
  /\ live' = live \cup {l}
  /\ lmsg' = [lmsg EXCEPT ![l] = m]
  /\ lexp' = [lexp EXCEPT ![l] = expiry]
  /\ lnext' = [lnext EXCEPT ![l] = bucket[b]]
  /\ bucket' = [bucket EXCEPT ![b] = l]
  /\ chain' = [chain EXCEPT ![b] = <<l>> \o @]

\* What a freed entry held is of no use to anybody.
Scrap(l) == lmsg' = [lmsg EXCEPT ![l] = 0] /\ lexp' = [lexp EXCEPT ![l] = 0]

\* Mutant: the bucket is made to point past the removed entry, wherever in
\* the chain that was.
lease_remove_Front(l) ==
  LET b == Bucket[l] IN
  /\ live' = live \ {l}
  /\ bucket' = [bucket EXCEPT ![b] = lnext[l]]
  /\ lnext' = [lnext EXCEPT ![l] = 0]
  /\ chain' = [chain EXCEPT ![b] = DropAt(@, IndexOf(@, l))]
  /\ Scrap(l)

\* The pointer that leads to l, the bucket's or its predecessor's, is made to
\* lead past it, and l is freed.
lease_remove(l) ==
  LET b == Bucket[l] IN
  /\ live' = live \ {l}
  /\ bucket' = IF bucket[b] = l THEN [bucket EXCEPT ![b] = lnext[l]] ELSE bucket
  /\ lnext' = [k \in LeaseIds |-> IF k = l THEN 0 ELSE IF lnext[k] = l THEN lnext[l] ELSE lnext[k]]
  /\ chain' = [chain EXCEPT ![b] = DropAt(@, IndexOf(@, l))]
  /\ Scrap(l)

-----------------------------------------------------------------------------
(* qdb_push, qdb_pop, qdb_ack, qdb_nack: the update of the tables *)

qdb_push(q) ==
  /\ ~walk.on
  /\ next_msg <= MaxMsg
  /\ next_msg' = next_msg + 1
  /\ state' = [state EXCEPT ![next_msg] = "PENDING"]
  /\ mqueue' = [mqueue EXCEPT ![next_msg] = q]
  /\ queue_get_or_create(q)
  /\ pending_append(q, next_msg)
  /\ UNCHANGED <<mlease, leased, acked, leases, next_lease, walk>>

Known(q) == In(q, qchain[QueueBucket[q]])

\* The record is durable, but there is no memory for the message (it is not
\* in the table) or for its new queue (it is in the table and on no list).
LostPush(q) ==
  /\ ~walk.on
  /\ next_msg <= MaxMsg
  /\ next_msg' = next_msg + 1
  /\ \/ UNCHANGED <<state, mqueue>>
     \/ /\ ~Known(q)
        /\ state' = [state EXCEPT ![next_msg] = "PENDING"]
        /\ mqueue' = [mqueue EXCEPT ![next_msg] = q]
  /\ UNCHANGED <<mlease, lists, leased, acked, qchain, queue_count, leases, next_lease, walk>>

do_pop(q, m, expiry) ==
  /\ ~walk.on
  /\ next_lease <= MaxLease
  /\ next_lease' = next_lease + 1
  /\ pending_remove(q, m)
  /\ state' = [state EXCEPT ![m] = "LEASED"]
  /\ mlease' = [mlease EXCEPT ![m] = next_lease]
  /\ leased' = [leased EXCEPT ![q] = @ + 1]
  /\ lease_insert(next_lease, m, expiry)
  /\ UNCHANGED <<mqueue, acked, qchain, queue_count, next_msg, walk>>

\* The head of the queue is leased.
qdb_pop(q, expiry) ==
  /\ pending[q] # 0 /\ head[q] # 0
  /\ do_pop(q, head[q], expiry)

\* While a log is replayed, a LEASE record may name any PENDING message of
\* the list: after a compaction it is the tail, not the head.
replay_lease(m, expiry) ==
  /\ state[m] = "PENDING"
  /\ In(m, fifo[mqueue[m]])
  /\ do_pop(mqueue[m], m, expiry)

\* The lease test of qdb_ack, qdb_nack and expire_one.
Leased(m, l) == state[m] = "LEASED" /\ mlease[m] = l

qdb_ack(m) ==
  /\ ~walk.on
  /\ \E l \in LeaseIds : Leased(m, l) /\ lease_remove(l)
  /\ leased' = [leased EXCEPT ![mqueue[m]] = @ - 1]
  /\ acked' = [acked EXCEPT ![mqueue[m]] = @ + 1]
  /\ state' = [state EXCEPT ![m] = "ACKED"]
  /\ mlease' = [mlease EXCEPT ![m] = 0]
  /\ UNCHANGED <<mqueue, lists, qchain, queue_count, next_msg, next_lease, walk>>

\* The message goes back to the tail of its list; nack and expiry alike.
GiveBack(m, l) ==
  /\ lease_remove(l)
  /\ state' = [state EXCEPT ![m] = "PENDING"]
  /\ mlease' = [mlease EXCEPT ![m] = 0]
  /\ leased' = [leased EXCEPT ![mqueue[m]] = @ - 1]
  /\ pending_append(mqueue[m], m)
  /\ UNCHANGED <<mqueue, acked, qchain, queue_count, next_msg, next_lease>>

qdb_nack(m) ==
  /\ ~walk.on
  /\ \E l \in LeaseIds : Leased(m, l) /\ GiveBack(m, l)
  /\ UNCHANGED walk

-----------------------------------------------------------------------------
(* qdb_process_expired_leases, one entry of a chain per step *)

Tables == <<msgs, lists, leased, acked, qchain, queue_count, leases, next_msg, next_lease>>

ExpireBegin(now) ==
  /\ ~walk.on
  /\ walk' = [on |-> TRUE, b |-> 1, l |-> bucket[1], now |-> now, processed |-> 0,
              due |-> {l \in live : lexp[l] < now},
              kept |-> {l \in live : lexp[l] >= now}]
  /\ UNCHANGED Tables

\* Mutant: next_in_bucket is read after expire_one, from the freed entry.
Advance_Late(l) == IF l \in live' THEN lnext[l] ELSE l

\* next_in_bucket as it was saved before the entry was expired.
Advance(l) == lnext[l]

\* Mutant: a lease that expires right now is expired too.
Expired_Equal(l) == lexp[l] <= walk.now

Expired(l) == lexp[l] < walk.now

\* expire_one: the message of a lease that is not its current one is left
\* alone; otherwise it is given back.
expire_one(l) ==
  LET m == lmsg[l] IN
  IF Leased(m, l) THEN GiveBack(m, l) ELSE UNCHANGED Tables

WalkEntry ==
  /\ walk.on /\ walk.l # 0
  /\ IF Expired(walk.l)
     THEN /\ expire_one(walk.l)
          /\ walk' = [walk EXCEPT !.l = Advance(walk.l), !.processed = @ + 1]
     ELSE /\ UNCHANGED Tables
          /\ walk' = [walk EXCEPT !.l = Advance(walk.l)]

\* The append or the header update of an expiry fails, and the walk returns.
WalkFails ==
  /\ walk.on /\ walk.l # 0
  /\ Expired(walk.l)
  /\ walk' = Off
  /\ UNCHANGED Tables

WalkBucket ==
  /\ walk.on /\ walk.l = 0 /\ walk.b < Buckets
  /\ walk' = [walk EXCEPT !.b = @ + 1, !.l = bucket[walk.b + 1]]
  /\ UNCHANGED Tables

WalkReturns ==
  /\ walk.on /\ walk.l = 0 /\ walk.b = Buckets
  /\ walk' = Off
  /\ UNCHANGED Tables

-----------------------------------------------------------------------------
Next ==
  \/ \E q \in QueueNames : qdb_push(q) \/ LostPush(q)
  \/ \E q \in QueueNames, e \in Times : qdb_pop(q, e)
  \/ \E m \in MsgIds, e \in Times : replay_lease(m, e)
  \/ \E m \in MsgIds : qdb_ack(m) \/ qdb_nack(m)
  \/ \E now \in Times : ExpireBegin(now)
  \/ WalkEntry \/ WalkFails \/ WalkBucket \/ WalkReturns

Spec == Init /\ [][Next]_vars

-----------------------------------------------------------------------------
At(s, i) == IF i \in 1..Len(s) THEN s[i] ELSE 0

\* The links of every PENDING list, followed from pending_head forwards and
\* from pending_tail backwards, give the messages of the queue in order of
\* their last push, nack or expiry, and pending_count is their number, also
\* when messages are taken from the middle or the end and come back.
ListsAgree ==
  \A q \in QueueNames :
    LET s == fifo[q] IN
    /\ head[q] = At(s, 1) /\ tail[q] = At(s, Len(s))
    /\ pending[q] = Len(s)
    /\ \A i \in 1..Len(s) : next[s[i]] = At(s, i + 1) /\ prev[s[i]] = At(s, i - 1)

\* The chains of the lease table hold exactly the allocated entries, each once
\* and in the bucket lookups search, so that nothing freed is reachable and
\* nothing reachable is lost; and they are the leases of the LEASED messages.
ChainsAgree ==
  /\ \A b \in 1..Buckets :
       LET c == chain[b] IN
       /\ bucket[b] = At(c, 1)
       /\ \A i \in 1..Len(c) :
            /\ c[i] \in live /\ Bucket[c[i]] = b
            /\ lnext[c[i]] = At(c, i + 1)
            /\ \A j \in 1..Len(c) : c[i] = c[j] => i = j
  /\ \A l \in live :
       /\ \E i \in 1..Len(chain[Bucket[l]]) : chain[Bucket[l]][i] = l
       /\ lmsg[l] \in MsgIds /\ Leased(lmsg[l], l)
  /\ \A m \in MsgIds : state[m] = "LEASED" => mlease[m] \in live /\ lmsg[mlease[m]] = m

\* The walk over the lease table frees entries of the chain it is walking;
\* the entry it looks at next is never one of them.
WalkSafe == walk.on /\ walk.l # 0 => walk.l \in live

\* When qdb_process_expired_leases returns a count, every lease that was
\* expired at its clock reading is gone, the count is their number, and no
\* other lease was touched; when it fails, only expired leases are gone.
ExpiryComplete ==
  [][walk.on /\ ~walk'.on =>
       /\ walk.kept \subseteq live' /\ live' \subseteq walk.kept \cup walk.due
       /\ Cardinality(walk.due \ live') = walk.processed
       /\ walk.l = 0 => live' = walk.kept]_vars
=============================================================================
