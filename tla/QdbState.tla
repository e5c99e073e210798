------------------------------ MODULE QdbState ------------------------------
(***************************************************************************)
(* The data of QDB: the records of the append-only log, the in-memory      *)
(* queue state of src/qdb_state.c (message table, queue table with its     *)
(* FIFO lists, lease table), and the replay handlers of src/qdb_replay.c   *)
(* that rebuild that state from the log, one record at a time.             *)
(*                                                                         *)
(* The hash tables are partial functions: a key is in the DOMAIN exactly   *)
(* when the lookup of the code returns an entry and not NULL.  The         *)
(* intrusive list of a queue is the sequence of message ids from           *)
(* pending_head to pending_tail; pending_count is its length.              *)
(***************************************************************************)
EXTENDS Integers, Sequences, FiniteSets, Functions

CONSTANT Queues        \* the queue names

Ids == Nat \ {0}       \* message and lease ids; 0 is reserved

-----------------------------------------------------------------------------
(* Tables.                                                                 *)

Put(f, k, v) == [x \in DOMAIN f \cup {k} |-> IF x = k THEN v ELSE f[x]]

Drop(f, k) == Restrict(f, DOMAIN f \ {k})

-----------------------------------------------------------------------------
(* Log records (payload bytes other than ids and expiry are abstracted).   *)

PushRec(m, q)      == [type |-> "PUSH", msg |-> m, queue |-> q]
LeaseRec(m, l, e)  == [type |-> "LEASE", msg |-> m, lease |-> l, expiry |-> e]
AckRec(m, l)       == [type |-> "ACK", msg |-> m, lease |-> l]
NackRec(m, l)      == [type |-> "NACK", msg |-> m, lease |-> l]
ExpireRec(m, l)    == [type |-> "EXPIRE", msg |-> m, lease |-> l]
CheckpointRec(nm, nl) ==
  [type |-> "CHECKPOINT", next_msg |-> nm, next_lease |-> nl]

Record ==
  [type : {"PUSH"}, msg : Ids, queue : Queues]
    \cup [type : {"LEASE"}, msg : Ids, lease : Ids, expiry : Nat]
    \cup [type : {"ACK", "NACK", "EXPIRE"}, msg : Ids, lease : Ids]
    \cup [type : {"CHECKPOINT"}, next_msg : Ids, next_lease : Ids]

-----------------------------------------------------------------------------
(* In-memory entries.  off is the log position of the message's PUSH       *)
(* record, which stands for data_file_offset: the payload is never kept in *)
(* memory, it is read back from there.                                     *)

Msg ==
  [queue : Queues, state : {"PENDING", "LEASED", "ACKED"},
   lease : Nat, expiry : Nat, retry : Nat, off : Nat]

Queue == [pending : Seq(Ids), leased : Int, acked : Nat]

Lease == [msg : Ids, expiry : Nat]

NewMsg(q, off) ==
  [queue |-> q, state |-> "PENDING",
   lease |-> 0, expiry |-> 0, retry |-> 0, off |-> off]

NewQueue == [pending |-> << >>, leased |-> 0, acked |-> 0]

EmptyFcn == [x \in {} |-> x]

\* qdb__state_alloc: three empty tables.
state_alloc == [msgs |-> EmptyFcn, queues |-> EmptyFcn, leases |-> EmptyFcn]

-----------------------------------------------------------------------------
(* Operations on the tables, on the components they change.                *)

queue_get_or_create(queues, q) ==
  IF q \in DOMAIN queues THEN queues ELSE Put(queues, q, NewQueue)

\* Mutant: a message is linked in front of pending_head.
pending_append_AtHead(queues, q, m) ==
  [queues EXCEPT ![q].pending = <<m>> \o @]

pending_append(queues, q, m) ==
  [queues EXCEPT ![q].pending = Append(@, m)]

\* Unlinking m from a list it is on; the list order is otherwise kept.
Unlink(s, m) ==
  LET i == CHOOSE j \in 1..Len(s) : s[j] = m
  IN  SubSeq(s, 1, i - 1) \o SubSeq(s, i + 1, Len(s))

pending_remove(queues, q, m) ==
  [queues EXCEPT ![q].pending = Unlink(@, m)]

lease_insert(leases, l, m, e) == Put(leases, l, [msg |-> m, expiry |-> e])

lease_remove(leases, l) == Drop(leases, l)

-----------------------------------------------------------------------------
(* Replay.  A replay value r is what qdb__replay_log has built so far: ok  *)
(* is FALSE once a handler has returned QDB_ERR_CORRUPT, state is the      *)
(* rebuilt state, next_lease the lease counter, which the file header does *)
(* not store.                                                              *)

replay_start == [ok |-> TRUE, state |-> state_alloc, next_lease |-> 1]

\* The checks a handler makes before it changes anything.
replay_check(st, rec) ==
  CASE rec.type = "PUSH" ->
         rec.msg # 0 /\ rec.msg \notin DOMAIN st.msgs
    [] rec.type = "LEASE" ->
         /\ rec.lease # 0
         /\ rec.msg \in DOMAIN st.msgs
         /\ st.msgs[rec.msg].state = "PENDING"
         /\ rec.lease \notin DOMAIN st.leases
         /\ st.msgs[rec.msg].queue \in DOMAIN st.queues
    [] rec.type \in {"ACK", "NACK", "EXPIRE"} ->
         /\ rec.msg \in DOMAIN st.msgs
         /\ st.msgs[rec.msg].state = "LEASED"
         /\ st.msgs[rec.msg].lease = rec.lease
         /\ st.msgs[rec.msg].queue \in DOMAIN st.queues
    [] rec.type = "CHECKPOINT" -> TRUE

replay_push(st, rec, off) ==
  [st EXCEPT
     !.msgs = Put(st.msgs, rec.msg, NewMsg(rec.queue, off)),
     !.queues = pending_append(queue_get_or_create(st.queues, rec.queue),
                               rec.queue, rec.msg)]

replay_lease(st, rec) ==
  LET msg == st.msgs[rec.msg]
      q   == st.queues[msg.queue]
  IN  [st EXCEPT
         !.queues = [pending_remove(st.queues, msg.queue, rec.msg)
                       EXCEPT ![msg.queue].leased = q.leased + 1],
         !.msgs[rec.msg] = [msg EXCEPT !.state = "LEASED",
                                       !.lease = rec.lease,
                                       !.expiry = rec.expiry],
         !.leases = lease_insert(st.leases, rec.lease, rec.msg, rec.expiry)]

replay_ack(st, rec) ==
  LET msg == st.msgs[rec.msg]
      q   == st.queues[msg.queue]
  IN  [st EXCEPT
         !.leases = lease_remove(st.leases, rec.lease),
         !.msgs[rec.msg] = [msg EXCEPT !.state = "ACKED",
                                       !.lease = 0, !.expiry = 0],
         !.queues[msg.queue] = [q EXCEPT !.leased = q.leased - 1,
                                         !.acked = q.acked + 1]]

\* Mutant: retry_count is not restored.
replay_nack_NoRetry(st, rec) ==
  LET msg == st.msgs[rec.msg]
      q   == st.queues[msg.queue]
  IN  [st EXCEPT
         !.leases = lease_remove(st.leases, rec.lease),
         !.msgs[rec.msg] = [msg EXCEPT !.state = "PENDING",
                                       !.lease = 0, !.expiry = 0],
         !.queues = pending_append(
                      [st.queues EXCEPT ![msg.queue].leased = q.leased - 1],
                      msg.queue, rec.msg)]

\* replay_expire calls replay_nack.
replay_nack(st, rec) ==
  LET msg == st.msgs[rec.msg]
      q   == st.queues[msg.queue]
  IN  [st EXCEPT
         !.leases = lease_remove(st.leases, rec.lease),
         !.msgs[rec.msg] = [msg EXCEPT !.state = "PENDING",
                                       !.lease = 0, !.expiry = 0,
                                       !.retry = msg.retry + 1],
         !.queues = pending_append(
                      [st.queues EXCEPT ![msg.queue].leased = q.leased - 1],
                      msg.queue, rec.msg)]

\* One turn of the loop of qdb__replay_log on the record at position off.
replay_step(st, rec, off) ==
  CASE rec.type = "PUSH" -> replay_push(st, rec, off)
    [] rec.type = "LEASE" -> replay_lease(st, rec)
    [] rec.type = "ACK" -> replay_ack(st, rec)
    [] rec.type \in {"NACK", "EXPIRE"} -> replay_nack(st, rec)
    [] rec.type = "CHECKPOINT" -> st

\* Mutant: LEASE records do not advance the counter.
replay_next_lease_CheckpointOnly(n, rec) ==
  IF rec.type = "CHECKPOINT" /\ rec.next_lease > n THEN rec.next_lease ELSE n

\* The counters only advance: past every id seen, and up to a checkpoint.
replay_next_lease(n, rec) ==
  CASE rec.type = "LEASE" -> IF rec.lease >= n THEN rec.lease + 1 ELSE n
    [] rec.type = "CHECKPOINT" ->
         IF rec.next_lease > n THEN rec.next_lease ELSE n
    [] OTHER -> n

replay_next_msg(n, rec) ==
  CASE rec.type = "PUSH" -> IF rec.msg >= n THEN rec.msg + 1 ELSE n
    [] rec.type = "CHECKPOINT" ->
         IF rec.next_msg > n THEN rec.next_msg ELSE n
    [] OTHER -> n

replay_record(r, rec, off) ==
  IF r.ok /\ replay_check(r.state, rec)
    THEN [ok |-> TRUE,
          state |-> replay_step(r.state, rec, off),
          next_lease |-> replay_next_lease(r.next_lease, rec)]
    ELSE [r EXCEPT !.ok = FALSE]

-----------------------------------------------------------------------------
(* Well-formed states.                                                     *)

IsState(st) ==
  /\ DOMAIN st = {"msgs", "queues", "leases"}
  /\ DOMAIN st.msgs \subseteq Ids
  /\ \A m \in DOMAIN st.msgs : st.msgs[m] \in Msg
  /\ DOMAIN st.queues \subseteq Queues
  /\ \A q \in DOMAIN st.queues : st.queues[q] \in Queue
  /\ DOMAIN st.leases \subseteq Ids
  /\ \A l \in DOMAIN st.leases : st.leases[l] \in Lease

\* The messages of a queue that are in a given state.
InQueue(st, q, x) ==
  {m \in DOMAIN st.msgs : st.msgs[m].queue = q /\ st.msgs[m].state = x}

\* A message is on the list of its queue, once, exactly when it is PENDING.
ListsExact(st) ==
  /\ \A m \in DOMAIN st.msgs : st.msgs[m].queue \in DOMAIN st.queues
  /\ \A q \in DOMAIN st.queues :
       /\ IsInjective(st.queues[q].pending)
       /\ Range(st.queues[q].pending) = InQueue(st, q, "PENDING")

\* A message has one lease, with its id and expiry, exactly when LEASED.
LeasesExact(st) ==
  /\ \A l \in DOMAIN st.leases :
       LET m == st.leases[l].msg
       IN  /\ m \in DOMAIN st.msgs
           /\ st.msgs[m].state = "LEASED"
           /\ st.msgs[m].lease = l
           /\ st.msgs[m].expiry = st.leases[l].expiry
  /\ \A m \in DOMAIN st.msgs :
       st.msgs[m].state = "LEASED" =>
         /\ st.msgs[m].lease \in DOMAIN st.leases
         /\ st.leases[st.msgs[m].lease].msg = m
=============================================================================
