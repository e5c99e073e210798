----------------------------- MODULE QdbEngine ------------------------------
(***************************************************************************)
(* The life of one QDB handle over one database file: open with recovery,  *)
(* push, pop, pop_any, ack, nack, lease expiry, close (src/qdb.c), with    *)
(* I/O errors, allocation failures and crashes.                            *)
(*                                                                         *)
(* Every mutating call is the same three-step protocol: append a committed *)
(* record behind log_end (qdb__append_record), persist the header          *)
(* (qdb__header_update), and only then change the in-memory state.  The    *)
(* steps are separate actions here, so that errors and crashes fall        *)
(* between them.  A crash inside a step is the failure of the step followed*)
(* by Crash.                                                               *)
(*                                                                         *)
(* Positions in the log count records, not bytes.  The wall clock is an    *)
(* input: every reading is any member of Times, forwards or backwards.     *)
(***************************************************************************)
EXTENDS QdbState

CONSTANTS
  MaxMsg,           \* bound: message ids handed out by push
  MaxLease,         \* bound: lease ids handed out by pop
  MaxLog,           \* bound: records in the log
  Times,            \* possible readings of the wall clock
  Timeout,          \* lease_timeout_us
  RetryAfterError   \* TRUE: the caller keeps using a handle whose header
                    \* update (or allocation after it) failed;
                    \* FALSE: it closes and reopens it

ASSUME EngineAssumption ==
  /\ MaxMsg \in Nat
  /\ MaxLease \in Nat
  /\ MaxLog \in Nat
  /\ Times \subseteq Nat
  /\ Timeout \in Nat
  /\ RetryAfterError \in BOOLEAN

VARIABLES
  disk,      \* the database file
  pc,        \* what the handle is doing
  db,        \* struct qdb: state, counters, log_end_offset
  op,        \* the record whose header update is under way
  pos,       \* records replayed so far by the open in progress
  todo,      \* leases the running qdb_process_expired_leases has to expire
  stale,     \* the last call failed after its record became durable
  refused    \* what qdb_open refused as corrupt: nothing, header or log

(* History variables, read only by the properties.  hist[n] is what        *)
(* replaying the first n records of the log yields.                        *)
VARIABLES
  hist,
  pushed,    \* messages whose push returned QDB_OK
  handed,    \* leases returned to a caller by a pop
  acking,    \* messages for which a valid ack was submitted
  acked,     \* messages whose ack returned QDB_OK
  returned   \* messages -> nacks and expiries completed for it

engine == <<disk, pc, db, op, pos, todo, stale, refused>>
history == <<pushed, handed, acking, acked, returned>>
vars == <<engine, hist, history>>

NoOp == [type |-> "NONE"]

\* Mutant: next_lease_id is not seeded.
Closed_NoSeed ==
  [state |-> state_alloc, next_msg |-> 1, next_lease |-> 0, log_end |-> 0]

Closed ==
  [state |-> state_alloc, next_msg |-> 1, next_lease |-> 1, log_end |-> 0]

NoFile == [kind |-> "none", log |-> << >>, log_end |-> 0, next_msg |-> 1]

Init ==
  /\ disk = NoFile
  /\ pc = "closed"
  /\ db = Closed
  /\ op = NoOp
  /\ pos = 0
  /\ todo = {}
  /\ stale = FALSE
  /\ refused = "nothing"
  /\ hist = [n \in {0} |-> replay_start]
  /\ pushed = {}
  /\ handed = {}
  /\ acking = {}
  /\ acked = {}
  /\ returned = [m \in 1..MaxMsg |-> 0]

-----------------------------------------------------------------------------
(* The storage steps.                                                      *)

Committed(rec) == [rec |-> rec, mark |-> TRUE]

\* qdb__append_record at log_end succeeds; the caller advances its counters.
append_ok(rec, nm, nl) ==
  /\ disk' = [disk EXCEPT !.log =
                Append(SubSeq(@, 1, db.log_end), Committed(rec))]
  /\ db' = [db EXCEPT !.log_end = @ + 1, !.next_msg = nm, !.next_lease = nl]
  /\ op' = rec
  /\ pc' = "header"
  /\ hist' = Put(hist, db.log_end + 1,
                 replay_record(hist[db.log_end], rec, db.log_end + 1))
  /\ UNCHANGED <<pos, todo, stale, refused>>

\* Mutant: the header is advanced before the record is written.
append_fail_HeaderFirst(rec) ==
  /\ \E b \in BOOLEAN :
       disk' = [disk EXCEPT !.log = Append(SubSeq(@, 1, db.log_end),
                                           [rec |-> rec, mark |-> b]),
                            !.log_end = db.log_end + 1]
  /\ pc' = "idle"
  /\ todo' = {}
  /\ UNCHANGED <<db, op, pos, stale, refused, hist>>

\* One of its writes or fsyncs fails.  What it left behind log_end is
\* nothing, a record without commit marker, or a complete record.
append_fail(rec) ==
  /\ \/ UNCHANGED disk
     \/ \E b \in BOOLEAN :
          disk' = [disk EXCEPT !.log = Append(SubSeq(@, 1, db.log_end),
                                              [rec |-> rec, mark |-> b])]
  /\ pc' = "idle"
  /\ todo' = {}
  /\ UNCHANGED <<db, op, pos, stale, refused, hist>>

\* What qdb__header_update writes.
header_update(d) ==
  [d EXCEPT !.log_end = db.log_end, !.next_msg = db.next_msg]

-----------------------------------------------------------------------------
(* qdb_open: create, or recover.                                           *)

OpenCreate ==
  /\ pc = "closed"
  /\ disk.kind = "none"
  /\ disk' = [NoFile EXCEPT !.kind = "db"]
  /\ db' = Closed
  /\ pc' = "idle"
  /\ UNCHANGED <<op, pos, todo, stale, refused, hist, history>>

\* The file is created, the header write fails or the process dies first.
OpenCreateTorn ==
  /\ pc = "closed"
  /\ disk.kind = "none"
  /\ disk' = [disk EXCEPT !.kind = "short"]
  /\ UNCHANGED <<pc, db, op, pos, todo, stale, refused, hist, history>>

\* qdb__header_read refuses a file shorter than a header.
OpenShort ==
  /\ pc = "closed"
  /\ disk.kind = "short"
  /\ refused' = "header"
  /\ UNCHANGED <<disk, pc, db, op, pos, todo, stale, hist, history>>

\* validate_log: the records in front of the first one without a marker.
Valid(log, end) ==
  LET bad == {i \in 1..end : ~log[i].mark}
  IN  IF bad = {} THEN end ELSE (CHOOSE i \in bad : \A j \in bad : i <= j) - 1

\* Mutant: the file is cut one record short.
OpenBegin_CutShort ==
  /\ pc = "closed"
  /\ disk.kind = "db"
  /\ LET end == IF disk.log_end = 0 THEN 0 ELSE disk.log_end - 1
     IN  /\ disk' = [disk EXCEPT !.log = SubSeq(@, 1, end), !.log_end = end]
         /\ db' = [Closed EXCEPT !.next_msg = disk.next_msg, !.log_end = end]
         /\ hist' = Restrict(hist, 0..end)
  /\ pos' = 0
  /\ pc' = "replay"
  /\ stale' = FALSE
  /\ UNCHANGED <<op, todo, refused, history>>

\* Header read, file cut at log_end and at the first uncommitted record.
OpenBegin ==
  /\ pc = "closed"
  /\ disk.kind = "db"
  /\ LET end == Valid(disk.log, disk.log_end)
     IN  /\ disk' = [disk EXCEPT !.log = SubSeq(@, 1, end), !.log_end = end]
         /\ db' = [Closed EXCEPT !.next_msg = disk.next_msg, !.log_end = end]
         /\ hist' = Restrict(hist, 0..end)
  /\ pos' = 0
  /\ pc' = "replay"
  /\ stale' = FALSE
  /\ UNCHANGED <<op, todo, refused, history>>

\* One turn of the loop of qdb__replay_log.
OpenReplay ==
  /\ pc = "replay"
  /\ pos < db.log_end
  /\ LET rec == disk.log[pos + 1].rec
     IN  /\ replay_check(db.state, rec)
         /\ db' = [db EXCEPT !.state = replay_step(@, rec, pos + 1),
                             !.next_lease = replay_next_lease(@, rec),
                             !.next_msg = replay_next_msg(@, rec)]
  /\ pos' = pos + 1
  /\ UNCHANGED <<disk, pc, op, todo, stale, refused, hist, history>>

\* A handler returns QDB_ERR_CORRUPT; so does qdb_open.
OpenRefuse ==
  /\ pc = "replay"
  /\ pos < db.log_end
  /\ ~replay_check(db.state, disk.log[pos + 1].rec)
  /\ pc' = "closed"
  /\ db' = Closed
  /\ pos' = 0
  /\ refused' = "log"
  /\ UNCHANGED <<disk, op, todo, stale, hist, history>>

OpenDone ==
  /\ pc = "replay"
  /\ pos = db.log_end
  /\ disk' = header_update(disk)
  /\ pc' = "idle"
  /\ pos' = 0
  /\ UNCHANGED <<db, op, todo, stale, refused, hist, history>>

-----------------------------------------------------------------------------
(* First half of a call: checks, then the append.                          *)

CanCall ==
  /\ pc = "idle"
  /\ stale => RetryAfterError
  /\ db.log_end < MaxLog

qdb_push(q) ==
  /\ CanCall
  /\ db.next_msg <= MaxMsg
  /\ LET rec == PushRec(db.next_msg, q)
     IN  \/ append_ok(rec, db.next_msg + 1, db.next_lease)
         \/ append_fail(rec)
  /\ UNCHANGED history

do_pop(m) ==
  \E now \in Times :
    LET rec == LeaseRec(m, db.next_lease, now + Timeout)
    IN  \/ append_ok(rec, db.next_msg, db.next_lease + 1)
        \/ append_fail(rec)

\* Queues with something to pop.
Poppable ==
  {q \in DOMAIN db.state.queues : db.state.queues[q].pending # << >>}

\* Mutant: pop takes the newest message.
HeadOf_Newest(q) ==
  db.state.queues[q].pending[Len(db.state.queues[q].pending)]

HeadOf(q) == Head(db.state.queues[q].pending)

qdb_pop(q) ==
  /\ CanCall
  /\ db.next_lease <= MaxLease
  /\ q \in Poppable
  /\ do_pop(HeadOf(q))
  /\ UNCHANGED history

\* Mutant: the first queue met that has a message is taken.
qdb_pop_any_First ==
  /\ CanCall
  /\ db.next_lease <= MaxLease
  /\ \E q \in Poppable : do_pop(HeadOf(q))
  /\ UNCHANGED history

qdb_pop_any ==
  /\ CanCall
  /\ db.next_lease <= MaxLease
  /\ \E q \in Poppable :
       /\ \A p \in Poppable : HeadOf(q) <= HeadOf(p)
       /\ do_pop(HeadOf(q))
  /\ UNCHANGED history

\* Mutant: the lease id is not compared.
LeasedUnder_AnyLease(m, l) ==
  /\ m \in DOMAIN db.state.msgs
  /\ db.state.msgs[m].state = "LEASED"

\* The test qdb_ack, qdb_nack and expire_one make.
LeasedUnder(m, l) ==
  /\ m \in DOMAIN db.state.msgs
  /\ db.state.msgs[m].state = "LEASED"
  /\ db.state.msgs[m].lease = l

qdb_ack(m, l) ==
  /\ CanCall
  /\ LeasedUnder(m, l)
  /\ \/ append_ok(AckRec(m, l), db.next_msg, db.next_lease)
     \/ append_fail(AckRec(m, l))
  /\ acking' = acking \cup {m}
  /\ UNCHANGED <<pushed, handed, acked, returned>>

qdb_nack(m, l) ==
  /\ CanCall
  /\ LeasedUnder(m, l)
  /\ \/ append_ok(NackRec(m, l), db.next_msg, db.next_lease)
     \/ append_fail(NackRec(m, l))
  /\ UNCHANGED history

\* The clock is read once; the walk over the lease table then meets these
\* leases, in hash order.
process_expired_leases ==
  /\ CanCall
  /\ \E now \in Times :
       todo' = {l \in DOMAIN db.state.leases :
                  /\ db.state.leases[l].expiry < now
                  /\ LeasedUnder(db.state.leases[l].msg, l)}
  /\ todo' # {}
  /\ db.log_end + Cardinality(todo') <= MaxLog
  /\ pc' = "expire"
  /\ UNCHANGED <<disk, db, op, pos, stale, refused, hist, history>>

expire_one(l) ==
  /\ pc = "expire"
  /\ LET rec == ExpireRec(db.state.leases[l].msg, l)
     IN  \/ append_ok(rec, db.next_msg, db.next_lease)
         \/ append_fail(rec)
  /\ UNCHANGED history

-----------------------------------------------------------------------------
(* Second half of a call: the header is persisted, memory is changed and   *)
(* QDB_OK returned.  (Queue entries are never removed, so the lookups of a *)
(* message's queue below always succeed.)                                  *)

\* The header update of the record in op succeeds.
HeaderOk(type) ==
  /\ pc = "header"
  /\ op.type = type
  /\ disk' = header_update(disk)
  /\ op' = NoOp
  /\ UNCHANGED <<pos, refused, hist>>

Return == pc' = "idle" /\ UNCHANGED <<todo, stale>>

\* Mutant: the offset of the next record is kept.
push_apply_NextOffset(st, m, q, off) ==
  [st EXCEPT
     !.msgs = Put(st.msgs, m, NewMsg(q, off + 1)),
     !.queues = pending_append(queue_get_or_create(st.queues, q), q, m)]

push_apply(st, m, q, off) ==
  [st EXCEPT
     !.msgs = Put(st.msgs, m, NewMsg(q, off)),
     !.queues = pending_append(queue_get_or_create(st.queues, q), q, m)]

\* Mutant: push returns without persisting the header.
FinishPush_NoHeader ==
  /\ pc = "header"
  /\ op.type = "PUSH"
  /\ op' = NoOp
  /\ UNCHANGED <<disk, pos, refused, hist>>
  /\ db' = [db EXCEPT !.state = push_apply(db.state, op.msg, op.queue, db.log_end)]
  /\ Return
  /\ pushed' = pushed \cup {op.msg}
  /\ UNCHANGED <<handed, acking, acked, returned>>

FinishPush ==
  /\ HeaderOk("PUSH")
  /\ db' = [db EXCEPT !.state = push_apply(db.state, op.msg, op.queue, db.log_end)]
  /\ Return
  /\ pushed' = pushed \cup {op.msg}
  /\ UNCHANGED <<handed, acking, acked, returned>>

\* An allocation fails after the record is durable: of the message entry,
\* or of the queue entry when the message is in the message table already.
FinishPushNoMem ==
  /\ HeaderOk("PUSH")
  /\ \/ UNCHANGED db
     \/ /\ op.queue \notin DOMAIN db.state.queues
        /\ db' = [db EXCEPT !.state.msgs =
                    Put(@, op.msg, NewMsg(op.queue, db.log_end))]
  /\ pc' = "idle"
  /\ stale' = TRUE
  /\ UNCHANGED <<todo, history>>

pop_apply(st, m, l, e) ==
  LET msg == st.msgs[m]
      q   == st.queues[msg.queue]
  IN  [st EXCEPT
         !.queues = [pending_remove(st.queues, msg.queue, m)
                       EXCEPT ![msg.queue].leased = q.leased + 1],
         !.msgs[m] = [msg EXCEPT !.state = "LEASED", !.lease = l,
                                 !.expiry = e],
         !.leases = lease_insert(st.leases, l, m, e)]

FinishPop ==
  /\ HeaderOk("LEASE")
  /\ db' = [db EXCEPT !.state = pop_apply(db.state, op.msg, op.lease, op.expiry)]
  /\ Return
  /\ handed' = handed \cup {op.lease}
  /\ UNCHANGED <<pushed, acking, acked, returned>>

ack_apply(st, m, l) ==
  LET msg == st.msgs[m]
      q   == st.queues[msg.queue]
  IN  [st EXCEPT
         !.queues[msg.queue] = [q EXCEPT !.leased = q.leased - 1,
                                         !.acked = q.acked + 1],
         !.leases = lease_remove(st.leases, l),
         !.msgs[m] = [msg EXCEPT !.state = "ACKED", !.lease = 0,
                                 !.expiry = 0]]

\* Mutant: ack returns without persisting the header.
FinishAck_NoHeader ==
  /\ pc = "header"
  /\ op.type = "ACK"
  /\ op' = NoOp
  /\ UNCHANGED <<disk, pos, refused, hist>>
  /\ db' = [db EXCEPT !.state = ack_apply(db.state, op.msg, op.lease)]
  /\ Return
  /\ acked' = acked \cup {op.msg}
  /\ UNCHANGED <<pushed, handed, acking, returned>>

FinishAck ==
  /\ HeaderOk("ACK")
  /\ db' = [db EXCEPT !.state = ack_apply(db.state, op.msg, op.lease)]
  /\ Return
  /\ acked' = acked \cup {op.msg}
  /\ UNCHANGED <<pushed, handed, acking, returned>>

\* Mutant: the live path returns the message to the head of its queue.
nack_apply_AtHead(st, m, l) ==
  LET msg == st.msgs[m]
      q   == st.queues[msg.queue]
  IN  [st EXCEPT
         !.leases = lease_remove(st.leases, l),
         !.msgs[m] = [msg EXCEPT !.state = "PENDING", !.lease = 0,
                                 !.expiry = 0, !.retry = msg.retry + 1],
         !.queues[msg.queue] = [q EXCEPT !.leased = q.leased - 1,
                                         !.pending = <<m>> \o q.pending]]

\* The same statements in qdb_nack and expire_one.
nack_apply(st, m, l) ==
  LET msg == st.msgs[m]
      q   == st.queues[msg.queue]
  IN  [st EXCEPT
         !.leases = lease_remove(st.leases, l),
         !.msgs[m] = [msg EXCEPT !.state = "PENDING", !.lease = 0,
                                 !.expiry = 0, !.retry = msg.retry + 1],
         !.queues = pending_append(
                      [st.queues EXCEPT ![msg.queue].leased = q.leased - 1],
                      msg.queue, m)]

FinishNack ==
  /\ HeaderOk("NACK")
  /\ db' = [db EXCEPT !.state = nack_apply(db.state, op.msg, op.lease)]
  /\ Return
  /\ returned' = [returned EXCEPT ![op.msg] = @ + 1]
  /\ UNCHANGED <<pushed, handed, acking, acked>>

\* The walk goes on with the next expired lease, or returns.
FinishExpire ==
  /\ HeaderOk("EXPIRE")
  /\ db' = [db EXCEPT !.state = nack_apply(db.state, op.msg, op.lease)]
  /\ todo' = todo \ {op.lease}
  /\ pc' = IF todo' = {} THEN "idle" ELSE "expire"
  /\ returned' = [returned EXCEPT ![op.msg] = @ + 1]
  /\ UNCHANGED <<stale, pushed, handed, acking, acked>>

\* qdb__header_update fails: its write may or may not have reached the file.
\* The call returns QDB_ERR_IO; log_end and the counters stay advanced.
HeaderFail ==
  /\ pc = "header"
  /\ disk' \in {disk, header_update(disk)}
  /\ pc' = "idle"
  /\ op' = NoOp
  /\ todo' = {}
  /\ stale' = TRUE
  /\ UNCHANGED <<db, pos, refused, hist, history>>

-----------------------------------------------------------------------------
(* The handle goes away.                                                   *)

Release ==
  /\ pc' = "closed"
  /\ db' = Closed
  /\ op' = NoOp
  /\ pos' = 0
  /\ todo' = {}
  /\ stale' = FALSE
  /\ hist' = Restrict(hist, 0..disk'.log_end)
  /\ UNCHANGED <<refused, history>>

\* The last header update of qdb_close may fail; its result is ignored.
qdb_close ==
  /\ pc = "idle"
  /\ disk' \in {disk, header_update(disk)}
  /\ Release

\* The process dies, or an open in progress fails (I/O, memory).
Crash ==
  /\ pc # "closed"
  /\ UNCHANGED disk
  /\ Release

-----------------------------------------------------------------------------
Open == OpenCreate \/ OpenCreateTorn \/ OpenShort \/ OpenBegin
          \/ OpenReplay \/ OpenRefuse \/ OpenDone

Call ==
  \/ \E q \in Queues : qdb_push(q) \/ qdb_pop(q)
  \/ qdb_pop_any
  \/ \E m \in 1..MaxMsg, l \in 1..MaxLease : qdb_ack(m, l) \/ qdb_nack(m, l)
  \/ process_expired_leases
  \/ \E l \in todo : expire_one(l)

Finish == FinishPush \/ FinishPushNoMem \/ FinishPop \/ FinishAck
            \/ FinishNack \/ FinishExpire \/ HeaderFail

Next == Open \/ Call \/ Finish \/ qdb_close \/ Crash

Spec == Init /\ [][Next]_vars

-----------------------------------------------------------------------------
(* Types.                                                                  *)

Entry == [rec : Record, mark : BOOLEAN]

\* The type invariant.
TypeOK ==
  /\ disk \in [kind : {"none", "short", "db"}, log : Seq(Entry),
               log_end : Nat, next_msg : Ids]
  /\ pc \in {"closed", "replay", "idle", "header", "expire"}
  /\ DOMAIN db = {"state", "next_msg", "next_lease", "log_end"}
  /\ IsState(db.state)
  /\ db.next_msg \in Ids
  /\ db.next_lease \in Ids
  /\ db.log_end \in Nat
  /\ op \in Record \cup {NoOp}
  /\ pos \in Nat
  /\ todo \subseteq Ids
  /\ stale \in BOOLEAN
  /\ refused \in {"nothing", "header", "log"}
  /\ pushed \subseteq Ids
  /\ handed \subseteq Ids
  /\ acking \subseteq Ids
  /\ acked \subseteq Ids
  /\ returned \in [1..MaxMsg -> Nat]

-----------------------------------------------------------------------------
(* Safety.                                                                 *)

\* What qdb_open would rebuild if the process died now.
Durable == hist[disk.log_end]

\* The header never covers a record that is not completely on disk: a crash
\* at any point leaves every record in front of log_end committed
\* (append before header_update in every call).
HeaderBehindLog ==
  /\ disk.log_end <= Len(disk.log)
  /\ \A i \in 1..disk.log_end : disk.log[i].mark

\* Between two calls the in-memory state, built by the assignments of the
\* calls themselves and by earlier recoveries, is exactly the state that
\* replaying the log would build (the "durable-first" rule; qdb.c and
\* qdb_replay.c change the state in separate code).
MemoryIsReplay ==
  (pc \in {"idle", "expire"} /\ ~stale) =>
    /\ db.state = hist[db.log_end].state
    /\ db.next_lease = hist[db.log_end].next_lease

\* The library never writes a log it would later refuse: whatever failed,
\* and wherever the process died, the file replays without QDB_ERR_CORRUPT.
Recoverable == Durable.ok /\ refused # "log"

\* A message whose push returned QDB_OK is never lost: until somebody acks
\* it, the file holds it PENDING or LEASED, at every instant.
PushDurable ==
  \A m \in pushed \ acking :
    /\ m \in DOMAIN Durable.state.msgs
    /\ Durable.state.msgs[m].state \in {"PENDING", "LEASED"}

\* A message whose ack returned QDB_OK never comes back.
AckFinal ==
  \A m \in acked \cap DOMAIN Durable.state.msgs :
    Durable.state.msgs[m].state = "ACKED"

\* Ids are never issued twice, across any number of crashes: every message
\* id and lease id a caller has seen is behind the counters that recovery
\* would restore (next_lease_id is not in the header, only in the log), so
\* an old (message, lease) pair can never match a newer delivery.
IdsFresh ==
  /\ \A m \in pushed : m < disk.next_msg
  /\ \A l \in handed : l < Durable.next_lease

\* Every nack and expiry that completed is in the retry_count recovery
\* would restore.
RetryCounted ==
  \A m \in DOMAIN Durable.state.msgs :
    Durable.state.msgs[m].retry >= returned[m]

\* A payload is read back through the offset kept in memory: it is the
\* position of that message's own PUSH record, in front of log_end.
PayloadReachable ==
  \A m \in DOMAIN db.state.msgs :
    LET off == db.state.msgs[m].off
    IN  /\ off \in 1..db.log_end
        /\ disk.log[off] = Committed(PushRec(m, db.state.msgs[m].queue))

\* Messages never returned to their queue are delivered in push order: on a
\* list they stand in the order of their ids.
FirstDeliveryFifo ==
  \A q \in DOMAIN db.state.queues :
    LET s == db.state.queues[q].pending
    IN  \A i, j \in 1..Len(s) :
          (/\ i < j
           /\ db.state.msgs[s[i]].retry = 0
           /\ db.state.msgs[s[j]].retry = 0) => s[i] < s[j]

\* qdb_pop_any compares the heads of the queues only.  That finds the oldest
\* message as far as nothing was returned: what it leases is not younger than
\* any message that was never returned, in any queue whose head was not.
PopAnyOldest ==
  [][ (qdb_pop_any /\ op'.type = "LEASE") =>
        \A q \in Poppable :
          db.state.msgs[HeadOf(q)].retry = 0 =>
            \A m \in InQueue(db.state, q, "PENDING") :
              db.state.msgs[m].retry = 0 => op'.msg <= m ]_vars

\* The log is append-only: whatever the calls, the failures and the
\* recoveries do, no step changes or removes a record the header covers.
AppendOnly ==
  [][ /\ disk'.log_end >= disk.log_end
      /\ Len(disk'.log) >= disk.log_end
      /\ \A i \in 1..disk.log_end : disk'.log[i] = disk.log[i] ]_vars

\* The engine implements the queue service: read off the durable state, every
\* step of every call, failure, crash and recovery is one atomic operation
\* of the service, or nothing.
Service ==
  INSTANCE QueueService WITH
    fifo <- [q \in Queues |-> IF q \in DOMAIN Durable.state.queues
                                THEN Durable.state.queues[q].pending
                                ELSE << >>],
    leased <- [l \in DOMAIN Durable.state.leases |->
                 LET m == Durable.state.leases[l].msg
                 IN  [msg |-> m, queue |-> Durable.state.msgs[m].queue]],
    done <- {m \in 1..disk.next_msg - 1 :
               m \in DOMAIN Durable.state.msgs =>
                 Durable.state.msgs[m].state = "ACKED"},
    last_msg <- disk.next_msg - 1,
    last_lease <- Durable.next_lease - 1

ImplementsService == Service!ServiceSpec
=============================================================================
