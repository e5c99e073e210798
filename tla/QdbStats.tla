------------------------------ MODULE QdbStats ------------------------------
(***************************************************************************)
(* The calls that add up the tables and change nothing: qdb_stats,         *)
(* qdb_queue_list and qdb_compact_recommended (qdb.c).  They walk the      *)
(* chains of the queue table and trust the counters kept by QdbTables.     *)
(***************************************************************************)
EXTENDS QdbTables, Functions

\* All queues, bucket after bucket, in chain order.
QueueWalk ==
  LET upto[b \in 0..QueueBuckets] == IF b = 0 THEN << >> ELSE upto[b - 1] \o qchain[b]
  IN  upto[QueueBuckets]

\* The sum over the first queues of w, and over all.
Sums(count, w) ==
  LET sum[i \in 0..Len(w)] == IF i = 0 THEN 0 ELSE sum[i - 1] + count[w[i]]
  IN  sum

Total(count) == Sums(count, QueueWalk)[Len(QueueWalk)]

qdb_stats ==
  [queue_count |-> queue_count, pending |-> Total(pending),
   leased |-> Total(leased), acked |-> Total(acked)]

\* Mutant: leased messages are not counted as live.
compact_recommended_Pending ==
  LET st == qdb_stats IN st.acked > 0 /\ st.acked > st.pending

compact_recommended ==
  LET st == qdb_stats IN st.acked > 0 /\ st.acked > st.pending + st.leased

qdb_queue_stats(q) ==
  IF ~Known(q) THEN [rc |-> "NOENT"]
  ELSE [rc |-> "OK", pending |-> pending[q], leased |-> leased[q], acked |-> acked[q]]

\* At most cap names are copied; the count is that of all queues.
qdb_queue_list(cap) ==
  [out |-> SubSeq(QueueWalk, 1, IF cap < Len(QueueWalk) THEN cap ELSE Len(QueueWalk)),
   count |-> Len(QueueWalk)]

-----------------------------------------------------------------------------
\* The statistics tell the truth about the tables after any history: every
\* queue is counted and listed once, its figures and the sums count the messages that are
\* waiting, leased and done, and compaction is recommended exactly when done
\* messages outnumber the others.
StatsTrue ==
  LET st == qdb_stats
      waiting == Cardinality({m \in MsgIds : \E q \in QueueNames : In(m, fifo[q])})
      done == Cardinality({m \in MsgIds : state[m] = "ACKED"})
  IN
  /\ st.queue_count = Cardinality({q \in QueueNames : Known(q)})
  /\ st.pending = waiting /\ st.leased = Cardinality(live) /\ st.acked = done
  /\ compact_recommended <=> done > waiting + Cardinality(live)
  /\ \A q \in QueueNames :
       LET s == qdb_queue_stats(q) IN
       /\ s.rc = "OK" <=> q \in Range(QueueWalk)
       /\ s.rc = "OK" =>
            /\ s.pending = Len(fifo[q])
            /\ s.leased = Cardinality({l \in live : mqueue[lmsg[l]] = q})
            /\ s.acked = Cardinality({m \in MsgIds : state[m] = "ACKED" /\ mqueue[m] = q})
  /\ \A cap \in 0..(st.queue_count + 1) :
       LET r == qdb_queue_list(cap) IN
       /\ r.count = Cardinality({q \in QueueNames : Known(q)})
       /\ Cardinality(Range(r.out)) = IF cap < r.count THEN cap ELSE r.count
=============================================================================
