-------------------------- MODULE QdbEngineProofs ---------------------------
(***************************************************************************)
(* Proofs of the safety properties of QdbEngine, for every set of queues,  *)
(* every bound, every clock and every timeout, when a handle whose header  *)
(* update failed is closed and reopened (RetryAfterError = FALSE).         *)
(*                                                                         *)
(* First the inductive invariant and the lemmas about the storage steps    *)
(* the calls are made of: append, header update, change of the in-memory   *)
(* state.  Then one lemma per action: it preserves the invariant.  The     *)
(* properties follow from it.                                              *)
(***************************************************************************)
EXTENDS QdbLogProofs

-----------------------------------------------------------------------------
(* The inductive invariant.                                                *)

\* The records that hist accounts for.
LogTop == IF pc = "closed" THEN disk.log_end ELSE db.log_end

LogOK ==
  /\ disk.log_end <= LogTop
  /\ LogTop <= Len(disk.log)
  /\ \A i \in 1..LogTop : disk.log[i].mark = TRUE
  /\ disk.kind # "db" => pc = "closed" /\ disk.log_end = 0

Sound(r) ==
  /\ r.ok = TRUE
  /\ WellFormed(r.state)
  /\ r.next_lease \in Ids
  /\ \A l \in DOMAIN r.state.leases : l < r.next_lease

\* hist[i] is hist[i-1] with record i applied, which passes its checks.
Applied(r, s, rec, i) ==
  /\ replay_check(r.state, rec)
  /\ s = [ok |-> TRUE,
          state |-> replay_step(r.state, rec, i),
          next_lease |-> replay_next_lease(r.next_lease, rec)]

HistOK ==
  /\ DOMAIN hist = 0..LogTop
  /\ hist[0] = replay_start
  /\ \A i \in 1..LogTop : Applied(hist[i - 1], hist[i], disk.log[i].rec, i)
  /\ \A n \in 0..LogTop : Sound(hist[n])

\* A message of the state after n records: its id, its PUSH record and its
\* caller's ack.
IdOK(n, m) ==
  /\ m \in 1..MaxMsg
  /\ pc # "closed" => m < db.next_msg
  /\ n <= disk.log_end => m < disk.next_msg

MsgOK(n, m) ==
  LET msg == hist[n].state.msgs[m]
  IN  /\ IdOK(n, m)
      /\ msg.off \in 1..n
      /\ disk.log[msg.off] = Committed(PushRec(m, msg.queue))
      /\ msg.state = "ACKED" => m \in acking

MsgsOK ==
  \A n \in 0..LogTop : \A m \in DOMAIN hist[n].state.msgs : MsgOK(n, m)

\* Memory, against the history.
ClosedOK == pc = "closed" => db = Closed

ReplayOK ==
  pc = "replay" =>
    /\ ~stale
    /\ disk.log_end = db.log_end
    /\ disk.next_msg <= db.next_msg
    /\ pos <= db.log_end
    /\ db.state = hist[pos].state
    /\ db.next_lease = hist[pos].next_lease

IdleOK ==
  (pc \in {"idle", "expire"} /\ ~stale) =>
    /\ disk.log_end = db.log_end
    /\ disk.next_msg = db.next_msg
    /\ db.state = hist[db.log_end].state
    /\ db.next_lease = hist[db.log_end].next_lease

HeaderOK ==
  pc = "header" =>
    /\ ~stale
    /\ db.log_end = disk.log_end + 1
    /\ disk.next_msg <= db.next_msg
    /\ op = disk.log[db.log_end].rec
    /\ db.state = hist[disk.log_end].state
    /\ db.next_lease = hist[db.log_end].next_lease

\* Every message of st is one of r's, with the same PUSH record.
Behind(st, r) ==
  \A m \in DOMAIN st.msgs :
    /\ m \in DOMAIN r.state.msgs
    /\ st.msgs[m].off = r.state.msgs[m].off
    /\ st.msgs[m].queue = r.state.msgs[m].queue

StaleOK ==
  stale =>
    /\ pc = "idle"
    /\ disk.log_end \in {db.log_end - 1, db.log_end}
    /\ disk.next_msg <= db.next_msg
    /\ Behind(db.state, hist[db.log_end])

TodoOK ==
  (pc = "expire" \/ (pc = "header" /\ op.type = "EXPIRE")) =>
    todo \subseteq DOMAIN db.state.leases

\* A replayed state r keeps what callers were told: the pushes p, acks a,
\* leases h and returns t that completed.
Keeps(r, p, a, h, t) ==
  /\ p \subseteq DOMAIN r.state.msgs
  /\ \A m \in a : m \in DOMAIN r.state.msgs /\ r.state.msgs[m].state = "ACKED"
  /\ \A l \in h : l < r.next_lease
  /\ \A m \in 1..MaxMsg :
       /\ m \in DOMAIN r.state.msgs => r.state.msgs[m].retry >= t[m]
       /\ m \notin DOMAIN r.state.msgs => t[m] = 0

CallersOK == Keeps(Durable, pushed, acked, handed, returned)

MemoryOK == ClosedOK /\ ReplayOK /\ IdleOK /\ HeaderOK /\ StaleOK /\ TodoOK

IInv ==
  /\ TypeOK
  /\ LogOK
  /\ HistOK
  /\ MsgsOK
  /\ MemoryOK
  /\ CallersOK
  /\ refused # "log"

-----------------------------------------------------------------------------
(* First consequences.                                                     *)

\* The header covers no more records than the history.
LEMMA HeaderInHist ==
  ASSUME IInv
  PROVE  disk.log_end \in 0..LogTop
<1>1. disk.log_end \in Nat /\ LogTop \in Nat
  BY Zenon DEF IInv, TypeOK, LogTop
<1>2. disk.log_end <= LogTop
  BY Zenon DEF IInv, LogOK
<1> QED
  BY <1>1, <1>2

\* What a reopen of the file would restore is sound, and so is each of its
\* messages.
LEMMA DurableSound ==
  ASSUME IInv
  PROVE  /\ Sound(Durable)
         /\ \A m \in DOMAIN Durable.state.msgs : MsgOK(disk.log_end, m)
<1>1. HistOK /\ MsgsOK
  BY Zenon DEF IInv
<1>2. disk.log_end \in 0..LogTop
  BY HeaderInHist, Zenon
<1> QED
  BY <1>1, <1>2, Zenon DEF HistOK, MsgsOK, Durable

\* A step that leaves the file, the handle and the history alone.
LEMMA LogFrame ==
  ASSUME IInv, pc = "closed" <=> pc' = "closed",
         UNCHANGED <<disk, db, hist, acking>>
  PROVE  LogOK' /\ HistOK' /\ MsgsOK'
<1>1. LogOK /\ HistOK /\ MsgsOK
  BY Zenon DEF IInv
<1>2. LogTop' = LogTop
  BY Zenon DEF LogTop
<1>3. LogOK'
  BY <1>1, <1>2, Zenon DEF LogOK
<1>4. HistOK'
  BY <1>1, <1>2, Zenon DEF HistOK
<1>5. ASSUME NEW n \in 0..LogTop, NEW m \in DOMAIN hist[n].state.msgs
      PROVE  MsgOK(n, m)'
  <2>1. MsgOK(n, m)
    BY <1>1, Zenon DEF MsgsOK
  <2>2. IdOK(n, m)'
    BY <2>1, Zenon DEF MsgOK, IdOK
  <2> QED
    BY <2>1, <2>2, Zenon DEF MsgOK
<1> QED
  BY <1>2, <1>3, <1>4, <1>5, Zenon DEF MsgsOK

-----------------------------------------------------------------------------
(* The log as a sequence.                                                  *)

\* Writing one record behind position n (qdb__append_record).
LEMMA LogAppend ==
  ASSUME NEW log \in Seq(Entry), NEW n \in Nat, n <= Len(log), NEW e \in Entry
  PROVE  LET new == Append(SubSeq(log, 1, n), e)
         IN  /\ new \in Seq(Entry)
             /\ Len(new) = n + 1
             /\ new[n + 1] = e
             /\ \A i \in 1..n : new[i] = log[i]
<1> DEFINE s == SubSeq(log, 1, n)
<1>1. s \in Seq(Entry) /\ Len(s) = n /\ \A i \in 1..n : s[i] = log[i]
  OBVIOUS
<1> HIDE DEF s
<1>2. /\ Append(s, e) \in Seq(Entry) /\ Len(Append(s, e)) = n + 1
      /\ Append(s, e)[n + 1] = e /\ \A i \in 1..n : Append(s, e)[i] = s[i]
  BY <1>1
<1> QED
  BY <1>1, <1>2, Zenon DEF s

\* Cutting the file at position n (qdb_open).
LEMMA LogCut ==
  ASSUME NEW log \in Seq(Entry), NEW n \in Nat, n <= Len(log)
  PROVE  /\ SubSeq(log, 1, n) \in Seq(Entry)
         /\ Len(SubSeq(log, 1, n)) = n
         /\ \A i \in 1..n : SubSeq(log, 1, n)[i] = log[i]
  OBVIOUS

-----------------------------------------------------------------------------
(* One record applied.                                                     *)

\* The lease counter never goes back, and passes every lease it meets.
LEMMA NextLease ==
  ASSUME NEW n \in Ids, NEW rec \in Record
  PROVE  /\ replay_next_lease(n, rec) \in Ids
         /\ replay_next_lease(n, rec) >= n
         /\ rec.type = "LEASE" => rec.lease < replay_next_lease(n, rec)
         /\ rec.type = "LEASE" /\ rec.lease = n =>
              replay_next_lease(n, rec) = n + 1
         /\ rec.type \in {"PUSH", "ACK", "NACK", "EXPIRE"} =>
              replay_next_lease(n, rec) = n
<1>1. CASE rec.type = "LEASE"
  <2>1. rec.lease \in Ids
    BY <1>1, Zenon DEF Record
  <2> QED
    BY <1>1, <2>1 DEF replay_next_lease, Ids
<1>2. CASE rec.type = "CHECKPOINT"
  <2>1. rec.next_lease \in Ids
    BY <1>2, Zenon DEF Record
  <2> QED
    BY <1>2, <2>1 DEF replay_next_lease, Ids
<1>3. CASE rec.type \notin {"LEASE", "CHECKPOINT"}
  BY <1>3 DEF replay_next_lease, Ids
<1> QED
  BY <1>1, <1>2, <1>3, Zenon

\* The parts of the result of one record.
LEMMA AppliedParts ==
  ASSUME NEW r, NEW s, NEW rec, NEW i, Applied(r, s, rec, i)
  PROVE  /\ s.state = replay_step(r.state, rec, i)
         /\ s.next_lease = replay_next_lease(r.next_lease, rec)
  BY Zenon DEF Applied

\* Replay goes from a sound result to a sound one.
LEMMA SoundStep ==
  ASSUME NEW r, Sound(r), NEW rec \in Record, NEW i \in Nat, NEW s,
         Applied(r, s, rec, i)
  PROVE  /\ Sound(s)
         /\ s.next_lease >= r.next_lease
         /\ KeepsMsgs(r.state, rec, i, s.state)
         /\ KeepsAcked(r.state, rec, s.state)
<1> DEFINE st == r.state
           n == replay_step(st, rec, i)
           nl == replay_next_lease(r.next_lease, rec)
<1>1. /\ replay_check(st, rec) /\ s.ok = TRUE
      /\ s.state = n /\ s.next_lease = nl
  BY Zenon DEF Applied
<1>2. /\ WellFormed(st) /\ r.next_lease \in Ids
      /\ \A l \in DOMAIN st.leases : l < r.next_lease
  BY Zenon DEF Sound
<1>3. DOMAIN st.leases \subseteq Ids
  BY <1>2, Zenon DEF WellFormed, IsState
<1> HIDE DEF st
<1>4. WellFormed(n)
  BY <1>1, <1>2, ReplayWellFormed, Zenon
<1>5. KeepsMsgs(st, rec, i, n) /\ KeepsAcked(st, rec, n) /\ KeepsLeases(st, rec, n)
  BY <1>1, <1>2, ReplayEffect, Zenon
<1>6. nl \in Ids /\ nl >= r.next_lease /\ (rec.type = "LEASE" => rec.lease < nl)
  BY <1>2, NextLease, Zenon
<1> HIDE DEF n, nl
<1>7. \A l \in DOMAIN n.leases : l < nl
  BY <1>2, <1>3, <1>5, <1>6, SMTT(60) DEF KeepsLeases, Ids
<1> QED
  BY <1>1, <1>4, <1>5, <1>6, <1>7, Zenon DEF Sound, st

\* What callers were told survives the next record.
LEMMA KeepsStep ==
  ASSUME NEW r, Sound(r), NEW rec \in Record, NEW i \in Nat, NEW s,
         Applied(r, s, rec, i),
         NEW p, NEW a, NEW h \in SUBSET Ids, NEW t \in [1..MaxMsg -> Nat],
         Keeps(r, p, a, h, t)
  PROVE  Keeps(s, p, a, h, t)
<1> DEFINE st == r.state
           n == s.state
<1>1. /\ Sound(s) /\ s.next_lease >= r.next_lease
      /\ KeepsMsgs(st, rec, i, n) /\ KeepsAcked(st, rec, n)
  BY SoundStep, Zenon
<1>2. p \subseteq DOMAIN n.msgs
  BY <1>1, Zenon DEF Keeps, KeepsMsgs
<1>3. \A m \in a : m \in DOMAIN n.msgs /\ n.msgs[m].state = "ACKED"
  BY <1>1, Zenon DEF Keeps, KeepsMsgs, KeepsAcked
<1>4. \A l \in h : l < s.next_lease
  BY <1>1, SMTT(60) DEF Keeps, Sound, Ids
<1>5. ASSUME NEW m \in 1..MaxMsg, m \in DOMAIN n.msgs
      PROVE  n.msgs[m].retry >= t[m]
  <2>1. CASE m \in DOMAIN st.msgs
    <3>1. st.msgs[m].retry >= t[m] /\ n.msgs[m].retry >= st.msgs[m].retry
      BY <1>1, <2>1, Zenon DEF Keeps, KeepsMsgs
    <3>2. st.msgs[m] \in Msg /\ n.msgs[m] \in Msg
      BY <1>1, <1>5, <2>1, Zenon DEF Sound, WellFormed, IsState
    <3>3. st.msgs[m].retry \in Nat /\ n.msgs[m].retry \in Nat /\ t[m] \in Nat
      BY <3>2, Zenon DEF Msg
    <3> QED
      BY <3>1, <3>3, SMTT(60)
  <2>2. CASE m \notin DOMAIN st.msgs
    <3>1. t[m] = 0 /\ n.msgs[m] = NewMsg(rec.queue, i)
      BY <1>1, <1>5, <2>2, Zenon DEF Keeps, KeepsMsgs
    <3> QED
      BY <3>1 DEF NewMsg
  <2> QED
    BY <2>1, <2>2, Zenon
<1>6. \A m \in 1..MaxMsg : m \notin DOMAIN n.msgs => t[m] = 0
  BY <1>1, Zenon DEF Keeps, KeepsMsgs
<1> QED
  BY <1>2, <1>3, <1>4, <1>5, <1>6, Zenon DEF Keeps

-----------------------------------------------------------------------------
(* The storage steps.                                                      *)

\* A record that passes the checks of its replay handler is appended.
AppendStep(rec, nm, nl) ==
  /\ pc \in {"idle", "expire"} /\ ~stale
  /\ replay_check(db.state, rec)
  /\ nl = replay_next_lease(db.next_lease, rec)
  /\ append_ok(rec, nm, nl)
  /\ nm >= db.next_msg
  /\ rec.type = "PUSH" => rec.msg \in 1..MaxMsg /\ rec.msg < nm
  /\ rec.type = "EXPIRE" => todo \subseteq DOMAIN db.state.leases
  /\ acking \subseteq acking' /\ acking' \subseteq Ids
  /\ rec.type = "ACK" => rec.msg \in acking'
  /\ UNCHANGED <<pushed, handed, acked, returned>>

\* A step that rewrites no record in front of LogTop keeps the history,
\* and what it says of the messages.
LEMMA HistFrame ==
  ASSUME IInv, LogTop' \in Nat, LogTop' <= LogTop,
         DOMAIN hist' = 0..LogTop',
         \A n \in 0..LogTop' : hist'[n] = hist[n],
         \A i \in 1..LogTop' : disk'.log[i] = disk.log[i]
  PROVE  HistOK'
<1> DEFINE t == LogTop'
<1>1. LogTop \in Nat
  BY Zenon DEF IInv, TypeOK, LogTop
<1>2. /\ hist[0] = replay_start
      /\ \A i \in 1..LogTop : Applied(hist[i - 1], hist[i], disk.log[i].rec, i)
      /\ \A n \in 0..LogTop : Sound(hist[n])
  BY Zenon DEF IInv, HistOK
<1> HIDE DEF t
<1>3. ASSUME NEW i \in 1..t
      PROVE  Applied(hist'[i - 1], hist'[i], disk'.log[i].rec, i)
  <2>1. i - 1 \in 0..t /\ i \in 0..t /\ i \in 1..LogTop
    BY <1>1 DEF t
  <2>2. /\ hist'[i - 1] = hist[i - 1] /\ hist'[i] = hist[i]
        /\ disk'.log[i] = disk.log[i]
    BY <2>1, Zenon DEF t
  <2> QED
    BY <1>2, <2>1, <2>2, Zenon
<1>4. ASSUME NEW n \in 0..t
      PROVE  Sound(hist'[n])
  BY <1>1, <1>2 DEF t
<1>5. hist'[0] = replay_start
  BY <1>2, SMTT(60)
<1> QED
  BY <1>3, <1>4, <1>5, Zenon DEF HistOK, t

\* The message counters of memory and file do not move back.
CountersKept ==
  /\ disk'.next_msg \in Ids
  /\ pc' # "closed" => db'.next_msg \in Ids
  /\ \/ pc' = "closed"
     \/ pc # "closed" /\ db.next_msg <= db'.next_msg
     \/ disk.log_end = LogTop /\ disk.next_msg <= db'.next_msg
  /\ \/ disk'.log_end = disk.log_end /\ disk.next_msg <= disk'.next_msg
     \/ pc # "closed" /\ db.next_msg <= disk'.next_msg

\* The facts about messages survive a step that shortens the history or
\* leaves it alone, and does not move the message counters back (qdb_open's
\* read of the header, qdb__header_update, qdb_close).
LEMMA MsgsFrame ==
  ASSUME IInv, LogTop' \in Nat, LogTop' <= LogTop,
         \A n \in 0..LogTop' : hist'[n] = hist[n],
         \A i \in 1..LogTop' : disk'.log[i] = disk.log[i],
         acking \subseteq acking', CountersKept
  PROVE  MsgsOK'
<1> DEFINE t == LogTop'
<1> SUFFICES ASSUME NEW n \in 0..t, NEW m \in DOMAIN hist'[n].state.msgs
             PROVE  MsgOK(n, m)'
  BY Zenon DEF MsgsOK
<1> DEFINE msg == hist[n].state.msgs[m]
<1>1. /\ LogTop \in Nat /\ MaxMsg \in Nat
      /\ db.next_msg \in Nat /\ disk.next_msg \in Nat /\ disk'.next_msg \in Nat
      /\ pc' # "closed" => db'.next_msg \in Nat
  BY EngineAssumption, Zenon DEF IInv, TypeOK, LogTop, Ids, CountersKept
<1>2. hist'[n] = hist[n] /\ n \in 0..LogTop
  BY <1>1
<1>3. MsgOK(n, m)
  BY <1>2, Zenon DEF IInv, MsgsOK
<1>4. IdOK(n, m)
  BY <1>3, Zenon DEF MsgOK
<1>5. pc' # "closed" => m < db'.next_msg
  <2>1. CASE pc # "closed" /\ db.next_msg <= db'.next_msg
    BY <1>1, <1>4, <2>1 DEF IdOK
  <2>2. CASE disk.log_end = LogTop /\ disk.next_msg <= db'.next_msg
    BY <1>1, <1>2, <1>4, <2>2 DEF IdOK
  <2> QED
    BY <2>1, <2>2, Zenon DEF CountersKept
<1>6. n <= disk'.log_end => m < disk'.next_msg
  <2>1. CASE disk'.log_end = disk.log_end /\ disk.next_msg <= disk'.next_msg
    BY <1>1, <1>4, <2>1 DEF IdOK
  <2>2. CASE pc # "closed" /\ db.next_msg <= disk'.next_msg
    BY <1>1, <1>4, <2>2 DEF IdOK
  <2> QED
    BY <2>1, <2>2, Zenon DEF CountersKept
<1>7. IdOK(n, m)'
  BY <1>4, <1>5, <1>6, Zenon DEF IdOK
<1>8. msg.off \in 1..n /\ disk'.log[msg.off] = Committed(PushRec(m, msg.queue))
  <2>1. msg.off \in 1..n /\ disk.log[msg.off] = Committed(PushRec(m, msg.queue))
    BY <1>3, Zenon DEF MsgOK
  <2> HIDE DEF msg
  <2>2. msg.off \in 1..t
    BY <2>1
  <2>3. disk'.log[msg.off] = disk.log[msg.off]
    BY <2>2, Zenon
  <2> QED
    BY <2>1, <2>3, Zenon
<1>9. msg.state = "ACKED" => m \in acking'
  BY <1>3, Zenon DEF MsgOK
<1> QED
  BY <1>2, <1>7, <1>8, <1>9, Zenon DEF MsgOK

\* A file that differs from disk only behind its first k records.
SameUpTo(d, k) ==
  /\ d \in [kind : {"none", "short", "db"}, log : Seq(Entry),
           log_end : Nat, next_msg : Ids]
  /\ d.kind = disk.kind /\ d.log_end = disk.log_end
  /\ d.next_msg = disk.next_msg
  /\ k <= Len(d.log)
  /\ \A i \in 1..k : d.log[i] = disk.log[i]

\* The record whose header update is under way is the next one of the
\* history; once it is durable, callers have been told nothing that is lost.
LEMMA Pending ==
  ASSUME IInv, pc = "header"
  PROVE  /\ op \in Record
         /\ db.log_end = disk.log_end + 1
         /\ Sound(hist[disk.log_end]) /\ Sound(hist[db.log_end])
         /\ Applied(hist[disk.log_end], hist[db.log_end], op, db.log_end)
         /\ db.state = hist[disk.log_end].state
         /\ Keeps(hist[db.log_end], pushed, acked, handed, returned)
<1> DEFINE k == disk.log_end
<1>1. /\ k \in Nat /\ db.log_end \in Nat /\ disk.log \in Seq(Entry)
      /\ handed \in SUBSET Ids /\ returned \in [1..MaxMsg -> Nat]
  BY Zenon DEF IInv, TypeOK
<1>2. /\ db.log_end = k + 1 /\ op = disk.log[k + 1].rec
      /\ db.state = hist[k].state
  BY Zenon DEF IInv, MemoryOK, HeaderOK
<1>3. LogTop = k + 1 /\ k + 1 <= Len(disk.log)
  BY <1>2, Zenon DEF IInv, LogOK, LogTop
<1> HIDE DEF k
<1>4. op \in Record
  <2>1. disk.log[k + 1] \in Entry
    BY <1>1, <1>3
  <2> QED
    BY <1>2, <2>1, Zenon DEF Entry
<1>5. k \in 0..k + 1 /\ k + 1 \in 0..k + 1 /\ k + 1 \in 1..k + 1 /\ (k + 1) - 1 = k
  BY <1>1
<1>6. Sound(hist[k]) /\ Sound(hist[k + 1])
  BY <1>3, <1>5, Zenon DEF IInv, HistOK
<1>7. Applied(hist[k], hist[k + 1], op, k + 1)
  BY <1>2, <1>3, <1>5, Zenon DEF IInv, HistOK
<1>8. Keeps(hist[k], pushed, acked, handed, returned)
  BY Zenon DEF IInv, CallersOK, Durable, k
<1>9. Keeps(hist[k + 1], pushed, acked, handed, returned)
  BY <1>1, <1>4, <1>6, <1>7, <1>8, KeepsStep, SMTT(60)
<1> QED
  BY <1>2, <1>4, <1>6, <1>7, <1>9, ZenonT(40) DEF k

\* The header reaches the file, and memory is left or changed: the durable
\* state is now the last one of the history (qdb__header_update).
LEMMA HeaderWritten ==
  ASSUME IInv, pc # "closed", pc' # "closed",
         disk' = header_update(disk),
         db'.log_end = db.log_end, db'.next_msg = db.next_msg,
         UNCHANGED <<hist, acking>>
  PROVE  /\ disk' \in [kind : {"none", "short", "db"}, log : Seq(Entry),
                       log_end : Nat, next_msg : Ids]
         /\ disk'.log_end = db.log_end /\ disk'.next_msg = db.next_msg
         /\ disk'.log = disk.log
         /\ LogOK' /\ HistOK' /\ MsgsOK'
<1> DEFINE k == db.log_end
<1>1. /\ disk \in [kind : {"none", "short", "db"}, log : Seq(Entry),
                   log_end : Nat, next_msg : Ids]
      /\ k \in Nat /\ db.next_msg \in Ids
  BY Zenon DEF IInv, TypeOK
<1>2. /\ disk' \in [kind : {"none", "short", "db"}, log : Seq(Entry),
                    log_end : Nat, next_msg : Ids]
      /\ disk'.kind = disk.kind /\ disk'.log = disk.log
      /\ disk'.log_end = k /\ disk'.next_msg = db.next_msg
  BY <1>1, ZenonT(40) DEF header_update
<1>3. LogTop = k /\ LogTop' = k
  BY Zenon DEF LogTop
<1> HIDE DEF k
<1>4. LogOK'
  BY <1>1, <1>2, <1>3 DEF IInv, LogOK
<1>5. HistOK'
  <2>1. DOMAIN hist = 0..k /\ k <= k
    BY <1>1, <1>3 DEF IInv, HistOK
  <2> QED
    BY <1>1, <1>2, <1>3, <2>1, HistFrame, Zenon
<1>6. MsgsOK'
  <2>1. db.next_msg <= db.next_msg /\ k <= k
    BY <1>1 DEF Ids
  <2>2. CountersKept
    BY <1>1, <1>2, <2>1, Zenon DEF CountersKept
  <2> QED
    BY <1>1, <1>2, <1>3, <2>1, <2>2, MsgsFrame, Zenon
<1> QED
  BY <1>2, <1>4, <1>5, <1>6, Zenon DEF k

\* The zeroed struct qdb and the empty tables of qdb__state_alloc are well
\* formed.
LEMMA ClosedType ==
  /\ Closed.next_msg = 1 /\ Closed.next_lease = 1 /\ Closed.log_end = 0
  /\ DOMAIN Closed = {"state", "next_msg", "next_lease", "log_end"}
  /\ Closed.state = state_alloc
  /\ IsState(Closed.state)
  /\ WellFormed(state_alloc)
  /\ DOMAIN state_alloc.msgs = {} /\ DOMAIN state_alloc.leases = {}
<1>1. /\ DOMAIN EmptyFcn = {} /\ state_alloc.msgs = EmptyFcn
      /\ state_alloc.queues = EmptyFcn /\ state_alloc.leases = EmptyFcn
      /\ DOMAIN state_alloc = {"msgs", "queues", "leases"}
  BY Zenon DEF state_alloc, EmptyFcn
<1>2. IsState(state_alloc)
  BY <1>1, Zenon DEF IsState
<1>3. ListsExact(state_alloc) /\ LeasesExact(state_alloc)
  BY <1>1, Zenon DEF ListsExact, LeasesExact
<1>4. /\ Closed.next_msg = 1 /\ Closed.next_lease = 1 /\ Closed.log_end = 0
      /\ DOMAIN Closed = {"state", "next_msg", "next_lease", "log_end"}
      /\ Closed.state = state_alloc
  BY Zenon DEF Closed
<1> QED
  BY <1>1, <1>2, <1>3, <1>4, Zenon DEF WellFormed

\* qdb_close and a crash preserve the invariant.
LEMMA CloseInv ==
  IInv /\ (qdb_close \/ Crash) => IInv'
\* What callers were told holds of the newest state of the history too.
<1>NewestKeeps.
    ASSUME IInv, pc # "closed", disk.log_end \in {db.log_end - 1, db.log_end}
    PROVE  Keeps(hist[db.log_end], pushed, acked, handed, returned)
  <2> USE <1>NewestKeeps
  <2> DEFINE k == db.log_end
             d == disk.log_end
  <2>1. /\ k \in Nat /\ d \in Nat /\ disk.log \in Seq(Entry)
        /\ handed \in SUBSET Ids /\ returned \in [1..MaxMsg -> Nat]
    BY Zenon DEF IInv, TypeOK
  <2>2. Keeps(hist[d], pushed, acked, handed, returned)
    BY Zenon DEF IInv, CallersOK, Durable
  <2>3. LogTop = k /\ k <= Len(disk.log)
    BY Zenon DEF IInv, LogOK, LogTop
  <2>4. CASE d = k
    BY <2>2, <2>4, Zenon
  <2>5. CASE d = k - 1
    <3> DEFINE rec == disk.log[k].rec
    <3>1. k \in 1..k /\ k - 1 \in 0..k /\ k \in 1..Len(disk.log)
      BY <2>1, <2>3, <2>5, SMTT(60)
    <3>2. Sound(hist[k - 1]) /\ Applied(hist[k - 1], hist[k], rec, k)
      BY <2>3, <3>1, Zenon DEF IInv, HistOK
    <3>3. disk.log[k] \in Entry
      BY <2>1, <3>1
    <3>4. rec \in Record
      BY <3>3, Zenon DEF Entry
    <3> HIDE DEF rec
    <3> QED
      BY <2>1, <2>2, <2>5, <3>2, <3>4, KeepsStep, SMTT(60)
  <2> QED
    BY <2>4, <2>5, Zenon
\* The handle goes away: what the header covers is what remains.
<1>ReleaseInv.
    ASSUME IInv, pc # "closed", Release,
           \/ UNCHANGED disk
           \/ pc = "idle" /\ disk' = header_update(disk)
    PROVE  IInv'
  <2> USE <1>ReleaseInv
  <2> DEFINE e == disk'.log_end
  <2>1. /\ pc' = "closed" /\ db' = Closed /\ op' = NoOp /\ pos' = 0
        /\ todo' = {} /\ stale' = FALSE /\ hist' = Restrict(hist, 0..e)
        /\ UNCHANGED <<refused, pushed, handed, acking, acked, returned>>
    BY Zenon DEF Release, history
  <2>2. /\ disk \in [kind : {"none", "short", "db"}, log : Seq(Entry),
                     log_end : Nat, next_msg : Ids]
        /\ db.log_end \in Nat /\ db.next_msg \in Ids
        /\ LogTop = db.log_end /\ disk.log_end <= db.log_end
        /\ DOMAIN hist = 0..LogTop
    BY Zenon DEF IInv, TypeOK, LogOK, LogTop, HistOK
  <2>3. /\ disk' \in [kind : {"none", "short", "db"}, log : Seq(Entry),
                      log_end : Nat, next_msg : Ids]
        /\ disk'.log = disk.log /\ disk'.kind = disk.kind
        /\ \/ e = disk.log_end /\ disk'.next_msg = disk.next_msg
           \/ pc = "idle" /\ e = db.log_end /\ disk'.next_msg = db.next_msg
    BY <2>2, Zenon DEF header_update
  <2>4. LogTop' = e /\ e \in Nat /\ e <= LogTop
    BY <2>1, <2>2, <2>3 DEF LogTop
  <2> HIDE DEF e
  <2>5. DOMAIN hist' = 0..e /\ \A n \in 0..e : hist'[n] = hist[n]
    BY <2>1, <2>2, <2>4, Zenon DEF Restrict
  <2>6. LogOK'
    BY <2>1, <2>2, <2>3, <2>4 DEF IInv, LogOK, e
  <2>7. HistOK'
    BY <2>3, <2>4, <2>5, HistFrame, Zenon
  <2>8. MsgsOK'
    <3>1. disk.next_msg <= disk.next_msg /\ db.next_msg <= db.next_msg
      BY <2>2 DEF Ids
    <3>2. disk'.next_msg \in Ids
      BY <2>3, Zenon
    <3> QED
      BY <2>1, <2>3, <2>4, <2>5, <3>1, <3>2, MsgsFrame DEF e, CountersKept
  <2>9. Closed.next_msg = 1 /\ Closed.next_lease = 1 /\ Closed.log_end = 0
        /\ DOMAIN Closed = {"state", "next_msg", "next_lease", "log_end"}
        /\ IsState(Closed.state)
    BY ClosedType, Zenon
  <2>10. TypeOK'
    <3>1. 1 \in Ids /\ 0 \in Nat
      BY DEF Ids
    <3> QED
      BY <2>1, <2>3, <2>9, <3>1, Zenon DEF IInv, TypeOK
  <2>11. MemoryOK'
    BY <2>1, Zenon DEF MemoryOK, ClosedOK, ReplayOK, IdleOK, HeaderOK, StaleOK, TodoOK
  <2>12. CallersOK'
    <3>1. Keeps(hist[disk.log_end], pushed, acked, handed, returned)
      BY Zenon DEF IInv, CallersOK, Durable
    <3>2. CASE e = disk.log_end
      <4>1. Durable' = hist[disk.log_end]
        BY <2>4, <2>5, <3>2, SMTT(60) DEF Durable, e
      <4> QED
        BY <2>1, <3>1, <4>1, Zenon DEF CallersOK
    <3>3. CASE pc = "idle" /\ e = db.log_end
      <4>1. disk.log_end \in {db.log_end - 1, db.log_end}
        BY <3>3, Zenon DEF IInv, MemoryOK, IdleOK, StaleOK
      <4>2. Keeps(hist[db.log_end], pushed, acked, handed, returned)
        BY <3>3, <4>1, <1>NewestKeeps, Zenon
      <4>3. Durable' = hist[db.log_end]
        BY <2>4, <2>5, <3>3 DEF Durable, e
      <4> QED
        BY <2>1, <4>2, <4>3, Zenon DEF CallersOK
    <3> QED
      BY <2>3, <3>2, <3>3, Zenon
  <2> QED
    BY <2>1, <2>6, <2>7, <2>8, <2>10, <2>11, <2>12, Zenon DEF IInv
<1> SUFFICES ASSUME IInv, qdb_close \/ Crash
             PROVE  IInv'
  BY Zenon
<1>1. CASE qdb_close
  BY <1>1, <1>ReleaseInv, Zenon DEF qdb_close
<1>2. CASE Crash
  BY <1>2, <1>ReleaseInv, Zenon DEF Crash
<1> QED
  BY <1>1, <1>2, Zenon

-----------------------------------------------------------------------------
(* The first state, and the states of a replay.                            *)

\* The invariant holds before the file exists.
LEMMA InitInv ==
  ASSUME Init
  PROVE  IInv
<1>1. /\ NoFile.kind = "none" /\ NoFile.log = << >> /\ NoFile.log_end = 0
      /\ NoFile.next_msg = 1
      /\ NoFile \in [kind : {"none", "short", "db"}, log : Seq(Entry),
                     log_end : Nat, next_msg : Ids]
  BY SMTT(60) DEF NoFile, Ids
<1>2. TypeOK
  <2>1. 1 \in Ids /\ 0 \in Nat
    BY DEF Ids
  <2> QED
    BY <1>1, <2>1, ClosedType, Zenon DEF Init, TypeOK
<1>3. LogTop = 0
  BY <1>1, Zenon DEF Init, LogTop
<1>4. LogOK
  BY <1>1, <1>3 DEF Init, LogOK
<1>5. /\ replay_start.ok = TRUE /\ replay_start.state = state_alloc
      /\ replay_start.next_lease = 1 /\ Sound(replay_start)
  BY ClosedType DEF replay_start, Sound, Ids
<1>6. DOMAIN hist = 0..0 /\ hist[0] = replay_start
  BY SMTT(60) DEF Init
<1>7. HistOK
  BY <1>3, <1>5, <1>6, SMTT(60) DEF HistOK
<1>8. MsgsOK
  BY <1>3, <1>5, <1>6, ClosedType, SMTT(60) DEF MsgsOK
<1>9. MemoryOK
  BY Zenon DEF Init, MemoryOK, ClosedOK, ReplayOK, IdleOK, HeaderOK, StaleOK, TodoOK
<1>10. CallersOK
  <2>1. Durable = replay_start
    BY <1>1, <1>6, Zenon DEF Durable, Init
  <2> QED
    BY <1>5, <2>1, ClosedType, Zenon DEF Init, CallersOK, Keeps
<1> QED
  BY <1>2, <1>4, <1>7, <1>8, <1>9, <1>10, Zenon DEF IInv, Init

\* Replay refuses nothing the library wrote.
LEMMA OpenRefuseNever ==
  ASSUME IInv, OpenRefuse
  PROVE  FALSE
<1> DEFINE k == db.log_end
           rec == disk.log[pos + 1].rec
<1>1. pc = "replay" /\ pos < k /\ ~replay_check(db.state, rec)
  BY Zenon DEF OpenRefuse
<1>2. k \in Nat /\ pos \in Nat /\ LogTop = k /\ db.state = hist[pos].state
  BY <1>1, Zenon DEF IInv, TypeOK, LogTop, MemoryOK, ReplayOK
<1> HIDE DEF k
<1>3. pos + 1 \in 1..k /\ (pos + 1) - 1 = pos
  BY <1>1, <1>2, SMTT(60)
<1>4. Applied(hist[pos], hist[pos + 1], rec, pos + 1)
  BY <1>2, <1>3, Zenon DEF IInv, HistOK
<1> QED
  BY <1>1, <1>2, <1>4, Zenon DEF Applied

-----------------------------------------------------------------------------
(* A handle between two calls.                                             *)

\* Between two calls of a handle that did not fail.
Ready == pc \in {"idle", "expire"} /\ ~stale

\* A handle a call can be made on is exactly the history's newest state.
LEMMA ReadyState ==
  ASSUME IInv, Ready
  PROVE  /\ WellFormed(db.state)
         /\ db.next_lease \in Ids /\ db.next_msg \in Ids
         /\ \A l \in DOMAIN db.state.leases : l < db.next_lease
         /\ \A m \in DOMAIN db.state.msgs : m < db.next_msg
         /\ acking \subseteq Ids
<1> DEFINE k == db.log_end
<1>1. /\ k \in Nat /\ db.next_msg \in Ids /\ acking \subseteq Ids
      /\ db.state = hist[k].state /\ db.next_lease = hist[k].next_lease
      /\ LogTop = k
  BY Zenon DEF IInv, TypeOK, Ready, MemoryOK, IdleOK, LogTop
<1> HIDE DEF k
<1>2. k \in 0..k
  BY <1>1, SMTT(60)
<1>3. Sound(hist[k])
  BY <1>1, <1>2, Zenon DEF IInv, HistOK
<1>4. ASSUME NEW m \in DOMAIN db.state.msgs
      PROVE  m < db.next_msg
  <2>1. MsgOK(k, m)
    BY <1>1, <1>2, Zenon DEF IInv, MsgsOK
  <2> QED
    BY <2>1, Zenon DEF MsgOK, IdOK, Ready
<1> QED
  BY <1>1, <1>3, <1>4, Zenon DEF Sound

\* A step that changes nothing preserves the invariant.
LEMMA StutterInv ==
  ASSUME IInv, UNCHANGED vars
  PROVE  IInv'
<1>1. /\ UNCHANGED <<disk, pc, db, op, pos, todo, stale, refused, hist>>
      /\ UNCHANGED <<pushed, handed, acking, acked, returned>>
  BY Zenon DEF vars, engine, history
<1>2. TypeOK'
  BY <1>1, Zenon DEF IInv, TypeOK
<1>3. LogOK' /\ HistOK' /\ MsgsOK'
  BY <1>1, LogFrame, Zenon
<1>4. MemoryOK' /\ CallersOK'
  BY <1>1, Zenon DEF IInv, MemoryOK, ClosedOK, ReplayOK, IdleOK, HeaderOK, StaleOK,
              TodoOK, CallersOK, Durable
<1> QED
  BY <1>1, <1>2, <1>3, <1>4, Zenon DEF IInv

-----------------------------------------------------------------------------
(* The steps, and the theorems.                                            *)

\* A step of qdb_open keeps IInv: creating the file, the header, the replay of
\* one record after the other, the success and the refusals.
LEMMA OpenInv ==
  IInv /\ Open => IInv'
\* A file that was never given a header holds no record.
<1>CreateInv.
    ASSUME IInv, OpenCreate \/ OpenCreateTorn
    PROVE  IInv'
  <2> USE <1>CreateInv
  <2>1. /\ pc = "closed" /\ disk.kind = "none"
        /\ UNCHANGED <<op, pos, todo, stale, refused, hist>>
        /\ UNCHANGED <<pushed, handed, acking, acked, returned>>
        /\ ~stale
    BY Zenon DEF IInv, MemoryOK, StaleOK, OpenCreate, OpenCreateTorn, history
  <2>2. disk.log_end = 0 /\ LogTop = 0 /\ db = Closed
    BY <2>1, Zenon DEF IInv, LogOK, LogTop, MemoryOK, ClosedOK
  <2>3. /\ DOMAIN hist = 0..0 /\ hist[0] = replay_start /\ Sound(hist[0])
        /\ Keeps(hist[0], pushed, acked, handed, returned)
    BY <2>2, SMTT(60) DEF IInv, HistOK, CallersOK, Durable
  <2>4. /\ disk' \in [kind : {"none", "short", "db"}, log : Seq(Entry),
                      log_end : Nat, next_msg : Ids]
        /\ disk'.log_end = 0
        /\ disk'.kind # "db" => pc' = "closed"
        /\ pc' \in {"closed", "idle"}
        /\ db' = Closed
        /\ pc' = "idle" => disk'.next_msg = 1
    <3>1. CASE OpenCreate
      <4>1. disk' = [kind |-> "db", log |-> << >>, log_end |-> 0, next_msg |-> 1]
        BY <3>1, Zenon DEF OpenCreate, NoFile
      <4>2. 1 \in Ids /\ << >> \in Seq(Entry)
        BY DEF Ids
      <4>3. pc' = "idle" /\ db' = Closed
        BY <3>1, Zenon DEF OpenCreate
      <4> QED
        BY <4>1, <4>2, <4>3, Zenon
    <3>2. CASE OpenCreateTorn
      BY <2>1, <2>2, <3>2, Zenon DEF OpenCreateTorn, IInv, TypeOK
    <3> QED
      BY <3>1, <3>2, Zenon
  <2>5. LogTop' = 0
    BY <2>4, ClosedType, Zenon DEF LogTop
  <2>6. replay_start.state = state_alloc /\ replay_start.next_lease = 1
    BY Zenon DEF replay_start
  <2>7. LogOK'
    BY <2>4, <2>5, SMTT(60) DEF LogOK
  <2>8. HistOK'
    BY <2>1, <2>3, <2>5, SMTT(60) DEF HistOK
  <2>9. MsgsOK'
    BY <2>1, <2>3, <2>5, <2>6, ClosedType, SMTT(60) DEF MsgsOK
  <2>10. TypeOK'
    <3>1. 1 \in Ids /\ 0 \in Nat
      BY SMTT(60) DEF Ids
    <3> QED
      BY <2>1, <2>4, <3>1, ClosedType, Zenon DEF IInv, TypeOK
  <2>11. MemoryOK'
    BY <2>1, <2>3, <2>4, <2>6, ClosedType, ZenonT(40)
       DEF MemoryOK, ClosedOK, ReplayOK, IdleOK, HeaderOK, StaleOK, TodoOK
  <2>12. CallersOK'
    BY <2>1, <2>3, <2>4, Zenon DEF CallersOK, Durable
  <2> QED
    BY <2>1, <2>7, <2>8, <2>9, <2>10, <2>11, <2>12, Zenon DEF IInv
\* An open that refuses a torn header preserves the invariant.
<1>OpenShortInv.
    ASSUME IInv, OpenShort
    PROVE  IInv'
  <2> USE <1>OpenShortInv
  <2>1. /\ refused' = "header"
        /\ UNCHANGED <<disk, pc, db, op, pos, todo, stale, hist>>
        /\ UNCHANGED <<pushed, handed, acking, acked, returned>>
    BY Zenon DEF OpenShort, history
  <2>2. TypeOK'
    BY <2>1, Zenon DEF IInv, TypeOK
  <2>3. LogOK' /\ HistOK' /\ MsgsOK'
    BY <2>1, LogFrame, Zenon
  <2>4. MemoryOK' /\ CallersOK'
    BY <2>1, Zenon DEF IInv, MemoryOK, ClosedOK, ReplayOK, IdleOK, HeaderOK, StaleOK,
                TodoOK, CallersOK, Durable
  <2> QED
    BY <2>1, <2>2, <2>3, <2>4, Zenon DEF IInv
\* Every record the header covers has its marker: nothing is cut off.
<1>OpenBeginInv.
    ASSUME IInv, OpenBegin
    PROVE  IInv'
  <2> USE <1>OpenBeginInv
  <2> DEFINE k == disk.log_end
  <2>1. /\ disk \in [kind : {"none", "short", "db"}, log : Seq(Entry),
                     log_end : Nat, next_msg : Ids]
        /\ k \in Nat /\ LogTop = k /\ k <= Len(disk.log)
        /\ \A i \in 1..k : disk.log[i].mark = TRUE
        /\ DOMAIN hist = 0..k /\ hist[0] = replay_start
    BY Zenon DEF OpenBegin, IInv, TypeOK, LogOK, LogTop, HistOK
  <2>2. Valid(disk.log, k) = k
    BY <2>1, Zenon DEF Valid
  <2>3. /\ disk' = [disk EXCEPT !.log = SubSeq(@, 1, k), !.log_end = k]
        /\ db' = [Closed EXCEPT !.next_msg = disk.next_msg, !.log_end = k]
        /\ hist' = Restrict(hist, 0..k)
        /\ pc' = "replay" /\ pos' = 0 /\ stale' = FALSE
        /\ pc = "closed" /\ disk.kind = "db"
        /\ UNCHANGED <<op, todo, refused>>
        /\ UNCHANGED <<pushed, handed, acking, acked, returned>>
    BY <2>2, Zenon DEF OpenBegin, history
  <2> HIDE DEF k
  <2> DEFINE new == SubSeq(disk.log, 1, k)
  <2>4. new \in Seq(Entry) /\ Len(new) = k /\ \A i \in 1..k : new[i] = disk.log[i]
    BY <2>1, LogCut, Zenon
  <2>5. disk' = [disk EXCEPT !.log = new, !.log_end = k]
    BY <2>3, Zenon
  <2> HIDE DEF new
  <2>6. /\ disk' \in [kind : {"none", "short", "db"}, log : Seq(Entry),
                      log_end : Nat, next_msg : Ids]
        /\ disk'.kind = "db" /\ disk'.log = new /\ disk'.log_end = k
        /\ disk'.next_msg = disk.next_msg
    BY <2>1, <2>3, <2>4, <2>5, Zenon
  <2>7. /\ DOMAIN db' = {"state", "next_msg", "next_lease", "log_end"}
        /\ db'.state = state_alloc /\ db'.next_msg = disk.next_msg
        /\ db'.next_lease = 1 /\ db'.log_end = k
    BY <2>3, ClosedType, Zenon
  <2>8. LogTop' = k
    BY <2>3, <2>7, Zenon DEF LogTop
  <2>9. DOMAIN hist' = 0..k /\ \A n \in 0..k : hist'[n] = hist[n]
    BY <2>1, <2>3, Zenon DEF Restrict
  <2>10. disk.next_msg \in Ids /\ disk.next_msg <= disk.next_msg /\ k <= k
    BY <2>1 DEF Ids
  <2>11. LogOK'
    BY <2>1, <2>3, <2>4, <2>6, <2>8, <2>10 DEF LogOK
  <2>12. HistOK'
    BY <2>1, <2>4, <2>6, <2>8, <2>9, <2>10, HistFrame, Zenon
  <2>13. MsgsOK'
    BY <2>1, <2>3, <2>4, <2>6, <2>7, <2>8, <2>9, <2>10, MsgsFrame, Zenon DEF k, CountersKept
  <2>14. TypeOK'
    <3>1. 1 \in Ids /\ 0 \in Nat
      BY DEF Ids
    <3> QED
      BY <2>1, <2>3, <2>6, <2>7, <2>10, <3>1, ClosedType, Zenon DEF IInv, TypeOK
  <2>15. MemoryOK'
    <3>1. hist'[0] = replay_start /\ 0 <= k
      BY <2>1, <2>9
    <3>2. replay_start.state = state_alloc /\ replay_start.next_lease = 1
      BY Zenon DEF replay_start
    <3>3. ReplayOK'
      BY <2>3, <2>6, <2>7, <2>10, <3>1, <3>2, Zenon DEF ReplayOK
    <3> QED
      BY <2>3, <3>3, Zenon DEF MemoryOK, ClosedOK, IdleOK, HeaderOK, StaleOK, TodoOK
  <2>16. CallersOK'
    <3>1. Durable' = Durable
      BY <2>1, <2>6, <2>9 DEF Durable, k
    <3> QED
      BY <2>3, <3>1, Zenon DEF IInv, CallersOK
  <2> QED
    BY <2>3, <2>11, <2>12, <2>13, <2>14, <2>15, <2>16, Zenon DEF IInv
\* The next record is applied as it was when it was written.
<1>OpenReplayInv.
    ASSUME IInv, OpenReplay
    PROVE  IInv'
  <2> USE <1>OpenReplayInv
  <2> DEFINE k == db.log_end
             rec == disk.log[pos + 1].rec
             nm == replay_next_msg(db.next_msg, rec)
  <2>1. /\ pc = "replay" /\ pos < k /\ pos' = pos + 1 /\ replay_check(db.state, rec)
        /\ UNCHANGED <<disk, pc, op, todo, stale, refused, hist>>
        /\ UNCHANGED <<pushed, handed, acking, acked, returned>>
    BY Zenon DEF OpenReplay, history
  <2>2. /\ DOMAIN db = {"state", "next_msg", "next_lease", "log_end"}
        /\ k \in Nat /\ pos \in Nat /\ disk.log \in Seq(Entry)
        /\ db.next_msg \in Ids /\ disk.next_msg \in Ids
    BY Zenon DEF IInv, TypeOK
  <2>3. /\ db'.state = replay_step(db.state, rec, pos + 1)
        /\ db'.next_lease = replay_next_lease(db.next_lease, rec)
        /\ db'.next_msg = nm /\ db'.log_end = k
        /\ DOMAIN db' = DOMAIN db
    BY <2>2, Zenon DEF OpenReplay
  <2>4. /\ LogTop = k /\ LogTop' = k /\ k <= Len(disk.log)
    BY <2>1, <2>3, Zenon DEF IInv, LogOK, LogTop
  <2> HIDE DEF k
  <2>5. disk.log[pos + 1] \in Entry
    BY <2>1, <2>2, <2>4
  <2>6. rec \in Record
    BY <2>5, Zenon DEF Entry
  <2>7. pos + 1 \in 1..k /\ pos + 1 \in 0..k /\ (pos + 1) - 1 = pos
    <3>1. pos \in Nat /\ k \in Nat /\ pos < k
      BY <2>1, <2>2, Zenon
    <3> QED
      BY <3>1
  <2>8. Applied(hist[pos], hist[pos + 1], rec, pos + 1) /\ Sound(hist[pos + 1])
    BY <2>4, <2>7, Zenon DEF IInv, HistOK
  <2> HIDE DEF rec
  <2>9. /\ db.state = hist[pos].state /\ db.next_lease = hist[pos].next_lease
        /\ disk.log_end = k /\ disk.next_msg <= db.next_msg /\ ~stale
    BY <2>1, Zenon DEF IInv, MemoryOK, ReplayOK, k
  <2>10. db'.state = hist[pos + 1].state /\ db'.next_lease = hist[pos + 1].next_lease
    BY <2>3, <2>8, <2>9, AppliedParts, SMTT(60)
  <2>11. nm \in Ids /\ db.next_msg <= nm
    <3>1. CASE rec.type = "PUSH"
      <4>1. rec.msg \in Ids
        BY <2>6, <3>1, Zenon DEF Record
      <4> QED
        BY <2>2, <3>1, <4>1 DEF replay_next_msg, Ids
    <3>2. CASE rec.type = "CHECKPOINT"
      <4>1. rec.next_msg \in Ids
        BY <2>6, <3>2, Zenon DEF Record
      <4> QED
        BY <2>2, <3>2, <4>1 DEF replay_next_msg, Ids
    <3>3. CASE rec.type \notin {"PUSH", "CHECKPOINT"}
      BY <2>2, <3>3, SMTT(60) DEF replay_next_msg, Ids
    <3> QED
      BY <3>1, <3>2, <3>3, Zenon
  <2> HIDE DEF nm
  <2>12. LogOK' /\ HistOK'
    BY <2>1, <2>4, Zenon DEF IInv, LogOK, HistOK
  <2>13. MsgsOK'
    <3>1. disk.next_msg <= disk.next_msg /\ k <= k
      BY <2>2, SMTT(60) DEF Ids
    <3> QED
      BY <2>1, <2>2, <2>3, <2>4, <2>11, <3>1, MsgsFrame, Zenon DEF CountersKept
  <2>14. TypeOK'
    <3>1. IsState(db'.state) /\ db'.next_lease \in Ids
      BY <2>8, <2>10, Zenon DEF Sound, WellFormed
    <3>2. TypeOK /\ pos' \in Nat
      BY <2>1, <2>2, SMTT(60) DEF IInv
    <3> QED
      BY <2>1, <2>2, <2>3, <2>11, <3>1, <3>2, Zenon DEF TypeOK
  <2>15. MemoryOK'
    <3>1. disk.next_msg <= nm
      BY <2>2, <2>9, <2>11 DEF Ids
    <3>2. pos' <= k /\ ~stale'
      <4>1. pos' = pos + 1 /\ UNCHANGED stale
        BY <2>1, Zenon
      <4>2. pos + 1 <= k
        BY <2>7, SMTT(60)
      <4> QED
        BY <2>9, <4>1, <4>2, Zenon
    <3>3. ReplayOK'
      BY <2>1, <2>3, <2>9, <2>10, <3>1, <3>2, ZenonT(40) DEF ReplayOK
    <3> QED
      BY <2>1, <2>9, <3>3, Zenon DEF MemoryOK, ClosedOK, IdleOK, HeaderOK, StaleOK, TodoOK
  <2>16. CallersOK'
    BY <2>1, ZenonT(40) DEF IInv, CallersOK, Durable
  <2> QED
    BY <2>1, <2>12, <2>13, <2>14, <2>15, <2>16, Zenon DEF IInv
\* The end of the replay, and the header update after it, preserve the
\* invariant.
<1>OpenDoneInv.
    ASSUME IInv, OpenDone
    PROVE  IInv'
  <2> USE <1>OpenDoneInv
  <2>1. /\ pc = "replay" /\ pos = db.log_end /\ pc' = "idle" /\ pos' = 0
        /\ disk' = header_update(disk)
        /\ UNCHANGED <<db, op, todo, stale, refused, hist>>
        /\ UNCHANGED <<pushed, handed, acking, acked, returned>>
    BY Zenon DEF OpenDone, history
  <2>2. /\ disk.log_end = db.log_end /\ ~stale
        /\ db.state = hist[db.log_end].state
        /\ db.next_lease = hist[db.log_end].next_lease
    BY <2>1, Zenon DEF IInv, MemoryOK, ReplayOK
  <2>3. /\ disk' \in [kind : {"none", "short", "db"}, log : Seq(Entry),
                      log_end : Nat, next_msg : Ids]
        /\ disk'.log_end = db.log_end /\ disk'.next_msg = db.next_msg
        /\ LogOK' /\ HistOK' /\ MsgsOK'
    BY <2>1, HeaderWritten, Zenon
  <2>4. TypeOK'
    BY <2>1, <2>3, Zenon DEF IInv, TypeOK
  <2>5. MemoryOK'
    BY <2>1, <2>2, <2>3, ZenonT(40)
       DEF MemoryOK, ClosedOK, ReplayOK, IdleOK, HeaderOK, StaleOK, TodoOK
  <2>6. CallersOK'
    BY <2>1, <2>2, <2>3, Zenon DEF IInv, CallersOK, Durable
  <2> QED
    BY <2>1, <2>3, <2>4, <2>5, <2>6, Zenon DEF IInv
<1> SUFFICES ASSUME IInv, Open
             PROVE  IInv'
  BY Zenon
<1> QED
  BY <1>CreateInv, <1>OpenShortInv, <1>OpenBeginInv, <1>OpenReplayInv,
     OpenRefuseNever, <1>OpenDoneInv, Zenon DEF Open

\* A call that begins keeps IInv: whatever it appends passes the checks of
\* replay (qdb_push, qdb_pop, qdb_pop_any, qdb_ack, qdb_nack,
\* process_expired_leases).
LEMMA CallInv ==
  IInv /\ Call /\ ~RetryAfterError => IInv'
\* A record that passes the checks of its replay handler on the in-memory
\* state is appended: the history grows by a sound state
\* (qdb__append_record succeeds).
<1>AppendOk.
    ASSUME IInv, NEW rec \in Record, NEW nm \in Ids, NEW nl,
           AppendStep(rec, nm, nl)
    PROVE  IInv'
  <2> USE <1>AppendOk
  <2> DEFINE k == db.log_end
             r == hist[k]
             s == hist'[k + 1]
  <2>check. /\ replay_check(db.state, rec)
            /\ nl = replay_next_lease(db.next_lease, rec)
    BY Zenon DEF AppendStep
  <2>ids. nm >= db.next_msg /\ (rec.type = "PUSH" => rec.msg \in 1..MaxMsg /\ rec.msg < nm)
    BY Zenon DEF AppendStep
  <2>acks. acking \subseteq acking' /\ (rec.type = "ACK" => rec.msg \in acking')
    BY Zenon DEF AppendStep
  <2>walk. /\ pc # "closed" /\ ~stale
           /\ (rec.type = "EXPIRE" => todo \subseteq DOMAIN db.state.leases)
    BY Zenon DEF AppendStep
  <2>rest. acking' \subseteq Ids /\ UNCHANGED <<pushed, handed, acked, returned>>
    BY Zenon DEF AppendStep
  <2>1. /\ disk.log \in Seq(Entry) /\ k \in Nat
        /\ DOMAIN disk = {"kind", "log", "log_end", "next_msg"}
        /\ DOMAIN db = {"state", "next_msg", "next_lease", "log_end"}
    BY Zenon DEF IInv, TypeOK
  <2>2. /\ LogTop = k /\ k <= Len(disk.log) /\ disk.log_end = k
        /\ disk.next_msg = db.next_msg
        /\ db.state = r.state /\ db.next_lease = r.next_lease
    BY Zenon DEF IInv, LogOK, LogTop, MemoryOK, IdleOK, AppendStep
  <2>3. /\ disk'.kind = disk.kind /\ disk'.log_end = disk.log_end
        /\ disk'.next_msg = disk.next_msg
        /\ disk'.log = Append(SubSeq(disk.log, 1, k), Committed(rec))
        /\ DOMAIN disk' = DOMAIN disk
    BY <2>1, Zenon DEF AppendStep, append_ok
  <2>4. /\ db'.state = db.state /\ db'.next_msg = nm /\ db'.next_lease = nl
        /\ db'.log_end = k + 1 /\ DOMAIN db' = DOMAIN db
    BY <2>1, Zenon DEF AppendStep, append_ok
  <2>5. /\ op' = rec /\ pc' = "header"
        /\ UNCHANGED <<pos, todo, stale, refused>>
        /\ hist' = Put(hist, k + 1, replay_record(r, rec, k + 1))
    BY Zenon DEF AppendStep, append_ok
  <2> HIDE DEF k
  <2>6. /\ Committed(rec) \in Entry
        /\ Committed(rec).rec = rec /\ Committed(rec).mark = TRUE
    BY Zenon DEF Committed, Entry
  <2>7. /\ disk'.log \in Seq(Entry)
        /\ Len(disk'.log) = k + 1
        /\ disk'.log[k + 1] = Committed(rec)
        /\ \A i \in 1..k : disk'.log[i] = disk.log[i]
    BY <2>1, <2>2, <2>3, <2>6, LogAppend, SMTT(60)
  <2>8. LogTop' = k + 1
    BY <2>4, <2>5, Zenon DEF LogTop
  <2>9. /\ DOMAIN hist = 0..k /\ hist[0] = replay_start
        /\ \A i \in 1..k : Applied(hist[i - 1], hist[i], disk.log[i].rec, i)
        /\ \A n \in 0..k : Sound(hist[n])
    BY <2>2, Zenon DEF IInv, HistOK
  <2>10. /\ DOMAIN hist' = 0..k + 1
         /\ \A n \in 0..k : hist'[n] = hist[n]
         /\ s = replay_record(r, rec, k + 1)
    BY <2>1, <2>5, <2>9 DEF Put
  <2>11. Applied(r, s, rec, k + 1)
    <3>1. r.ok = TRUE
      BY <2>1, <2>9, SMTT(60) DEF Sound
    <3> QED
      BY <2>check, <2>2, <2>10, <3>1, Zenon DEF replay_record, Applied
  <2>12. /\ Sound(s) /\ Sound(r)
         /\ KeepsMsgs(r.state, rec, k + 1, s.state)
         /\ KeepsAcked(r.state, rec, s.state)
    <3>1. Sound(r)
      BY <2>1, <2>9, SMTT(60)
    <3> QED
      <4>1. k + 1 \in Nat /\ rec \in Record
        BY <2>1
      <4> QED
        BY <2>11, <3>1, <4>1, SoundStep, Zenon
  <2>13. s.next_lease = nl
    BY <2>check, <2>2, <2>11 DEF Applied
  <2> HIDE DEF r, s
  <2>14. LogOK'
    <3>1. (\A i \in 1..k : disk.log[i].mark = TRUE) /\ disk'.kind = "db"
      BY <2>walk, <2>2, <2>3, Zenon DEF IInv, LogOK
    <3>2. \A i \in 1..k : disk'.log[i].mark = TRUE
      BY <2>7, <3>1, Zenon
    <3>3. disk'.log[k + 1].mark = TRUE
      BY <2>6, <2>7, Zenon
    <3>4. \A i \in 1..k + 1 : i \in 1..k \/ i = k + 1
      BY <2>1
    <3>5. disk'.log_end <= k + 1
      BY <2>1, <2>2, <2>3
    <3>6. k + 1 <= Len(disk'.log)
      BY <2>1, <2>7
    <3> QED
      BY <2>8, <3>1, <3>2, <3>3, <3>4, <3>5, <3>6, Zenon DEF LogOK
  <2>15. HistOK'
    <3>1. ASSUME NEW i \in 1..k + 1
          PROVE  Applied(hist'[i - 1], hist'[i], disk'.log[i].rec, i)
      <4>1. CASE i \in 1..k
        <5>1. i - 1 \in 0..k /\ i \in 0..k
          BY <2>1, <4>1
        <5>2. hist'[i - 1] = hist[i - 1] /\ hist'[i] = hist[i]
          BY <2>10, <5>1, Zenon
        <5> QED
          BY <2>7, <2>9, <4>1, <5>2, Zenon
      <4>2. CASE i = k + 1
        <5>1. hist'[k] = r
          BY <2>1, <2>10 DEF r
        <5>3. i - 1 = k
          BY <2>1, <4>2
        <5>2. disk'.log[k + 1].rec = rec
          BY <2>6, <2>7, Zenon
        <5> QED
          BY <2>11, <4>2, <5>1, <5>2, <5>3, Zenon DEF s
      <4> QED
        BY <2>1, <4>1, <4>2
    <3>2. ASSUME NEW n \in 0..k + 1
          PROVE  Sound(hist'[n])
      <4>1. n \in 0..k \/ n = k + 1
        BY <2>1
      <4> QED
        BY <2>9, <2>10, <2>12, <4>1, Zenon DEF s
    <3>3. hist'[0] = replay_start
      BY <2>1, <2>9, <2>10
    <3> QED
      BY <2>8, <2>10, <3>1, <3>2, <3>3, Zenon DEF HistOK
  <2>16. MsgsOK'
    <3> SUFFICES ASSUME NEW n \in 0..k + 1, NEW m \in DOMAIN hist'[n].state.msgs
                 PROVE  MsgOK(n, m)'
      BY <2>8, Zenon DEF MsgsOK
    <3>1. ASSUME NEW j \in 0..k, NEW x \in DOMAIN hist[j].state.msgs
          PROVE  MsgOK(j, x)
      BY <2>2, <3>1, Zenon DEF IInv, MsgsOK
    <3>2. db.next_msg \in Nat /\ nm \in Nat /\ MaxMsg \in Nat
      BY EngineAssumption, Zenon DEF IInv, TypeOK, Ids
    <3>3. CASE n \in 0..k
      <4>1. hist'[n] = hist[n] /\ MsgOK(n, m)
        BY <2>10, <3>1, <3>3, Zenon
      <4> DEFINE msg == hist[n].state.msgs[m]
      <4>2. IdOK(n, m)
        BY <4>1, Zenon DEF MsgOK
      <4>3. IdOK(n, m)'
        <5>1. m \in 1..MaxMsg /\ m < nm
          BY <2>ids, <2>walk, <3>2, <4>2 DEF IdOK
        <5>2. n <= disk.log_end => m < disk.next_msg
          BY <4>2, Zenon DEF IdOK
        <5> QED
          BY <2>3, <2>4, <5>1, <5>2, Zenon DEF IdOK
      <4>4. msg.off \in 1..n /\ disk'.log[msg.off] = Committed(PushRec(m, msg.queue))
        <5>1. msg.off \in 1..n /\ disk.log[msg.off] = Committed(PushRec(m, msg.queue))
          BY <4>1, Zenon DEF MsgOK
        <5> HIDE DEF msg
        <5>2. msg.off \in 1..k
          BY <2>1, <3>3, <5>1, SMTT(60)
        <5> QED
          BY <2>7, <5>1, <5>2, Zenon
      <4>5. msg.state = "ACKED" => m \in acking'
        BY <2>acks, <4>1, Zenon DEF MsgOK
      <4> QED
        BY <4>1, <4>3, <4>4, <4>5, Zenon DEF MsgOK
    <3>4. CASE n = k + 1 /\ m \in DOMAIN r.state.msgs
      <4>1. hist'[n] = s /\ k \in 0..k
        BY <2>1, <3>4 DEF s
      <4>2. MsgOK(k, m)
        BY <3>1, <3>4, <4>1, Zenon DEF r
      <4>3. /\ s.state.msgs[m].queue = r.state.msgs[m].queue
            /\ s.state.msgs[m].off = r.state.msgs[m].off
            /\ s.state.msgs[m].state = "ACKED" =>
                 r.state.msgs[m].state = "ACKED" \/ (rec.type = "ACK" /\ m = rec.msg)
        BY <2>12, <3>4, Zenon DEF KeepsMsgs, KeepsAcked
      <4>4. s.state.msgs[m].state = "ACKED" => m \in acking'
        <5>1. r.state.msgs[m].state = "ACKED" => m \in acking
          BY <4>2, Zenon DEF MsgOK, r
        <5> QED
          BY <2>acks, <4>3, <5>1, Zenon
      <4>5. /\ s.state.msgs[m].off \in 1..n
            /\ disk'.log[s.state.msgs[m].off] =
                 Committed(PushRec(m, s.state.msgs[m].queue))
        <5> DEFINE at == r.state.msgs[m].off
                   name == r.state.msgs[m].queue
        <5>1. at \in 1..k /\ disk.log[at] = Committed(PushRec(m, name))
          BY <4>2, Zenon DEF MsgOK, r
        <5>2. s.state.msgs[m].off = at /\ s.state.msgs[m].queue = name
          BY <4>3, Zenon
        <5> HIDE DEF at, name
        <5>3. at \in 1..n
          BY <2>1, <3>4, <5>1, SMTT(60)
        <5>4. disk'.log[at] = disk.log[at]
          BY <2>7, <5>1, Zenon
        <5> QED
          BY <5>1, <5>2, <5>3, <5>4, Zenon
      <4>6. IdOK(n, m)'
        <5>1. IdOK(k, m)
          BY <4>2, Zenon DEF MsgOK
        <5>2. m \in 1..MaxMsg /\ m < db'.next_msg
          BY <2>ids, <2>walk, <2>4, <3>2, <5>1, SMTT(60) DEF IdOK
        <5>3. ~(n <= disk'.log_end)
          BY <2>1, <2>2, <2>3, <3>4, SMTT(60)
        <5> QED
          BY <5>2, <5>3, Zenon DEF IdOK
      <4> QED
        BY <4>1, <4>4, <4>5, <4>6, Zenon DEF MsgOK
    <3>5. CASE n = k + 1 /\ m \notin DOMAIN r.state.msgs
      <4>1. hist'[n] = s
        BY <3>5, Zenon DEF s
      <4>2. /\ rec.type = "PUSH" /\ m = rec.msg
            /\ s.state.msgs[m] = NewMsg(rec.queue, k + 1)
        BY <2>12, <3>5, <4>1, Zenon DEF KeepsMsgs
      <4>3. rec = PushRec(m, rec.queue)
        BY <4>2, Zenon DEF Record, PushRec
      <4>4. /\ s.state.msgs[m].off = k + 1 /\ s.state.msgs[m].queue = rec.queue
            /\ s.state.msgs[m].state = "PENDING"
        BY <4>2, SMTT(60) DEF NewMsg
      <4>5. /\ s.state.msgs[m].off \in 1..n
            /\ disk'.log[s.state.msgs[m].off] =
                 Committed(PushRec(m, s.state.msgs[m].queue))
        <5>1. k + 1 \in 1..n
          BY <2>1, <3>5, SMTT(60)
        <5>2. disk'.log[k + 1] = Committed(PushRec(m, rec.queue))
          BY <2>7, <4>3, Zenon
        <5> QED
          BY <4>4, <5>1, <5>2, Zenon
      <4>6. IdOK(n, m)'
        <5>1. m \in 1..MaxMsg /\ m < db'.next_msg
          BY <2>ids, <2>4, <4>2, Zenon
        <5>2. ~(n <= disk'.log_end)
          BY <2>1, <2>2, <2>3, <3>5, SMTT(60)
        <5> QED
          BY <5>1, <5>2, Zenon DEF IdOK
      <4> QED
        BY <4>1, <4>4, <4>5, <4>6, Zenon DEF MsgOK
    <3> QED
      BY <2>1, <3>3, <3>4, <3>5
  <2>17. TypeOK'
    <3>1. nl \in Ids
      BY <2>12, <2>13, Zenon DEF Sound
    <3>2. disk' \in [kind : {"none", "short", "db"}, log : Seq(Entry),
                     log_end : Nat, next_msg : Ids]
      <4>1. disk \in [kind : {"none", "short", "db"}, log : Seq(Entry),
                      log_end : Nat, next_msg : Ids]
        BY Zenon DEF IInv, TypeOK
      <4>2. disk' = [disk EXCEPT !.log = disk'.log]
        BY <4>1, Zenon DEF AppendStep, append_ok
      <4> QED
        BY <2>7, <4>1, <4>2, Zenon
    <3>3. TypeOK
      BY Zenon DEF IInv
    <3>4. db'.log_end \in Nat /\ DOMAIN db' = DOMAIN db
      BY <2>1, <2>4
    <3> QED
      BY <2>rest, <2>4, <2>5, <3>1, <3>2, <3>3, <3>4, Zenon DEF TypeOK
  <2>18. MemoryOK'
    <3>1. HeaderOK'
      <4>1. k \in 0..k
        BY <2>1
      <4>2. hist'[k] = hist[k]
        BY <2>10, <4>1, Zenon
      <4>3. disk'.log[k + 1].rec = rec
        BY <2>6, <2>7, Zenon
      <4>4. disk.next_msg <= nm /\ ~stale'
        BY <2>ids, <2>walk, <2>2, <2>5, Zenon
      <4> QED
        BY <2>2, <2>3, <2>4, <2>5, <2>13, <4>2, <4>3, <4>4, ZenonT(40) DEF HeaderOK, r, s
    <3>2. ClosedOK' /\ ReplayOK' /\ IdleOK' /\ StaleOK'
      BY <2>walk, <2>5, Zenon DEF ClosedOK, ReplayOK, IdleOK, StaleOK
    <3>3. TodoOK'
      BY <2>walk, <2>4, <2>5, Zenon DEF TodoOK
    <3> QED
      BY <3>1, <3>2, <3>3, Zenon DEF MemoryOK
  <2>19. CallersOK'
    <3>1. Durable' = Durable
      <4>1. disk'.log_end = disk.log_end /\ disk.log_end \in 0..k
        BY <2>1, <2>2, <2>3, SMTT(60)
      <4> QED
        BY <2>10, <4>1, SMTT(60) DEF Durable
    <3> QED
      BY <2>rest, <3>1, Zenon DEF IInv, CallersOK
  <2> QED
    BY <2>5, <2>14, <2>15, <2>16, <2>17, <2>18, <2>19, Zenon DEF IInv
\* The append fails: what is left behind log_end is not accounted for.
<1>AppendFail.
    ASSUME IInv, NEW rec \in Record,
           pc \in {"idle", "expire"}, ~stale,
           append_fail(rec),
           acking \subseteq acking', acking' \subseteq Ids,
           UNCHANGED <<pushed, handed, acked, returned>>
    PROVE  IInv'
  <2> USE <1>AppendFail
  <2> DEFINE k == db.log_end
  <2>1. /\ disk.log \in Seq(Entry) /\ k \in Nat
        /\ disk \in [kind : {"none", "short", "db"}, log : Seq(Entry),
                     log_end : Nat, next_msg : Ids]
    BY Zenon DEF IInv, TypeOK
  <2>2. LogTop = k /\ k <= Len(disk.log) /\ disk.log_end = k
    BY Zenon DEF IInv, LogOK, LogTop, MemoryOK, IdleOK
  <2>3. pc' = "idle" /\ todo' = {} /\ UNCHANGED <<db, op, pos, stale, refused, hist>>
    BY Zenon DEF append_fail
  <2>12. SameUpTo(disk', k)
    <3>1. CASE UNCHANGED disk
      BY <2>1, <2>2, <3>1, Zenon DEF SameUpTo
    <3>2. ASSUME NEW b \in BOOLEAN,
                 disk' = [disk EXCEPT !.log = Append(SubSeq(disk.log, 1, k),
                                                     [rec |-> rec, mark |-> b])]
          PROVE  SameUpTo(disk', k)
      <4> DEFINE e == [rec |-> rec, mark |-> b]
      <4>1. e \in Entry
        BY Zenon DEF Entry
      <4> HIDE DEF e
      <4> DEFINE new == Append(SubSeq(disk.log, 1, k), e)
      <4>2. /\ new \in Seq(Entry) /\ Len(new) = k + 1
            /\ \A i \in 1..k : new[i] = disk.log[i]
        BY <2>1, <2>2, <4>1, LogAppend
      <4>3. disk' = [disk EXCEPT !.log = new]
        BY <3>2, Zenon DEF e
      <4> HIDE DEF new
      <4>4. /\ disk'.kind = disk.kind /\ disk'.log_end = disk.log_end
            /\ disk'.next_msg = disk.next_msg /\ disk'.log = new
            /\ disk' \in [kind : {"none", "short", "db"}, log : Seq(Entry),
                          log_end : Nat, next_msg : Ids]
        BY <2>1, <4>2, <4>3, Zenon
      <4>5. k <= Len(new)
        BY <2>1, <4>2, SMTT(60)
      <4> QED
        BY <4>2, <4>4, <4>5, Zenon DEF SameUpTo
    <3> QED
      BY <3>1, <3>2, Zenon DEF append_fail
  <2>4. /\ disk' \in [kind : {"none", "short", "db"}, log : Seq(Entry),
                      log_end : Nat, next_msg : Ids]
        /\ disk'.kind = disk.kind /\ disk'.log_end = disk.log_end
        /\ disk'.next_msg = disk.next_msg
        /\ k <= Len(disk'.log)
        /\ \A i \in 1..k : disk'.log[i] = disk.log[i]
    BY <2>12, Zenon DEF SameUpTo
  <2>5. LogTop' = k
    BY <2>3, Zenon DEF LogTop
  <2> HIDE DEF k
  <2>6. LogOK'
    BY <2>1, <2>2, <2>3, <2>4, <2>5, ZenonT(40) DEF IInv, LogOK
  <2>7. HistOK'
    <3>1. DOMAIN hist = 0..k
      BY <2>2, Zenon DEF IInv, HistOK
    <3> QED
      BY <2>1, <2>2, <2>3, <2>4, <2>5, <3>1, HistFrame, SMTT(60)
  <2>8. MsgsOK'
    <3>1. disk.next_msg \in Ids /\ db.next_msg \in Ids
      BY Zenon DEF IInv, TypeOK
    <3>2. disk.next_msg <= disk.next_msg /\ db.next_msg <= db.next_msg /\ k <= k
      BY <2>1, <3>1, SMTT(60) DEF Ids
    <3>3. CountersKept
      BY <2>3, <2>4, <3>1, <3>2, Zenon DEF CountersKept
    <3> QED
      BY <2>1, <2>2, <2>3, <2>4, <2>5, <3>2, <3>3, MsgsFrame, Zenon
  <2>9. TypeOK'
    BY <2>3, <2>4, Zenon DEF IInv, TypeOK
  <2>10. MemoryOK'
    BY <2>2, <2>3, <2>4, Zenon DEF IInv, MemoryOK, ClosedOK, ReplayOK, IdleOK, HeaderOK,
                            StaleOK, TodoOK
  <2>11. CallersOK'
    BY <2>3, <2>4, ZenonT(40) DEF IInv, CallersOK, Keeps, Durable
  <2> QED
    BY <2>3, <2>6, <2>7, <2>8, <2>9, <2>10, <2>11, Zenon DEF IInv
\* The append of qdb_push, whether it succeeds or not, preserves the
\* invariant.
<1>PushInv.
    ASSUME IInv, NEW q \in Queues, qdb_push(q), ~RetryAfterError
    PROVE  IInv'
  <2> USE <1>PushInv
  <2> DEFINE m == db.next_msg
             rec == PushRec(m, q)
  <2>1. /\ Ready /\ m <= MaxMsg
        /\ append_ok(rec, m + 1, db.next_lease) \/ append_fail(rec)
        /\ UNCHANGED <<pushed, handed, acking, acked, returned>>
    BY Zenon DEF qdb_push, CanCall, Ready, history
  <2>2. /\ m \in Ids /\ m \notin DOMAIN db.state.msgs /\ db.next_lease \in Ids
        /\ acking \subseteq Ids
    <3>1. \A x \in DOMAIN db.state.msgs : x < m
      BY <2>1, ReadyState, Zenon
    <3>2. m \in Ids /\ db.next_lease \in Ids /\ acking \subseteq Ids
      BY <2>1, ReadyState, Zenon
    <3> HIDE DEF m
    <3>3. \A x \in Ids : ~(x < x)
      BY DEF Ids
    <3> QED
      BY <3>1, <3>2, <3>3, Zenon
  <2>3. m + 1 \in Ids /\ m + 1 >= m /\ m < m + 1 /\ m \in 1..MaxMsg
    <3>1. m \in Ids /\ m <= MaxMsg /\ MaxMsg \in Nat
      BY <2>1, <2>2, EngineAssumption, Zenon
    <3> HIDE DEF m
    <3> QED
      BY <3>1, SMTT(60) DEF Ids
  <2> HIDE DEF m
  <2>4. rec \in Record /\ rec.type = "PUSH" /\ rec.msg = m
    BY <2>2, Zenon DEF PushRec, Record
  <2> HIDE DEF rec
  <2>5. replay_check(db.state, rec)
    BY <2>2, <2>4, Zenon DEF replay_check, Ids
  <2>6. db.next_lease = replay_next_lease(db.next_lease, rec)
    BY <2>2, <2>4, NextLease, Zenon
  <2>7. CASE append_fail(rec)
    BY <2>1, <2>2, <2>4, <2>7, <1>AppendFail, ZenonT(40) DEF Ready
  <2>8. CASE append_ok(rec, m + 1, db.next_lease)
    <3>1. rec.type # "EXPIRE" /\ rec.type # "ACK"
      BY <2>4, Zenon
    <3> QED
      BY <2>1, <2>2, <2>3, <2>4, <2>5, <2>6, <2>8, <3>1, <1>AppendOk, Zenon DEF Ready, AppendStep, m
  <2> QED
    BY <2>1, <2>7, <2>8, Zenon
\* The head of a list is a pending message, and the lease id is new.
<1>PopInv.
    ASSUME IInv, Ready, NEW q \in Poppable, do_pop(HeadOf(q)),
           UNCHANGED <<pushed, handed, acking, acked, returned>>
    PROVE  IInv'
  <2> USE <1>PopInv
  <2> DEFINE m == HeadOf(q)
             l == db.next_lease
             s == db.state.queues[q].pending
  <2>1. PICK now \in Times :
          LET rec == LeaseRec(m, l, now + Timeout)
          IN  append_ok(rec, db.next_msg, l + 1) \/ append_fail(rec)
    BY Zenon DEF do_pop
  <2> DEFINE e == now + Timeout
             rec == LeaseRec(m, l, e)
  <2>2. /\ WellFormed(db.state) /\ l \in Ids /\ db.next_msg \in Ids
        /\ \A x \in DOMAIN db.state.leases : x < l
        /\ acking \subseteq Ids
    BY ReadyState, Zenon
  <2>3. q \in DOMAIN db.state.queues /\ s # << >>
    BY Zenon DEF Poppable
  <2>4. s \in Seq(Ids) /\ Range(s) = InQueue(db.state, q, "PENDING")
    <3>1. db.state.queues[q] \in Queue
      BY <2>2, <2>3, Zenon DEF WellFormed, IsState
    <3>2. s \in Seq(Ids)
      BY <3>1, Zenon DEF Queue
    <3>3. Range(s) = InQueue(db.state, q, "PENDING")
      BY <2>2, <2>3, Zenon DEF WellFormed, ListsExact
    <3> QED
      BY <3>2, <3>3, Zenon
  <2>5. m = Head(s)
    BY Zenon DEF HeadOf
  <2> HIDE DEF s, m
  <2>6. m \in Range(s)
    <3>1. s # << >>
      BY <2>3, Zenon DEF s
    <3>2. s \in Seq(Ids)
      BY <2>4, Zenon
    <3>3. 1 \in DOMAIN s /\ m = s[1]
      BY <2>5, <3>1, <3>2, SMTT(60)
    <3> QED
      BY <3>3, Zenon DEF Range
  <2>7. /\ m \in DOMAIN db.state.msgs /\ db.state.msgs[m].state = "PENDING"
        /\ db.state.msgs[m].queue = q
    BY <2>4, <2>6, Zenon DEF InQueue
  <2>8. m \in Ids /\ e \in Nat /\ l \notin DOMAIN db.state.leases
    <3>1. m \in Ids
      BY <2>2, <2>7, Zenon DEF WellFormed, IsState
    <3>2. e \in Nat
      BY EngineAssumption, SMTT(60)
    <3>3. l \notin DOMAIN db.state.leases
      BY <2>2, SMTT(60) DEF Ids
    <3> QED
      BY <3>1, <3>2, <3>3, Zenon
  <2> HIDE DEF e
  <2>9. /\ rec \in Record /\ rec.type = "LEASE" /\ rec.msg = m
        /\ rec.lease = l
    BY <2>2, <2>8, Zenon DEF LeaseRec, Record
  <2>10. append_ok(rec, db.next_msg, l + 1) \/ append_fail(rec)
    BY <2>1, Zenon DEF e
  <2> HIDE DEF rec
  <2>11. replay_check(db.state, rec)
    <3>1. rec.lease # 0
      BY <2>2, <2>9, Zenon DEF Ids
    <3> QED
      BY <2>3, <2>7, <2>8, <2>9, <3>1, Zenon DEF replay_check
  <2>12. l + 1 = replay_next_lease(db.next_lease, rec)
    BY <2>2, <2>9, NextLease, ZenonT(40)
  <2>13. CASE append_fail(rec)
    BY <2>2, <2>9, <2>13, <1>AppendFail, ZenonT(40) DEF Ready
  <2>14. CASE append_ok(rec, db.next_msg, l + 1)
    <3>1. rec.type # "PUSH" /\ rec.type # "EXPIRE" /\ rec.type # "ACK"
      BY <2>9, Zenon
    <3>2. db.next_msg >= db.next_msg
      <4>1. db.next_msg \in Ids
        BY <2>2, ZenonT(40)
      <4> QED
        BY <4>1, SMTT(60) DEF Ids
    <3> QED
      BY <2>2, <2>9, <2>11, <2>12, <2>14, <3>1, <3>2, <1>AppendOk, ZenonT(40) DEF Ready, AppendStep
  <2> QED
    BY <2>10, <2>13, <2>14, Zenon
\* A record that ends a lease the message is held under.
<1>EndInv.
    ASSUME IInv, Ready, NEW rec \in Record,
           rec.type \in {"ACK", "NACK", "EXPIRE"},
           LeasedUnder(rec.msg, rec.lease),
           append_ok(rec, db.next_msg, db.next_lease) \/ append_fail(rec),
           rec.type = "EXPIRE" => todo \subseteq DOMAIN db.state.leases,
           acking \subseteq acking', acking' \subseteq Ids,
           rec.type = "ACK" => rec.msg \in acking',
           UNCHANGED <<pushed, handed, acked, returned>>
    PROVE  IInv'
  <2> USE <1>EndInv
  <2>1. /\ WellFormed(db.state) /\ db.next_lease \in Ids /\ db.next_msg \in Ids
    BY ReadyState, Zenon
  <2>2. /\ rec.msg \in DOMAIN db.state.msgs
        /\ db.state.msgs[rec.msg].state = "LEASED"
        /\ db.state.msgs[rec.msg].lease = rec.lease
        /\ db.state.msgs[rec.msg].queue \in DOMAIN db.state.queues
    BY <2>1, Zenon DEF LeasedUnder, WellFormed, ListsExact
  <2>3. replay_check(db.state, rec)
    BY <2>2, ZenonT(40) DEF replay_check
  <2>4. db.next_lease = replay_next_lease(db.next_lease, rec)
    BY <2>1, NextLease, Zenon
  <2>5. CASE append_fail(rec)
    BY <2>5, <1>AppendFail, Zenon DEF Ready
  <2>6. CASE append_ok(rec, db.next_msg, db.next_lease)
    <3>1. db.next_msg >= db.next_msg /\ rec.type # "PUSH"
      BY <2>1, SMTT(60) DEF Ids
    <3> QED
      BY <2>1, <2>3, <2>4, <2>6, <3>1, <1>AppendOk, Zenon DEF Ready, AppendStep
  <2> QED
    BY <2>5, <2>6, Zenon
\* The append of qdb_ack preserves the invariant.
<1>AckInv.
    ASSUME IInv, NEW m \in 1..MaxMsg, NEW l \in 1..MaxLease, qdb_ack(m, l),
           ~RetryAfterError
    PROVE  IInv'
  <2> USE <1>AckInv
  <2> DEFINE rec == AckRec(m, l)
  <2>1. /\ Ready /\ LeasedUnder(m, l) /\ acking' = acking \cup {m}
        /\ append_ok(rec, db.next_msg, db.next_lease) \/ append_fail(rec)
        /\ UNCHANGED <<pushed, handed, acked, returned>>
    BY Zenon DEF qdb_ack, CanCall, Ready
  <2>2. m \in Ids /\ l \in Ids /\ acking \subseteq Ids
    BY <2>1, ReadyState, EngineAssumption, SMTT(60) DEF Ids
  <2>3. /\ rec \in Record /\ rec.type = "ACK" /\ rec.msg = m /\ rec.lease = l
    BY <2>2, Zenon DEF AckRec, Record
  <2> HIDE DEF rec
  <2> QED
    BY <2>1, <2>2, <2>3, <1>EndInv, Zenon
\* The append of qdb_nack preserves the invariant.
<1>NackInv.
    ASSUME IInv, NEW m \in 1..MaxMsg, NEW l \in 1..MaxLease, qdb_nack(m, l),
           ~RetryAfterError
    PROVE  IInv'
  <2> USE <1>NackInv
  <2> DEFINE rec == NackRec(m, l)
  <2>1. /\ Ready /\ LeasedUnder(m, l)
        /\ append_ok(rec, db.next_msg, db.next_lease) \/ append_fail(rec)
        /\ UNCHANGED <<pushed, handed, acking, acked, returned>>
    BY Zenon DEF qdb_nack, CanCall, Ready, history
  <2>2. m \in Ids /\ l \in Ids /\ acking \subseteq Ids
    BY <2>1, ReadyState, EngineAssumption, SMTT(60) DEF Ids
  <2>3. /\ rec \in Record /\ rec.type = "NACK" /\ rec.msg = m /\ rec.lease = l
    BY <2>2, Zenon DEF NackRec, Record
  <2> HIDE DEF rec
  <2> QED
    BY <2>1, <2>2, <2>3, <1>EndInv, Zenon
\* The append of expire_one preserves the invariant: the leases still to be
\* expired are still in the lease table.
<1>ExpireInv.
    ASSUME IInv, NEW l \in todo, expire_one(l)
    PROVE  IInv'
  <2> USE <1>ExpireInv
  <2> DEFINE m == db.state.leases[l].msg
             rec == ExpireRec(m, l)
  <2>1. /\ pc = "expire" /\ todo \subseteq DOMAIN db.state.leases /\ Ready
        /\ append_ok(rec, db.next_msg, db.next_lease) \/ append_fail(rec)
        /\ UNCHANGED <<pushed, handed, acking, acked, returned>>
    BY Zenon DEF expire_one, history, IInv, MemoryOK, TodoOK, StaleOK, Ready
  <2>2. /\ WellFormed(db.state) /\ acking \subseteq Ids
    BY <2>1, ReadyState, ZenonT(40)
  <2>3. LeasedUnder(m, l)
    BY <2>1, <2>2, ZenonT(40) DEF WellFormed, LeasesExact, LeasedUnder
  <2>4. m \in Ids /\ l \in Ids
    BY <2>1, <2>2, <2>3, ZenonT(40) DEF WellFormed, IsState, LeasedUnder
  <2> HIDE DEF m
  <2>5. /\ rec \in Record /\ rec.type = "EXPIRE" /\ rec.msg = m /\ rec.lease = l
    BY <2>4, Zenon DEF ExpireRec, Record
  <2> HIDE DEF rec
  <2> QED
    BY <2>1, <2>2, <2>3, <2>5, <1>EndInv, ZenonT(40)
\* The start of the walk of qdb_process_expired_leases preserves the
\* invariant.
<1>ProcessExpiredInv.
    ASSUME IInv, process_expired_leases, ~RetryAfterError
    PROVE  IInv'
  <2> USE <1>ProcessExpiredInv
  <2>1. /\ pc = "idle" /\ pc' = "expire" /\ ~stale
        /\ todo' \subseteq DOMAIN db.state.leases
        /\ UNCHANGED <<disk, db, op, pos, stale, refused, hist>>
        /\ UNCHANGED <<pushed, handed, acking, acked, returned>>
    BY Zenon DEF process_expired_leases, CanCall, history
  <2>2. TypeOK'
    <3>1. DOMAIN db.state.leases \subseteq Ids
      BY Zenon DEF IInv, TypeOK, IsState
    <3> QED
      BY <2>1, <3>1, Zenon DEF IInv, TypeOK
  <2>3. LogOK' /\ HistOK' /\ MsgsOK'
    BY <2>1, LogFrame, Zenon
  <2>4. MemoryOK' /\ CallersOK'
    BY <2>1, ZenonT(40) DEF IInv, MemoryOK, ClosedOK, ReplayOK, IdleOK, HeaderOK, StaleOK,
                TodoOK, CallersOK, Durable
  <2> QED
    BY <2>1, <2>2, <2>3, <2>4, Zenon DEF IInv
<1> SUFFICES ASSUME IInv, Call, ~RetryAfterError
             PROVE  IInv'
  BY Zenon
<1>1. ASSUME NEW q \in Queues, qdb_push(q) PROVE IInv'
  BY <1>1, <1>PushInv, Zenon
<1>2. ASSUME NEW q \in Queues, qdb_pop(q) PROVE IInv'
  BY <1>2, <1>PopInv, Zenon DEF qdb_pop, CanCall, Ready, history
<1>3. CASE qdb_pop_any
  BY <1>3, <1>PopInv, Zenon DEF qdb_pop_any, CanCall, Ready, history
<1>4. ASSUME NEW m \in 1..MaxMsg, NEW l \in 1..MaxLease,
             qdb_ack(m, l) \/ qdb_nack(m, l)
      PROVE  IInv'
  BY <1>4, <1>AckInv, <1>NackInv, Zenon
<1>5. CASE process_expired_leases
  BY <1>5, <1>ProcessExpiredInv, Zenon
<1>6. ASSUME NEW l \in todo, expire_one(l) PROVE IInv'
  BY <1>6, <1>ExpireInv, Zenon
<1> QED
  BY <1>1, <1>2, <1>3, <1>4, <1>5, <1>6, Zenon DEF Call

\* A call that ends keeps IInv: it applies to the memory what the replay of its
\* record would, or fails after the record is durable (sync_header_after_record
\* and what follows it).
LEMMA FinishInv ==
  IInv /\ Finish => IInv'
\* A call completes: the live code changes memory as replay would.
<1>Completed.
    ASSUME IInv, pc = "header", pc' \in {"idle", "expire"},
           disk' = header_update(disk),
           db' = [db EXCEPT !.state = replay_step(db.state, op, db.log_end)],
           op' = NoOp,
           UNCHANGED <<hist, pos, stale, refused, acking>>,
           todo' \subseteq Ids,
           pc' = "expire" => todo' \subseteq DOMAIN db'.state.leases,
           pushed' \subseteq Ids, acked' \subseteq Ids, handed' \subseteq Ids,
           returned' \in [1..MaxMsg -> Nat],
           Keeps(hist[db.log_end], pushed', acked', handed', returned')
    PROVE  IInv'
  <2> USE <1>Completed
  <2> DEFINE k == db.log_end
             n == replay_step(db.state, op, k)
  <2>1. DOMAIN db = {"state", "next_msg", "next_lease", "log_end"} /\ ~stale
    BY Zenon DEF IInv, TypeOK, MemoryOK, HeaderOK
  <2>2. /\ db'.state = n /\ db'.next_msg = db.next_msg
        /\ db'.next_lease = db.next_lease /\ db'.log_end = k
        /\ DOMAIN db' = DOMAIN db
    BY <2>1, Zenon
  <2>3. /\ disk' \in [kind : {"none", "short", "db"}, log : Seq(Entry),
                      log_end : Nat, next_msg : Ids]
        /\ disk'.log_end = k /\ disk'.next_msg = db.next_msg
        /\ LogOK' /\ HistOK' /\ MsgsOK'
    BY <2>2, HeaderWritten, Zenon
  <2>4. n = hist[k].state /\ Sound(hist[k]) /\ db.next_lease = hist[k].next_lease
    BY Pending DEF Applied, IInv, MemoryOK, HeaderOK
  <2> HIDE DEF n, k
  <2>5. IsState(n)
    BY <2>4, Zenon DEF Sound, WellFormed
  <2>6. TypeOK'
    BY <2>1, <2>2, <2>3, <2>5, Zenon DEF IInv, TypeOK
  <2>7. MemoryOK'
    <3>1. IdleOK'
      BY <2>2, <2>3, <2>4, Zenon DEF IdleOK
    <3>2. ClosedOK' /\ ReplayOK' /\ HeaderOK' /\ StaleOK' /\ TodoOK'
      BY <2>1, Zenon DEF ClosedOK, ReplayOK, HeaderOK, StaleOK, TodoOK
    <3> QED
      BY <3>1, <3>2, Zenon DEF MemoryOK
  <2>8. CallersOK'
    BY <2>3, Zenon DEF CallersOK, Durable, k
  <2> QED
    BY <2>3, <2>6, <2>7, <2>8, Zenon DEF IInv
\* qdb_push changes memory as replay_push does.
<1>PushAsReplay.
    ASSUME NEW st, NEW rec, rec.type = "PUSH", NEW off
    PROVE  push_apply(st, rec.msg, rec.queue, off) = replay_step(st, rec, off)
    BY <1>PushAsReplay, Zenon DEF push_apply, replay_step, replay_push
\* do_pop changes memory as replay_lease does.
<1>PopAsReplay.
    ASSUME NEW st, NEW rec, rec.type = "LEASE", NEW off
    PROVE  pop_apply(st, rec.msg, rec.lease, rec.expiry) = replay_step(st, rec, off)
    BY <1>PopAsReplay, Zenon DEF pop_apply, replay_step, replay_lease
\* qdb_ack changes memory as replay_ack does, in another order.
<1>AckAsReplay.
    ASSUME NEW st, IsState(st), NEW rec, rec.type = "ACK", NEW off
    PROVE  ack_apply(st, rec.msg, rec.lease) = replay_step(st, rec, off)
  <2> USE <1>AckAsReplay
  <2> DEFINE m == rec.msg
             msg == st.msgs[m]
             q == st.queues[msg.queue]
             ms == [st.msgs EXCEPT ![m] = [msg EXCEPT !.state = "ACKED",
                                                      !.lease = 0, !.expiry = 0]]
             qs == [st.queues EXCEPT ![msg.queue] =
                      [q EXCEPT !.leased = q.leased - 1, !.acked = q.acked + 1]]
             ls == lease_remove(st.leases, rec.lease)
  <2>1. /\ ack_apply(st, m, rec.lease) =
              [st EXCEPT !.queues = qs, !.leases = ls, !.msgs = ms]
        /\ replay_step(st, rec, off) =
              [st EXCEPT !.leases = ls, !.msgs = ms, !.queues = qs]
    BY Zenon DEF ack_apply, replay_step, replay_ack, IsState
  <2> HIDE DEF ms, qs, ls, m
  <2>2. [st EXCEPT !.queues = qs, !.leases = ls, !.msgs = ms] =
          [st EXCEPT !.leases = ls, !.msgs = ms, !.queues = qs]
    BY Zenon DEF IsState
  <2> QED
    BY <2>1, <2>2, Zenon DEF m
\* qdb_nack and expire_one change memory as replay_nack does.
<1>NackAsReplay.
    ASSUME NEW st, NEW rec, rec.type \in {"NACK", "EXPIRE"}, NEW off
    PROVE  nack_apply(st, rec.msg, rec.lease) = replay_step(st, rec, off)
    BY <1>NackAsReplay, Zenon DEF nack_apply, replay_step, replay_nack
\* The second half of qdb_push preserves the invariant.
<1>FinishPushInv.
    ASSUME IInv, FinishPush
    PROVE  IInv'
  <2> USE <1>FinishPushInv
  <2>1. /\ pc = "header" /\ op.type = "PUSH" /\ disk' = header_update(disk)
        /\ op' = NoOp /\ pc' = "idle"
        /\ UNCHANGED <<hist, pos, stale, refused, acking, todo>>
        /\ UNCHANGED <<handed, acked, returned>>
        /\ pushed' = pushed \cup {op.msg}
    BY Zenon DEF FinishPush, HeaderOk, Return
  <2>2. db' = [db EXCEPT !.state = replay_step(db.state, op, db.log_end)]
    BY <2>1, <1>PushAsReplay, Zenon DEF FinishPush
  <2>3. /\ op \in Record
        /\ Applied(hist[disk.log_end], hist[db.log_end], op, db.log_end)
        /\ db.state = hist[disk.log_end].state
        /\ Keeps(hist[db.log_end], pushed, acked, handed, returned)
        /\ IsState(db.state)
    BY <2>1, Pending, Zenon DEF IInv, TypeOK
  <2>4. op.msg \in DOMAIN hist[db.log_end].state.msgs
    <3>1. hist[db.log_end].state = replay_push(db.state, op, db.log_end)
      BY <2>1, <2>3, SMTT(60) DEF Applied, replay_step
    <3>2. DOMAIN db.state = {"msgs", "queues", "leases"}
      BY <2>3, Zenon DEF IsState
    <3>3. hist[db.log_end].state.msgs =
            Put(db.state.msgs, op.msg, NewMsg(op.queue, db.log_end))
      BY <3>1, <3>2, Zenon DEF replay_push
    <3> QED
      BY <3>3, Zenon DEF Put
  <2>5. Keeps(hist[db.log_end], pushed', acked', handed', returned')
    BY <2>1, <2>3, <2>4, ZenonT(40) DEF Keeps
  <2>6. /\ todo' \subseteq Ids /\ acked' \subseteq Ids /\ handed' \subseteq Ids
        /\ pushed \subseteq Ids /\ returned' \in [1..MaxMsg -> Nat]
    BY <2>1, ZenonT(40) DEF IInv, TypeOK
  <2>7. op.msg \in Ids
    BY <2>1, <2>3, Zenon DEF Record
  <2> QED
    BY <2>1, <2>2, <2>5, <2>6, <2>7, <1>Completed, Zenon
\* The second half of do_pop preserves the invariant.
<1>FinishPopInv.
    ASSUME IInv, FinishPop
    PROVE  IInv'
  <2> USE <1>FinishPopInv
  <2>1. /\ pc = "header" /\ op.type = "LEASE" /\ disk' = header_update(disk)
        /\ op' = NoOp /\ pc' = "idle"
        /\ UNCHANGED <<hist, pos, stale, refused, acking, todo>>
        /\ UNCHANGED <<pushed, acked, returned>>
        /\ handed' = handed \cup {op.lease}
    BY Zenon DEF FinishPop, HeaderOk, Return
  <2>2. db' = [db EXCEPT !.state = replay_step(db.state, op, db.log_end)]
    BY <2>1, <1>PopAsReplay, Zenon DEF FinishPop
  <2>3. /\ op \in Record
        /\ Sound(hist[disk.log_end])
        /\ Applied(hist[disk.log_end], hist[db.log_end], op, db.log_end)
        /\ Keeps(hist[db.log_end], pushed, acked, handed, returned)
    BY <2>1, Pending, Zenon
  <2>4. op.lease < hist[db.log_end].next_lease
    <3>1. hist[disk.log_end].next_lease \in Ids
      BY <2>3, Zenon DEF Sound
    <3>2. hist[db.log_end].next_lease =
            replay_next_lease(hist[disk.log_end].next_lease, op)
      BY <2>3, AppliedParts, ZenonT(40)
    <3>3. op \in Record
      BY <2>3, Zenon
    <3> QED
      BY <2>1, <3>1, <3>2, <3>3, NextLease, Zenon
  <2>5. Keeps(hist[db.log_end], pushed', acked', handed', returned')
    BY <2>1, <2>3, <2>4, Zenon DEF Keeps
  <2>6. /\ todo' \subseteq Ids /\ acked' \subseteq Ids /\ handed \subseteq Ids
        /\ pushed' \subseteq Ids /\ returned' \in [1..MaxMsg -> Nat]
    BY <2>1, Zenon DEF IInv, TypeOK
  <2>7. op.lease \in Ids
    BY <2>1, <2>3, Zenon DEF Record
  <2> QED
    BY <2>1, <2>2, <2>5, <2>6, <2>7, <1>Completed, Zenon
\* The second half of qdb_ack preserves the invariant.
<1>FinishAckInv.
    ASSUME IInv, FinishAck
    PROVE  IInv'
  <2> USE <1>FinishAckInv
  <2>1. /\ pc = "header" /\ op.type = "ACK" /\ disk' = header_update(disk)
        /\ op' = NoOp /\ pc' = "idle"
        /\ UNCHANGED <<hist, pos, stale, refused, acking, todo>>
        /\ UNCHANGED <<pushed, handed, returned>>
        /\ acked' = acked \cup {op.msg}
    BY Zenon DEF FinishAck, HeaderOk, Return
  <2>2. /\ op \in Record
        /\ Sound(hist[disk.log_end])
        /\ Applied(hist[disk.log_end], hist[db.log_end], op, db.log_end)
        /\ db.state = hist[disk.log_end].state
        /\ Keeps(hist[db.log_end], pushed, acked, handed, returned)
        /\ IsState(db.state)
    BY <2>1, Pending, Zenon DEF IInv, TypeOK
  <2>3. db' = [db EXCEPT !.state = replay_step(db.state, op, db.log_end)]
    BY <2>1, <2>2, <1>AckAsReplay, Zenon DEF FinishAck
  <2>4. /\ op.msg \in DOMAIN hist[db.log_end].state.msgs
        /\ hist[db.log_end].state.msgs[op.msg].state = "ACKED"
    <3> DEFINE msg == db.state.msgs[op.msg]
               ent == [msg EXCEPT !.state = "ACKED", !.lease = 0, !.expiry = 0]
    <3>1. hist[db.log_end].state = replay_ack(db.state, op)
      BY <2>1, <2>2, SMTT(60) DEF Applied, replay_step
    <3>2. op.msg \in DOMAIN db.state.msgs
      BY <2>1, <2>2, Zenon DEF Applied, replay_check
    <3>3. hist[db.log_end].state.msgs = [db.state.msgs EXCEPT ![op.msg] = ent]
      BY <2>2, <3>1, ZenonT(40) DEF replay_ack, IsState
    <3>4. msg \in Msg
      BY <2>2, <3>2, Zenon DEF IsState
    <3>5. ent.state = "ACKED"
      BY <3>4, Zenon DEF Msg
    <3> HIDE DEF ent
    <3> QED
      BY <3>2, <3>3, <3>5, Zenon
  <2>5. Keeps(hist[db.log_end], pushed', acked', handed', returned')
    BY <2>1, <2>2, <2>4, ZenonT(40) DEF Keeps
  <2>6. /\ todo' \subseteq Ids /\ acked \subseteq Ids /\ handed' \subseteq Ids
        /\ pushed' \subseteq Ids /\ returned' \in [1..MaxMsg -> Nat]
    BY <2>1, ZenonT(40) DEF IInv, TypeOK
  <2>7. op.msg \in Ids
    BY <2>1, <2>2, Zenon DEF Record
  <2> QED
    BY <2>1, <2>3, <2>5, <2>6, <2>7, <1>Completed, Zenon
\* A completed nack or expiry is one more in the replayed retry_count.
<1>ReturnCounted.
    ASSUME IInv, pc = "header", op.type \in {"NACK", "EXPIRE"}
    PROVE  LET t == [returned EXCEPT ![op.msg] = @ + 1]
           IN  /\ t \in [1..MaxMsg -> Nat]
               /\ Keeps(hist[db.log_end], pushed, acked, handed, t)
               /\ DOMAIN hist[db.log_end].state.leases =
                    DOMAIN db.state.leases \ {op.lease}
  <2> USE <1>ReturnCounted
  <2> DEFINE m == op.msg
             t == [returned EXCEPT ![m] = @ + 1]
             r == hist[disk.log_end]
             s == hist[db.log_end]
             msg == db.state.msgs[m]
             ent == [msg EXCEPT !.state = "PENDING", !.lease = 0,
                                !.expiry = 0, !.retry = msg.retry + 1]
  <2>1. /\ op \in Record /\ Sound(s) /\ Applied(r, s, op, db.log_end)
        /\ db.state = r.state /\ IsState(db.state)
        /\ Keeps(s, pushed, acked, handed, returned)
    BY Pending, Zenon DEF IInv, TypeOK
  <2>2. s.state = replay_nack(db.state, op)
    BY <2>1, SMTT(60) DEF Applied, replay_step
  <2>3. m \in DOMAIN db.state.msgs
    BY <2>1, Zenon DEF Applied, replay_check
  <2>4. /\ s.state.msgs = [db.state.msgs EXCEPT ![m] = ent]
        /\ s.state.leases = lease_remove(db.state.leases, op.lease)
    BY <2>1, <2>2, ZenonT(40) DEF replay_nack, IsState
  <2>5. m \in 1..MaxMsg /\ r.state.msgs[m].retry >= returned[m]
    <3>1. disk.log_end \in 0..LogTop
      BY HeaderInHist, Zenon
    <3>2. MsgOK(disk.log_end, m)
      BY <2>1, <2>3, <3>1, ZenonT(40) DEF IInv, MsgsOK
    <3>3. m \in 1..MaxMsg
      BY <3>2, ZenonT(40) DEF MsgOK, IdOK
    <3>4. Keeps(r, pushed, acked, handed, returned)
      BY Zenon DEF IInv, CallersOK, Durable
    <3> QED
      BY <2>1, <2>3, <3>3, <3>4, Zenon DEF Keeps
  <2>6. msg \in Msg /\ returned \in [1..MaxMsg -> Nat]
    BY <2>1, <2>3, Zenon DEF IsState, IInv, TypeOK
  <2> HIDE DEF r, s, m
  <2>7. ent.retry = msg.retry + 1 /\ msg.retry \in Nat
    <3>1. msg \in Msg
      BY <2>6, Zenon
    <3> HIDE DEF msg
    <3> QED
      BY <3>1, Zenon DEF Msg
  <2>8. s.state.msgs[m] = ent
    BY <2>3, <2>4, Zenon
  <2> HIDE DEF ent
  <2>9. s.state.msgs[m].retry >= returned[m] + 1
    <3>1. msg.retry >= returned[m] /\ returned[m] \in Nat
      BY <2>1, <2>5, <2>6, Zenon
    <3> HIDE DEF msg
    <3> QED
      BY <2>7, <2>8, <3>1, SMTT(60)
  <2>10. /\ t \in [1..MaxMsg -> Nat] /\ t[m] = returned[m] + 1
         /\ \A x \in 1..MaxMsg \ {m} : t[x] = returned[x]
    BY <2>5, <2>6
  <2> HIDE DEF t
  <2>11. m \in DOMAIN s.state.msgs
    BY <2>3, <2>4, Zenon
  <2>12. Keeps(s, pushed, acked, handed, t)
    BY <2>1, <2>9, <2>10, <2>11, Zenon DEF Keeps
  <2>13. DOMAIN s.state.leases = DOMAIN db.state.leases \ {op.lease}
    BY <2>4, Zenon DEF lease_remove, Drop, Restrict
  <2> QED
    BY <2>10, <2>12, <2>13, Zenon DEF m, t, s
\* The second half of qdb_nack preserves the invariant.
<1>FinishNackInv.
    ASSUME IInv, FinishNack
    PROVE  IInv'
  <2> USE <1>FinishNackInv
  <2>1. /\ pc = "header" /\ op.type = "NACK" /\ disk' = header_update(disk)
        /\ op' = NoOp /\ pc' = "idle"
        /\ UNCHANGED <<hist, pos, stale, refused, acking, todo>>
        /\ UNCHANGED <<pushed, handed, acked>>
        /\ returned' = [returned EXCEPT ![op.msg] = @ + 1]
    BY Zenon DEF FinishNack, HeaderOk, Return
  <2>2. db' = [db EXCEPT !.state = replay_step(db.state, op, db.log_end)]
    BY <2>1, <1>NackAsReplay, SMTT(60) DEF FinishNack
  <2>3. /\ returned' \in [1..MaxMsg -> Nat]
        /\ Keeps(hist[db.log_end], pushed', acked', handed', returned')
    BY <2>1, <1>ReturnCounted, Zenon
  <2>4. /\ todo' \subseteq Ids /\ acked' \subseteq Ids /\ handed' \subseteq Ids
        /\ pushed' \subseteq Ids
    BY <2>1, Zenon DEF IInv, TypeOK
  <2> QED
    BY <2>1, <2>2, <2>3, <2>4, <1>Completed, Zenon
\* The second half of expire_one, and the return to the walk of
\* qdb_process_expired_leases, preserve the invariant.
<1>FinishExpireInv.
    ASSUME IInv, FinishExpire
    PROVE  IInv'
  <2> USE <1>FinishExpireInv
  <2>1. /\ pc = "header" /\ op.type = "EXPIRE" /\ disk' = header_update(disk)
        /\ op' = NoOp /\ pc' \in {"idle", "expire"}
        /\ UNCHANGED <<hist, pos, stale, refused, acking>>
        /\ UNCHANGED <<pushed, handed, acked>>
        /\ todo' = todo \ {op.lease}
        /\ returned' = [returned EXCEPT ![op.msg] = @ + 1]
    BY Zenon DEF FinishExpire, HeaderOk
  <2>2. db' = [db EXCEPT !.state = replay_step(db.state, op, db.log_end)]
    BY <2>1, <1>NackAsReplay, SMTT(60) DEF FinishExpire
  <2>3. /\ returned' \in [1..MaxMsg -> Nat]
        /\ Keeps(hist[db.log_end], pushed', acked', handed', returned')
        /\ DOMAIN hist[db.log_end].state.leases =
             DOMAIN db.state.leases \ {op.lease}
    BY <2>1, <1>ReturnCounted, Zenon
  <2>4. /\ todo \subseteq Ids /\ acked' \subseteq Ids /\ handed' \subseteq Ids
        /\ pushed' \subseteq Ids
    BY <2>1, Zenon DEF IInv, TypeOK
  <2>5. todo' \subseteq DOMAIN db'.state.leases
    <3>1. todo \subseteq DOMAIN db.state.leases
      BY <2>1, Zenon DEF IInv, MemoryOK, TodoOK
    <3>2. db'.state = replay_step(db.state, op, db.log_end)
      BY <2>2, Zenon DEF IInv, TypeOK
    <3>3. db'.state = hist[db.log_end].state
      <4>1. /\ Applied(hist[disk.log_end], hist[db.log_end], op, db.log_end)
            /\ db.state = hist[disk.log_end].state
        BY <2>1, Pending, Zenon
      <4> QED
        BY <3>2, <4>1, AppliedParts, SMTT(60)
    <3> QED
      BY <2>1, <2>3, <3>1, <3>3, Zenon
  <2> QED
    BY <2>1, <2>2, <2>3, <2>4, <2>5, <1>Completed, Zenon
\* A call fails after its record is on disk: whatever the header says, the
\* handle stays behind the history until it is closed.
<1>StaleInv.
    ASSUME IInv, pc = "header", pc' = "idle", stale' = TRUE,
           disk' \in {disk, header_update(disk)},
           db'.log_end = db.log_end, db'.next_msg = db.next_msg,
           db'.next_lease = db.next_lease, IsState(db'.state),
           DOMAIN db' = {"state", "next_msg", "next_lease", "log_end"},
           op' = NoOp, todo' \subseteq Ids,
           UNCHANGED <<hist, pos, refused>>,
           UNCHANGED <<pushed, handed, acking, acked, returned>>,
           Behind(db'.state, hist[db.log_end])
    PROVE  IInv'
  <2> USE <1>StaleInv
  <2> DEFINE k == db.log_end
  <2>1. /\ k \in Nat /\ disk.log_end \in Nat /\ k = disk.log_end + 1
        /\ disk.next_msg \in Ids /\ db.next_msg \in Ids
        /\ disk.next_msg <= db.next_msg
    BY Zenon DEF IInv, TypeOK, MemoryOK, HeaderOK
  <2>2. /\ disk' \in [kind : {"none", "short", "db"}, log : Seq(Entry),
                      log_end : Nat, next_msg : Ids]
        /\ LogOK' /\ HistOK' /\ MsgsOK'
        /\ disk'.log_end \in {k - 1, k} /\ disk'.next_msg <= db.next_msg
    <3>1. CASE disk' = header_update(disk)
      <4>1. db.next_msg <= db.next_msg
        BY <2>1, SMTT(60) DEF Ids
      <4> QED
        BY <3>1, <4>1, HeaderWritten, ZenonT(40)
    <3>2. CASE UNCHANGED disk
      <4>1. LogTop = k /\ LogTop' = k
        BY Zenon DEF LogTop
      <4>2. LogOK'
        BY <3>2, <4>1, ZenonT(40) DEF IInv, LogOK
      <4>3. HistOK'
        BY <3>2, <4>1, Zenon DEF IInv, HistOK
      <4>4. db.next_msg <= db.next_msg /\ disk.next_msg <= disk.next_msg /\ k <= k
        BY <2>1, SMTT(60) DEF Ids
      <4>5. MsgsOK'
        BY <2>1, <3>2, <4>1, <4>4, MsgsFrame, ZenonT(40) DEF CountersKept
      <4> QED
        BY <2>1, <3>2, <4>2, <4>3, <4>5, SMTT(60) DEF IInv, TypeOK
    <3> QED
      BY <3>1, <3>2, ZenonT(40)
  <2>3. TypeOK'
    BY <2>2, Zenon DEF IInv, TypeOK
  <2>4. MemoryOK'
    BY <2>2, ZenonT(40) DEF MemoryOK, ClosedOK, ReplayOK, IdleOK, HeaderOK, StaleOK, TodoOK
  <2>5. CallersOK'
    <3>1. Keeps(hist[k], pushed, acked, handed, returned)
      BY Pending, ZenonT(40)
    <3>2. Keeps(hist[disk.log_end], pushed, acked, handed, returned)
      BY Zenon DEF IInv, CallersOK, Durable
    <3>3. disk'.log_end = k \/ disk'.log_end = disk.log_end
      <4>1. disk'.log_end \in {k - 1, k}
        BY <2>2, Zenon
      <4>2. k - 1 = disk.log_end
        BY <2>1, SMTT(60)
      <4> QED
        BY <4>1, <4>2, Zenon
    <3>4. Keeps(Durable', pushed, acked, handed, returned)
      BY <3>1, <3>2, <3>3, Zenon DEF Durable
    <3> QED
      BY <3>4, ZenonT(40) DEF CallersOK
  <2> QED
    BY <2>2, <2>3, <2>4, <2>5, Zenon DEF IInv
\* An allocation failure of qdb_push after its record is durable preserves
\* the invariant.
<1>FinishPushNoMemInv.
    ASSUME IInv, FinishPushNoMem
    PROVE  IInv'
  <2> USE <1>FinishPushNoMemInv
  <2> DEFINE k == db.log_end
             r == hist[k]
  <2>1. /\ pc = "header" /\ op.type = "PUSH" /\ disk' = header_update(disk)
        /\ op' = NoOp /\ pc' = "idle" /\ stale' = TRUE
        /\ UNCHANGED <<hist, pos, refused, todo>>
        /\ UNCHANGED <<pushed, handed, acking, acked, returned>>
    BY Zenon DEF FinishPushNoMem, HeaderOk, history
  <2>2. /\ op \in Record /\ IsState(db.state)
        /\ DOMAIN db = {"state", "next_msg", "next_lease", "log_end"}
        /\ Applied(hist[disk.log_end], r, op, k)
        /\ Sound(hist[disk.log_end])
        /\ db.state = hist[disk.log_end].state
        /\ db.log_end = disk.log_end + 1 /\ k \in Nat /\ todo \subseteq Ids
        /\ Keeps(r, pushed, acked, handed, returned)
    BY <2>1, Pending, ZenonT(40) DEF IInv, TypeOK
  <2>3. op.msg \in Ids /\ op.queue \in Queues
    BY <2>1, <2>2, Zenon DEF Record
  <2>4. r.state = replay_push(db.state, op, k)
    BY <2>1, <2>2, SMTT(60) DEF Applied, replay_step
  <2>5. KeepsMsgs(db.state, op, k, r.state)
    BY <2>2, SoundStep, ZenonT(40)
  <2>6. op.msg \in DOMAIN r.state.msgs /\ r.state.msgs[op.msg] = NewMsg(op.queue, k)
    <3>1. DOMAIN db.state = {"msgs", "queues", "leases"}
      BY <2>2, Zenon DEF IsState
    <3>2. r.state.msgs = Put(db.state.msgs, op.msg, NewMsg(op.queue, k))
      BY <2>4, <3>1, Zenon DEF replay_push
    <3> QED
      BY <3>2, Zenon DEF Put
  <2>7. CASE UNCHANGED db
    <3>1. Behind(db.state, r)
      BY <2>5, Zenon DEF KeepsMsgs, Behind
    <3> QED
      BY <2>1, <2>2, <2>7, <3>1, <1>StaleInv, ZenonT(40)
  <2>8. CASE db' = [db EXCEPT !.state.msgs =
                      Put(@, op.msg, NewMsg(op.queue, db.log_end))]
    <3>1. /\ db'.log_end = k /\ db'.next_msg = db.next_msg
          /\ db'.next_lease = db.next_lease
          /\ DOMAIN db' = {"state", "next_msg", "next_lease", "log_end"}
          /\ db'.state = [db.state EXCEPT !.msgs =
                            Put(db.state.msgs, op.msg, NewMsg(op.queue, k))]
      BY <2>2, <2>8, Zenon
    <3>2. /\ DOMAIN db'.state = {"msgs", "queues", "leases"}
          /\ db'.state.queues = db.state.queues
          /\ db'.state.leases = db.state.leases
          /\ db'.state.msgs = Put(db.state.msgs, op.msg, NewMsg(op.queue, k))
      BY <2>2, <3>1, Zenon DEF IsState
    <3> HIDE DEF k, r
    <3>3. /\ DOMAIN db'.state.msgs = DOMAIN db.state.msgs \cup {op.msg}
          /\ \A m \in DOMAIN db'.state.msgs : db'.state.msgs[m] =
               IF m = op.msg THEN NewMsg(op.queue, k) ELSE db.state.msgs[m]
      BY <3>2, Zenon DEF Put
    <3>4. NewMsg(op.queue, k) \in Msg
      BY <2>2, <2>3, Zenon DEF NewMsg, Msg
    <3>5. IsState(db'.state)
      BY <2>2, <2>3, <3>2, <3>3, <3>4, ZenonT(40) DEF IsState
    <3>6. Behind(db'.state, r)
      BY <2>5, <2>6, <3>3, Zenon DEF KeepsMsgs, Behind
    <3> QED
      BY <2>1, <2>2, <3>1, <3>5, <3>6, <1>StaleInv, Zenon DEF k, r
  <2> QED
    BY <2>7, <2>8, Zenon DEF FinishPushNoMem
\* A failed qdb__header_update preserves the invariant.
<1>HeaderFailInv.
    ASSUME IInv, HeaderFail
    PROVE  IInv'
  <2> USE <1>HeaderFailInv
  <2>1. /\ pc = "header" /\ pc' = "idle" /\ op' = NoOp /\ stale' = TRUE
        /\ todo' = {} /\ disk' \in {disk, header_update(disk)}
        /\ UNCHANGED <<hist, pos, refused>> /\ UNCHANGED db
        /\ UNCHANGED <<pushed, handed, acking, acked, returned>>
    BY Zenon DEF HeaderFail, history
  <2>2. /\ op \in Record /\ IsState(db.state)
        /\ DOMAIN db = {"state", "next_msg", "next_lease", "log_end"}
        /\ Applied(hist[disk.log_end], hist[db.log_end], op, db.log_end)
        /\ Sound(hist[disk.log_end])
        /\ db.state = hist[disk.log_end].state /\ db.log_end \in Nat
    BY <2>1, Pending, Zenon DEF IInv, TypeOK
  <2>3. KeepsMsgs(db.state, op, db.log_end, hist[db.log_end].state)
    BY <2>2, SoundStep, Zenon
  <2>4. Behind(db.state, hist[db.log_end])
    BY <2>3, Zenon DEF KeepsMsgs, Behind
  <2> QED
    BY <2>1, <2>2, <2>4, <1>StaleInv, ZenonT(40)
<1> SUFFICES ASSUME IInv, Finish
             PROVE  IInv'
  BY Zenon
<1> QED
  BY <1>FinishPushInv, <1>FinishPushNoMemInv, <1>FinishPopInv, <1>FinishAckInv,
     <1>FinishNackInv, <1>FinishExpireInv, <1>HeaderFailInv, Zenon DEF Finish

\* Every step of the engine preserves the invariant.
LEMMA NextInv ==
  ASSUME IInv, [Next]_vars, ~RetryAfterError
  PROVE  IInv'
<1>1. CASE UNCHANGED vars
  BY <1>1, StutterInv, Zenon
<1>2. CASE Open
  BY <1>2, OpenInv, Zenon
<1>3. CASE Call
  BY <1>3, CallInv, Zenon
<1>4. CASE Finish
  BY <1>4, FinishInv, Zenon
<1>5. CASE qdb_close \/ Crash
  BY <1>5, CloseInv, Zenon
<1> QED
  BY <1>1, <1>2, <1>3, <1>4, <1>5, Zenon DEF Next

\* The inductive invariant holds in every reachable state.
THEOREM Invariance ==
  ASSUME ~RetryAfterError
  PROVE  Spec => []IInv
<1>1. Init => IInv
  BY InitInv, Zenon
<1>2. IInv /\ [Next]_vars => IInv'
  BY NextInv, Zenon
<1> QED
  BY <1>1, <1>2, PTL DEF Spec

\* Every variable keeps its type, the tables of the in-memory state included.
THEOREM TypeCorrect ==
  ASSUME ~RetryAfterError
  PROVE  Spec => []TypeOK
<1>1. IInv => TypeOK
  BY Zenon DEF IInv
<1> QED
  BY <1>1, Invariance, PTL

\* The state the calls build in memory is the one replay would build.
THEOREM MemoryMatchesReplay ==
  ASSUME ~RetryAfterError
  PROVE  Spec => []MemoryIsReplay
<1>1. IInv => MemoryIsReplay
  BY Zenon DEF IInv, MemoryOK, IdleOK, MemoryIsReplay
<1> QED
  BY <1>1, Invariance, PTL

\* The replay of qdb_open never refuses a log the library wrote.
THEOREM AlwaysRecoverable ==
  ASSUME ~RetryAfterError
  PROVE  Spec => []Recoverable
<1>1. IInv => Recoverable
  <2> SUFFICES ASSUME IInv PROVE Recoverable
    BY Zenon
  <2>1. Sound(Durable) /\ refused # "log"
    BY DurableSound, Zenon DEF IInv
  <2> QED
    BY <2>1, Zenon DEF Sound, Recoverable
<1> QED
  BY <1>1, Invariance, PTL

\* A message whose push returned QDB_OK is in the file, not acknowledged,
\* until a caller acks it.
THEOREM PushesSurvive ==
  ASSUME ~RetryAfterError
  PROVE  Spec => []PushDurable
<1>1. IInv => PushDurable
  <2> SUFFICES ASSUME IInv, NEW m \in pushed \ acking
               PROVE  /\ m \in DOMAIN Durable.state.msgs
                      /\ Durable.state.msgs[m].state \in {"PENDING", "LEASED"}
    BY Zenon DEF PushDurable
  <2>1. Sound(Durable)
    BY DurableSound, Zenon
  <2>2. m \in DOMAIN Durable.state.msgs
    BY Zenon DEF IInv, CallersOK, Keeps
  <2>3. Durable.state.msgs[m].state # "ACKED"
    BY <2>2, DurableSound, ZenonT(40) DEF MsgOK, Durable
  <2>4. Durable.state.msgs[m] \in Msg
    BY <2>1, <2>2, Zenon DEF Sound, WellFormed, IsState
  <2> QED
    BY <2>2, <2>3, <2>4, Zenon DEF Msg
<1> QED
  BY <1>1, Invariance, PTL

\* A message whose ack returned QDB_OK stays ACKED in the file.
THEOREM AcksAreFinal ==
  ASSUME ~RetryAfterError
  PROVE  Spec => []AckFinal
<1>1. IInv => AckFinal
  BY Zenon DEF IInv, CallersOK, Keeps, AckFinal
<1> QED
  BY <1>1, Invariance, PTL

\* No message id and no lease id a caller has seen is issued again.
THEOREM IdsNeverReused ==
  ASSUME ~RetryAfterError
  PROVE  Spec => []IdsFresh
<1>1. IInv => IdsFresh
  <2> SUFFICES ASSUME IInv PROVE IdsFresh
    BY Zenon
  <2>1. disk.log_end <= disk.log_end
    <3>1. disk.log_end \in Nat
      BY Zenon DEF IInv, TypeOK
    <3> QED
      BY <3>1, SMTT(60)
  <2>2. ASSUME NEW m \in DOMAIN Durable.state.msgs
        PROVE  m < disk.next_msg
    BY <2>1, DurableSound, Zenon DEF MsgOK, IdOK
  <2>3. CallersOK
    BY Zenon DEF IInv
  <2> QED
    BY <2>2, <2>3, Zenon DEF CallersOK, Keeps, IdsFresh
<1> QED
  BY <1>1, Invariance, PTL

\* Every completed nack and expiry is in the retry_count that is recovered.
THEOREM RetriesSurvive ==
  ASSUME ~RetryAfterError
  PROVE  Spec => []RetryCounted
<1>1. IInv => RetryCounted
  <2> SUFFICES ASSUME IInv PROVE RetryCounted
    BY Zenon
  <2>1. DOMAIN Durable.state.msgs \subseteq 1..MaxMsg
    BY DurableSound, Zenon DEF MsgOK, IdOK
  <2>2. CallersOK
    BY Zenon DEF IInv
  <2> QED
    BY <2>1, <2>2, Zenon DEF CallersOK, Keeps, RetryCounted
<1> QED
  BY <1>1, Invariance, PTL

=============================================================================




