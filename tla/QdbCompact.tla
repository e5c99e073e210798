----------------------------- MODULE QdbCompact -----------------------------
(***************************************************************************)
(* qdb_compact (src/qdb.c), composed with the engine.  The live messages   *)
(* are rewritten into a staging file, <path>-compact, which is renamed over*)
(* the database; the handle is then reopened on it without giving up the   *)
(* lock.  Every record of the staging file, its header update, the rename  *)
(* and the steps of the reopen are separate steps, between which a write   *)
(* may fail and the process may die.                                       *)
(***************************************************************************)
EXTENDS QdbEngine, SequencesExt

CONSTANTS
  Windows,     \* TRUE: the Windows build, which closes the file to rename it
  PowerLoss    \* TRUE: the machine may lose power before a rename is durable
               \* (the code does not sync the directory)

ASSUME CompactAssumption == Windows \in BOOLEAN /\ PowerLoss \in BOOLEAN

VARIABLES
  staging,   \* the file <path>-compact
  plan,      \* records qdb_compact has still to write
  handle,    \* fine, reopening, nofd (file closed), fault (NULL dereferenced)
  prior      \* the file replaced by a rename that may not be durable yet

cvars == <<staging, plan, handle, prior>>
allvars == <<vars, cvars>>

CompactInit ==
  /\ Init
  /\ staging = NoFile
  /\ plan = << >>
  /\ handle = "fine"
  /\ prior = NoFile

-----------------------------------------------------------------------------
(* What is written.  The queue table and the lease table are walked in     *)
(* hash order, which is any order; a queue's list from head to tail.       *)

PushOf(m) == PushRec(m, db.state.msgs[m].queue)

\* Mutant: the expiry is not carried over.
LeaseOf_NoExpiry(m) == LeaseRec(m, db.state.msgs[m].lease, 0)

LeaseOf(m) == LeaseRec(m, db.state.msgs[m].lease, db.state.msgs[m].expiry)

\* Mutant: the list is walked from tail to head.
PendingOf_TailFirst(q) ==
  LET s == db.state.queues[q].pending
  IN  [i \in 1..Len(s) |-> PushOf(s[Len(s) + 1 - i])]

PendingOf(q) ==
  LET s == db.state.queues[q].pending
  IN  [i \in 1..Len(s) |-> PushOf(s[i])]

\* Mutant: the records of a leased message are swapped.
LeasedOf_Swapped(l) ==
  LET m == db.state.leases[l].msg
  IN  <<LeaseOf(m), PushOf(m)>>

LeasedOf(l) ==
  LET m == db.state.leases[l].msg
  IN  <<PushOf(m), LeaseOf(m)>>

\* Mutant: the checkpoint does not pin the lease counter.
Checkpoint_NoLease == CheckpointRec(db.next_msg, 1)

Checkpoint == CheckpointRec(db.next_msg, db.next_lease)

Rewrite(qs, ls) ==
  FlattenSeq([i \in 1..Len(qs) |-> PendingOf(qs[i])])
    \o FlattenSeq([i \in 1..Len(ls) |-> LeasedOf(ls[i])])
    \o <<Checkpoint>>

\* A best-effort unlink of the staging file.
DeleteStaging == staging' \in {staging, NoFile}

-----------------------------------------------------------------------------
(* qdb_compact.                                                            *)

\* A fresh staging file with a header that covers nothing.
CompactBegin ==
  /\ pc = "idle"
  /\ stale => RetryAfterError
  /\ \E qs \in SetToSeqs(DOMAIN db.state.queues),
        ls \in SetToSeqs(DOMAIN db.state.leases) : plan' = Rewrite(qs, ls)
  /\ staging' = [NoFile EXCEPT !.kind = "db", !.next_msg = db.next_msg]
  /\ pc' = "compact"
  /\ UNCHANGED <<disk, db, op, pos, todo, stale, refused, hist, history,
                 handle, prior>>

CompactWrite ==
  /\ pc = "compact"
  /\ plan # << >>
  /\ staging' = [staging EXCEPT !.log = Append(@, Committed(Head(plan)))]
  /\ plan' = Tail(plan)
  /\ UNCHANGED <<engine, hist, history, handle, prior>>

\* Mutant: the header of the staging file is left at its initial log_end.
CompactHeader_Skipped ==
  /\ pc = "compact"
  /\ plan = << >>
  /\ pc' = "rename"
  /\ UNCHANGED <<disk, db, op, pos, todo, stale, refused, hist, history,
                 staging, plan, handle, prior>>

\* One header update for all records, and a sync.
CompactHeader ==
  /\ pc = "compact"
  /\ plan = << >>
  /\ staging' = [staging EXCEPT !.log_end = Len(staging.log)]
  /\ pc' = "rename"
  /\ UNCHANGED <<disk, db, op, pos, todo, stale, refused, hist, history,
                 plan, handle, prior>>

\* A read, write, sync or allocation fails: the staging file is given up.
CompactFail ==
  /\ pc = "compact"
  /\ DeleteStaging
  /\ plan' = << >>
  /\ pc' = "idle"
  /\ UNCHANGED <<disk, db, op, pos, todo, stale, refused, hist, history,
                 handle, prior>>

\* The rename fails; the Windows build has closed the file by now.
CompactRenameFail ==
  /\ pc = "rename"
  /\ DeleteStaging
  /\ pc' = "idle"
  /\ handle' = IF Windows THEN "nofd" ELSE handle
  /\ UNCHANGED <<disk, db, op, pos, todo, stale, refused, hist, history,
                 plan, prior>>

\* What replaying a log yields after each of its records.
Replayed(file) ==
  LET h[n \in 0..file.log_end] ==
        IF n = 0 THEN replay_start
                 ELSE replay_record(h[n - 1], file.log[n].rec, n)
  IN  h

\* Mutant: the handle goes on with the state it has.
CompactRename_KeepState ==
  /\ pc = "rename"
  /\ disk' = staging
  /\ staging' = NoFile
  /\ prior' = IF PowerLoss THEN disk ELSE NoFile
  /\ db' = [db EXCEPT !.log_end = staging.log_end]
  /\ pc' = "idle"
  /\ hist' = Replayed(staging)
  /\ UNCHANGED <<op, pos, todo, stale, refused, history, plan, handle>>

\* The rename, and the beginning of qdb__reopen_after_compact.
CompactRename ==
  /\ pc = "rename"
  /\ disk' = staging
  /\ staging' = NoFile
  /\ prior' = IF PowerLoss THEN disk ELSE NoFile
  /\ db' = [Closed EXCEPT !.next_msg = staging.next_msg,
                          !.log_end = staging.log_end]
  /\ pos' = 0
  /\ pc' = "replay"
  /\ stale' = FALSE
  /\ hist' = Replayed(staging)
  /\ handle' = "reopening"
  /\ UNCHANGED <<op, todo, refused, history, plan>>

\* A step of the reopen fails: the file is closed, the state freed.
ReopenFail ==
  /\ pc = "replay"
  /\ handle = "reopening"
  /\ pc' = "broken"
  /\ db' = Closed
  /\ pos' = 0
  /\ hist' = Restrict(hist, 0..disk.log_end)
  /\ UNCHANGED <<disk, op, todo, stale, refused, history, cvars>>

\* A call on such a handle: pop, ack, nack, expiry, compact and the
\* statistics follow the state pointer, which is NULL.
BrokenCall ==
  /\ pc = "broken"
  /\ UNCHANGED disk
  /\ Release
  /\ handle' = "fault"
  /\ UNCHANGED <<staging, plan, prior>>

-----------------------------------------------------------------------------
(* The engine's steps, with what they do to the staging file and the       *)
(* handle.                                                                 *)

\* qdb_open deletes a staging file that an interrupted compaction left.
OpenFile ==
  /\ OpenCreate \/ OpenCreateTorn \/ OpenShort \/ OpenBegin
  /\ DeleteStaging
  /\ handle' = "fine"
  /\ UNCHANGED <<plan, prior>>

OpenLog ==
  /\ OpenReplay \/ (OpenRefuse /\ handle # "reopening") \/ OpenDone
  /\ handle' = IF pc' = "replay" THEN handle ELSE "fine"
  /\ UNCHANGED <<staging, plan, prior>>

UseHandle ==
  /\ handle # "nofd"
  /\ Call \/ Finish \/ qdb_close
  /\ UNCHANGED cvars

Die ==
  /\ Crash
  /\ plan' = << >>
  /\ handle' = "fine"
  /\ UNCHANGED <<staging, prior>>

\* The directory entry reaches the disk.
RenameDurable ==
  /\ prior # NoFile
  /\ prior' = NoFile
  /\ UNCHANGED <<vars, staging, plan, handle>>

\* Power is lost before that: the old file is back under the path, the new
\* one under the name of the staging file.
RenameLost ==
  /\ prior # NoFile
  /\ disk' = prior
  /\ staging' = disk
  /\ prior' = NoFile
  /\ plan' = << >>
  /\ handle' = "fine"
  /\ pc' = "closed"
  /\ db' = Closed
  /\ op' = NoOp
  /\ pos' = 0
  /\ todo' = {}
  /\ stale' = FALSE
  /\ hist' = Replayed(prior)
  /\ UNCHANGED <<refused, history>>

CompactNext ==
  \/ CompactBegin \/ CompactWrite \/ CompactHeader \/ CompactFail
  \/ CompactRenameFail \/ CompactRename \/ ReopenFail \/ BrokenCall
  \/ OpenFile \/ OpenLog \/ UseHandle \/ Die
  \/ RenameDurable \/ RenameLost

CompactSpec == CompactInit /\ [][CompactNext]_allvars

-----------------------------------------------------------------------------
(* Properties.                                                             *)

\* What a delivery depends on, apart from retry_count and the offset.
Facts(msg) == <<msg.queue, msg.state, msg.lease, msg.expiry>>

Live(r) == {m \in DOMAIN r.state.msgs : r.state.msgs[m].state # "ACKED"}

Pending(r, q) ==
  IF q \in DOMAIN r.state.queues THEN r.state.queues[q].pending ELSE << >>

\* A compaction changes nothing but space: the file that qdb_compact renames
\* over the database holds the same live messages in the same states and
\* leases, every queue in the same order, and restores the same counters.
CompactEquivalent ==
  [][ (pc = "rename" /\ pc' = "replay") =>
        /\ DOMAIN Durable'.state.msgs = Live(Durable)
        /\ \A m \in Live(Durable) :
             Facts(Durable'.state.msgs[m]) = Facts(Durable.state.msgs[m])
        /\ \A q \in Queues : Pending(Durable', q) = Pending(Durable, q)
        /\ Durable'.next_lease = Durable.next_lease
        /\ disk'.next_msg = disk.next_msg ]_allvars
=============================================================================
