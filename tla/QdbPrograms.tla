---------------------------- MODULE QdbPrograms ----------------------------
(***************************************************************************)
(* The programs that share a database: the inspection and compaction tool  *)
(* (tools/qdbtool.c), the demonstration examples/job_worker.c, and the     *)
(* long-running worker that job_worker.c describes, which has the same     *)
(* loop without its cap and does not remove its files at the end.          *)
(* They are processes that start, open the database under its lock file,   *)
(* call the library and exit, or are killed at any step.  The file system  *)
(* is directory entries that name files (src/qdb_platform.c), so a file    *)
(* can be removed while a process has it open.                             *)
(*                                                                         *)
(* A library call on an open database is one step on the contents of the   *)
(* file; how the records get there, and what is left of a call that dies   *)
(* half way, is QdbEngine's and QdbStorage's subject.  A call that fails   *)
(* leaves the contents as they were.  Leases hold the time they have left, *)
(* which passes for all of them together.                                  *)
(***************************************************************************)
EXTENDS Integers, Sequences, FiniteSets

CONSTANTS
  Procs,       \* processes
  Program,     \* process -> the program it runs
  Jobs,        \* the kinds of the jobs a program pushes, in order
  Timeout,     \* lease timeout
  None,        \* no file, no process
  Files,       \* files that can be the database or the staging file
  LockFiles,   \* files that can be the lock file
  Commands,    \* qdbtool commands
  MaxRuns,     \* starts of a tool or a demonstration, per process
  MaxKills,    \* kills, over all processes
  MaxFaults    \* failing calls, over all processes

Programs == {"qdbtool", "job_worker", "long_running"}

ASSUME ProgramsAssumption ==
  /\ Program \in [Procs -> Programs]
  /\ Jobs \in Seq({"plain", "flaky"}) /\ Jobs # << >>
  /\ Timeout \in Nat /\ MaxRuns \in Nat /\ MaxKills \in Nat /\ MaxFaults \in Nat
  /\ None \notin Files \cup LockFiles \cup Procs
  /\ None \notin Commands
  /\ Commands \subseteq {"usage", "info", "list", "stats", "verify", "dry-run", "compact", "force"}

VARIABLES
  dir,       \* directory entry -> the file it names, None if there is none
  content,   \* file -> what it holds
  holder,    \* lock file -> the process that has it locked, or None
  pc,        \* process -> the step it is at
  file, lock, staging,  \* process -> the files it has open, None if it has not
  local,     \* process -> its other variables
  runs,      \* process -> starts left
  kills, faults,
  pushed, acked,  \* jobs whose push, whose ack, returned QDB_OK
  dropped,   \* jobs in a database file when a demonstration removed it
  pulled     \* a demonstration removed a file another process had open

files == <<dir, content, holder>>
fds == <<file, lock, staging>>
limits == <<runs, kills>>
ghosts == <<pushed, acked, dropped, pulled>>
vars == <<files, pc, fds, local, limits, faults, ghosts>>

Entries == {"db", "staging", "lock"}
Absent == [kind |-> "absent", queue |-> << >>, leased |-> {}, acked |-> 0]
Empty == [Absent EXCEPT !.kind = "empty"]     \* created, no header yet
Fresh == [Absent EXCEPT !.kind = "database"]

\* The command of the tool, the turn and the job of a loop, the exit code.
\* seen: the jobs whose leases the tool found expired.  raced: the database
\* was removed while the tool ran.
Idle == [cmd |-> None, i |-> 0, job |-> None, code |-> "ok", seen |-> {}, raced |-> FALSE]

Init ==
  /\ dir = [e \in Entries |-> None]
  /\ content = [f \in Files |-> Absent]
  /\ holder = [l \in LockFiles |-> None]
  /\ pc = [p \in Procs |-> "off"]
  /\ file = [p \in Procs |-> None]
  /\ lock = [p \in Procs |-> None]
  /\ staging = [p \in Procs |-> None]
  /\ local = [p \in Procs |-> Idle]
  /\ runs = [p \in Procs |-> MaxRuns]
  /\ kills = MaxKills
  /\ faults = MaxFaults
  /\ pushed = {} /\ acked = {} /\ dropped = {}
  /\ pulled = FALSE

Is(p, prog) == Program[p] = prog
At(p, step) == pc[p] = step

JobsOf(c) == {c.queue[k] : k \in DOMAIN c.queue} \cup {l.job : l \in c.leased}

-----------------------------------------------------------------------------
(* Files.  A file goes when no entry names it and no process has it open.  *)

Used(d, db, st) ==
  {d["db"], d["staging"]} \cup {db[p] : p \in Procs} \cup {st[p] : p \in Procs}

\* The next state of the files, whose contents are otherwise c.
Becomes(c) ==
  content' = [f \in Files |-> IF f \in Used(dir', file', staging') THEN c[f] ELSE Absent]

FreeFiles == Files \ Used(dir, file, staging)
FreeLocks == LockFiles \ ({dir["lock"]} \cup {lock[p] : p \in Procs})

\* flock belongs to the open file: it ends with an unlock, a close or a death.
Unlocked(p) == [l \in LockFiles |-> IF holder[l] = p THEN None ELSE holder[l]]

Fault == faults > 0 /\ faults' = faults - 1

Goto(p, step) == pc' = [pc EXCEPT ![p] = step]

\* All that the process has open is closed.
CloseAll(p) ==
  /\ file' = [file EXCEPT ![p] = None]
  /\ lock' = [lock EXCEPT ![p] = None]
  /\ staging' = [staging EXCEPT ![p] = None]
  /\ holder' = Unlocked(p)

\* The process exits, or dies.
Leave(p, code) ==
  /\ Goto(p, "off")
  /\ local' = [local EXCEPT ![p] = [Idle EXCEPT !.code = code]]
  /\ CloseAll(p)

-----------------------------------------------------------------------------
(* Starting, and qdb_open_err.                                             *)

\* main of qdbtool rejects bad arguments (exit code 2) before it does anything.
Start(p) ==
  /\ At(p, "off")
  /\ IF Is(p, "long_running")
     THEN UNCHANGED runs
     ELSE runs[p] > 0 /\ runs' = [runs EXCEPT ![p] = @ - 1]
  /\ \/ /\ ~Is(p, "qdbtool")
        /\ Goto(p, "lockopen")
        /\ local' = [local EXCEPT ![p] = Idle]
     \/ /\ Is(p, "qdbtool")
        /\ \E c \in Commands \ {"usage"} : local' = [local EXCEPT ![p] = [Idle EXCEPT !.cmd = c]]
        /\ Goto(p, "check")
     \/ /\ Is(p, "qdbtool") /\ "usage" \in Commands
        /\ local' = [local EXCEPT ![p] = [Idle EXCEPT !.code = "usage"]]
        /\ UNCHANGED pc
  /\ UNCHANGED <<files, fds, kills, faults, ghosts>>

\* Mutant: the tool opens without looking for the file.
open_db_NoCheck(p) ==
  /\ At(p, "check")
  /\ Goto(p, "lockopen")
  /\ UNCHANGED <<files, fds, local, limits, faults, ghosts>>

\* open_db: only an existing file is opened.
open_db(p) ==
  /\ At(p, "check")
  /\ IF dir["db"] # None
     THEN Goto(p, "lockopen") /\ UNCHANGED <<holder, fds, local>>
     ELSE Leave(p, "fail")
  /\ UNCHANGED <<dir, content, limits, faults, ghosts>>

\* Mutant: the stale staging file is deleted before the lock is taken.
lockfile_open_SweepFirst(p) ==
  /\ At(p, "lockopen")
  /\ dir["lock"] # None \/ FreeLocks # {}
  /\ LET l == IF dir["lock"] # None THEN dir["lock"] ELSE CHOOSE f \in FreeLocks : TRUE
     IN  /\ dir' = [dir EXCEPT !["lock"] = l, !["staging"] = None]
         /\ lock' = [lock EXCEPT ![p] = l]
  /\ Goto(p, "lock")
  /\ UNCHANGED <<holder, file, staging, local, limits, faults, ghosts>>
  /\ Becomes(content)

\* The lock file is opened, and created if it is not there.
lockfile_open(p) ==
  /\ At(p, "lockopen")
  /\ dir["lock"] # None \/ FreeLocks # {}
  /\ LET l == IF dir["lock"] # None THEN dir["lock"] ELSE CHOOSE f \in FreeLocks : TRUE
     IN  /\ dir' = [dir EXCEPT !["lock"] = l]
         /\ lock' = [lock EXCEPT ![p] = l]
  /\ Goto(p, "lock")
  /\ UNCHANGED <<content, holder, file, staging, local, limits, faults, ghosts>>

\* Mutant: a lock that is taken does not stop the open.
file_lock_Shared(p) ==
  /\ At(p, "lock")
  /\ holder' = [holder EXCEPT ![lock[p]] = p]
  /\ Goto(p, "sweep")
  /\ UNCHANGED <<dir, content, fds, local, limits, faults, ghosts>>

\* flock(LOCK_EX | LOCK_NB) on the open lock file.
file_lock(p) ==
  /\ At(p, "lock")
  /\ IF holder[lock[p]] = None
     THEN /\ holder' = [holder EXCEPT ![lock[p]] = p]
          /\ Goto(p, "sweep")
          /\ UNCHANGED <<fds, local>>
     ELSE Leave(p, "fail")
  /\ UNCHANGED <<dir, content, limits, faults, ghosts>>

\* The staging file of an interrupted compaction is deleted, if that works.
Sweep(p) ==
  /\ At(p, "sweep")
  /\ Goto(p, "open")
  /\ \/ dir' = [dir EXCEPT !["staging"] = None] /\ UNCHANGED faults
     \/ dir["staging"] # None /\ Fault /\ UNCHANGED dir
  /\ UNCHANGED <<holder, fds, local, limits, ghosts>>
  /\ Becomes(content)

\* Where a program goes once qdb_open has returned a handle.
Opened(p) ==
  IF ~Is(p, "qdbtool") THEN "push" ELSE IF local[p].cmd = "verify" THEN "close" ELSE "stats"

\* Open or create the main file.  An existing file must have a header.
file_open(p) ==
  /\ At(p, "open")
  /\ \/ /\ dir["db"] = None
        /\ FreeFiles # {}
        /\ LET f == CHOOSE f \in FreeFiles : TRUE
           IN  /\ dir' = [dir EXCEPT !["db"] = f]
               /\ content' = [content EXCEPT ![f] = Empty]
               /\ file' = [file EXCEPT ![p] = f]
        /\ Goto(p, "header")
        /\ UNCHANGED <<holder, lock, staging, local, faults>>
     \/ /\ dir["db"] # None
        /\ content[dir["db"]].kind = "database"
        /\ file' = [file EXCEPT ![p] = dir["db"]]
        /\ Goto(p, Opened(p))
        /\ UNCHANGED <<dir, content, holder, lock, staging, local, faults>>
     \/ /\ dir["db"] # None
        /\ content[dir["db"]].kind # "database"
        /\ Leave(p, "fail")
        /\ UNCHANGED <<dir, content, faults>>
  /\ UNCHANGED <<limits, ghosts>>

\* The lock file or the main file cannot be opened, or read, or flock fails.
OpenFails(p) ==
  /\ pc[p] \in {"lockopen", "lock", "open"}
  /\ Fault
  /\ Leave(p, "fail")
  /\ UNCHANGED <<dir, content, limits, ghosts>>

\* The first header of a new database.
header_write(p) ==
  /\ At(p, "header")
  /\ \/ /\ content' = [content EXCEPT ![file[p]] = Fresh]
        /\ Goto(p, Opened(p))
        /\ UNCHANGED <<dir, holder, fds, local, faults>>
     \/ Fault /\ Leave(p, "fail") /\ UNCHANGED dir /\ Becomes(content)
  /\ UNCHANGED <<limits, ghosts>>

-----------------------------------------------------------------------------
(* Library calls on the open database, and the loops that make them.       *)

File(p) == content[file[p]]

Store(p, c) == content' = [content EXCEPT ![file[p]] = c]

\* The call failed, with nothing changed; the program closes and gives up.
GiveUp(p) ==
  /\ Fault
  /\ Goto(p, "close")
  /\ local' = [local EXCEPT ![p].code = "fail"]
  /\ UNCHANGED <<content, ghosts>>

\* The jobs of the program, one after the other; then its loop.
qdb_push(p) ==
  /\ At(p, "push")
  /\ \/ LET j    == [id |-> Cardinality(pushed) + 1, kind |-> Jobs[local[p].i + 1]]
            last == local[p].i + 1 = Len(Jobs)
        IN  /\ Store(p, [File(p) EXCEPT !.queue = Append(@, j)])
            /\ pushed' = pushed \cup {j}
            /\ Goto(p, IF last THEN "expire" ELSE "push")
            /\ local' = [local EXCEPT ![p].i = IF last THEN 0 ELSE @ + 1]
            /\ UNCHANGED <<acked, dropped, pulled, faults>>
     \/ GiveUp(p)
  /\ UNCHANGED <<dir, holder, fds, limits>>

Expired(c) == {l \in c.leased : l.left < 0}

\* The orders in which the buckets may hold the leases in S.
Orders(S) == {s \in [1..Cardinality(S) -> S] : \A x \in S : \E k \in DOMAIN s : s[k] = x}

\* The leases of s returned to the tail of the queue, one after the other.
Returned(c, s) ==
  [c EXCEPT !.queue = @ \o [k \in DOMAIN s |-> s[k].job],
            !.leased = @ \ {s[k] : k \in DOMAIN s}]

\* Mutant: the tool compacts although the expiry pass failed.
process_expired_leases_Ignored(p) ==
  /\ At(p, "expire")
  /\ \E done \in SUBSET Expired(File(p)) : \E s \in Orders(done) :
       /\ Store(p, Returned(File(p), s))
       /\ IF done = Expired(File(p)) THEN UNCHANGED faults ELSE Fault
  /\ Goto(p, IF Is(p, "qdbtool") THEN "compact" ELSE "pop")
  /\ local' = [local EXCEPT ![p].seen = {l.job : l \in Expired(File(p))}]
  /\ UNCHANGED <<dir, holder, fds, limits, ghosts>>

\* qdb_process_expired_leases.  A failure ends the pass early: the tool stops,
\* the workers do not look at the result.
process_expired_leases(p) ==
  /\ At(p, "expire")
  /\ \E done \in SUBSET Expired(File(p)) : \E s \in Orders(done) :
       /\ Store(p, Returned(File(p), s))
       /\ \/ /\ ~Is(p, "qdbtool")
             /\ Goto(p, "pop")
             /\ UNCHANGED local
          \/ /\ Is(p, "qdbtool") /\ done = Expired(File(p))
             /\ Goto(p, "compact")
             /\ local' = [local EXCEPT ![p].seen = {l.job : l \in done}]
          \/ /\ Is(p, "qdbtool") /\ done # Expired(File(p))
             /\ Goto(p, "close")
             /\ local' = [local EXCEPT ![p].code = "fail"]
       /\ IF done = Expired(File(p)) THEN UNCHANGED faults ELSE Fault
  /\ UNCHANGED <<dir, holder, fds, limits, ghosts>>

\* Mutant: an empty queue is polled without expiring leases.
qdb_pop_NoExpiry(p) ==
  /\ At(p, "pop")
  /\ \/ /\ File(p).queue = << >>
        /\ Goto(p, IF Is(p, "job_worker") THEN "close" ELSE "pop")
        /\ UNCHANGED <<content, local, faults, ghosts>>
     \/ /\ File(p).queue # << >>
        /\ LET j == Head(File(p).queue)
           IN  /\ Store(p, [File(p) EXCEPT !.queue = Tail(@),
                                           !.leased = @ \cup {[job |-> j, left |-> Timeout]}])
               /\ local' = [local EXCEPT ![p].job = j]
        /\ Goto(p, "work")
        /\ UNCHANGED <<faults, ghosts>>
     \/ GiveUp(p)
  /\ UNCHANGED <<dir, holder, fds, limits>>

\* qdb_pop.  The demonstration takes an empty queue for the end of its work.
qdb_pop(p) ==
  /\ At(p, "pop")
  /\ \/ /\ File(p).queue = << >>
        /\ Goto(p, IF Is(p, "job_worker") THEN "close" ELSE "expire")
        /\ UNCHANGED <<content, local, faults, ghosts>>
     \/ /\ File(p).queue # << >>
        /\ LET j == Head(File(p).queue)
           IN  /\ Store(p, [File(p) EXCEPT !.queue = Tail(@),
                                           !.leased = @ \cup {[job |-> j, left |-> Timeout]}])
               /\ local' = [local EXCEPT ![p].job = j]
        /\ Goto(p, "work")
        /\ UNCHANGED <<faults, ghosts>>
     \/ GiveUp(p)
  /\ UNCHANGED <<dir, holder, fds, limits>>

\* process_job is told that every delivery is the first, so a job that fails
\* on its first delivery fails on all of them.
process_job(j) == j.kind # "flaky"

\* The next turn of the loop, of which the demonstration has 2 * njobs.
Again(p) ==
  /\ Goto(p, IF Is(p, "job_worker") /\ local[p].i + 1 = 2 * Len(Jobs) THEN "close" ELSE "expire")
  /\ local' = [local EXCEPT ![p].job = None,
                            ![p].i = IF Is(p, "job_worker") THEN @ + 1 ELSE @]

\* qdb_ack or qdb_nack of the job in hand; the loops go on if it fails.
Settle(p) ==
  /\ At(p, "work")
  /\ LET j    == local[p].job
         mine == {l \in File(p).leased : l.job = j}
         rest == [File(p) EXCEPT !.leased = @ \ mine]
     IN  \/ /\ mine # {}
            /\ IF process_job(j)
               THEN /\ Store(p, [rest EXCEPT !.acked = @ + 1])
                    /\ acked' = acked \cup {j}
               ELSE /\ Store(p, [rest EXCEPT !.queue = Append(@, j)])
                    /\ UNCHANGED acked
            /\ UNCHANGED faults
         \/ /\ IF mine # {} THEN Fault ELSE UNCHANGED faults
            /\ UNCHANGED <<content, acked>>
  /\ Again(p)
  /\ UNCHANGED <<dir, holder, fds, limits, pushed, dropped, pulled>>

\* qdb_close; then a demonstration that succeeded removes its files.
qdb_close(p) ==
  /\ At(p, "close")
  /\ IF Is(p, "job_worker") /\ local[p].code = "ok"
     THEN /\ Goto(p, "rmdb")
          /\ local' = [local EXCEPT ![p] = Idle]
          /\ CloseAll(p)
     ELSE Leave(p, local[p].code)
  /\ UNCHANGED <<dir, limits, faults, ghosts>>
  /\ Becomes(content)

\* remove() of the database, without the lock.
RemoveDb(p) ==
  /\ At(p, "rmdb")
  /\ dir' = [dir EXCEPT !["db"] = None]
  /\ Goto(p, "rmlock")
  /\ local' = [r \in Procs |-> [local[r] EXCEPT !.raced = local[r].cmd # None]]
  /\ dropped' = IF dir["db"] = None THEN dropped
                ELSE dropped \cup JobsOf(content[dir["db"]])
  /\ pulled' = (pulled \/ \E r \in Procs : dir["db"] # None /\ file[r] = dir["db"])
  /\ UNCHANGED <<holder, fds, limits, faults, pushed, acked>>
  /\ Becomes(content)

\* remove() of the lock file.
RemoveLock(p) ==
  /\ At(p, "rmlock")
  /\ dir' = [dir EXCEPT !["lock"] = None]
  /\ Leave(p, "ok")
  /\ pulled' = (pulled \/ \E r \in Procs : dir["lock"] # None /\ lock[r] = dir["lock"])
  /\ UNCHANGED <<content, limits, faults, pushed, acked, dropped>>

-----------------------------------------------------------------------------
(* qdbtool: inspection and compaction.                                     *)

compact_recommended(c) ==
  c.acked > 0 /\ c.acked > Len(c.queue) + Cardinality(c.leased)

\* The reading calls of the command cmd, on a database that stays as it is.
Reads(p, cmd) ==
  /\ At(p, "stats") /\ local[p].cmd = cmd
  /\ UNCHANGED <<dir, holder, fds, limits>>

\* They succeed, and the tool goes on to step.
Then(p, step) == Goto(p, step) /\ UNCHANGED <<content, local, faults, ghosts>>

cmd_info(p) == Reads(p, "info") /\ (Then(p, "close") \/ GiveUp(p))

cmd_list(p) == Reads(p, "list") /\ (Then(p, "close") \/ GiveUp(p))

\* Statistics of all queues, or of one, which may not be there.
cmd_stats(p) ==
  /\ Reads(p, "stats")
  /\ \/ Then(p, "close")
     \/ /\ Goto(p, "close") /\ local' = [local EXCEPT ![p].code = "fail"]
        /\ UNCHANGED <<content, faults, ghosts>>
     \/ GiveUp(p)

\* A compaction is only made when it is recommended or forced, and never in a
\* dry run; leases are expired first.
cmd_compact(p) ==
  \E cmd \in {"compact", "force", "dry-run"} :
    /\ Reads(p, cmd)
    /\ \/ Then(p, IF cmd = "force" \/ (cmd = "compact" /\ compact_recommended(File(p)))
                  THEN "expire" ELSE "close")
       \/ GiveUp(p)

\* qdb_compact: any old staging file is deleted and a new one created.
CompactBegin(p) ==
  /\ At(p, "compact")
  /\ \/ /\ FreeFiles # {}
        /\ LET f == CHOOSE f \in FreeFiles : TRUE
           IN  /\ dir' = [dir EXCEPT !["staging"] = f]
               /\ staging' = [staging EXCEPT ![p] = f]
               /\ UNCHANGED file
               /\ Becomes([content EXCEPT ![f] = Empty])
        /\ Goto(p, "copy")
        /\ UNCHANGED <<local, faults, ghosts>>
     \/ GiveUp(p) /\ UNCHANGED <<dir, file, staging>>
  /\ UNCHANGED <<holder, lock, limits>>

\* The staging file is given up.
CompactFail(p) ==
  /\ Goto(p, "close")
  /\ local' = [local EXCEPT ![p].code = "fail"]
  /\ dir' = [dir EXCEPT !["staging"] = None]
  /\ staging' = [staging EXCEPT ![p] = None]
  /\ UNCHANGED file
  /\ Becomes(content)

\* Mutant: only pending messages are copied.
CompactCopy_Pending(p) ==
  /\ At(p, "copy")
  /\ content' = [content EXCEPT ![staging[p]] = [File(p) EXCEPT !.acked = 0, !.leased = {}]]
  /\ Goto(p, "rename")
  /\ UNCHANGED <<dir, holder, fds, local, limits, faults, ghosts>>

\* Pending and leased messages are copied, acknowledged ones are not.
CompactCopy(p) ==
  /\ At(p, "copy")
  /\ \/ /\ content' = [content EXCEPT ![staging[p]] = [File(p) EXCEPT !.acked = 0]]
        /\ Goto(p, "rename")
        /\ UNCHANGED <<dir, file, staging, local, faults>>
     \/ Fault /\ CompactFail(p)
  /\ UNCHANGED <<holder, lock, limits, ghosts>>

\* The staging entry becomes the database, whatever file it names by now.
CompactRename(p) ==
  /\ At(p, "rename")
  /\ \/ /\ dir["staging"] # None
        /\ dir' = [dir EXCEPT !["db"] = dir["staging"], !["staging"] = None]
        /\ staging' = [staging EXCEPT ![p] = None]
        /\ Goto(p, "reopen")
        /\ UNCHANGED <<file, local, faults>>
        /\ Becomes(content)
     \/ /\ IF dir["staging"] # None THEN Fault ELSE UNCHANGED faults
        /\ CompactFail(p)
  /\ UNCHANGED <<holder, lock, limits, ghosts>>

\* The handle is reopened on the new file; the tool then closes it.  The
\* figures it prints afterwards do not change its exit code.
reopen_after_compact(p) ==
  /\ At(p, "reopen")
  /\ \/ /\ dir["db"] # None
        /\ content[dir["db"]].kind = "database"
        /\ file' = [file EXCEPT ![p] = dir["db"]]
        /\ UNCHANGED <<local, faults>>
     \/ /\ IF dir["db"] # None /\ content[dir["db"]].kind = "database"
           THEN Fault ELSE UNCHANGED faults
        /\ file' = [file EXCEPT ![p] = None]
        /\ local' = [local EXCEPT ![p].code = "fail"]
  /\ Goto(p, "close")
  /\ UNCHANGED <<dir, holder, lock, staging, limits, ghosts>>
  /\ Becomes(content)

-----------------------------------------------------------------------------
(* The environment: kills, and time.                                       *)

Kill(p) ==
  /\ ~At(p, "off")
  /\ kills > 0
  /\ kills' = kills - 1
  /\ Leave(p, "killed")
  /\ UNCHANGED <<dir, runs, faults, ghosts>>
  /\ Becomes(content)

Older(l) == [l EXCEPT !.left = IF @ < 0 THEN @ ELSE @ - 1]

Tick ==
  /\ \E f \in Files : \E l \in content[f].leased : l.left >= 0
  /\ content' = [f \in Files |->
                   [content[f] EXCEPT !.leased = {Older(l) : l \in @}]]
  /\ UNCHANGED <<dir, holder, pc, fds, local, limits, faults, ghosts>>

Step(p) ==
  \/ open_db(p) \/ lockfile_open(p) \/ file_lock(p) \/ Sweep(p)
  \/ file_open(p) \/ OpenFails(p) \/ header_write(p)
  \/ qdb_push(p) \/ process_expired_leases(p) \/ qdb_pop(p) \/ Settle(p)
  \/ cmd_info(p) \/ cmd_list(p) \/ cmd_stats(p) \/ cmd_compact(p)
  \/ CompactBegin(p) \/ CompactCopy(p) \/ CompactRename(p)
  \/ reopen_after_compact(p)
  \/ qdb_close(p) \/ RemoveDb(p) \/ RemoveLock(p)

Next == Tick \/ \E p \in Procs : Start(p) \/ Step(p) \/ Kill(p)

Spec == Init /\ [][Next]_vars

\* A running process is scheduled, time passes, and a long-running worker
\* that has ended is started again.  Nobody need start the other programs.
Fairness ==
  /\ WF_vars(Tick)
  /\ \A p \in Procs : WF_vars(Step(p))
  /\ \A p \in Procs : Is(p, "long_running") => WF_vars(Start(p))

FairSpec == Spec /\ Fairness

-----------------------------------------------------------------------------
(* Properties.                                                             *)

Pcs == {"off", "check", "lockopen", "lock", "sweep", "open", "header", "push",
        "expire", "pop", "work", "stats", "compact", "copy", "rename", "reopen",
        "close", "rmdb", "rmlock"}

\* The lock file keeps the database to one process at a time, through kills
\* and failures, as long as no demonstration removes a file in use.
Exclusive ==
  ~pulled => \A p, q \in Procs : p # q => file[p] = None \/ file[q] = None

\* An open that deletes the staging file of an interrupted compaction never
\* deletes that of one in progress: what is renamed is what was written.
StagingSafe ==
  ~pulled => \A p \in Procs : pc[p] \in {"copy", "rename"} =>
               dir["staging"] = staging[p]

\* A job that was pushed is acknowledged, or in the database the directory
\* names, or went with a database that a demonstration removed, whoever was
\* killed in the middle of an open, a compaction or a job.
JobsKept ==
  ~pulled => \A j \in pushed :
               \/ j \in acked \cup dropped
               \/ dir["db"] # None /\ j \in JobsOf(content[dir["db"]])

\* "None create a new database": qdbtool is only seen creating one if the file
\* was removed between its check and its open.
ToolCreatesNothing ==
  \A p \in Procs : Is(p, "qdbtool") /\ At(p, "header") => local[p].raced

\* No lease that had expired when the tool asked for its expiry is written to
\* the compacted file.
CompactFresh ==
  ~pulled => \A p \in Procs : At(p, "rename") =>
               {l.job : l \in content[staging[p]].leased} \cap local[p].seen = {}

\* A job that succeeds when it is processed is acknowledged in the end: if its
\* worker dies with it, the lease runs out and the job is delivered again.
Redelivered ==
  \A n \in 1..(MaxKills + MaxFaults + 1) * Len(Jobs) :
    LET j == [id |-> n, kind |-> "plain"] IN j \in pushed ~> j \in acked \cup dropped
=============================================================================
