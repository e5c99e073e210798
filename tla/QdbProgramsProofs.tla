------------------------- MODULE QdbProgramsProofs -------------------------
(***************************************************************************)
(* The exclusion that the lock file gives, for any number of processes and *)
(* any mix of programs, kills and failures.  The inductive invariant says  *)
(* who has what: a process past flock holds the lock of the lock file it   *)
(* has open, a process that is not has no other file open, and while no    *)
(* file has been pulled from under a process, every open lock file is the  *)
(* one the directory names.  The second half follows the jobs: exclusion   *)
(* lets each process count on the file it has open, so that no job is lost *)
(* on the way through calls, compactions and kills.                        *)
(***************************************************************************)
EXTENDS QdbPrograms, FiniteSetTheorems, TLAPS

\* The steps of a process that has been given the lock.
Holding == {"sweep", "open", "header", "push", "expire", "pop", "work", "stats",
            "compact", "copy", "rename", "reopen", "close"}

Types ==
  /\ dir \in [Entries -> Files \cup LockFiles \cup {None}]
  /\ dir["lock"] \in LockFiles \cup {None}
  /\ dir["db"] \in Files \cup {None}
  /\ dir["staging"] \in Files \cup {None}
  /\ holder \in [LockFiles -> Procs \cup {None}]
  /\ pc \in [Procs -> Pcs]
  /\ file \in [Procs -> Files \cup {None}]
  /\ lock \in [Procs -> LockFiles \cup {None}]
  /\ staging \in [Procs -> Files \cup {None}]
  /\ pulled \in BOOLEAN

\* What a process has open at each of its steps.
Has(p) ==
  /\ pc[p] \in Holding => lock[p] # None /\ holder[lock[p]] = p
  /\ pc[p] = "lock" => lock[p] # None
  /\ pc[p] \notin Holding => file[p] = None /\ staging[p] = None
  /\ pc[p] \notin Holding \cup {"lock"} => lock[p] = None

\* The lock file a process has open is the one the directory names.
Named(p) == lock[p] # None => lock[p] = dir["lock"]

\* A compaction in progress has its staging file in the directory.
Staged(p) == pc[p] \in {"copy", "rename"} => dir["staging"] = staging[p]

PInv ==
  /\ Types
  /\ \A p \in Procs : Has(p)
  /\ ~pulled => \A p \in Procs : Named(p) /\ Staged(p)

-----------------------------------------------------------------------------
\* The lock has one holder: two processes past flock are one.
LEMMA OneHolder ==
  ASSUME PInv, ~pulled, NEW p \in Procs, NEW q \in Procs,
         pc[p] \in Holding, pc[q] \in Holding
  PROVE  p = q
BY DEF PInv, Has, Named

\* The initial state, in which nothing is open.
LEMMA InitEstablishes == Init => PInv
<1> SUFFICES ASSUME Init PROVE PInv
  BY Zenon
<1>1. Types
  BY Zenon DEF Init, Types, Pcs, Entries
<1>2. ASSUME NEW p \in Procs PROVE Has(p) /\ Named(p) /\ Staged(p)
  BY Zenon DEF Init, Has, Named, Staged, Holding
<1> QED
  BY <1>1, <1>2, Zenon DEF PInv

-----------------------------------------------------------------------------
\* Every step of every process, kill and tick of the clock keeps the invariant.
LEMMA StepKeeps == PInv /\ [Next]_vars => PInv'
\* A step that closes what a process has open, and goes where it has nothing.
<1>LeavingKeeps.
    ASSUME PInv, NEW p \in Procs, CloseAll(p),
           NEW step \in {"off", "rmdb"}, Goto(p, step),
           UNCHANGED <<dir, pulled>>
    PROVE  PInv'
  <2> USE <1>LeavingKeeps
  <2>1. Types'
    BY Zenon DEF PInv, Types, CloseAll, Unlocked, Goto, Pcs
  <2>2. ASSUME NEW q \in Procs PROVE Has(q)'
    <3>1. CASE q = p
      BY <3>1 DEF PInv, Types, CloseAll, Goto, Has, Holding
    <3>2. CASE q # p
      <4>1. /\ pc'[q] = pc[q] /\ lock'[q] = lock[q] /\ file'[q] = file[q]
            /\ staging'[q] = staging[q]
        BY <3>2, Zenon DEF PInv, Types, CloseAll, Goto
      <4>2. lock[q] # None /\ holder[lock[q]] = q => holder'[lock[q]] = q
        BY <3>2, Zenon DEF PInv, Types, CloseAll, Unlocked
      <4> QED
        BY <4>1, <4>2, Zenon DEF PInv, Has
    <3> QED
      BY <3>1, <3>2, Zenon
  <2>3. ASSUME NEW q \in Procs, ~pulled PROVE Named(q)' /\ Staged(q)'
    BY <2>3, Zenon DEF PInv, Types, CloseAll, Goto, Named, Staged
  <2> QED
    BY <2>1, <2>2, <2>3, Zenon DEF PInv
\* A step of a process that holds the lock and keeps its lock file open.
<1>HoldingKeeps.
    ASSUME PInv, NEW p \in Procs, pc[p] \in Holding,
           NEW step \in Holding, Goto(p, step),
           UNCHANGED <<lock, holder, pulled>>,
           file' \in [Procs -> Files \cup {None}],
           \A q \in Procs \ {p} : file'[q] = file[q] /\ staging'[q] = staging[q],
           staging' \in [Procs -> Files \cup {None}],
           dir' \in [Entries -> Files \cup LockFiles \cup {None}],
           dir'["lock"] = dir["lock"],
           dir'["db"] \in Files \cup {None}, dir'["staging"] \in Files \cup {None},
           ~pulled /\ step \in {"copy", "rename"} => dir'["staging"] = staging'[p]
    PROVE  PInv'
  <2> USE <1>HoldingKeeps
  <2>1. Types'
    BY Zenon DEF PInv, Types, Goto, Holding, Pcs
  <2>2. ASSUME NEW q \in Procs PROVE Has(q)'
    BY DEF PInv, Types, Goto, Has
  <2>3. ASSUME NEW q \in Procs, ~pulled PROVE Named(q)' /\ Staged(q)'
    <3>1. Named(q)'
      BY <2>3, Zenon DEF PInv, Named
    <3>2. CASE q = p
      BY <2>3, <3>1, <3>2, Zenon DEF PInv, Types, Goto, Staged
    <3>3. CASE q # p
      <4>1. pc'[q] = pc[q] /\ pc[q] \notin Holding
        BY <2>3, <3>3, OneHolder, Zenon DEF PInv, Types, Goto
      <4> QED
        BY <3>1, <4>1, Zenon DEF Staged, Holding
    <3> QED
      BY <3>2, <3>3, Zenon
  <2> QED
    BY <2>1, <2>2, <2>3, Zenon DEF PInv
\* The steps before flock, flock itself, and an open that fails.
<1>OpeningKeeps.
    ASSUME PInv, NEW p \in Procs,
           Start(p) \/ open_db(p) \/ lockfile_open(p) \/ file_lock(p) \/ OpenFails(p)
    PROVE  PInv'
  <2> USE <1>OpeningKeeps
  <2>1. CASE Start(p)
    <3>1. /\ UNCHANGED <<dir, holder, file, lock, staging, pulled>>
          /\ pc[p] = "off"
          /\ pc' \in {[pc EXCEPT ![p] = "lockopen"], [pc EXCEPT ![p] = "check"], pc}
      BY <2>1, Zenon DEF Start, At, Goto, files, fds, ghosts
    <3>2. Types'
      BY <3>1, Zenon DEF PInv, Types, Pcs
    <3>3. ASSUME NEW q \in Procs PROVE Has(q)' /\ (~pulled => Named(q)' /\ Staged(q)')
      BY <3>1 DEF PInv, Types, Has, Named, Staged, Holding
    <3> QED
      BY <3>1, <3>2, <3>3, Zenon DEF PInv
  <2>2. CASE open_db(p)
    <3>1. CASE dir["db"] # None
      <4>1. /\ UNCHANGED <<dir, holder, file, lock, staging, pulled>>
            /\ pc[p] = "check"
            /\ pc' = [pc EXCEPT ![p] = "lockopen"]
        BY <2>2, <3>1, Zenon DEF open_db, At, Goto, fds, ghosts
      <4>2. Types'
        BY <4>1, Zenon DEF PInv, Types, Pcs
      <4>3. ASSUME NEW q \in Procs PROVE Has(q)' /\ (~pulled => Named(q)' /\ Staged(q)')
        BY <4>1 DEF PInv, Types, Has, Named, Staged, Holding
      <4> QED
        BY <4>1, <4>2, <4>3, Zenon DEF PInv
    <3>2. CASE dir["db"] = None
      BY <2>2, <3>2, <1>LeavingKeeps, Zenon DEF open_db, Leave, ghosts
    <3> QED
      BY <3>1, <3>2, Zenon
  <2>3. CASE lockfile_open(p)
    <3> DEFINE l == IF dir["lock"] # None THEN dir["lock"] ELSE CHOOSE f \in FreeLocks : TRUE
    <3>1. /\ UNCHANGED <<holder, file, staging, pulled>>
          /\ pc[p] = "lockopen"
          /\ pc' = [pc EXCEPT ![p] = "lock"]
          /\ dir' = [dir EXCEPT !["lock"] = l]
          /\ lock' = [lock EXCEPT ![p] = l]
          /\ dir["lock"] # None \/ FreeLocks # {}
      BY <2>3, Zenon DEF lockfile_open, At, Goto, ghosts
    <3>2. l \in LockFiles
      BY <3>1, Zenon DEF PInv, Types, FreeLocks
    <3>3. l # None
      BY <3>2, ProgramsAssumption, Zenon
    <3> HIDE DEF l
    <3>4. dir'["lock"] = l /\ dir'["db"] = dir["db"] /\ dir'["staging"] = dir["staging"]
      BY <3>1, Zenon DEF PInv, Types, Entries
    <3>5. Types'
      BY <3>1, <3>2, <3>4, Zenon DEF PInv, Types, Pcs, Entries
    <3>6. ASSUME NEW q \in Procs PROVE Has(q)'
      BY <3>1, <3>3 DEF PInv, Types, Has, Holding
    <3>7. ASSUME NEW q \in Procs, ~pulled PROVE Named(q)' /\ Staged(q)'
      <4>1. q # p /\ lock[q] # None => dir["lock"] = lock[q] /\ l = dir["lock"]
        BY <3>7, Zenon DEF PInv, Named, l
      <4>2. Named(q)'
        BY <3>1, <3>4, <4>1, Zenon DEF PInv, Types, Named
      <4>3. Staged(q)'
        BY <3>1, <3>4, <3>7, Zenon DEF PInv, Types, Staged
      <4> QED
        BY <4>2, <4>3, Zenon
    <3> QED
      BY <3>1, <3>5, <3>6, <3>7, Zenon DEF PInv
  <2>4. CASE file_lock(p)
    <3>1. pc[p] = "lock" /\ UNCHANGED <<dir, pulled>>
      BY <2>4, Zenon DEF file_lock, At, ghosts
    <3>2. lock[p] \in LockFiles
      BY <3>1 DEF PInv, Types, Has
    <3>3. CASE holder[lock[p]] = None
      <4>1. /\ holder' = [holder EXCEPT ![lock[p]] = p]
            /\ pc' = [pc EXCEPT ![p] = "sweep"]
            /\ UNCHANGED <<file, lock, staging>>
        BY <2>4, <3>3, Zenon DEF file_lock, Goto, fds
      <4>2. Types'
        BY <3>1, <3>2, <4>1, Zenon DEF PInv, Types, Pcs
      <4>3. ASSUME NEW q \in Procs PROVE Has(q)'
        <5>1. CASE q = p
          BY <3>1, <3>2, <4>1, <5>1 DEF PInv, Types, Has, Holding
        <5>2. CASE q # p
          <6>1. pc'[q] = pc[q] /\ (holder[lock[q]] = q => lock[q] # lock[p])
            BY <3>1, <3>3, <4>1, <5>2, ProgramsAssumption DEF PInv, Types
          <6>2. lock[q] # None /\ holder[lock[q]] = q => holder'[lock[q]] = q
            BY <3>2, <4>1, <6>1, Zenon DEF PInv, Types
          <6> QED
            BY <4>1, <6>1, <6>2, Zenon DEF PInv, Has
        <5> QED
          BY <5>1, <5>2, Zenon
      <4>4. ASSUME NEW q \in Procs, ~pulled PROVE Named(q)' /\ Staged(q)'
        BY <3>1, <4>1, <4>4, Zenon DEF PInv, Types, Named, Staged
      <4> QED
        BY <3>1, <4>2, <4>3, <4>4, Zenon DEF PInv
    <3>4. CASE holder[lock[p]] # None
      BY <2>4, <3>1, <3>4, <1>LeavingKeeps, Zenon DEF file_lock, Leave
    <3> QED
      BY <3>3, <3>4, Zenon
  <2>5. CASE OpenFails(p)
    BY <2>5, <1>LeavingKeeps, Zenon DEF OpenFails, Leave, ghosts
  <2> QED
    BY <2>1, <2>2, <2>3, <2>4, <2>5, Zenon
\* A call on the open database: nothing is opened, closed or renamed.
<1>CallKeeps.
    ASSUME PInv, NEW p \in Procs, pc[p] \in Holding,
           NEW step \in Holding \ {"copy", "rename"}, Goto(p, step),
           UNCHANGED <<dir, holder, file, lock, staging, pulled>>
    PROVE  PInv'
  BY <1>CallKeeps, <1>HoldingKeeps, Zenon DEF PInv, Types
\* The rest of qdb_open.
<1>OpenKeeps.
    ASSUME PInv, NEW p \in Procs, Sweep(p) \/ file_open(p) \/ header_write(p)
    PROVE  PInv'
  <2> USE <1>OpenKeeps
  <2> USE DEF ghosts
  <2>0. pc[p] \in Holding
    BY Zenon DEF Sweep, file_open, header_write, At, Holding
  <2>1. CASE Sweep(p)
    <3>1. /\ Goto(p, "open")
          /\ UNCHANGED <<holder, file, lock, staging, pulled>>
          /\ dir' \in {dir, [dir EXCEPT !["staging"] = None]}
      BY <2>1, Zenon DEF Sweep, fds
    <3>2. /\ dir' \in [Entries -> Files \cup LockFiles \cup {None}]
          /\ dir'["lock"] = dir["lock"]
          /\ dir'["db"] \in Files \cup {None} /\ dir'["staging"] \in Files \cup {None}
      BY <3>1, Zenon DEF PInv, Types, Entries
    <3> QED
      BY <2>0, <3>1, <3>2, <1>HoldingKeeps, Zenon DEF PInv, Types, Holding
  <2>2. CASE file_open(p)
    <3>1. CASE /\ dir["db"] = None /\ FreeFiles # {} /\ Goto(p, "header")
               /\ LET f == CHOOSE f \in FreeFiles : TRUE
                  IN  dir' = [dir EXCEPT !["db"] = f] /\ file' = [file EXCEPT ![p] = f]
               /\ UNCHANGED <<holder, lock, staging>>
      <4> DEFINE f == CHOOSE f \in FreeFiles : TRUE
      <4>1. f \in Files
        BY <3>1, Zenon DEF FreeFiles
      <4> HIDE DEF f
      <4>2. dir' = [dir EXCEPT !["db"] = f] /\ file' = [file EXCEPT ![p] = f]
        BY <3>1, Zenon DEF f
      <4>3. /\ dir' \in [Entries -> Files \cup LockFiles \cup {None}]
            /\ dir'["lock"] = dir["lock"]
            /\ dir'["db"] \in Files \cup {None} /\ dir'["staging"] \in Files \cup {None}
        BY <4>1, <4>2, Zenon DEF PInv, Types, Entries
      <4>4. /\ file' \in [Procs -> Files \cup {None}]
            /\ \A q \in Procs \ {p} : file'[q] = file[q]
        BY <4>1, <4>2, Zenon DEF PInv, Types
      <4>5. pulled' = pulled
        BY <2>2, Zenon DEF file_open
      <4> QED
        BY <2>0, <3>1, <4>3, <4>4, <4>5, <1>HoldingKeeps, ZenonT(40) DEF PInv, Types, Holding
    <3>2. CASE /\ dir["db"] # None /\ file' = [file EXCEPT ![p] = dir["db"]]
               /\ Goto(p, Opened(p)) /\ UNCHANGED <<dir, holder, lock, staging>>
      <4>1. Opened(p) \in Holding /\ Opened(p) \notin {"copy", "rename"}
        BY Zenon DEF Opened, Holding
      <4>2. /\ file' \in [Procs -> Files \cup {None}]
            /\ \A q \in Procs \ {p} : file'[q] = file[q]
        BY <3>2, Zenon DEF PInv, Types
      <4>3. pulled' = pulled
        BY <2>2, Zenon DEF file_open
      <4> QED
        BY <2>0, <3>2, <4>1, <4>2, <4>3, <1>HoldingKeeps, ZenonT(40) DEF PInv, Types
    <3>3. CASE Leave(p, "fail") /\ UNCHANGED dir
      BY <2>2, <3>3, <1>LeavingKeeps, Zenon DEF file_open, Leave
    <3> QED
      BY <2>2, <3>1, <3>2, <3>3, Zenon DEF file_open
  <2>3. CASE header_write(p)
    <3>1. CASE Goto(p, Opened(p)) /\ UNCHANGED <<dir, holder, fds>>
      <4>1. Opened(p) \in Holding \ {"copy", "rename"}
        BY Zenon DEF Opened, Holding
      <4> QED
        BY <2>0, <2>3, <3>1, <4>1, <1>CallKeeps, Zenon DEF header_write, fds
    <3>2. CASE Leave(p, "fail") /\ UNCHANGED dir
      BY <2>3, <3>2, <1>LeavingKeeps, Zenon DEF header_write, Leave
    <3> QED
      BY <2>3, <3>1, <3>2, Zenon DEF header_write
  <2> QED
    BY <2>1, <2>2, <2>3, Zenon
\* The library calls, and the loops around them.
<1>LoopKeeps.
    ASSUME PInv, NEW p \in Procs,
           \/ qdb_push(p) \/ process_expired_leases(p) \/ qdb_pop(p)
           \/ Settle(p) \/ cmd_info(p) \/ cmd_list(p) \/ cmd_stats(p) \/ cmd_compact(p)
    PROVE  PInv'
  <2> USE <1>LoopKeeps
  <2> DEFINE Command == cmd_info(p) \/ cmd_list(p) \/ cmd_stats(p) \/ cmd_compact(p)
  <2>0. Command => \E cmd \in {"info", "list", "stats", "compact", "force", "dry-run"} : Reads(p, cmd)
    BY Zenon DEF cmd_info, cmd_list, cmd_stats, cmd_compact
  <2>0a. Command => ghosts' = ghosts
    BY Zenon DEF cmd_info, cmd_list, cmd_stats, cmd_compact, Then, GiveUp
  <2>1. pc[p] \in Holding
    BY <2>0, Zenon DEF qdb_push, process_expired_leases, qdb_pop, Settle, Reads, At, Holding
  <2>2. UNCHANGED <<dir, holder, file, lock, staging, pulled>>
    BY <2>0, <2>0a, Zenon
    DEF qdb_push, process_expired_leases, qdb_pop, Settle, Reads, GiveUp, fds, ghosts
  <2>3. \E step \in Holding \ {"copy", "rename"} : Goto(p, step)
    <3>1. CASE qdb_push(p)
      BY <3>1, Zenon DEF qdb_push, GiveUp, Holding
    <3>2. CASE process_expired_leases(p)
      BY <3>2, Zenon DEF process_expired_leases, Holding
    <3>3. CASE qdb_pop(p)
      BY <3>3, Zenon DEF qdb_pop, GiveUp, Holding
    <3>4. CASE Settle(p)
      BY <3>4, Zenon DEF Settle, Again, Holding
    <3>5. CASE Command
      BY <3>5, Zenon DEF cmd_info, cmd_list, cmd_stats, cmd_compact, Then, GiveUp, Holding
    <3> QED
      BY <3>1, <3>2, <3>3, <3>4, <3>5, Zenon
  <2> QED
    BY <2>1, <2>2, <2>3, <1>CallKeeps, Zenon
\* qdb_compact, from the staging file to the reopened handle.
<1>CompactKeeps.
    ASSUME PInv, NEW p \in Procs,
           \/ CompactBegin(p) \/ CompactCopy(p) \/ CompactRename(p)
           \/ reopen_after_compact(p)
    PROVE  PInv'
  <2> USE <1>CompactKeeps
  <2>0. pc[p] \in Holding
    BY Zenon DEF CompactBegin, CompactCopy, CompactRename, reopen_after_compact, At, Holding
  <2>1. UNCHANGED <<holder, lock, pulled>>
    BY Zenon DEF CompactBegin, CompactCopy, CompactRename, reopen_after_compact, GiveUp, ghosts
  <2>2. ASSUME CompactFail(p) PROVE PInv'
    <3>1. /\ dir' \in [Entries -> Files \cup LockFiles \cup {None}]
          /\ dir'["lock"] = dir["lock"]
          /\ dir'["db"] \in Files \cup {None} /\ dir'["staging"] \in Files \cup {None}
      BY <2>2, Zenon DEF CompactFail, PInv, Types, Entries
    <3>2. /\ staging' \in [Procs -> Files \cup {None}]
          /\ \A q \in Procs \ {p} : staging'[q] = staging[q]
      BY <2>2, Zenon DEF CompactFail, PInv, Types
    <3>3. Goto(p, "close") /\ file' = file
      BY <2>2, Zenon DEF CompactFail
    <3> QED
      BY <2>0, <2>1, <3>1, <3>2, <3>3, <1>HoldingKeeps, ZenonT(40) DEF PInv, Types, Holding
  <2>3. CASE CompactBegin(p)
    <3>1. CASE GiveUp(p) /\ UNCHANGED <<dir, file, staging>>
      BY <2>0, <2>1, <3>1, <1>CallKeeps, Zenon DEF GiveUp, Holding
    <3>2. CASE /\ FreeFiles # {} /\ Goto(p, "copy") /\ UNCHANGED file
               /\ LET f == CHOOSE f \in FreeFiles : TRUE
                  IN  /\ dir' = [dir EXCEPT !["staging"] = f]
                      /\ staging' = [staging EXCEPT ![p] = f]
      <4> DEFINE f == CHOOSE f \in FreeFiles : TRUE
      <4>1. f \in Files
        BY <3>2, Zenon DEF FreeFiles
      <4> HIDE DEF f
      <4>2. dir' = [dir EXCEPT !["staging"] = f] /\ staging' = [staging EXCEPT ![p] = f]
        BY <3>2, Zenon DEF f
      <4>3. /\ dir' \in [Entries -> Files \cup LockFiles \cup {None}]
            /\ dir'["lock"] = dir["lock"] /\ dir'["staging"] = f
            /\ dir'["db"] \in Files \cup {None} /\ dir'["staging"] \in Files \cup {None}
        BY <4>1, <4>2, Zenon DEF PInv, Types, Entries
      <4>4. /\ staging' \in [Procs -> Files \cup {None}] /\ staging'[p] = f
            /\ \A q \in Procs \ {p} : staging'[q] = staging[q]
        BY <4>1, <4>2, Zenon DEF PInv, Types
      <4> QED
        BY <2>0, <2>1, <3>2, <4>3, <4>4, <1>HoldingKeeps, ZenonT(40) DEF PInv, Types, Holding
    <3> QED
      BY <2>3, <3>1, <3>2, Zenon DEF CompactBegin
  <2>4. CASE CompactCopy(p)
    <3>1. CASE Goto(p, "rename") /\ UNCHANGED <<dir, file, staging>>
      <4>1. ~pulled => dir["staging"] = staging[p]
        BY <2>4, Zenon DEF CompactCopy, At, PInv, Staged
      <4> QED
        BY <2>0, <2>1, <3>1, <4>1, <1>HoldingKeeps, Zenon DEF PInv, Types, Holding
    <3> QED
      BY <2>2, <2>4, <3>1, Zenon DEF CompactCopy
  <2>5. CASE CompactRename(p)
    <3>1. CASE /\ dir' = [dir EXCEPT !["db"] = dir["staging"], !["staging"] = None]
               /\ staging' = [staging EXCEPT ![p] = None]
               /\ Goto(p, "reopen") /\ UNCHANGED file
      <4>1. /\ dir' \in [Entries -> Files \cup LockFiles \cup {None}]
            /\ dir'["lock"] = dir["lock"]
            /\ dir'["db"] \in Files \cup {None} /\ dir'["staging"] \in Files \cup {None}
        BY <3>1, Zenon DEF PInv, Types, Entries
      <4>2. /\ staging' \in [Procs -> Files \cup {None}]
            /\ \A q \in Procs \ {p} : staging'[q] = staging[q]
        BY <3>1, Zenon DEF PInv, Types
      <4> QED
        BY <2>0, <2>1, <3>1, <4>1, <4>2, <1>HoldingKeeps, Zenon DEF PInv, Types, Holding
    <3> QED
      BY <2>2, <2>5, <3>1, Zenon DEF CompactRename
  <2>6. CASE reopen_after_compact(p)
    <3>1. /\ Goto(p, "close") /\ UNCHANGED <<dir, staging>>
          /\ file' \in {[file EXCEPT ![p] = dir["db"]], [file EXCEPT ![p] = None]}
      BY <2>6, Zenon DEF reopen_after_compact
    <3>2. /\ file' \in [Procs -> Files \cup {None}]
          /\ \A q \in Procs \ {p} : file'[q] = file[q]
      BY <3>1, Zenon DEF PInv, Types
    <3> QED
      BY <2>0, <2>1, <3>1, <3>2, <1>HoldingKeeps, Zenon DEF PInv, Types, Holding
  <2> QED
    BY <2>3, <2>4, <2>5, <2>6, Zenon
\* The end of a process, and the removals of a demonstration.  The lock file
\* is removed either while nobody has it open, or the file counts as pulled.
<1>EndKeeps.
    ASSUME PInv, NEW p \in Procs,
           qdb_close(p) \/ Kill(p) \/ RemoveDb(p) \/ RemoveLock(p)
    PROVE  PInv'
  <2> USE <1>EndKeeps
  <2>1. CASE qdb_close(p)
    BY <2>1, <1>LeavingKeeps, Zenon DEF qdb_close, Leave, ghosts
  <2>2. CASE Kill(p)
    BY <2>2, <1>LeavingKeeps, Zenon DEF Kill, Leave, ghosts
  <2>3. CASE RemoveDb(p)
    <3>1. /\ dir' = [dir EXCEPT !["db"] = None]
          /\ pc[p] = "rmdb" /\ pc' = [pc EXCEPT ![p] = "rmlock"]
          /\ UNCHANGED <<holder, file, lock, staging>>
          /\ pulled' \in BOOLEAN /\ (pulled => pulled')
      BY <2>3, Zenon DEF RemoveDb, At, Goto, fds
    <3>2. dir'["lock"] = dir["lock"] /\ dir'["staging"] = dir["staging"] /\ dir'["db"] = None
      BY <3>1, Zenon DEF PInv, Types, Entries
    <3>3. Types'
      BY <3>1, <3>2, Zenon DEF PInv, Types, Pcs, Entries
    <3>4. ASSUME NEW q \in Procs PROVE Has(q)' /\ (~pulled' => Named(q)' /\ Staged(q)')
      BY <3>1, <3>2, Zenon DEF PInv, Types, Has, Named, Staged, Holding
    <3> QED
      BY <3>3, <3>4, Zenon DEF PInv
  <2>4. CASE RemoveLock(p)
    <3>1. /\ dir' = [dir EXCEPT !["lock"] = None]
          /\ pc[p] = "rmlock" /\ Goto(p, "off") /\ CloseAll(p)
          /\ pulled' = (pulled \/ \E r \in Procs : dir["lock"] # None /\ lock[r] = dir["lock"])
      BY <2>4, Zenon DEF RemoveLock, Leave, At
    <3>2. dir'["lock"] = None /\ dir'["staging"] = dir["staging"] /\ dir'["db"] = dir["db"]
      BY <3>1, Zenon DEF PInv, Types, Entries
    <3>3. Types'
      BY <3>1, <3>2, Zenon DEF PInv, Types, Pcs, Entries, CloseAll, Unlocked, Goto
    <3>4. ASSUME NEW q \in Procs PROVE Has(q)'
      <4>1. CASE q = p
        BY <3>1, <4>1 DEF PInv, Types, CloseAll, Goto, Has, Holding
      <4>2. CASE q # p
        <5>1. /\ pc'[q] = pc[q] /\ lock'[q] = lock[q] /\ file'[q] = file[q]
              /\ staging'[q] = staging[q]
          BY <3>1, <4>2, Zenon DEF PInv, Types, CloseAll, Goto
        <5>2. lock[q] # None /\ holder[lock[q]] = q => holder'[lock[q]] = q
          BY <3>1, <4>2, Zenon DEF PInv, Types, CloseAll, Unlocked
        <5> QED
          BY <5>1, <5>2, Zenon DEF PInv, Has
      <4> QED
        BY <4>1, <4>2, Zenon
    <3>5. ASSUME NEW q \in Procs, ~pulled' PROVE Named(q)' /\ Staged(q)'
      <4>1. ~pulled /\ lock[q] = None
        BY <3>1, <3>5, Zenon DEF PInv, Named
      <4>2. Named(q)'
        BY <3>1, <4>1, Zenon DEF PInv, Types, CloseAll, Named
      <4>3. Staged(q)'
        BY <3>1, <3>2, <4>1, Zenon DEF PInv, Types, CloseAll, Goto, Staged
      <4> QED
        BY <4>2, <4>3, Zenon
    <3> QED
      BY <3>3, <3>4, <3>5, Zenon DEF PInv
  <2> QED
    BY <2>1, <2>2, <2>3, <2>4, Zenon
<1> SUFFICES ASSUME PInv, [Next]_vars PROVE PInv'
  BY Zenon
<1>1. CASE UNCHANGED <<dir, holder, pc, file, lock, staging, pulled>>
  BY <1>1, Zenon DEF PInv, Types, Has, Named, Staged
<1>2. CASE Tick
  BY <1>1, <1>2, Zenon DEF Tick, fds, ghosts
<1>3. ASSUME NEW p \in Procs, Start(p) \/ Step(p) \/ Kill(p)
      PROVE  PInv'
  BY <1>3, <1>OpeningKeeps, <1>OpenKeeps, <1>LoopKeeps, <1>CompactKeeps, <1>EndKeeps, Zenon DEF Step
<1>4. CASE UNCHANGED vars
  BY <1>1, <1>4, Zenon DEF vars, files, fds, ghosts
<1> QED
  BY <1>2, <1>3, <1>4, Zenon DEF Next

\* What each process has open agrees with its step, and with the lock.
THEOREM OpenFilesAgree == Spec => []PInv
<1>1. Init => PInv
  BY InitEstablishes, Zenon
<1>2. PInv /\ [Next]_vars => PInv'
  BY StepKeeps, Zenon
<1> QED
  BY <1>1, <1>2, PTL DEF Spec

\* No two processes have the database open, whatever their number and whoever
\* is killed, unless a demonstration removed a file in use.
THEOREM LockExcludes == Spec => []Exclusive
<1>1. PInv => Exclusive
  <2> SUFFICES ASSUME PInv, ~pulled, NEW p \in Procs, NEW q \in Procs,
                      file[p] # None, file[q] # None
               PROVE  p = q
    BY Zenon DEF Exclusive
  <2>1. pc[p] \in Holding /\ pc[q] \in Holding
    BY Zenon DEF PInv, Has
  <2> QED
    BY <2>1, OneHolder, Zenon
<1> QED
  BY <1>1, OpenFilesAgree, PTL

\* The staging file of a compaction in progress is never deleted by an open:
\* the sweep in qdb_open_err comes after the lock.
THEOREM StagingIsSafe == Spec => []StagingSafe
<1>1. PInv => StagingSafe
  BY Zenon DEF PInv, Staged, StagingSafe
<1> QED
  BY <1>1, OpenFilesAgree, PTL

-----------------------------------------------------------------------------
(***************************************************************************)
(* What the files hold.  Three more things are needed for the jobs: a file *)
(* holds a pushed job once, in its queue or under one lease; a process     *)
(* past its open works on the file the directory names, until it renames   *)
(* another one over it; and the staging file it renames has all the jobs   *)
(* of the file it replaces.                                                *)
(***************************************************************************)
Leased(c) == {l.job : l \in c.leased}

Contents(S) == [kind : {"absent", "empty", "database"}, queue : Seq(S),
                leased : SUBSET [job : S, left : Int], acked : Int]
Locals(S) == [cmd : Commands \cup {None}, i : Int, job : S \cup {None},
              code : {"ok", "fail", "usage", "killed"}, seen : SUBSET S, raced : BOOLEAN]

\* The contents of a file are of pushed jobs, each of them once.
Once(c) ==
  /\ IsFiniteSet(c.leased)
  /\ \A k, n \in DOMAIN c.queue : c.queue[k] = c.queue[n] => k = n
  /\ \A l, m \in c.leased : l.job = m.job => l = m
  /\ \A k \in DOMAIN c.queue : c.queue[k] \notin Leased(c)

Good(S, c) == c \in Contents(S) /\ Once(c)

\* Push numbers the jobs.
Numbered(S) == IsFiniteSet(S) /\ \A j \in S : j.id \in 1..Cardinality(S)

Data ==
  /\ Numbered(pushed)
  /\ content = [f \in Files |-> content[f]]
  /\ \A f \in Files : Good(pushed, content[f])
  /\ local \in [Procs -> Locals(pushed)]

\* The steps with the database open.
InDb == {"header", "push", "expire", "pop", "work", "stats", "compact", "copy", "rename"}

Uses(p) ==
  /\ pc[p] \in InDb => file[p] # None
  /\ pc[p] \in {"copy", "rename"} => staging[p] # None

\* A tool past its check has seen a database, which only a removal takes away.
Tool(p) ==
  Is(p, "qdbtool") =>
    /\ pc[p] \in {"check", "lockopen", "lock", "sweep", "open", "header"} => local[p].cmd # None
    /\ pc[p] \in {"lockopen", "lock", "sweep", "open"} => dir["db"] # None \/ local[p].raced
    /\ pc[p] = "header" => local[p].raced

\* The open file is the database; a copy is complete and free of the leases
\* that had expired.
Current(p) ==
  /\ file[p] # None /\ pc[p] # "reopen" => file[p] = dir["db"]
  /\ pc[p] = "header" => JobsOf(content[file[p]]) = {}
  /\ pc[p] = "rename" => JobsOf(content[file[p]]) \subseteq JobsOf(content[staging[p]])
  /\ pc[p] \in {"compact", "copy"} => Leased(content[file[p]]) \cap local[p].seen = {}
  /\ pc[p] = "rename" => Leased(content[staging[p]]) \cap local[p].seen = {}

Kept == ~pulled => (\A p \in Procs : Current(p)) /\ JobsKept

JInv == PInv /\ Data /\ (\A p \in Procs : Uses(p) /\ Tool(p)) /\ Kept

-----------------------------------------------------------------------------
\* Contents without jobs: of no file, of a new file, of a new database.
LEMMA NoJobs ==
  ASSUME NEW S, NEW c \in {Absent, Empty, Fresh}
  PROVE  Good(S, c) /\ JobsOf(c) = {} /\ Leased(c) = {}
<1>1. c \in Contents(S) /\ c.queue = << >> /\ c.leased = {}
  <2>1. PICK k \in {"absent", "empty", "database"} :
          c = [kind |-> k, queue |-> << >>, leased |-> {}, acked |-> 0]
    BY Zenon DEF Absent, Empty, Fresh
  <2>2. 0 \in Int /\ << >> \in Seq(S) /\ {} \in SUBSET [job : S, left : Int]
    OBVIOUS
  <2>3. c \in Contents(S)
    BY <2>1, <2>2, Zenon DEF Contents
  <2> QED
    BY <2>1, <2>3, Zenon
<1>2. Leased(c) = {} /\ JobsOf(c) = {}
  BY <1>1 DEF Leased, JobsOf
<1>3. IsFiniteSet(c.leased)
  BY <1>1, FS_EmptySet, Zenon
<1> QED
  BY <1>1, <1>2, <1>3 DEF Good, Once

\* More jobs have been pushed.
LEMMA MoreJobs ==
  ASSUME NEW S, NEW T, S \subseteq T, NEW c, Good(S, c)
  PROVE  Good(T, c)
<1>1. c \in Contents(S) /\ Once(c)
  BY Zenon DEF Good
<1>2. c.queue \in Seq(T)
  <2>1. PICK q \in Seq(S) : q = c.queue
    BY <1>1, Zenon DEF Contents
  <2>2. q \in [1..Len(q) -> T] /\ Len(q) \in Nat
    BY <2>1
  <2> QED
    BY <2>1, <2>2
<1>3. c \in Contents(T)
  BY <1>1, <1>2, Zenon DEF Contents
<1> QED
  BY <1>1, <1>3, Zenon DEF Good

-----------------------------------------------------------------------------
\* A file that is named or open keeps what it holds.
LEMMA UsedKept ==
  ASSUME NEW c, Becomes(c), NEW f \in Files,
         \/ f = dir'["db"]
         \/ \E q \in Procs : f = file'[q] \/ f = staging'[q]
  PROVE  content'[f] = c[f]
BY Zenon DEF Becomes, Used

\* Files that are gone are empty, the others as good as they were.
LEMMA BecomesGood ==
  ASSUME NEW c, Becomes(c), NEW S, \A f \in Files : Good(S, c[f])
  PROVE  content' = [f \in Files |-> content'[f]] /\ \A f \in Files : Good(S, content'[f])
BY NoJobs, Zenon DEF Becomes

\* The steps of a process that has the lock concern nobody else.
LEMMA Alone ==
  ASSUME PInv', ~pulled', NEW p \in Procs, pc'[p] \in Holding, Current(p)',
         NEW q \in Procs
  PROVE  Current(q)'
<1>1. CASE q = p
  BY <1>1, Zenon
<1>2. CASE q # p
  <2>1. pc'[q] \notin Holding
    BY <1>2 DEF PInv, Has, Named
  <2>2. file'[q] = None
    BY <2>1, Zenon DEF PInv, Has
  <2> QED
    BY <2>1, <2>2, ZenonT(40) DEF Current, Holding
<1> QED
  BY <1>1, <1>2, Zenon

\* A step that leaves the database alone, of a process that does not have it
\* open or closes it.
LEMMA AsideKeeps ==
  ASSUME JInv, PInv', NEW p \in Procs,
         content' = content \/ Becomes(content),
         dir'["db"] = dir["db"],
         \A q \in Procs \ {p} : /\ pc'[q] = pc[q] /\ file'[q] = file[q]
                                /\ staging'[q] = staging[q] /\ local'[q] = local[q],
         pc'[p] \in {"off", "check", "lockopen", "lock", "sweep", "open", "rmdb", "rmlock"},
         file'[p] = None \/ (file'[p] = file[p] /\ pc[p] # "reopen"),
         local' \in [Procs -> Locals(pushed)],
         UNCHANGED <<pushed, acked, dropped>>, pulled => pulled',
         Tool(p)'
  PROVE  JInv'
<1>1. Data'
  <2>1. content' = [f \in Files |-> content'[f]] /\ \A f \in Files : Good(pushed, content'[f])
    BY BecomesGood, Zenon DEF JInv, Data
  <2> QED
    BY <2>1, Zenon DEF JInv, Data
<1>2. \A f \in Files : \/ f = dir'["db"]
                       \/ \E q \in Procs : f = file'[q] \/ f = staging'[q]
                       => content'[f] = content[f]
  BY UsedKept, ZenonT(40)
<1>3. ASSUME NEW q \in Procs PROVE Uses(q)' /\ Tool(q)'
  BY ZenonT(40) DEF JInv, Uses, Tool, InDb, Is
<1>4. ASSUME NEW q \in Procs, ~pulled' PROVE Current(q)'
  <2>1. CASE q = p
    BY <1>4, <2>1, ZenonT(40) DEF JInv, Kept, Current
  <2>2. CASE q # p
    <3>1. pc[q] \in InDb => content'[file[q]] = content[file[q]]
      BY <1>2, <2>2, ZenonT(40) DEF JInv, PInv, Types, Uses
    <3>2. pc[q] = "rename" => content'[staging[q]] = content[staging[q]]
      BY <1>2, <2>2, ZenonT(40) DEF JInv, PInv, Types, Uses
    <3>3. Current(q)
      BY <1>4, ZenonT(40) DEF JInv, Kept
    <3> QED
      BY <2>2, <3>1, <3>2, <3>3, ZenonT(40) DEF Current, InDb
  <2> QED
    BY <2>1, <2>2, ZenonT(40)
<1>5. ASSUME ~pulled' PROVE JobsKept'
  <2>1. dir["db"] # None => content'[dir["db"]] = content[dir["db"]]
    BY <1>2, ZenonT(40) DEF JInv, PInv, Types
  <2> QED
    BY <1>5, <2>1, ZenonT(40) DEF JInv, Kept, JobsKept
<1> QED
  BY <1>1, <1>3, <1>4, <1>5, ZenonT(40) DEF JInv, Kept

\* A call that stores d in the open database, and goes on to step.
LEMMA StoreKeeps ==
  ASSUME JInv, PInv', NEW p \in Procs, pc[p] \in InDb,
         NEW step \in {"push", "expire", "pop", "work", "stats", "compact", "close"},
         Goto(p, step), NEW d, Store(p, d),
         UNCHANGED <<dir, file, staging, pulled>>, dropped \subseteq dropped',
         pushed \subseteq pushed', acked \subseteq acked',
         Numbered(pushed'), Good(pushed', d),
         JobsOf(File(p)) \cup (pushed' \ pushed) \subseteq JobsOf(d) \cup acked',
         NEW x \in Locals(pushed'), local' = [local EXCEPT ![p] = x],
         step = "compact" => Leased(d) \cap x.seen = {}
  PROVE  JInv'
<1>0. file[p] \in Files /\ file[p] # None /\ p \in DOMAIN pc /\ p \in DOMAIN local
  BY ZenonT(40) DEF JInv, PInv, Types, Uses, Data
<1>1. /\ content' = [f \in Files |-> content'[f]] /\ content'[file[p]] = d
      /\ \A f \in Files : f # file[p] => content'[f] = content[f]
  BY <1>0, Zenon DEF Store, JInv, Data
<1>2. Data'
  <2>1. \A f \in Files : Good(pushed', content'[f])
    BY <1>1, MoreJobs, Zenon DEF JInv, Data
  <2>2. local' \in [Procs -> Locals(pushed')]
    <3>1. Locals(pushed) \subseteq Locals(pushed')
      BY Zenon DEF Locals
    <3> QED
      BY <3>1, Zenon DEF JInv, Data
  <2> QED
    BY <1>1, <2>1, <2>2, Zenon DEF Data
<1>3. pc'[p] = step /\ \A q \in Procs \ {p} : pc'[q] = pc[q] /\ local'[q] = local[q]
  BY <1>0, ZenonT(40) DEF Goto, JInv, PInv, Types, Data
<1>4. ASSUME NEW q \in Procs PROVE Uses(q)' /\ Tool(q)'
  <2>1. CASE q = p
    BY <1>0, <1>3, <2>1, ZenonT(40) DEF Uses, Tool
  <2>2. CASE q # p
    BY <1>3, <2>2, ZenonT(40) DEF JInv, Uses, Tool, Is
  <2> QED
    BY <2>1, <2>2, ZenonT(40)
<1>5. ASSUME ~pulled PROVE file[p] = dir["db"]
  BY <1>0, <1>5, ZenonT(40) DEF JInv, Kept, Current, InDb
<1>6. ASSUME NEW q \in Procs, ~pulled' PROVE Current(q)'
  <2>1. local'[p] = x
    BY <1>0, Zenon DEF JInv, Data
  <2>2. Current(p)'
    BY <1>1, <1>3, <1>5, <1>6, <2>1, ZenonT(40) DEF Current
  <2> QED
    BY <1>3, <1>6, <2>2, Alone, ZenonT(40) DEF Holding
<1>7. ASSUME ~pulled' PROVE JobsKept'
  <2>1. \A j \in pushed : j \in acked \cup dropped \/ j \in JobsOf(File(p))
    BY <1>5, <1>7, ZenonT(40) DEF JInv, Kept, JobsKept, File
  <2>2. dir'["db"] # None /\ content'[dir'["db"]] = d
    BY <1>0, <1>1, <1>5, <1>7, Zenon
  <2> QED
    BY <2>1, <2>2, ZenonT(40) DEF JobsKept
<1> QED
  BY <1>2, <1>4, <1>6, <1>7, ZenonT(40) DEF JInv, Kept

\* A call that changes nothing in the database.
LEMMA ReadKeeps ==
  ASSUME JInv, PInv', NEW p \in Procs, pc[p] \in InDb,
         NEW step \in {"push", "expire", "pop", "work", "stats", "close"}, Goto(p, step),
         UNCHANGED <<dir, file, staging, content>>, UNCHANGED ghosts,
         NEW x \in Locals(pushed), local' = [local EXCEPT ![p] = x]
  PROVE  JInv'
<1>1. file[p] \in Files
  BY ZenonT(40) DEF JInv, PInv, Types, Uses
<1>2. Store(p, File(p)) /\ Good(pushed, File(p))
  BY <1>1, Zenon DEF Store, File, JInv, Data
<1>3. pushed' = pushed /\ acked' = acked /\ dropped' = dropped /\ pulled' = pulled
  BY Zenon DEF ghosts
<1>4. Numbered(pushed') /\ Good(pushed', File(p)) /\ x \in Locals(pushed')
  BY <1>2, <1>3, Zenon DEF JInv, Data
<1> QED
  BY <1>2, <1>3, <1>4, StoreKeeps, ZenonT(40)

\* A call that fails, after which the program closes.
LEMMA GiveUpKeeps ==
  ASSUME JInv, PInv', NEW p \in Procs, pc[p] \in InDb, GiveUp(p),
         UNCHANGED <<dir, file, staging>>
  PROVE  JInv'
<1>1. local[p] \in Locals(pushed)
  BY Zenon DEF JInv, Data
<1>2. PICK x : x = [local[p] EXCEPT !.code = "fail"]
  BY Zenon
<1>3. x \in Locals(pushed)
  BY <1>1, <1>2, Zenon DEF Locals
<1>4. local' = [local EXCEPT ![p] = x]
  BY <1>2, Zenon DEF GiveUp
<1>5. Goto(p, "close") /\ UNCHANGED content /\ UNCHANGED ghosts
  BY Zenon DEF GiveUp
<1> QED
  BY <1>3, <1>4, <1>5, ReadKeeps, Zenon

\* qdb_push: the new job is in the database.
LEMMA PushKeepsJobs ==
  ASSUME JInv, PInv', NEW p \in Procs, qdb_push(p)
  PROVE  JInv'
\* qdb_push puts a new job at the end of the queue.
<1>PushGood.
    ASSUME NEW S, NEW j, j \notin S, NEW c, Good(S, c)
    PROVE  LET d == [c EXCEPT !.queue = Append(@, j)]
           IN  Good(S \cup {j}, d) /\ JobsOf(d) = JobsOf(c) \cup {j}
  <2> USE <1>PushGood
  <2> DEFINE d == [c EXCEPT !.queue = Append(@, j)]
             T == S \cup {j}
  <2>1. c \in Contents(S) /\ c \in Contents(T) /\ Once(c)
    BY MoreJobs, Zenon DEF Good
  <2>2. PICK q : q \in Seq(S) /\ q \in Seq(T) /\ q = c.queue
    BY <2>1, Zenon DEF Contents
  <2>3. PICK r : r = Append(q, j)
    BY Zenon
  <2>4. r \in Seq(T) /\ d.queue = r /\ d.leased = c.leased /\ d \in Contents(T)
    <3>1. r \in Seq(T)
      BY <2>2, <2>3
    <3>2. d = [c EXCEPT !.queue = r]
      BY <2>2, <2>3, Zenon
    <3> QED
      BY <2>1, <3>1, <3>2, Zenon DEF Contents
  <2>5. PICK n \in Nat : n = Len(q)
    BY <2>2
  <2>6. /\ DOMAIN q = 1..n /\ DOMAIN r = 1..(n + 1) /\ r[n + 1] = j
        /\ \A k \in 1..n : r[k] = q[k] /\ q[k] \in S
    <3>1. /\ DOMAIN q = 1..n /\ \A k \in 1..n : q[k] \in S
      BY <2>2, <2>5
    <3>2. /\ Len(r) = n + 1 /\ DOMAIN r = 1..(n + 1) /\ r[n + 1] = j
          /\ \A k \in 1..n : r[k] = q[k]
      BY <2>2, <2>3, <2>4, <2>5
    <3> QED
      BY <3>1, <3>2, Zenon
  <2>7. Leased(d) = Leased(c) /\ Leased(c) \subseteq S
    BY <2>1, <2>4, SMTT(60) DEF Leased, Contents
  <2> HIDE DEF d
  <2>8. /\ \A k, m \in 1..n : q[k] = q[m] => k = m
        /\ \A k \in 1..n : q[k] \notin Leased(c)
    BY <2>1, <2>2, <2>6, Zenon DEF Once
  <2>9. Once(d)
    <3>1. IsFiniteSet(d.leased) /\ \A l, m \in d.leased : l.job = m.job => l = m
      BY <2>1, <2>4, ZenonT(40) DEF Once
    <3>2. \A k, m \in 1..(n + 1) : r[k] = r[m] => k = m
      BY <2>6, <2>8
    <3>3. \A k \in 1..(n + 1) : r[k] \notin Leased(c)
      BY <2>6, <2>7, <2>8
    <3> QED
      BY <2>4, <2>6, <2>7, <3>1, <3>2, <3>3, Zenon DEF Once
  <2>10. JobsOf(d) = JobsOf(c) \cup {j}
    <3>1. {r[k] : k \in 1..(n + 1)} = {q[k] : k \in 1..n} \cup {j}
      BY <2>6
    <3> QED
      BY <2>2, <2>4, <2>6, <3>1, SMTT(30) DEF JobsOf
  <2> QED
    BY <2>4, <2>9, <2>10, Zenon DEF Good, d
<1>1. pc[p] \in InDb /\ UNCHANGED <<dir, file, staging>>
  BY Zenon DEF qdb_push, At, InDb, fds
<1>2. CASE GiveUp(p)
  BY <1>1, <1>2, GiveUpKeeps, Zenon
<1>3. CASE ~GiveUp(p)
  <2> DEFINE j == [id |-> Cardinality(pushed) + 1, kind |-> Jobs[local[p].i + 1]]
             last == local[p].i + 1 = Len(Jobs)
             x == [local[p] EXCEPT !.i = IF last THEN 0 ELSE @ + 1]
             d == [File(p) EXCEPT !.queue = Append(@, j)]
  <2>1. /\ Store(p, d) /\ pushed' = pushed \cup {j}
        /\ Goto(p, IF last THEN "expire" ELSE "push")
        /\ local' = [local EXCEPT ![p].i = IF last THEN 0 ELSE @ + 1]
        /\ UNCHANGED <<acked, dropped, pulled>>
    BY <1>3, Zenon DEF qdb_push
  <2>2. local' = [local EXCEPT ![p] = x]
    BY <2>1, Zenon
  <2>3. x \in Locals(pushed) /\ x \in Locals(pushed')
    <3>1. local[p] \in Locals(pushed)
      BY Zenon DEF JInv, Data
    <3>2. x \in Locals(pushed)
      BY <3>1 DEF Locals
    <3> QED
      BY <2>1, <3>2, Zenon DEF Locals
  <2>4. IsFiniteSet(pushed) /\ \A i \in pushed : i.id \in 1..Cardinality(pushed)
    BY Zenon DEF JInv, Data, Numbered
  <2>5. Cardinality(pushed) \in Nat /\ j.id = Cardinality(pushed) + 1
    BY <2>4, FS_CardinalityType, Zenon
  <2> HIDE DEF j
  <2>6. j \notin pushed
    BY <2>4, <2>5
  <2>7. Numbered(pushed')
    <3>1. IsFiniteSet(pushed') /\ Cardinality(pushed') = Cardinality(pushed) + 1
      BY <2>1, <2>4, <2>6, FS_AddElement, Zenon
    <3>2. \A i \in pushed' : i = j \/ i.id \in 1..Cardinality(pushed)
      BY <2>1, <2>4, Zenon
    <3> QED
      BY <2>5, <3>1, <3>2 DEF Numbered
  <2>8. file[p] \in Files /\ Good(pushed, File(p))
    BY <1>1, Zenon DEF JInv, Data, Uses, PInv, Types, File
  <2>9. Good(pushed', d) /\ JobsOf(d) = JobsOf(File(p)) \cup {j}
    BY <2>1, <2>6, <2>8, <1>PushGood, Zenon
  <2>10. PICK step \in {"push", "expire"} : Goto(p, step)
    BY <2>1, Zenon
  <2> HIDE DEF d, x
  <2> QED
    BY <1>1, <2>1, <2>2, <2>3, <2>7, <2>9, <2>10, StoreKeeps, Zenon
<1> QED
  BY <1>2, <1>3, Zenon

\* qdb_process_expired_leases, also when it ends early.
LEMMA ExpireKeepsJobs ==
  ASSUME JInv, PInv', NEW p \in Procs, process_expired_leases(p)
  PROVE  JInv'
\* The leases of a set put in an order: each of them once.
<1>OrderOnce.
    ASSUME NEW S, IsFiniteSet(S), NEW s \in Orders(S)
    PROVE  \E m \in Nat : /\ s \in [1..m -> S] /\ DOMAIN s = 1..m
                          /\ {s[k] : k \in 1..m} = S
                          /\ \A k, n \in 1..m : s[k] = s[n] => k = n
  <2> USE <1>OrderOnce
  <2>1. PICK m \in Nat : m = Cardinality(S)
    BY FS_CardinalityType, Zenon
  <2>2. s \in [1..m -> S] /\ DOMAIN s = 1..m /\ \A x \in S : \E k \in DOMAIN s : s[k] = x
    BY <2>1, Zenon DEF Orders
  <2>3. {s[k] : k \in 1..m} = S
    BY <2>2, Zenon
  <2>4. s \in Surjection(1..m, S)
    BY <2>2, Zenon DEF Surjection
  <2>5. IsFiniteSet(1..m) /\ Cardinality(1..m) = Cardinality(S)
    BY <2>1, FS_Interval
  <2>6. s \in Injection(1..m, S)
    BY <2>4, <2>5, FS_SurjSameCardinalityImpliesInj, Zenon
  <2>7. \A k, n \in 1..m : s[k] = s[n] => k = n
    BY <2>2, <2>6, Zenon DEF Injection, IsInjective
  <2> QED
    BY <2>2, <2>3, <2>7, Zenon
\* qdb_process_expired_leases returns the jobs of the leases in done.
<1>ReturnedGood.
    ASSUME NEW S, NEW c, Good(S, c), NEW done \in SUBSET c.leased, NEW s \in Orders(done)
    PROVE  LET d == Returned(c, s)
           IN  /\ Good(S, d) /\ JobsOf(c) \subseteq JobsOf(d)
               /\ Leased(d) \cap {l.job : l \in done} = {}
  <2> USE <1>ReturnedGood
  <2> DEFINE w == [k \in DOMAIN s |-> s[k].job]
             d == Returned(c, s)
  <2>1. c \in Contents(S) /\ Once(c) /\ IsFiniteSet(done)
    BY FS_Subset, ZenonT(40) DEF Good, Once
  <2>2. PICK m \in Nat : /\ s \in [1..m -> done] /\ DOMAIN s = 1..m
                         /\ {s[k] : k \in 1..m} = done
                         /\ \A k, n \in 1..m : s[k] = s[n] => k = n
    BY <2>1, <1>OrderOnce, Zenon
  <2>3. PICK q \in Seq(S) : q = c.queue
    BY <2>1, Zenon DEF Contents
  <2>4. /\ w \in Seq(S) /\ Len(w) = m
        /\ \A k \in 1..m : w[k] = s[k].job /\ s[k] \in c.leased /\ w[k] \in Leased(c)
    <3>1. \A k \in 1..m : s[k] \in c.leased /\ s[k].job \in S /\ s[k].job \in Leased(c)
      BY <2>1, <2>2 DEF Contents, Leased
    <3>2. w \in [1..m -> S] /\ DOMAIN w = 1..m
      BY <2>2, <3>1, Zenon
    <3> QED
      <4>1. w \in Seq(S)
        BY <3>2
      <4>2. Len(w) = m
        BY <3>2, <4>1
      <4> QED
        BY <2>2, <3>1, <4>1, <4>2, Zenon
  <2>5. PICK r \in Seq(S) : r = q \o w
    <3>1. q \o w \in Seq(S)
      BY ONLY <2>3, <2>4
    <3> QED
      BY <3>1, Zenon
  <2>6. PICK n \in Nat : n = Len(q)
    BY <2>3, SMTT(60)
  <2>7. /\ DOMAIN q = 1..n /\ DOMAIN r = 1..(n + m)
        /\ \A k \in 1..(n + m) : r[k] = IF k <= n THEN q[k] ELSE w[k - n]
    BY <2>3, <2>4, <2>5, <2>6
  <2>8. PICK L \in SUBSET c.leased : L = c.leased \ done
    BY Zenon
  <2>9. d \in Contents(S) /\ d.queue = r /\ d.leased = L
    <3>1. d = [c EXCEPT !.queue = r, !.leased = L]
      BY <2>2, <2>3, <2>5, <2>8, ZenonT(40) DEF Returned
    <3> QED
      BY <2>1, <2>5, <2>8, <3>1, ZenonT(40) DEF Contents
  <2> HIDE DEF d, w
  <2>10. /\ \A k, i \in 1..n : q[k] = q[i] => k = i
         /\ \A k \in 1..n : q[k] \notin Leased(c)
         /\ \A l, x \in c.leased : l.job = x.job => l = x
    BY <2>1, <2>3, <2>7, Zenon DEF Once
  <2>11. /\ Leased(d) \cap {l.job : l \in done} = {}
         /\ Leased(d) \subseteq Leased(c)
         /\ Leased(c) = Leased(d) \cup {l.job : l \in done}
    BY <2>8, <2>9, <2>10 DEF Leased
  <2>12. {l.job : l \in done} = {w[k] : k \in 1..m}
    BY <2>2, <2>4
  <2>13. \A k, i \in 1..m : w[k] = w[i] => k = i
    BY <2>2, <2>4, <2>10, SMTT(60)
  <2>14. Once(d)
    <3>1. IsFiniteSet(d.leased) /\ \A l, x \in d.leased : l.job = x.job => l = x
      BY <2>1, <2>8, <2>9, <2>10, FS_Subset, ZenonT(40) DEF Once
    <3>2. \A k, i \in 1..(n + m) : r[k] = r[i] => k = i
      <4>1. \A k \in 1..(n + m) : k <= n => k \in 1..n /\ r[k] = q[k]
        BY <2>7
      <4>2. \A k \in 1..(n + m) : ~(k <= n) => k - n \in 1..m /\ r[k] = w[k - n]
        BY <2>7
      <4>3. \A k \in 1..n, i \in 1..m : q[k] # w[i]
        BY <2>4, <2>10, Zenon
      <4>4. ASSUME NEW k \in 1..(n + m), NEW i \in 1..(n + m), r[k] = r[i]
            PROVE  k = i
        <5>1. CASE k <= n /\ i <= n
          BY <2>10, <4>1, <4>4, <5>1, Zenon
        <5>2. CASE ~(k <= n) /\ ~(i <= n)
          <6>1. k - n = i - n
            BY <2>13, <4>2, <4>4, <5>2, Zenon
          <6> QED
            BY <6>1
        <5>3. CASE (k <= n /\ ~(i <= n)) \/ (~(k <= n) /\ i <= n)
          BY <4>1, <4>2, <4>3, <4>4, <5>3, Zenon
        <5> QED
          BY <5>1, <5>2, <5>3, Zenon
      <4> QED
        BY <4>4, Zenon
    <3>3. \A k \in 1..(n + m) : r[k] \notin Leased(d)
      <4>1. \A i \in 1..m : w[i] \notin Leased(d)
        BY <2>11, <2>12, ZenonT(40)
      <4>2. \A i \in 1..n : q[i] \notin Leased(d)
        BY <2>10, <2>11, Zenon
      <4>3. ASSUME NEW k \in 1..(n + m)
            PROVE  r[k] \notin Leased(d)
        <5>1. CASE k <= n
          <6>1. k \in 1..n /\ r[k] = q[k]
            BY <2>7, <5>1
          <6> QED
            BY <4>2, <6>1, Zenon
        <5>2. CASE ~(k <= n)
          <6>1. k - n \in 1..m /\ r[k] = w[k - n]
            BY <2>7, <5>2
          <6> QED
            BY <4>1, <6>1, Zenon
        <5> QED
          BY <5>1, <5>2, Zenon
      <4> QED
        BY <4>3, Zenon
    <3> QED
      BY <2>7, <2>9, <3>1, <3>2, <3>3, Zenon DEF Once
  <2>15. JobsOf(c) \subseteq JobsOf(d)
    <3>1. /\ JobsOf(c) = {q[k] : k \in 1..n} \cup Leased(c)
          /\ JobsOf(d) = {r[k] : k \in 1..(n + m)} \cup Leased(d)
      BY <2>3, <2>7, <2>9, ZenonT(40) DEF JobsOf, Leased
    <3>2. {q[k] : k \in 1..n} \subseteq {r[k] : k \in 1..(n + m)}
      BY <2>7
    <3>3. {w[k] : k \in 1..m} \subseteq {r[k] : k \in 1..(n + m)}
      <4>1. \A k \in 1..m : n + k \in 1..(n + m) /\ r[n + k] = w[k]
        BY <2>7
      <4> QED
        BY <4>1, Zenon
    <3> QED
      BY <2>11, <2>12, <3>1, <3>2, <3>3, ZenonT(40)
  <2> QED
    BY <2>9, <2>11, <2>14, <2>15, ZenonT(40) DEF Good, d
<1>1. /\ pc[p] \in InDb /\ UNCHANGED <<dir, file, staging>>
      /\ UNCHANGED <<pushed, acked, dropped, pulled>>
  BY Zenon DEF process_expired_leases, At, InDb, fds, ghosts
<1>2. file[p] \in Files /\ Good(pushed, File(p)) /\ local[p] \in Locals(pushed)
  BY <1>1, Zenon DEF JInv, Data, Uses, PInv, Types, File
<1>a. PICK done \in SUBSET Expired(File(p)) : \E s \in Orders(done) :
        /\ Store(p, Returned(File(p), s))
        /\ \/ Goto(p, "pop") /\ UNCHANGED local
           \/ Goto(p, "compact") /\ local' = [local EXCEPT ![p].seen = {l.job : l \in done}]
           \/ Goto(p, "close") /\ local' = [local EXCEPT ![p].code = "fail"]
  BY Zenon DEF process_expired_leases
<1>3. PICK s \in Orders(done) :
        /\ Store(p, Returned(File(p), s))
        /\ \/ Goto(p, "pop") /\ UNCHANGED local
           \/ Goto(p, "compact") /\ local' = [local EXCEPT ![p].seen = {l.job : l \in done}]
           \/ Goto(p, "close") /\ local' = [local EXCEPT ![p].code = "fail"]
  BY <1>a, Zenon
<1> DEFINE d == Returned(File(p), s)
           jobs == {l.job : l \in done}
<1>4. done \in SUBSET File(p).leased
  BY Zenon DEF Expired
<1>5. /\ Good(pushed, d) /\ JobsOf(File(p)) \subseteq JobsOf(d)
      /\ Leased(d) \cap jobs = {}
  BY <1>2, <1>4, <1>ReturnedGood, ZenonT(40)
<1>6. jobs \subseteq pushed
  BY <1>2, <1>4, SMTT(60) DEF Good, Contents
<1>7. Numbered(pushed') /\ Good(pushed', d)
  BY <1>1, <1>5, Zenon DEF JInv, Data
<1> HIDE DEF d, jobs
<1>8. ASSUME NEW x \in Locals(pushed), local' = [local EXCEPT ![p] = x],
             NEW step \in {"pop", "compact", "close"}, Goto(p, step),
             step = "compact" => Leased(d) \cap x.seen = {}
      PROVE  JInv'
  <2>1. Store(p, d) /\ x \in Locals(pushed')
    BY <1>1, <1>3, <1>8, Zenon DEF d
  <2>2. JobsOf(File(p)) \cup (pushed' \ pushed) \subseteq JobsOf(d) \cup acked'
    BY <1>1, <1>5, Zenon
  <2> QED
    BY <1>1, <1>7, <1>8, <2>1, <2>2, StoreKeeps, ZenonT(40)
<1>9. CASE Goto(p, "pop") /\ UNCHANGED local
  <2>1. local' = [local EXCEPT ![p] = local[p]]
    BY <1>9, Zenon DEF JInv, Data
  <2> QED
    BY <1>2, <1>8, <1>9, <2>1, Zenon
<1>10. CASE Goto(p, "compact") /\ local' = [local EXCEPT ![p].seen = jobs]
  <2>1. PICK x : x = [local[p] EXCEPT !.seen = jobs]
    BY Zenon
  <2>2. x \in Locals(pushed) /\ x.seen = jobs
    BY <1>2, <1>6, <2>1, Zenon DEF Locals
  <2>3. local' = [local EXCEPT ![p] = x]
    BY <1>10, <2>1, Zenon
  <2> QED
    BY <1>5, <1>8, <1>10, <2>2, <2>3, Zenon
<1>11. CASE Goto(p, "close") /\ local' = [local EXCEPT ![p].code = "fail"]
  <2>1. PICK x : x = [local[p] EXCEPT !.code = "fail"]
    BY Zenon
  <2>2. x \in Locals(pushed)
    BY <1>2, <2>1, Zenon DEF Locals
  <2>3. local' = [local EXCEPT ![p] = x]
    BY <1>11, <2>1, Zenon
  <2> QED
    BY <1>8, <1>11, <2>2, <2>3, Zenon
<1> QED
  BY <1>3, <1>9, <1>10, <1>11, Zenon DEF jobs

\* qdb_pop: the job moves from the queue to the leases.
LEMMA PopKeepsJobs ==
  ASSUME JInv, PInv', NEW p \in Procs, qdb_pop(p)
  PROVE  JInv'
\* qdb_pop moves the head of the queue to the leases.
<1>PopGood.
    ASSUME NEW S, NEW c, Good(S, c), c.queue # << >>
    PROVE  LET j == Head(c.queue)
               d == [c EXCEPT !.queue = Tail(@), !.leased = @ \cup {[job |-> j, left |-> Timeout]}]
           IN  Good(S, d) /\ JobsOf(d) = JobsOf(c) /\ j \in S
  <2> USE <1>PopGood
  <2> DEFINE j == Head(c.queue)
             x == [job |-> j, left |-> Timeout]
             d == [c EXCEPT !.queue = Tail(@), !.leased = @ \cup {x}]
  <2>1. c \in Contents(S) /\ Once(c)
    BY Zenon DEF Good
  <2>2. PICK q \in Seq(S) : q = c.queue /\ q # << >>
    BY <2>1, Zenon DEF Contents
  <2>3. PICK r \in Seq(S) : r = Tail(q)
    <3>1. Tail(q) \in Seq(S)
      BY ONLY <2>2
    <3> QED
      BY <3>1, Zenon
  <2>4. PICK n \in Nat : n = Len(q) /\ n > 0
    BY <2>2
  <2>5. /\ DOMAIN q = 1..n /\ DOMAIN r = 1..(n - 1) /\ q[1] = j /\ j \in S
        /\ \A k \in 1..(n - 1) : r[k] = q[k + 1]
    BY <2>2, <2>3, <2>4
  <2>6. x \in [job : S, left : Int] /\ x.job = j
    BY <2>5, ProgramsAssumption
  <2>7. /\ d.queue = r /\ d.leased = c.leased \cup {x} /\ d \in Contents(S)
    <3>1. c.leased \cup {x} \in SUBSET [job : S, left : Int]
      BY <2>1, <2>6, Zenon DEF Contents
    <3>2. PICK L : L = c.leased \cup {x}
      BY ZenonT(40)
    <3>3. d = [c EXCEPT !.queue = r, !.leased = L]
      BY <2>2, <2>3, <3>2, Zenon
    <3> QED
      BY <2>1, <3>1, <3>2, <3>3, ZenonT(40) DEF Contents
  <2> HIDE DEF d, x, j
  <2>8. Leased(d) = Leased(c) \cup {j}
    BY <2>6, <2>7, Zenon DEF Leased
  <2>9. /\ \A k, m \in 1..n : q[k] = q[m] => k = m
        /\ \A k \in 1..n : q[k] \notin Leased(c)
    BY <2>1, <2>2, <2>5, Zenon DEF Once
  <2>10. Once(d)
    <3>1. IsFiniteSet(d.leased)
      BY <2>1, <2>7, FS_AddElement, SMTT(60) DEF Once
    <3>2. j \notin Leased(c)
      BY <2>4, <2>5, <2>9
    <3>3. \A l, m \in d.leased : l.job = m.job => l = m
      BY <2>1, <2>6, <2>7, <3>2, Zenon DEF Once, Leased
    <3>4. \A k, m \in 1..(n - 1) : r[k] = r[m] => k = m
      BY <2>5, <2>9
    <3>5. \A k \in 1..(n - 1) : r[k] \notin Leased(c) /\ r[k] # j
      BY <2>4, <2>5, <2>9
    <3> QED
      BY <2>5, <2>7, <2>8, <3>1, <3>3, <3>4, <3>5, ZenonT(40) DEF Once
  <2>11. JobsOf(d) = JobsOf(c)
    <3>1. {q[k] : k \in 1..n} = {r[k] : k \in 1..(n - 1)} \cup {j}
      <4>1. \A k \in 1..n : q[k] \in {r[m] : m \in 1..(n - 1)} \cup {j}
        <5>1. \A k \in 1..n : k = 1 \/ (k - 1 \in 1..(n - 1) /\ q[k] = r[k - 1])
          BY <2>4, <2>5
        <5> QED
          BY <2>5, <5>1, Zenon
      <4>2. \A m \in 1..(n - 1) : r[m] \in {q[k] : k \in 1..n}
        BY <2>4, <2>5
      <4>3. j \in {q[k] : k \in 1..n}
        BY <2>4, <2>5
      <4> QED
        BY <4>1, <4>2, <4>3, Zenon
    <3>2. /\ JobsOf(c) = {q[k] : k \in 1..n} \cup Leased(c)
          /\ JobsOf(d) = {r[k] : k \in 1..(n - 1)} \cup Leased(d)
      BY <2>2, <2>5, <2>7, ZenonT(40) DEF JobsOf, Leased
    <3> QED
      BY <2>8, <3>1, <3>2, Zenon
  <2> QED
    BY <2>5, <2>7, <2>10, <2>11, Zenon DEF Good, d, x, j
<1>1. pc[p] \in InDb /\ UNCHANGED <<dir, file, staging>>
  BY Zenon DEF qdb_pop, At, InDb, fds
<1>2. file[p] \in Files /\ Good(pushed, File(p)) /\ local[p] \in Locals(pushed)
  BY <1>1, Zenon DEF JInv, Data, Uses, PInv, Types, File
<1>3. CASE /\ Goto(p, IF Is(p, "job_worker") THEN "close" ELSE "expire")
           /\ UNCHANGED <<content, local, ghosts>>
  <2>1. local' = [local EXCEPT ![p] = local[p]]
    BY <1>3, Zenon DEF JInv, Data
  <2>2. PICK step \in {"close", "expire"} : Goto(p, step)
    BY <1>3, Zenon
  <2> QED
    BY <1>1, <1>2, <1>3, <2>1, <2>2, ReadKeeps, Zenon
<1>4. CASE /\ File(p).queue # << >>
           /\ LET j == Head(File(p).queue)
              IN  /\ Store(p, [File(p) EXCEPT !.queue = Tail(@),
                                              !.leased = @ \cup {[job |-> j, left |-> Timeout]}])
                  /\ local' = [local EXCEPT ![p].job = j]
           /\ Goto(p, "work")
           /\ UNCHANGED ghosts
  <2> DEFINE j == Head(File(p).queue)
             d == [File(p) EXCEPT !.queue = Tail(@),
                                  !.leased = @ \cup {[job |-> j, left |-> Timeout]}]
  <2>1. Store(p, d) /\ local' = [local EXCEPT ![p].job = j]
    BY <1>4, Zenon
  <2>2. Good(pushed, d) /\ JobsOf(d) = JobsOf(File(p)) /\ j \in pushed
    BY <1>2, <1>4, <1>PopGood, ZenonT(40)
  <2> HIDE DEF d, j
  <2>3. PICK x : x = [local[p] EXCEPT !.job = j]
    BY ZenonT(40)
  <2>4. x \in Locals(pushed) /\ local' = [local EXCEPT ![p] = x]
    BY <1>2, <2>1, <2>2, <2>3, Zenon DEF Locals
  <2>5. UNCHANGED <<pushed, acked, dropped, pulled>>
    BY <1>4, Zenon DEF ghosts
  <2>6. Numbered(pushed') /\ Good(pushed', d) /\ x \in Locals(pushed')
    BY <2>2, <2>4, <2>5, Zenon DEF JInv, Data
  <2> QED
    BY <1>1, <1>4, <2>1, <2>2, <2>4, <2>5, <2>6, StoreKeeps, ZenonT(40)
<1> QED
  BY <1>1, <1>3, <1>4, GiveUpKeeps, Zenon DEF qdb_pop

\* qdb_ack or qdb_nack of the job in hand, or neither.
LEMMA SettleKeepsJobs ==
  ASSUME JInv, PInv', NEW p \in Procs, Settle(p)
  PROVE  JInv'
\* The leases on one job removed, as qdb_ack does it.
<1>AckGood.
    ASSUME NEW S, NEW c, Good(S, c), NEW j
    PROVE  LET mine == {l \in c.leased : l.job = j}
               d == [[c EXCEPT !.leased = @ \ mine] EXCEPT !.acked = @ + 1]
           IN  Good(S, d) /\ JobsOf(c) \subseteq JobsOf(d) \cup {j}
  <2> USE <1>AckGood
  <2> DEFINE mine == {l \in c.leased : l.job = j}
             e == [c EXCEPT !.leased = @ \ mine]
             d == [e EXCEPT !.acked = @ + 1]
  <2>1. c \in Contents(S) /\ Once(c)
    BY Zenon DEF Good
  <2>2. PICK L \in SUBSET c.leased : L = c.leased \ mine
    BY Zenon
  <2>3. e \in Contents(S) /\ e.queue = c.queue /\ e.leased = L
    <3> HIDE DEF mine
    <3> QED
      BY <2>1, <2>2, Zenon DEF Contents
  <2>4. d \in Contents(S) /\ d.queue = c.queue /\ d.leased = L
    <3> HIDE DEF e
    <3> QED
      BY <2>3 DEF Contents
  <2> HIDE DEF d, e
  <2>5. Leased(d) \subseteq Leased(c) /\ Leased(c) \subseteq Leased(d) \cup {j}
    BY <2>2, <2>4, Zenon DEF Leased
  <2>6. Once(d)
    BY <2>1, <2>2, <2>4, <2>5, FS_Subset, ZenonT(40) DEF Once
  <2>7. JobsOf(c) \subseteq JobsOf(d) \cup {j}
    BY <2>4, <2>5, Zenon DEF JobsOf, Leased
  <2> QED
    BY <2>4, <2>6, <2>7, Zenon DEF Good, d, e
\* The job under a lease returned to the tail of the queue, by qdb_nack.
<1>NackGood.
    ASSUME NEW S, NEW c, Good(S, c), NEW j \in Leased(c)
    PROVE  LET mine == {l \in c.leased : l.job = j}
               d == [[c EXCEPT !.leased = @ \ mine] EXCEPT !.queue = Append(@, j)]
           IN  Good(S, d) /\ JobsOf(c) \subseteq JobsOf(d)
  <2> USE <1>NackGood
  <2> DEFINE mine == {l \in c.leased : l.job = j}
             d == [[c EXCEPT !.leased = @ \ mine] EXCEPT !.queue = Append(@, j)]
  <2>1. c \in Contents(S) /\ Once(c)
    BY Zenon DEF Good
  <2>2. PICK L \in SUBSET c.leased : L = c.leased \ mine
    BY ZenonT(40)
  <2>3. PICK q \in Seq(S) : q = c.queue
    BY <2>1, Zenon DEF Contents
  <2>4. j \in S
    BY <2>1, Zenon DEF Leased, Contents
  <2>5. PICK r \in Seq(S) : r = Append(q, j)
    <3>1. Append(q, j) \in Seq(S)
      BY ONLY <2>3, <2>4
    <3> QED
      BY <3>1, Zenon
  <2>6. d = [c EXCEPT !.leased = L, !.queue = r]
    BY <2>1, <2>2, <2>3, <2>5, Zenon DEF Contents
  <2>7. d \in Contents(S) /\ d.queue = r /\ d.leased = L
    BY <2>1, <2>2, <2>5, <2>6, ZenonT(40) DEF Contents
  <2>8. PICK n \in Nat : n = Len(q)
    BY <2>3
  <2>9. /\ DOMAIN q = 1..n /\ DOMAIN r = 1..(n + 1) /\ r[n + 1] = j
        /\ \A k \in 1..n : r[k] = q[k]
    BY <2>3, <2>4, <2>5, <2>8, SMTT(60)
  <2> HIDE DEF d
  <2>10. Leased(d) \subseteq Leased(c) \ {j} /\ Leased(c) \subseteq Leased(d) \cup {j}
    BY <2>2, <2>7, Zenon DEF Leased
  <2>11. /\ \A k, m \in 1..n : q[k] = q[m] => k = m
         /\ \A k \in 1..n : q[k] \notin Leased(c)
    BY <2>1, <2>3, <2>9, ZenonT(40) DEF Once
  <2>12. Once(d)
    <3>1. IsFiniteSet(d.leased) /\ \A l, m \in d.leased : l.job = m.job => l = m
      BY <2>1, <2>2, <2>7, FS_Subset, Zenon DEF Once
    <3>2. \A k, m \in 1..(n + 1) : r[k] = r[m] => k = m
      BY <2>9, <2>11, SMTT(60)
    <3>3. \A k \in 1..(n + 1) : r[k] \notin Leased(d)
      BY <2>9, <2>10, <2>11, SMTT(60)
    <3> QED
      BY <2>7, <2>9, <3>1, <3>2, <3>3, Zenon DEF Once
  <2>13. JobsOf(c) \subseteq JobsOf(d)
    <3>1. {q[k] : k \in 1..n} \cup {j} \subseteq {r[k] : k \in 1..(n + 1)}
      BY <2>9, SMTT(60)
    <3>2. /\ JobsOf(c) = {q[k] : k \in 1..n} \cup Leased(c)
          /\ JobsOf(d) = {r[k] : k \in 1..(n + 1)} \cup Leased(d)
      BY <2>3, <2>7, <2>9, Zenon DEF JobsOf, Leased
    <3> QED
      BY <2>10, <3>1, <3>2, Zenon
  <2> QED
    BY <2>7, <2>12, <2>13, ZenonT(40) DEF Good, d
<1>1. /\ pc[p] \in InDb /\ UNCHANGED <<dir, file, staging>>
      /\ UNCHANGED <<pushed, dropped, pulled>>
  BY Zenon DEF Settle, At, InDb, fds
<1>2. file[p] \in Files /\ Good(pushed, File(p)) /\ local[p] \in Locals(pushed)
  BY <1>1, ZenonT(40) DEF JInv, Data, Uses, PInv, Types, File
<1> DEFINE j == local[p].job
           mine == {l \in File(p).leased : l.job = j}
           rest == [File(p) EXCEPT !.leased = @ \ mine]
           a == [rest EXCEPT !.acked = @ + 1]
           n == [rest EXCEPT !.queue = Append(@, j)]
<1>3. PICK x \in Locals(pushed) : local' = [local EXCEPT ![p] = x]
  <2>1. PICK y : y = [local[p] EXCEPT !.job = None]
    BY Zenon
  <2>2. PICK M : M = [local EXCEPT ![p] = y]
    BY ZenonT(40)
  <2>3. y \in Locals(pushed)
    BY <1>2, <2>1, Zenon DEF Locals
  <2>4. M[p] = y /\ M \in [Procs -> Locals(pushed)]
    BY <2>2, <2>3, Zenon DEF JInv, Data
  <2>5. PICK x : x = [y EXCEPT !.i = IF Is(p, "job_worker") THEN @ + 1 ELSE @]
    BY ZenonT(40)
  <2>6. x \in Locals(pushed)
    BY <2>3, <2>5 DEF Locals
  <2>7. local' = [M EXCEPT ![p].i = IF Is(p, "job_worker") THEN @ + 1 ELSE @]
    BY <2>1, <2>2, Zenon DEF Settle, Again
  <2>8. local' = [M EXCEPT ![p] = x]
    BY <2>4, <2>5, <2>7, Zenon
  <2>9. local' = [local EXCEPT ![p] = x]
    BY <2>2, <2>3, <2>6, <2>8, Zenon DEF JInv, Data
  <2> QED
    BY <2>6, <2>9, Zenon
<1>4. PICK step \in {"close", "expire"} : Goto(p, step)
  BY Zenon DEF Settle, Again
<1>5. Numbered(pushed') /\ x \in Locals(pushed')
  BY <1>1, <1>3, Zenon DEF JInv, Data
<1>6. CASE Store(p, a) /\ acked' = acked \cup {j}
  <2>1. Good(pushed, a) /\ JobsOf(File(p)) \subseteq JobsOf(a) \cup {j}
    BY <1>2, <1>AckGood, ZenonT(40)
  <2> HIDE DEF a
  <2> QED
    BY <1>1, <1>3, <1>4, <1>5, <1>6, <2>1, StoreKeeps, ZenonT(40)
<1>7. CASE mine # {} /\ Store(p, n) /\ UNCHANGED acked
  <2>1. j \in Leased(File(p))
    BY <1>7, Zenon DEF Leased
  <2>2. Good(pushed, n) /\ JobsOf(File(p)) \subseteq JobsOf(n)
    BY <1>2, <2>1, <1>NackGood, ZenonT(40)
  <2> HIDE DEF n
  <2> QED
    BY <1>1, <1>3, <1>4, <1>5, <1>7, <2>2, StoreKeeps, ZenonT(40)
<1>8. CASE UNCHANGED <<content, acked>>
  BY <1>1, <1>3, <1>4, <1>8, ReadKeeps, Zenon DEF ghosts
<1> QED
  BY <1>6, <1>7, <1>8, Zenon DEF Settle

\* The commands of the tool, up to the expiry before a compaction.
LEMMA CommandKeepsJobs ==
  ASSUME JInv, PInv', NEW p \in Procs,
         cmd_info(p) \/ cmd_list(p) \/ cmd_stats(p) \/ cmd_compact(p)
  PROVE  JInv'
<1>1. pc[p] \in InDb /\ UNCHANGED <<dir, file, staging>>
  BY Zenon DEF cmd_info, cmd_list, cmd_stats, cmd_compact, Reads, At, InDb, fds
<1>2. local[p] \in Locals(pushed)
  BY Zenon DEF JInv, Data
<1>3. ASSUME NEW step \in {"close", "expire"}, Then(p, step) PROVE JInv'
  <2>1. local' = [local EXCEPT ![p] = local[p]]
    BY <1>3, Zenon DEF Then, JInv, Data
  <2> QED
    BY <1>1, <1>2, <1>3, <2>1, ReadKeeps, Zenon DEF Then
<1>4. ASSUME Goto(p, "close"), local' = [local EXCEPT ![p].code = "fail"],
             UNCHANGED <<content, ghosts>>
      PROVE  JInv'
  <2>1. PICK x : x = [local[p] EXCEPT !.code = "fail"]
    BY Zenon
  <2>2. x \in Locals(pushed) /\ local' = [local EXCEPT ![p] = x]
    BY <1>2, <1>4, <2>1, Zenon DEF Locals
  <2> QED
    BY <1>1, <1>4, <2>2, ReadKeeps, Zenon
<1>5. CASE cmd_info(p) \/ cmd_list(p)
  BY <1>1, <1>3, <1>5, GiveUpKeeps, Zenon DEF cmd_info, cmd_list
<1>6. CASE cmd_stats(p)
  BY <1>1, <1>3, <1>4, <1>6, GiveUpKeeps, Zenon DEF cmd_stats
<1>7. CASE cmd_compact(p)
  <2>1. (\E step \in {"close", "expire"} : Then(p, step)) \/ GiveUp(p)
    BY <1>7, Zenon DEF cmd_compact
  <2> QED
    BY <1>1, <1>3, <2>1, GiveUpKeeps, Zenon
<1> QED
  BY <1>5, <1>6, <1>7, Zenon

\* A process closes everything and ends, or goes on to remove its files.
LEMMA LeaveKeepsJobs ==
  ASSUME JInv, PInv', NEW p \in Procs, CloseAll(p),
         NEW step \in {"off", "rmdb"}, Goto(p, step),
         NEW x \in Locals(pushed), local' = [local EXCEPT ![p] = x],
         content' = content \/ Becomes(content), dir'["db"] = dir["db"],
         UNCHANGED <<pushed, acked, dropped>>, pulled => pulled'
  PROVE  JInv'
<1>1. /\ pc'[p] = step /\ file'[p] = None
      /\ \A q \in Procs \ {p} : /\ pc'[q] = pc[q] /\ file'[q] = file[q]
                                /\ staging'[q] = staging[q] /\ local'[q] = local[q]
      /\ local' \in [Procs -> Locals(pushed)]
  BY DEF CloseAll, Goto, JInv, PInv, Types, Data
<1>2. Tool(p)'
  BY <1>1, Zenon DEF Tool
<1> QED
  BY <1>1, <1>2, AsideKeeps, ZenonT(40)

\* The variables of a process that starts or has ended.
LEMMA IdleLocals ==
  ASSUME NEW S
  PROVE  /\ Idle \in Locals(S)
         /\ \A c \in {"ok", "fail", "usage", "killed"} : [Idle EXCEPT !.code = c] \in Locals(S)
         /\ \A c \in Commands : LET x == [Idle EXCEPT !.cmd = c] IN x \in Locals(S) /\ x.cmd = c
<1>1. Idle \in Locals(S)
  <2>1. 0 \in Int
    OBVIOUS
  <2> QED
    BY <2>1, Zenon DEF Locals, Idle
<1> QED
  BY <1>1, Zenon DEF Locals

\* A process leaves with an exit code.
LEMMA LeaveJobs ==
  ASSUME JInv, PInv', NEW p \in Procs, NEW code \in {"ok", "fail", "usage", "killed"},
         Leave(p, code), content' = content \/ Becomes(content),
         dir'["db"] = dir["db"], UNCHANGED <<pushed, acked, dropped>>, pulled => pulled'
  PROVE  JInv'
<1>1. PICK x : x = [Idle EXCEPT !.code = code]
  BY ZenonT(40)
<1>2. x \in Locals(pushed)
  BY <1>1, IdleLocals, Zenon
<1>3. CloseAll(p) /\ Goto(p, "off") /\ local' = [local EXCEPT ![p] = x]
  BY <1>1, Zenon DEF Leave
<1> QED
  BY <1>2, <1>3, LeaveKeepsJobs, Zenon

\* Starting, the tool's check, and the lock.
LEMMA OpeningKeepsJobs ==
  ASSUME JInv, PInv', NEW p \in Procs,
         \/ Start(p) \/ open_db(p) \/ lockfile_open(p) \/ file_lock(p)
         \/ OpenFails(p) \/ Sweep(p)
  PROVE  JInv'
<1>0. /\ pc \in [Procs -> Pcs] /\ local \in [Procs -> Locals(pushed)]
      /\ dir = [e \in Entries |-> dir[e]] /\ Tool(p) /\ Has(p)
  BY Zenon DEF JInv, PInv, Types, Data
<1>1. CASE Start(p)
  <2>1. /\ UNCHANGED <<dir, content, file, staging, pushed, acked, dropped, pulled>>
        /\ pc[p] = "off"
    BY <1>1, Zenon DEF Start, At, files, fds, ghosts
  <2>2. file[p] = None
    BY <1>0, <2>1, Zenon DEF Has, Holding
  <2>3. ASSUME NEW x \in Locals(pushed), local' = [local EXCEPT ![p] = x],
               \/ pc' = [pc EXCEPT ![p] = "lockopen"] /\ ~Is(p, "qdbtool")
               \/ pc' = [pc EXCEPT ![p] = "check"] /\ x.cmd # None
               \/ pc' = pc
        PROVE  JInv'
    <3>1. /\ pc'[p] \in {"lockopen", "check", "off"} /\ local'[p] = x
          /\ \A q \in Procs \ {p} : pc'[q] = pc[q] /\ local'[q] = local[q]
          /\ local' \in [Procs -> Locals(pushed)]
      BY <1>0, <2>1, <2>3, Zenon
    <3>2. Tool(p)'
      BY <1>0, <2>1, <2>3, <3>1, Zenon DEF Tool, Is
    <3> QED
      BY <2>1, <2>2, <3>1, <3>2, AsideKeeps, ZenonT(40)
  <2>4. CASE ~Is(p, "qdbtool") /\ Goto(p, "lockopen") /\ local' = [local EXCEPT ![p] = Idle]
    <3>1. Idle \in Locals(pushed)
      BY IdleLocals, Zenon
    <3> QED
      BY <2>3, <2>4, <3>1, Zenon DEF Goto
  <2>5. ASSUME NEW c \in Commands, local' = [local EXCEPT ![p] = [Idle EXCEPT !.cmd = c]],
               Goto(p, "check")
        PROVE  JInv'
    <3>1. PICK x : x = [Idle EXCEPT !.cmd = c]
      BY Zenon
    <3>2. x \in Locals(pushed) /\ x.cmd # None
      BY <3>1, IdleLocals, ProgramsAssumption, Zenon
    <3> QED
      BY <2>3, <2>5, <3>1, <3>2, Zenon DEF Goto
  <2>6. CASE local' = [local EXCEPT ![p] = [Idle EXCEPT !.code = "usage"]] /\ UNCHANGED pc
    <3>1. PICK x : x = [Idle EXCEPT !.code = "usage"]
      BY Zenon
    <3>2. x \in Locals(pushed)
      BY <3>1, IdleLocals, Zenon
    <3> QED
      BY <2>3, <2>6, <3>1, <3>2, Zenon
  <2> QED
    BY <1>1, <2>4, <2>5, <2>6, Zenon DEF Start
<1>2. CASE open_db(p)
  <2>1. UNCHANGED <<dir, content, pushed, acked, dropped, pulled>> /\ pc[p] = "check"
    BY <1>2, Zenon DEF open_db, At, ghosts
  <2>2. CASE dir["db"] # None
    <3>1. /\ pc' = [pc EXCEPT ![p] = "lockopen"]
          /\ UNCHANGED <<file, staging, local>> /\ file[p] = None
      BY <1>0, <1>2, <2>1, <2>2, ZenonT(40) DEF open_db, Goto, fds, Has, Holding
    <3>2. pc'[p] = "lockopen" /\ \A q \in Procs \ {p} : pc'[q] = pc[q]
      BY <1>0, <3>1, Zenon
    <3>3. Tool(p)'
      BY <1>0, <2>1, <2>2, <3>1, <3>2, Zenon DEF Tool, Is
    <3> QED
      BY <1>0, <2>1, <3>1, <3>2, <3>3, AsideKeeps, Zenon
  <2>3. CASE dir["db"] = None
    BY <1>2, <2>1, <2>3, LeaveJobs, Zenon DEF open_db
  <2> QED
    BY <2>2, <2>3, Zenon
<1>3. CASE lockfile_open(p)
  <2>1. /\ pc' = [pc EXCEPT ![p] = "lock"] /\ pc[p] = "lockopen"
        /\ UNCHANGED <<content, file, staging, local, pushed, acked, dropped, pulled>>
        /\ \E l : dir' = [dir EXCEPT !["lock"] = l]
    BY <1>3, ZenonT(40) DEF lockfile_open, At, Goto, ghosts
  <2>2. dir'["db"] = dir["db"]
    BY <1>0, <2>1, Zenon DEF Entries
  <2>3. pc'[p] = "lock" /\ \A q \in Procs \ {p} : pc'[q] = pc[q]
    BY <1>0, <2>1, Zenon
  <2>4. Tool(p)' /\ file[p] = None
    BY <1>0, <2>1, <2>2, <2>3, Zenon DEF Tool, Is, Has, Holding
  <2> QED
    BY <1>0, <2>1, <2>2, <2>3, <2>4, AsideKeeps, Zenon
<1>4. CASE file_lock(p)
  <2>1. UNCHANGED <<dir, content, pushed, acked, dropped, pulled>> /\ pc[p] = "lock"
    BY <1>4, ZenonT(40) DEF file_lock, At, ghosts
  <2>2. CASE holder[lock[p]] = None
    <3>1. /\ pc' = [pc EXCEPT ![p] = "sweep"]
          /\ UNCHANGED <<file, staging, local>>
      BY <1>4, <2>2, Zenon DEF file_lock, Goto, fds
    <3>2. pc'[p] = "sweep" /\ \A q \in Procs \ {p} : pc'[q] = pc[q]
      BY <1>0, <3>1, Zenon
    <3>3. Tool(p)' /\ file[p] = None
      BY <1>0, <2>1, <3>1, <3>2, Zenon DEF Tool, Is, Has, Holding
    <3> QED
      BY <1>0, <2>1, <3>1, <3>2, <3>3, AsideKeeps, Zenon
  <2>3. CASE holder[lock[p]] # None
    BY <1>4, <2>1, <2>3, LeaveJobs, ZenonT(40) DEF file_lock
  <2> QED
    BY <2>2, <2>3, Zenon
<1>5. CASE OpenFails(p)
  BY <1>5, LeaveJobs, Zenon DEF OpenFails, ghosts
<1>6. CASE Sweep(p)
  <2>1. /\ pc' = [pc EXCEPT ![p] = "open"] /\ pc[p] = "sweep"
        /\ UNCHANGED <<file, staging, local, pushed, acked, dropped, pulled>>
        /\ dir' \in {dir, [dir EXCEPT !["staging"] = None]} /\ Becomes(content)
    BY <1>6, Zenon DEF Sweep, At, Goto, fds, ghosts
  <2>2. dir'["db"] = dir["db"]
    BY <1>0, <2>1, Zenon DEF Entries
  <2>3. pc'[p] = "open" /\ \A q \in Procs \ {p} : pc'[q] = pc[q]
    BY <1>0, <2>1, Zenon
  <2>4. Tool(p)'
    BY <1>0, <2>1, <2>2, <2>3, Zenon DEF Tool, Is
  <2> QED
    BY <1>0, <2>1, <2>2, <2>3, <2>4, AsideKeeps, Zenon
<1> QED
  BY <1>1, <1>2, <1>3, <1>4, <1>5, <1>6, Zenon

\* A step of a process that has the lock: what is left to show is about it.
LEMMA LockedKeepsJobs ==
  ASSUME JInv, PInv', NEW p \in Procs, pc'[p] \in Holding,
         \A q \in Procs \ {p} : /\ pc'[q] = pc[q] /\ file'[q] = file[q]
                                /\ staging'[q] = staging[q] /\ local'[q] = local[q],
         dir["db"] # None => dir'["db"] # None,
         Data', Uses(p)', Tool(p)', ~pulled' => Current(p)' /\ JobsKept'
  PROVE  JInv'
<1>1. ASSUME NEW q \in Procs PROVE Uses(q)' /\ Tool(q)'
  BY ZenonT(40) DEF JInv, Uses, Tool, Is
<1>2. ASSUME NEW q \in Procs, ~pulled' PROVE Current(q)'
  BY <1>2, Alone, ZenonT(40)
<1> QED
  BY <1>1, <1>2, ZenonT(40) DEF JInv, Kept

\* The main file is opened, or created by a program that may do so.
LEMMA FileOpenKeepsJobs ==
  ASSUME JInv, PInv', NEW p \in Procs, file_open(p)
  PROVE  JInv'
<1>1. /\ pc[p] = "open" /\ UNCHANGED <<pushed, acked, dropped, pulled>>
      /\ pc \in [Procs -> Pcs] /\ file \in [Procs -> Files \cup {None}]
      /\ dir = [e \in Entries |-> dir[e]] /\ "db" \in Entries
      /\ content = [f \in Files |-> content[f]] /\ \A f \in Files : Good(pushed, content[f])
      /\ dir["db"] \in Files \cup {None} /\ Tool(p)
  BY ZenonT(40) DEF file_open, At, ghosts, JInv, PInv, Types, Data, Entries
<1>2. CASE /\ dir["db"] = None /\ FreeFiles # {}
           /\ LET f == CHOOSE f \in FreeFiles : TRUE
              IN  /\ dir' = [dir EXCEPT !["db"] = f]
                  /\ content' = [content EXCEPT ![f] = Empty]
                  /\ file' = [file EXCEPT ![p] = f]
           /\ Goto(p, "header")
           /\ UNCHANGED <<staging, local>>
  <2>1. PICK f \in FreeFiles : /\ dir' = [dir EXCEPT !["db"] = f]
                               /\ content' = [content EXCEPT ![f] = Empty]
                               /\ file' = [file EXCEPT ![p] = f]
    BY <1>2, ZenonT(40)
  <2>2. f \in Files /\ f # None
    BY ProgramsAssumption, Zenon DEF FreeFiles
  <2>3. /\ pc'[p] = "header" /\ file'[p] = f /\ dir'["db"] = f /\ content'[f] = Empty
        /\ \A q \in Procs \ {p} : pc'[q] = pc[q] /\ file'[q] = file[q]
    BY <1>1, <1>2, <2>1, <2>2, Zenon DEF Goto
  <2>4. content' = [g \in Files |-> content'[g]] /\ \A g \in Files : Good(pushed, content'[g])
    BY <1>1, <2>1, <2>2, NoJobs, Zenon
  <2>5. Data'
    BY <1>1, <1>2, <2>4, Zenon DEF JInv, Data
  <2>6. Uses(p)' /\ Tool(p)'
    BY <1>1, <1>2, <2>2, <2>3, ZenonT(40) DEF Uses, Tool, Is
  <2>7. ASSUME ~pulled' PROVE Current(p)' /\ JobsKept'
    <3>1. Current(p)'
      BY <2>3, NoJobs, ZenonT(40) DEF Current
    <3>2. pushed \subseteq acked \cup dropped
      BY <1>1, <1>2, <2>7, Zenon DEF JInv, Kept, JobsKept
    <3> QED
      BY <1>1, <3>1, <3>2, Zenon DEF JobsKept
  <2> QED
    BY <1>2, <2>2, <2>3, <2>5, <2>6, <2>7, LockedKeepsJobs, ZenonT(40) DEF Holding
<1>3. CASE /\ dir["db"] # None /\ file' = [file EXCEPT ![p] = dir["db"]]
           /\ Goto(p, Opened(p)) /\ UNCHANGED <<dir, content, staging, local>>
  <2>1. Opened(p) \in {"push", "close", "stats"}
    BY Zenon DEF Opened
  <2>2. /\ pc'[p] \in {"push", "close", "stats"} /\ file'[p] = dir["db"]
        /\ \A q \in Procs \ {p} : pc'[q] = pc[q] /\ file'[q] = file[q]
    BY <1>1, <1>3, <2>1, Zenon DEF Goto
  <2>3. Data'
    BY <1>1, <1>3, Zenon DEF JInv, Data
  <2>4. Uses(p)' /\ Tool(p)'
    BY <1>3, <2>2, ZenonT(40) DEF Uses, Tool
  <2>5. ASSUME ~pulled' PROVE Current(p)' /\ JobsKept'
    BY <1>1, <1>3, <2>2, <2>5, ZenonT(40) DEF Current, JInv, Kept, JobsKept
  <2> QED
    BY <1>3, <2>2, <2>3, <2>4, <2>5, LockedKeepsJobs, ZenonT(40) DEF Holding
<1>4. CASE Leave(p, "fail") /\ UNCHANGED <<dir, content>>
  BY <1>1, <1>4, LeaveJobs, Zenon
<1> QED
  BY <1>2, <1>3, <1>4, Zenon DEF file_open

\* The first header makes an empty file an empty database.
LEMMA HeaderKeepsJobs ==
  ASSUME JInv, PInv', NEW p \in Procs, header_write(p)
  PROVE  JInv'
<1>1. pc[p] = "header" /\ UNCHANGED <<pushed, acked, dropped, pulled>>
  BY Zenon DEF header_write, At, ghosts
<1>2. CASE /\ Store(p, Fresh) /\ Goto(p, Opened(p)) /\ UNCHANGED <<dir, fds, local>>
  <2>1. Opened(p) \in {"push", "close", "stats"}
    BY Zenon DEF Opened
  <2>2. local' = [local EXCEPT ![p] = local[p]] /\ local[p] \in Locals(pushed')
    BY <1>1, <1>2, Zenon DEF JInv, Data
  <2>3. Numbered(pushed') /\ Good(pushed', Fresh)
    BY <1>1, NoJobs, Zenon DEF JInv, Data
  <2>4. CASE ~pulled
    <3>1. JobsOf(File(p)) = {}
      BY <1>1, <2>4, ZenonT(40) DEF JInv, Kept, Current, File
    <3>2. PICK step \in {"push", "close", "stats"} : Goto(p, step)
      BY <1>2, <2>1, Zenon
    <3>3. JobsOf(File(p)) \cup (pushed' \ pushed) \subseteq JobsOf(Fresh) \cup acked'
      BY <1>1, <3>1, Zenon
    <3>4. /\ pc[p] \in InDb /\ UNCHANGED <<dir, file, staging, pulled>>
          /\ Store(p, Fresh) /\ dropped \subseteq dropped'
          /\ pushed \subseteq pushed' /\ acked \subseteq acked'
      BY <1>1, <1>2, Zenon DEF InDb, fds
    <3>5. PICK x \in Locals(pushed') : local' = [local EXCEPT ![p] = x]
      BY <2>2, Zenon
    <3> QED
      BY <2>3, <3>2, <3>3, <3>4, <3>5, StoreKeeps, ZenonT(40)
  <2>5. CASE pulled
    <3>1. /\ file[p] \in Files /\ file[p] # None /\ pc \in [Procs -> Pcs]
          /\ content = [f \in Files |-> content[f]] /\ \A f \in Files : Good(pushed, content[f])
      BY <1>1, ZenonT(40) DEF JInv, PInv, Types, Uses, Data, InDb
    <3>2. Data'
      BY <1>1, <1>2, <2>3, <3>1, Zenon DEF JInv, Data, Store
    <3>3. /\ pc'[p] \in {"push", "close", "stats"}
          /\ \A q \in Procs \ {p} : pc'[q] = pc[q]
      BY <1>2, <2>1, <3>1, Zenon DEF Goto
    <3>4. Uses(p)' /\ Tool(p)'
      BY <1>2, <3>1, <3>3, Zenon DEF Uses, Tool, fds
    <3> QED
      BY <1>1, <1>2, <2>5, <3>2, <3>3, <3>4, LockedKeepsJobs, ZenonT(40) DEF Holding, fds
  <2> QED
    BY <2>4, <2>5, Zenon
<1>3. CASE Leave(p, "fail") /\ UNCHANGED dir /\ Becomes(content)
  BY <1>1, <1>3, LeaveJobs, Zenon
<1> QED
  BY <1>2, <1>3, Zenon DEF header_write, Store

\* qdb_compact, from the staging file to the renamed copy.
LEMMA CompactKeepsJobs ==
  ASSUME JInv, PInv', NEW p \in Procs,
         CompactBegin(p) \/ CompactCopy(p) \/ CompactRename(p)
  PROVE  JInv'
\* A compaction copies all but the acknowledged messages.
<1>CopyGood.
    ASSUME NEW S, NEW c, Good(S, c)
    PROVE  LET d == [c EXCEPT !.acked = 0]
           IN  Good(S, d) /\ JobsOf(d) = JobsOf(c) /\ Leased(d) = Leased(c)
  <2> USE <1>CopyGood
  <2> DEFINE d == [c EXCEPT !.acked = 0]
  <2>1. /\ d \in Contents(S) /\ d.queue = c.queue /\ d.leased = c.leased
        /\ Once(c)
    BY DEF Good, Contents
  <2> HIDE DEF d
  <2>2. JobsOf(d) = JobsOf(c) /\ Leased(d) = Leased(c)
    BY <2>1, Zenon DEF JobsOf, Leased
  <2>3. Once(d)
    BY <2>1, <2>2, Zenon DEF Once
  <2> QED
    BY <2>1, <2>2, <2>3, Zenon DEF Good, d
<1>0. /\ pc[p] \in {"compact", "copy", "rename"} /\ pc[p] \in InDb
      /\ UNCHANGED <<pushed, acked, dropped, pulled>>
      /\ file' = file
  BY Zenon DEF CompactBegin, CompactCopy, CompactRename, CompactFail, At, InDb, GiveUp, ghosts
<1>1. /\ file[p] \in Files /\ pc \in [Procs -> Pcs] /\ staging \in [Procs -> Files \cup {None}]
      /\ pc[p] \in {"copy", "rename"} => staging[p] \in Files
      /\ dir = [e \in Entries |-> dir[e]] /\ {"db", "staging"} \subseteq Entries
      /\ dir["db"] \in Files \cup {None} /\ dir["staging"] \in Files \cup {None}
      /\ content = [f \in Files |-> content[f]] /\ \A f \in Files : Good(pushed, content[f])
      /\ local \in [Procs -> Locals(pushed)] /\ file[p] # None
  BY <1>0, ZenonT(40) DEF JInv, PInv, Types, Uses, Data, Entries
<1>2. ASSUME ~pulled
      PROVE  /\ Current(p) /\ file[p] = dir["db"] /\ dir["db"] # None /\ JobsKept
             /\ pc[p] \in {"copy", "rename"} => dir["staging"] = staging[p]
  BY <1>0, <1>1, <1>2, ZenonT(40) DEF JInv, Kept, Current, PInv, Staged
<1>3. ASSUME CompactFail(p) PROVE JInv'
  <2>1. /\ pc'[p] = "close" /\ \A q \in Procs \ {p} : pc'[q] = pc[q] /\ staging'[q] = staging[q]
        /\ dir'["db"] = dir["db"] /\ Becomes(content)
    BY <1>1, <1>3, Zenon DEF CompactFail, Goto
  <2>2. PICK x : x = [local[p] EXCEPT !.code = "fail"]
    BY Zenon
  <2>3. x \in Locals(pushed) /\ local' = [local EXCEPT ![p] = x]
    BY <1>1, <1>3, <2>2, SMTT(60) DEF CompactFail, Locals
  <2>4. /\ local' \in [Procs -> Locals(pushed)]
        /\ \A q \in Procs \ {p} : local'[q] = local[q]
    BY <1>1, <2>3, Zenon
  <2>5. Data'
    BY <1>0, <1>1, <2>1, <2>4, BecomesGood, ZenonT(40) DEF JInv, Data
  <2>6. Uses(p)' /\ Tool(p)'
    BY <2>1, ZenonT(40) DEF Uses, Tool, InDb
  <2>7. content'[file[p]] = content[file[p]]
    BY <1>0, <1>1, <2>1, UsedKept
  <2>8. ASSUME ~pulled' PROVE Current(p)' /\ JobsKept'
    BY <1>0, <1>2, <2>1, <2>7, <2>8, ZenonT(40) DEF Current, JobsKept
  <2> QED
    BY <1>0, <2>1, <2>4, <2>5, <2>6, <2>8, LockedKeepsJobs, ZenonT(40) DEF Holding
<1>4. CASE CompactBegin(p)
  <2>1. CASE GiveUp(p) /\ UNCHANGED <<dir, file, staging>>
    BY <1>0, <2>1, GiveUpKeeps, Zenon
  <2>2. CASE ~(GiveUp(p) /\ UNCHANGED <<dir, file, staging>>)
    <3>1. PICK f \in FreeFiles : /\ dir' = [dir EXCEPT !["staging"] = f]
                                 /\ staging' = [staging EXCEPT ![p] = f]
                                 /\ Becomes([content EXCEPT ![f] = Empty])
      BY <1>4, <2>2, ZenonT(40) DEF CompactBegin
    <3>2. pc[p] = "compact" /\ Goto(p, "copy") /\ local' = local
      BY <1>4, <2>2, Zenon DEF CompactBegin, At
    <3>3. f \in Files /\ f # None /\ f # file[p] /\ f # dir["db"]
      BY <1>1, ProgramsAssumption, Zenon DEF FreeFiles, Used
    <3>4. /\ pc'[p] = "copy" /\ staging'[p] = f /\ dir'["db"] = dir["db"]
          /\ \A q \in Procs \ {p} : pc'[q] = pc[q] /\ staging'[q] = staging[q]
      BY <1>1, <3>1, <3>2, <3>3, Zenon DEF Goto
    <3>5. PICK c : c = [content EXCEPT ![f] = Empty]
      BY ZenonT(40)
    <3>6. /\ \A g \in Files : Good(pushed, c[g])
          /\ c[file[p]] = content[file[p]] /\ Becomes(c)
      BY <1>1, <3>1, <3>3, <3>5, NoJobs, Zenon
    <3>7. content'[file[p]] = content[file[p]]
      BY <1>0, <1>1, <3>6, UsedKept, Zenon
    <3>8. Data'
      BY <1>0, <3>2, <3>6, BecomesGood, Zenon DEF JInv, Data
    <3>9. Uses(p)' /\ Tool(p)'
      BY <1>0, <1>1, <3>3, <3>4, ZenonT(40) DEF Uses, Tool
    <3>10. ASSUME ~pulled' PROVE Current(p)' /\ JobsKept'
      BY <1>0, <1>2, <3>2, <3>4, <3>7, <3>10, ZenonT(40) DEF Current, JobsKept
    <3> QED
      BY <1>0, <3>2, <3>4, <3>8, <3>9, <3>10, LockedKeepsJobs, ZenonT(40) DEF Holding
  <2> QED
    BY <1>4, <2>1, <2>2, Zenon DEF CompactBegin
<1>5. CASE CompactCopy(p)
  <2>1. CASE /\ content' = [content EXCEPT ![staging[p]] = [File(p) EXCEPT !.acked = 0]]
             /\ Goto(p, "rename") /\ UNCHANGED <<dir, staging, local>>
    <3>1. PICK d : d = [File(p) EXCEPT !.acked = 0]
      BY ZenonT(40)
    <3>2. Good(pushed, d) /\ JobsOf(d) = JobsOf(File(p)) /\ Leased(d) = Leased(File(p))
      BY <1>1, <3>1, <1>CopyGood, Zenon DEF File
    <3>3. pc[p] = "copy" /\ staging[p] \in Files /\ staging[p] # None
      BY <1>1, <1>5, ProgramsAssumption, Zenon DEF CompactCopy, At
    <3>4. /\ content' = [g \in Files |-> content'[g]] /\ content'[staging[p]] = d
          /\ \A g \in Files : g # staging[p] => content'[g] = content[g]
      BY <1>1, <2>1, <3>1, <3>3, Zenon
    <3>5. JobsOf(content'[file[p]]) = JobsOf(content[file[p]])
      BY <1>1, <3>2, <3>4, Zenon DEF File
    <3>6. /\ pc'[p] = "rename" /\ \A q \in Procs \ {p} : pc'[q] = pc[q]
      BY <1>1, <2>1, Zenon DEF Goto
    <3>7. Data'
      BY <1>0, <1>1, <2>1, <3>2, <3>4, Zenon DEF JInv, Data
    <3>8. Uses(p)' /\ Tool(p)'
      BY <1>0, <1>1, <2>1, <3>3, <3>6, Zenon DEF Uses, Tool
    <3>9. ASSUME ~pulled' PROVE Current(p)' /\ JobsKept'
      <4>1. Leased(d) \cap local[p].seen = {}
        BY <1>0, <1>2, <3>2, <3>3, <3>9, ZenonT(40) DEF Current, File
      <4>2. Current(p)'
        BY <1>0, <1>2, <2>1, <3>2, <3>4, <3>5, <3>6, <3>9, <4>1, Zenon DEF Current, File
      <4>3. JobsKept'
        BY <1>0, <1>2, <2>1, <3>5, <3>9, Zenon DEF JobsKept
      <4> QED
        BY <4>2, <4>3, Zenon
    <3> QED
      BY <1>0, <2>1, <3>6, <3>7, <3>8, <3>9, LockedKeepsJobs, Zenon DEF Holding
  <2> QED
    BY <1>3, <1>5, <2>1, Zenon DEF CompactCopy
<1>6. CASE CompactRename(p)
  <2>1. CASE /\ dir["staging"] # None
             /\ dir' = [dir EXCEPT !["db"] = dir["staging"], !["staging"] = None]
             /\ staging' = [staging EXCEPT ![p] = None]
             /\ Goto(p, "reopen") /\ UNCHANGED local /\ Becomes(content)
    <3>1. /\ pc[p] = "rename" /\ pc'[p] = "reopen" /\ dir'["db"] = dir["staging"]
          /\ \A q \in Procs \ {p} : pc'[q] = pc[q] /\ staging'[q] = staging[q]
      BY <1>1, <1>6, <2>1, ZenonT(40) DEF CompactRename, At, Goto
    <3>2. Data'
      BY <1>0, <1>1, <2>1, BecomesGood, ZenonT(40) DEF JInv, Data
    <3>3. Uses(p)' /\ Tool(p)'
      BY <3>1, ZenonT(40) DEF Uses, Tool, InDb
    <3>4. content'[dir'["db"]] = content[dir["staging"]]
      BY <1>1, <2>1, <3>1, UsedKept
    <3>5. ASSUME ~pulled' PROVE Current(p)' /\ JobsKept'
      <4>1. JobsOf(content[dir["db"]]) \subseteq JobsOf(content'[dir'["db"]])
        BY <1>0, <1>2, <3>1, <3>4, <3>5, ZenonT(40) DEF Current
      <4>2. Current(p)'
        BY <3>1, Zenon DEF Current
      <4> QED
        BY <1>0, <1>2, <2>1, <3>1, <3>5, <4>1, <4>2, ZenonT(40) DEF JobsKept
    <3> QED
      BY <1>0, <2>1, <3>1, <3>2, <3>3, <3>5, LockedKeepsJobs, ZenonT(40) DEF Holding
  <2> QED
    BY <1>3, <1>6, <2>1, Zenon DEF CompactRename
<1> QED
  BY <1>4, <1>5, <1>6, Zenon

\* The handle goes on with the file that is the database now.
LEMMA ReopenKeepsJobs ==
  ASSUME JInv, PInv', NEW p \in Procs, reopen_after_compact(p)
  PROVE  JInv'
<1>1. /\ UNCHANGED <<dir, staging, pushed, acked, dropped, pulled>>
      /\ Goto(p, "close") /\ Becomes(content)
      /\ \/ file' = [file EXCEPT ![p] = dir["db"]] /\ UNCHANGED local
         \/ /\ file' = [file EXCEPT ![p] = None]
            /\ local' = [local EXCEPT ![p].code = "fail"]
  BY Zenon DEF reopen_after_compact, ghosts
<1>2. /\ pc \in [Procs -> Pcs] /\ file \in [Procs -> Files \cup {None}]
      /\ dir["db"] \in Files \cup {None}
      /\ local \in [Procs -> Locals(pushed)] /\ \A f \in Files : Good(pushed, content[f])
  BY Zenon DEF JInv, PInv, Types, Data
<1>3. /\ pc'[p] = "close" /\ file'[p] \in {dir["db"], None}
      /\ \A q \in Procs \ {p} : pc'[q] = pc[q] /\ file'[q] = file[q]
  BY <1>1, <1>2, Zenon DEF Goto
<1>4. /\ local' \in [Procs -> Locals(pushed)]
      /\ \A q \in Procs \ {p} : local'[q] = local[q]
  <2>1. CASE UNCHANGED local
    BY <1>2, <2>1, Zenon
  <2>2. CASE local' = [local EXCEPT ![p].code = "fail"]
    <3>1. PICK x : x = [local[p] EXCEPT !.code = "fail"]
      BY Zenon
    <3>2. x \in Locals(pushed) /\ local' = [local EXCEPT ![p] = x]
      BY <1>2, <2>2, <3>1, Zenon DEF Locals
    <3> QED
      BY <1>2, <3>2, Zenon
  <2> QED
    BY <1>1, <2>1, <2>2, Zenon
<1>5. Data'
  BY <1>1, <1>2, <1>4, BecomesGood, Zenon DEF JInv, Data
<1>6. Uses(p)' /\ Tool(p)'
  BY <1>3, Zenon DEF Uses, Tool, InDb
<1>7. dir["db"] # None => content'[dir["db"]] = content[dir["db"]]
  BY <1>1, <1>2, UsedKept, Zenon
<1>8. ASSUME ~pulled' PROVE Current(p)' /\ JobsKept'
  BY <1>1, <1>3, <1>7, <1>8, Zenon DEF Current, JobsKept, JInv, Kept
<1> QED
  BY <1>1, <1>3, <1>4, <1>5, <1>6, <1>8, LockedKeepsJobs, Zenon DEF Holding

\* The end of a process, and the removals of a demonstration: the jobs of the
\* database it removes are dropped with it.
LEMMA EndKeepsJobs ==
  ASSUME JInv, PInv', NEW p \in Procs,
         qdb_close(p) \/ Kill(p) \/ RemoveDb(p) \/ RemoveLock(p)
  PROVE  JInv'
<1>0. /\ pc \in [Procs -> Pcs] /\ local \in [Procs -> Locals(pushed)]
      /\ dir = [e \in Entries |-> dir[e]] /\ {"db", "lock"} \subseteq Entries
  BY ZenonT(40) DEF JInv, PInv, Types, Data, Entries
<1>1. CASE qdb_close(p)
  <2>1. /\ UNCHANGED <<dir, pushed, acked, dropped, pulled>> /\ Becomes(content)
    BY <1>1, Zenon DEF qdb_close, ghosts
  <2>2. CASE Goto(p, "rmdb") /\ local' = [local EXCEPT ![p] = Idle] /\ CloseAll(p)
    BY <2>1, <2>2, IdleLocals, LeaveKeepsJobs, ZenonT(40)
  <2>3. CASE Leave(p, local[p].code)
    <3>1. local[p].code \in {"ok", "fail", "usage", "killed"}
      BY <1>0, Zenon DEF Locals
    <3> QED
      BY <2>1, <2>3, <3>1, LeaveJobs, Zenon
  <2> QED
    BY <1>1, <2>2, <2>3, Zenon DEF qdb_close
<1>2. CASE Kill(p)
  BY <1>2, LeaveJobs, Zenon DEF Kill, ghosts
<1>3. CASE RemoveDb(p)
  <2>1. /\ dir' = [dir EXCEPT !["db"] = None] /\ pc[p] = "rmdb"
        /\ pc' = [pc EXCEPT ![p] = "rmlock"]
        /\ local' = [r \in Procs |-> [local[r] EXCEPT !.raced = local[r].cmd # None]]
        /\ dropped' = IF dir["db"] = None THEN dropped
                      ELSE dropped \cup JobsOf(content[dir["db"]])
        /\ pulled' = (pulled \/ \E r \in Procs : dir["db"] # None /\ file[r] = dir["db"])
        /\ UNCHANGED <<file, staging, pushed, acked>> /\ Becomes(content)
    BY <1>3, Zenon DEF RemoveDb, At, Goto, fds
  <2>2. dir'["db"] = None /\ pc'[p] = "rmlock" /\ \A q \in Procs \ {p} : pc'[q] = pc[q]
    BY <1>0, <2>1, Zenon
  <2>3. \A q \in Procs : /\ local'[q] \in Locals(pushed) /\ local'[q].cmd = local[q].cmd
                         /\ local'[q].raced = (local[q].cmd # None)
    BY <1>0, <2>1, ZenonT(40) DEF Locals
  <2>4. local' \in [Procs -> Locals(pushed)]
    BY <2>1, <2>3, Zenon
  <2>5. Data'
    BY <2>1, <2>4, BecomesGood, Zenon DEF JInv, Data
  <2>6. ASSUME NEW q \in Procs PROVE Uses(q)' /\ Tool(q)'
    <3>1. CASE q = p
      BY <2>2, <3>1, Zenon DEF Uses, Tool, InDb
    <3>2. CASE q # p
      <4>1. Uses(q)'
        BY <2>1, <2>2, <3>2, Zenon DEF JInv, Uses
      <4>2. Tool(q)'
        BY <2>2, <2>3, <3>2, ZenonT(40) DEF JInv, Tool, Is
      <4> QED
        BY <4>1, <4>2, Zenon
    <3> QED
      BY <3>1, <3>2, Zenon
  <2>7. ASSUME ~pulled' PROVE (\A q \in Procs : Current(q)') /\ JobsKept'
    <3>1. ~pulled /\ \A r \in Procs : dir["db"] # None => file[r] # dir["db"]
      BY <2>1, <2>7, Zenon
    <3>2. ASSUME NEW q \in Procs PROVE Current(q)'
      <4>1. file[q] = None \/ pc[q] = "reopen"
        BY <3>1, ZenonT(40) DEF JInv, Kept, Current
      <4>2. pc[q] \notin InDb
        BY <4>1, Zenon DEF JInv, Uses, InDb
      <4>3. pc'[q] \notin InDb /\ (file'[q] = None \/ pc'[q] = "reopen")
        BY <2>1, <2>2, <4>1, <4>2, Zenon DEF InDb
      <4> QED
        BY <4>3, ZenonT(40) DEF Current, InDb
    <3>3. JobsKept'
      BY <2>1, <3>1, Zenon DEF JInv, Kept, JobsKept
    <3> QED
      BY <3>2, <3>3, Zenon
  <2> QED
    BY <2>5, <2>6, <2>7, Zenon DEF JInv, Kept
<1>4. CASE RemoveLock(p)
  <2>1. dir' = [dir EXCEPT !["lock"] = None] /\ Leave(p, "ok") /\ (pulled => pulled')
        /\ UNCHANGED <<content, pushed, acked, dropped>>
    BY <1>4, Zenon DEF RemoveLock
  <2>2. dir'["db"] = dir["db"]
    BY <1>0, <2>1, Zenon
  <2> QED
    BY <2>1, <2>2, LeaveJobs, Zenon
<1> QED
  BY <1>1, <1>2, <1>3, <1>4, Zenon

\* Time passes for all leases together.
LEMMA TickKeepsJobs ==
  ASSUME JInv, PInv', Tick
  PROVE  JInv'
\* Time passes for the leases.
<1>OlderGood.
    ASSUME NEW S, NEW c, Good(S, c)
    PROVE  LET d == [c EXCEPT !.leased = {Older(l) : l \in @}]
           IN  Good(S, d) /\ JobsOf(d) = JobsOf(c) /\ Leased(d) = Leased(c)
  <2> USE <1>OlderGood
  <2> DEFINE L == {Older(l) : l \in c.leased}
             d == [c EXCEPT !.leased = {Older(l) : l \in @}]
  <2>1. c \in Contents(S) /\ Once(c)
    BY Zenon DEF Good
  <2>2. \A l \in c.leased : Older(l) \in [job : S, left : Int] /\ Older(l).job = l.job
    BY <2>1 DEF Contents, Older
  <2>3. L \in SUBSET [job : S, left : Int] /\ {l.job : l \in L} = {l.job : l \in c.leased}
    BY <2>2, Zenon
  <2>4. IsFiniteSet(L)
    <3>1. [l \in c.leased |-> Older(l)] \in Surjection(c.leased, L)
      BY Zenon DEF Surjection
    <3> QED
      BY <2>1, <3>1, FS_Surjection, Zenon DEF Once
  <2>5. \A l, m \in L : l.job = m.job => l = m
    BY <2>1, <2>2 DEF Once
  <2>6. d \in Contents(S) /\ d.queue = c.queue /\ d.leased = L
    <3>1. d = [c EXCEPT !.leased = L]
      BY Zenon
    <3> HIDE DEF d, L
    <3> QED
      BY <2>1, <2>3, <3>1, Zenon DEF Contents
  <2> HIDE DEF d, L
  <2>7. Leased(d) = Leased(c)
    BY <2>3, <2>6, ZenonT(40) DEF Leased
  <2>8. JobsOf(d) = JobsOf(c)
    BY <2>6, <2>7, Zenon DEF JobsOf, Leased
  <2>9. Once(d)
    BY <2>1, <2>4, <2>5, <2>6, <2>7, Zenon DEF Once
  <2> QED
    BY <2>6, <2>7, <2>8, <2>9, Zenon DEF Good, d
<1>1. /\ content' = [f \in Files |-> [content[f] EXCEPT !.leased = {Older(l) : l \in @}]]
      /\ UNCHANGED <<dir, pc, file, staging, local, pushed, acked, dropped, pulled>>
  BY Zenon DEF Tick, fds, ghosts
<1>2. \A f \in Files : Good(pushed, content[f])
  BY Zenon DEF JInv, Data
<1>3. \A f \in Files : /\ Good(pushed, content'[f])
                       /\ JobsOf(content'[f]) = JobsOf(content[f])
                       /\ Leased(content'[f]) = Leased(content[f])
  BY <1>1, <1>2, <1>OlderGood, Zenon
<1>4. Data'
  BY <1>1, <1>3, Zenon DEF JInv, Data
<1>5. ASSUME NEW q \in Procs PROVE Uses(q)' /\ Tool(q)'
  BY <1>1, Zenon DEF JInv, Uses, Tool, Is
<1>6. ASSUME NEW q \in Procs, ~pulled' PROVE Current(q)'
  <2>1. /\ pc[q] \in InDb => file[q] \in Files
        /\ pc[q] \in {"copy", "rename"} => staging[q] \in Files
    BY Zenon DEF JInv, Uses, PInv, Types
  <2>2. Current(q)
    BY <1>1, <1>6, Zenon DEF JInv, Kept
  <2> QED
    BY <1>1, <1>3, <2>1, <2>2, Zenon DEF Current, InDb
<1>7. ASSUME ~pulled' PROVE JobsKept'
  <2>1. dir["db"] # None => dir["db"] \in Files
    BY Zenon DEF JInv, PInv, Types
  <2> QED
    BY <1>1, <1>3, <1>7, <2>1, Zenon DEF JInv, Kept, JobsKept
<1> QED
  BY <1>4, <1>5, <1>6, <1>7, Zenon DEF JInv, Kept

-----------------------------------------------------------------------------
\* Every step keeps what is known of the jobs.
LEMMA StepKeepsJobs == JInv /\ [Next]_vars => JInv'
<1> SUFFICES ASSUME JInv, [Next]_vars PROVE JInv'
  BY Zenon
<1>1. PInv'
  BY StepKeeps, Zenon DEF JInv
<1>2. CASE UNCHANGED vars
  BY <1>1, <1>2, Zenon
  DEF vars, files, fds, limits, ghosts, JInv, Data, Uses, Tool, Kept, Current, JobsKept
<1>3. CASE Tick
  BY <1>1, <1>3, TickKeepsJobs, Zenon
<1>4. ASSUME NEW p \in Procs, Start(p) \/ Step(p) \/ Kill(p)
      PROVE  JInv'
  BY <1>1, <1>4, OpeningKeepsJobs, FileOpenKeepsJobs, HeaderKeepsJobs, PushKeepsJobs,
     ExpireKeepsJobs, PopKeepsJobs, SettleKeepsJobs, CommandKeepsJobs, CompactKeepsJobs,
     ReopenKeepsJobs, EndKeepsJobs, ZenonT(40)
  DEF Step
<1> QED
  BY <1>2, <1>3, <1>4, Zenon DEF Next

\* What the files hold agrees with what the processes have done: an invariant
\* of all programs together.
THEOREM FilesHoldJobs == Spec => []JInv
<1>1. Init => JInv
  <2> SUFFICES ASSUME Init PROVE JInv
    BY Zenon
  <2>1. PInv
    BY InitEstablishes, Zenon
  <2>2. Data
    <3>1. Numbered({})
      BY FS_EmptySet, Zenon DEF Numbered
    <3>2. Idle \in Locals({})
      BY IdleLocals, Zenon
    <3> QED
      BY <3>1, <3>2, NoJobs, Zenon DEF Init, Data
  <2>3. ASSUME NEW p \in Procs PROVE Uses(p) /\ Tool(p) /\ Current(p)
    BY ZenonT(40) DEF Init, Uses, Tool, Current, InDb
  <2>4. JobsKept
    BY Zenon DEF Init, JobsKept
  <2> QED
    BY <2>1, <2>2, <2>3, <2>4, Zenon DEF JInv, Kept
<1> QED
  BY <1>1, StepKeepsJobs, PTL DEF Spec

\* No job is lost: every pushed job is acknowledged, in the database, or went
\* with a database that a demonstration removed, whoever was killed in an
\* open, a compaction or a job.
THEOREM NoJobLost == Spec => []JobsKept
<1>1. JInv => JobsKept
  BY Zenon DEF JInv, Kept, JobsKept
<1> QED
  BY <1>1, FilesHoldJobs, PTL

\* open_db of the tool keeps it from creating a database, unless the file was
\* removed between its check and its open.
THEOREM ToolNeverCreates == Spec => []ToolCreatesNothing
<1>1. JInv => ToolCreatesNothing
  BY Zenon DEF JInv, Tool, ToolCreatesNothing, At
<1> QED
  BY <1>1, FilesHoldJobs, PTL

\* The expiry before a compaction leaves no expired lease in the new file.
THEOREM CompactionIsFresh == Spec => []CompactFresh
<1>1. JInv => CompactFresh
  BY Zenon DEF JInv, Kept, Current, CompactFresh, Leased, At
<1> QED
  BY <1>1, FilesHoldJobs, PTL
=============================================================================







