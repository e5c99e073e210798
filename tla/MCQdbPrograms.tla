--------------------------- MODULE MCQdbPrograms ---------------------------
(***************************************************************************)
(* QdbPrograms for two sets of processes: demonstrations next to the tool, *)
(* and a long-running worker next to the tool.                             *)
(***************************************************************************)
EXTENDS QdbPrograms

CONSTANTS v, w, t

DemoProgram == [p \in Procs |-> IF p = t THEN "qdbtool" ELSE "job_worker"]
WorkerProgram == [p \in Procs |-> IF p = t THEN "qdbtool" ELSE "long_running"]
MCFiles == 1..(2 * Cardinality(Procs) + 2)
MCLockFiles == 101..(101 + Cardinality(Procs))
TwoJobs == <<"plain", "flaky">>
OneJob == <<"plain">>
AllCommands == {"usage", "info", "list", "stats", "verify", "dry-run", "compact", "force"}
=============================================================================
