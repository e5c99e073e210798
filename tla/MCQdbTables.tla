---------------------------- MODULE MCQdbTables ----------------------------
(***************************************************************************)
(* QdbTables and QdbStats with two queues in one bucket of the queue       *)
(* table, and leases of which all but one share a bucket of the lease      *)
(* table.                                                                  *)
(***************************************************************************)
EXTENDS QdbStats

CONSTANTS qa, qb

MCQueueNames == {qa, qb}
MCTimes == {1, 2}
MCBucket == [l \in LeaseIds |-> IF l = 2 THEN 2 ELSE 1]
MCQueueBucket == [q \in MCQueueNames |-> 1]
=============================================================================
