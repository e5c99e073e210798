---------------------------- MODULE MCQdbCompact ----------------------------
(***************************************************************************)
(* Small instances of QdbCompact for TLC.                                  *)
(***************************************************************************)
EXTENDS QdbCompact

CONSTANTS q1, q2

MCQueues == {q1, q2}

OneQueue == {q1}

MCTimes == {0, 2}

MCTimeout == 1

Symmetry == Permutations(MCQueues)
=============================================================================
