---------------------------- MODULE MCQdbEngine -----------------------------
(***************************************************************************)
(* Small instances of QdbEngine for TLC.                                   *)
(***************************************************************************)
EXTENDS QdbEngine, TLC

CONSTANTS q1, q2

MCQueues == {q1, q2}

OneQueue == {q1}

\* Two clock readings around Timeout = 1: a lease taken at 0 expires at 1
\* and is expired at 2, one taken at 2 expires at 3 and is not.
MCTimes == {0, 2}

MCTimeout == 1

Symmetry == Permutations(MCQueues)
=============================================================================
