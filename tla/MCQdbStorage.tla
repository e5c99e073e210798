---------------------------- MODULE MCQdbStorage ----------------------------
(***************************************************************************)
(* QdbStorage with records of two lengths, one of which has a payload that *)
(* ends in the byte of the commit marker.                                  *)
(***************************************************************************)
EXTENDS QdbStorage

MCPayloads == {<<1>>, <<1, MARKER>>}
MCBytes == {1, MARKER}

First == [type |-> "PUSH", payload |-> <<1>>]
MCWalFiles == {<<First, First>>, <<First, BadRecord>>}
=============================================================================
