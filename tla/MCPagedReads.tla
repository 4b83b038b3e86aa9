---------------------------- MODULE MCPagedReads ----------------------------
(***************************************************************************)
(* Instances of PagedReads for TLC.                                        *)
(***************************************************************************)
EXTENDS PagedReads

CONSTANTS a1, a2

\* Transactions of ours between foreign ones.
MCOurs == [a \in Accounts |-> IF a = a1 THEN {1, 3, 4} ELSE {2}]
=============================================================================
