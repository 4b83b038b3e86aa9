----------------------------- MODULE MCListener -----------------------------
(***************************************************************************)
(* Instances of Listener for TLC.                                          *)
(***************************************************************************)
EXTENDS Listener

\* No operator, and one who backfills the ledger the listener is about to read.
NoBackfill == {}
Backfills == {<<3, 3>>}
=============================================================================
