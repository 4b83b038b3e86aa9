--------------------------- MODULE MCWebhookQueue ---------------------------
(***************************************************************************)
(* Instances of WebhookQueue for TLC.                                      *)
(***************************************************************************)
EXTENDS WebhookQueue, TLC

\* Workers and events are interchangeable (safety runs only).
Symmetry == Permutations(Workers) \cup Permutations(Events)
=============================================================================
