-------------------------- MODULE MCBrowserStorage --------------------------
(***************************************************************************)
(* An instance of BrowserStorage for TLC.                                  *)
(***************************************************************************)
EXTENDS BrowserStorage, TLC

CONSTANTS a1, a2

\* An event about an invoice of one account.
MCConcerns == <<{a1}>>

\* The tabs are alike.
AnyTab == Permutations(Tabs)
=============================================================================
