---------------------------- MODULE ContractWrite ----------------------------
(***************************************************************************)
(* What the SDK promises the caller of a mutating method: the call takes   *)
(* effect at most once; "ok" means the effect is on the ledger, "failed"   *)
(* means it is not and never will be on this call's account, and "unknown" *)
(* (a lost answer, a confirmation that did not come in time) promises      *)
(* nothing: the effect may still arrive after the call has returned.       *)
(***************************************************************************)
CONSTANT Calls

VARIABLES
    phase,   \* phase[c]: where the caller's promise stands
    effect   \* effect[c]: what became of the transaction c submitted

vars == <<phase, effect>>

TypeOK ==
    /\ phase \in [Calls -> {"idle", "running", "ok", "failed", "unknown"}]
    /\ effect \in [Calls -> {"none", "open", "applied", "void"}]

Init ==
    /\ phase = [c \in Calls |-> "idle"]
    /\ effect = [c \in Calls |-> "none"]

Begin(c) ==
    /\ phase[c] = "idle"
    /\ phase' = [phase EXCEPT ![c] = "running"]
    /\ UNCHANGED effect

\* The network takes the transaction: while the call runs, or late, after the
\* caller was told that the answer was lost.
Submit(c) ==
    /\ phase[c] \in {"running", "unknown"}
    /\ effect[c] = "none"
    /\ effect' = [effect EXCEPT ![c] = "open"]
    /\ UNCHANGED phase

\* Calls in S share one transaction (identical calls of one account build
\* byte-identical transactions), so they are decided together.
Decide(S, how) ==
    /\ S # {}
    /\ \A c \in S : effect[c] = "open"
    /\ effect' = [c \in Calls |-> IF c \in S THEN how ELSE effect[c]]
    /\ UNCHANGED phase

MayReturn(c, p) ==
    CASE p = "ok"      -> effect[c] = "applied"
      [] p = "failed"  -> effect[c] \in {"none", "void"}
      [] p = "unknown" -> TRUE

Return(c, p) ==
    /\ phase[c] = "running"
    /\ MayReturn(c, p)
    /\ phase' = [phase EXCEPT ![c] = p]
    /\ UNCHANGED effect

Next ==
    \/ \E c \in Calls : Begin(c) \/ Submit(c)
    \/ \E S \in SUBSET Calls, how \in {"applied", "void"} : Decide(S, how)
    \/ \E c \in Calls, p \in {"ok", "failed", "unknown"} : Return(c, p)

Spec == Init /\ [][Next]_vars

\* What a caller may conclude, at every later moment: an effect never follows
\* a call that was reported failed, and never leaves one reported done.
ReportIsTrue ==
    \A c \in Calls : /\ phase[c] = "ok" => effect[c] = "applied"
                     /\ phase[c] = "failed" => effect[c] \in {"none", "void"}
=============================================================================
