-------------------------- MODULE InvoiceLifecycle --------------------------
(***************************************************************************)
(* What the indexer promises of every invoice it shows                     *)
(* (docs/protocol/invoice-lifecycle.md): a row appears as Created and      *)
(* moves only along the edges of the lifecycle, one edge at a time; it     *)
(* never goes back, never skips a state and never disappears.  The one     *)
(* exception is a caller of the API, who may set a row that is not closed  *)
(* and not waiting for its funds to any status; such rows are remembered.  *)
(***************************************************************************)
CONSTANT Invoices

VARIABLES
    status,
    overridden    \* invoices whose status a caller of the API has set

Edges == { <<"Absent", "Created">>, <<"Created", "Listed">>,
           <<"Listed", "Funded">>, <<"Funded", "Active">>,
           <<"Active", "Confirmed">>, <<"Confirmed", "Repaid">>,
           <<"Funded", "Defaulted">>, <<"Active", "Defaulted">>,
           <<"Confirmed", "Defaulted">> }

Overridable == {edge[1] : edge \in {x \in Edges : x[2] = "Defaulted"}}

Init ==
    /\ status = [i \in Invoices |-> "Absent"]
    /\ overridden = {}

Advance(i) ==
    /\ \E edge \in Edges :
          /\ status[i] = edge[1]
          /\ status' = [status EXCEPT ![i] = edge[2]]
    /\ UNCHANGED overridden

Override(i) ==
    /\ status[i] \in Overridable
    /\ \E edge \in Edges : status' = [status EXCEPT ![i] = edge[2]]
    /\ overridden' = overridden \cup {i}

Next == \E i \in Invoices : Advance(i) \/ Override(i)

Spec == Init /\ [][Next]_<<status, overridden>>
=============================================================================
