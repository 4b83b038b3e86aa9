---------------------------- MODULE InvoiceTable ----------------------------
(***************************************************************************)
(* The status column of the invoices table and the queries that write it   *)
(* (indexer/db/queries.go).  "Absent" stands for "no row with this id".    *)
(* A query is an operator from the status it finds to its result: the      *)
(* status it leaves, or the error it returns.                              *)
(***************************************************************************)

\* The CHECK constraint of the status column, and the missing row.
Statuses == {"Absent", "Created", "Listed", "Funded", "Active",
             "Confirmed", "Repaid", "Defaulted"}

ErrInvoiceNotFound == "ErrInvoiceNotFound"
ErrInvalidInvoiceTransition == "ErrInvalidInvoiceTransition"

\* UPDATE ... WHERE id = $n AND status IN from, then the row count is inspected.
updateInvoice(st, from, target) ==
    CASE st \in from                    -> target
      [] st = "Absent"                  -> ErrInvoiceNotFound
      [] st \notin from \cup {"Absent"} -> ErrInvalidInvoiceTransition

\* INSERT ... ON CONFLICT (id) DO NOTHING never fails on a second insert.
InsertInvoice(st) == IF st = "Absent" THEN "Created" ELSE st

UpdateInvoiceListed(st) == updateInvoice(st, {"Created"}, "Listed")

UpdateInvoiceFunded(st) == updateInvoice(st, {"Listed"}, "Funded")

UpdateInvoiceShipped(st) == updateInvoice(st, {"Funded"}, "Active")

UpdateInvoiceDeliveryConfirmed(st) == updateInvoice(st, {"Active"}, "Confirmed")

UpdateInvoiceRepaid(st) == updateInvoice(st, {"Confirmed"}, "Repaid")

\* Mutant of UpdateInvoiceStatus: no default before the goods are shipped.
UpdateInvoiceStatusAfterShipping(st, target) ==
    updateInvoice(st, {"Active", "Confirmed"}, target)

\* Mutant of UpdateInvoiceStatus: the update is not guarded by the status.
UpdateInvoiceStatusAnyRow(st, target) ==
    updateInvoice(st, Statuses \ {"Absent"}, target)

\* Besides the handler of a default, a caller of the API runs it with a status
\* of its choice.
UpdateInvoiceStatus(st, target) ==
    updateInvoice(st, {"Funded", "Active", "Confirmed"}, target)

\* Attestation columns are written whatever the status; only a missing row fails.
UpdateInvoiceAttestation(st) == IF st = "Absent" THEN ErrInvoiceNotFound ELSE st
=============================================================================
