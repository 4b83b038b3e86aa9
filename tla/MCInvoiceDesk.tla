---------------------------- MODULE MCInvoiceDesk ----------------------------
(***************************************************************************)
(* Instances of InvoiceDesk for TLC: two invoices of one wallet and one of *)
(* another, which takes part when the three are listed to be compared.     *)
(***************************************************************************)
EXTENDS InvoiceDesk

CONSTANTS a1, a2

MCIssuer == <<a1, a1, a2>>
MCFace == <<1, 2, 3>>
MCStart == {<<"Attested", "None", "None">>, <<"Confirmed", "Confirmed", "None">>,
            <<"Listed", "Active", "None">>, <<"Listed", "Listed", "Listed">>}
=============================================================================
