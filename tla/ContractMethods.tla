--------------------------- MODULE ContractMethods ---------------------------
(***************************************************************************)
(* The contract methods the TypeScript SDK offers, as its client classes   *)
(* (packages/sdk/src/clients) declare them.  A method is a record:         *)
(*                                                                         *)
(*   kind     "read" goes through readContract, "write" through            *)
(*            writeContract                                                *)
(*   returns  what the promise resolves to: the transaction "hash", "true" *)
(*            (the hash is dropped with .then(() => true)) or "data"       *)
(*   by       whose key may sign, as the method's documentation says       *)
(*   from,to  the edge of the invoice's on-chain status, where it has one  *)
(*            (create makes an invoice of its own and changes no other)    *)
(*                                                                         *)
(* Arguments and their XDR encoding are left out: no property tells two    *)
(* amounts or two addresses apart.                                         *)
(***************************************************************************)
EXTENDS FiniteSets

\* On-chain status of one invoice as a client sees it.  Attested is Created
\* with a risk attestation, the precondition of listing.
ChainStatus == {"None", "Created", "Attested", "Listed", "Funded", "Active",
                "Confirmed", "Repaid", "Defaulted"}

Read ==
    [kind |-> "read", returns |-> "data", by |-> {"anyone"}, from |-> {}, to |-> "None"]

Write(result, who) ==
    [kind |-> "write", returns |-> result, by |-> who, from |-> {}, to |-> "None"]

Edge(result, who, from, to) ==
    [kind |-> "write", returns |-> result, by |-> who, from |-> from, to |-> to]

InvoiceClientWrites ==
    [ initialize         |-> Write("hash", {"admin"}),
      create             |-> Write("hash", {"issuer"}),
      submit_attestation |-> Edge("hash", {"anyone"}, {"Created"}, "Attested") ]

InvoiceClientLifecycle ==
    [ list_for_financing |-> Edge("true", {"issuer"}, {"Attested"}, "Listed"),
      mark_shipped       |-> Edge("true", {"issuer"}, {"Funded"}, "Active"),
      confirm_delivery   |-> Edge("true", {"buyer", "issuer"}, {"Active"}, "Confirmed"),
      repay              |-> Edge("true", {"buyer"}, {"Confirmed"}, "Repaid"),
      trigger_default    |-> Edge("true", {"admin"}, {"Funded", "Active", "Confirmed"},
                                  "Defaulted") ]

InvoiceClientReads ==
    [m \in {"get", "get_by_status", "get_by_issuer", "get_by_buyer"} |-> Read]

PoolClient ==
    [ pool_initialize     |-> Write("hash", {"admin"}),
      deposit             |-> Write("hash", {"lp"}),
      withdraw            |-> Write("hash", {"lp"}),
      fund_invoice        |-> Edge("true", {"lp"}, {"Listed"}, "Funded"),
      receive_repayment   |-> Write("true", {"contract"}),
      pool_handle_default |-> Write("true", {"contract"}) ]

PoolClientReads ==
    [m \in {"get_stats", "get_lp_position", "get_utilization_rate"} |-> Read]

EscrowClient ==
    [ escrow_initialize     |-> Write("hash", {"admin"}),
      lock                  |-> Write("true", {"contract"}),
      release_to_issuer     |-> Write("true", {"contract"}),
      release_to_pool       |-> Write("true", {"contract"}),
      escrow_handle_default |-> Write("true", {"contract"}),
      get_locked            |-> Read ]

RegistryClient ==
    [ registry_initialize |-> Write("hash", {"admin"}),
      register_issuer     |-> Write("hash", {"self"}),
      register_buyer      |-> Write("hash", {"self"}),
      is_verified         |-> Read,
      get_profile         |-> Read,
      revoke              |-> Write("hash", {"admin"}) ]

TokenClient ==
    [ allowance |-> Read,
      approve   |-> Write("hash", {"self"}) ]

AgentRegistryClient == [get_agent |-> Read]

\* Functions with disjoint domains as one.
Merge(parts) ==
    [m \in UNION {DOMAIN p : p \in parts} |-> (CHOOSE p \in parts : m \in DOMAIN p)[m]]

Clients == {InvoiceClientWrites, InvoiceClientLifecycle, InvoiceClientReads, PoolClient,
            PoolClientReads, EscrowClient, RegistryClient, TokenClient, AgentRegistryClient}

Method == Merge(Clients)
Methods == DOMAIN Method

\* A method that names an edge is accepted only from one of its statuses.
\* What the others require (a balance, a role, a first call) is not state of
\* this model: the contract may accept them.
Accepts(m, s) == Method[m].from = {} \/ s \in Method[m].from

After(m, s) == IF Method[m].from = {} THEN s ELSE Method[m].to
=============================================================================
