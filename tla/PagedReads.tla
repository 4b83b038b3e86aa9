----------------------------- MODULE PagedReads -----------------------------
(***************************************************************************)
(* Reads of the web app that take several requests while the data moves:   *)
(*  - the transaction history of an account (hooks/useTxHistory.ts and     *)
(*    components/shared/TxHistory.tsx): cursor pages from Horizon, and a   *)
(*    cached lookup of the operations of each transaction on a page;       *)
(*  - the walk over all invoices of an issuer for the dashboard's totals   *)
(*    (getAllInvoices of lib/api.ts, useInvoiceStats): numbered pages from *)
(*    the indexer, newest first.                                           *)
(***************************************************************************)
EXTENDS Naturals, Sequences, FiniteSets, FiniteSetsExt

CONSTANTS
    Accounts,    \* accounts whose history is looked at
    Ours,        \* Ours[a]: the transactions of a that call a TrusTrove contract
    MaxTx,       \* bound on the transactions of an account
    TxLimit,     \* transactions on a page (10 in the code)
    MaxTurns,    \* bound on page turns and account switches
    MaxInvoices, \* bound on the issuer's invoices
    PageSize,    \* ALL_INVOICES_PAGE_SIZE
    MaxPages     \* ALL_INVOICES_MAX_PAGES

ASSUME BoundsAreNat == MaxTx \in Nat /\ MaxTurns \in Nat /\ MaxInvoices \in Nat
ASSUME PagesHoldSomething == TxLimit \in Nat \ {0} /\ PageSize \in Nat \ {0} /\ MaxPages \in Nat \ {0}
ASSUME OursAreTransactions == Ours \in [Accounts -> SUBSET (1 .. MaxTx)]

\* Transactions are numbered in ledger order; a page holds transactions below
\* its cursor.  First is the undefined cursor of the first page, 0 the null
\* cursor after the last one.
First == MaxTx + 1
Cursors == 1 .. First
Keys == Accounts \X Cursors
NoData == [items |-> {}, next |-> 0, newest |-> 0, loaded |-> FALSE]
Data == [items : SUBSET (1 .. MaxTx), next : 0 .. MaxTx, newest : 0 .. MaxTx, loaded : BOOLEAN]
NoFetch == [key |-> <<>>, records |-> {}, tries |-> 0]

Statuses == {"Listed", "Funded"}
NoWalk == [page |-> 0, totalPages |-> 0, byId |-> <<>>, counted |-> FALSE,
           total |-> 0, grown |-> 0, atStart |-> 0]

VARIABLES
    screen,    \* the page that is open: the two share no query
    top,       \* top[a]: transactions of a so far
    address,   \* the account on screen
    cursors,   \* cursorStack
    page,      \* the page on screen, from 0
    resetDue,  \* the effect of an account switch is due
    data,      \* data[k]: the txHistory queries' cache
    fetch,     \* the page fetch under way
    ops,       \* <<a, n>>: transactions whose operations are cached
    turns,     \* page turns and account switches so far
    rows,      \* rows[i]: the status of the issuer's i-th invoice
    walk,      \* the getAllInvoices under way; counted: the indexer has run the
               \* COUNT of this request and not the SELECT.  Observations: atStart,
               \* the invoices there were when it began; grown, the ones created
               \* between the COUNT and the SELECT of its last request
    stats      \* the walk that the totals on screen come from

historyVars == <<top, address, cursors, page, resetDue, data, fetch, ops, turns>>
walkVars == <<rows, walk, stats>>
vars == <<screen, historyVars, walkVars>>

TypeOK ==
    /\ screen \in {"profile", "dashboard"}
    /\ top \in [Accounts -> 0 .. MaxTx]
    /\ address \in Accounts /\ cursors \in Seq(Cursors) /\ page \in Nat
    /\ page < Len(cursors) /\ resetDue \in BOOLEAN
    /\ data \in [Keys -> Data]
    /\ fetch.tries \in 0 .. 3 /\ fetch.records \subseteq 1 .. MaxTx
    /\ ops \subseteq Accounts \X (1 .. MaxTx) /\ turns \in 0 .. MaxTurns
    /\ rows \in Seq(Statuses) /\ Len(rows) <= MaxInvoices
    /\ walk.page \in 0 .. MaxPages + 1 /\ stats.page \in 0 .. MaxPages + 1

Init ==
    /\ screen \in {"profile", "dashboard"}
    /\ top = [a \in Accounts |-> 0]
    /\ address \in Accounts
    /\ cursors = <<First>> /\ page = 0 /\ resetDue = FALSE
    /\ data = [k \in Keys |-> NoData]
    /\ fetch = NoFetch
    /\ ops = {} /\ turns = 0
    /\ rows = <<>>
    /\ walk = NoWalk /\ stats = NoWalk

-----------------------------------------------------------------------------
(* The transaction history.                                                *)

\* An external transaction of the account.
TransactionCloses(a) ==
    /\ top[a] < MaxTx
    /\ top' = [top EXCEPT ![a] = @ + 1]
    /\ UNCHANGED <<address, cursors, page, resetDue, data, fetch, ops, turns, walkVars>>

\* The query key of this render.
Key == <<address, cursors[page + 1]>>

\* The newest TxLimit transactions below a cursor.
Records(k) ==
    LET below == {n \in 1 .. top[k[1]] : n < k[2]}
    IN {n \in below : Cardinality({m \in below : m > n}) < TxLimit}

\* The query runs for a new key, when its data is stale, or on "Try again";
\* Horizon answers with the page.
FetchTransactions ==
    /\ fetch = NoFetch
    /\ fetch' = [key |-> Key, records |-> Records(Key), tries |-> 1]
    /\ UNCHANGED <<top, address, cursors, page, resetDue, data, ops, turns, walkVars>>

nextCursor(k, records) == IF Cardinality(records) = TxLimit THEN Min(records) ELSE 0

\* The page for its records, with the transactions that call our contracts.
Page(k, records, known) ==
    [items |-> known \cap Ours[k[1]],
     next |-> nextCursor(k, records),
     newest |-> IF records = {} THEN 0 ELSE Max(records),
     loaded |-> TRUE]

\* MUTANT: a page is made of the lookups that worked.
OpsSettledPartly(failed) ==
    /\ fetch # NoFetch
    /\ failed \subseteq {n \in fetch.records : <<fetch.key[1], n>> \notin ops}
    /\ ops' = ops \cup {<<fetch.key[1], n>> : n \in fetch.records \ failed}
    /\ data' = [data EXCEPT ![fetch.key] = Page(fetch.key, fetch.records, fetch.records \ failed)]
    /\ fetch' = NoFetch
    /\ UNCHANGED <<top, address, cursors, page, resetDue, turns, walkVars>>

\* Every lookup has settled: operations that were cached or now arrived stay
\* cached.  Unless all are there the page fails; react-query runs it again at
\* most twice, not after a 429.
OpsSettled(failed) ==
    /\ fetch # NoFetch
    /\ failed \subseteq {n \in fetch.records : <<fetch.key[1], n>> \notin ops}
    /\ ops' = ops \cup {<<fetch.key[1], n>> : n \in fetch.records \ failed}
    /\ \/ /\ failed = {}
          /\ data' = [data EXCEPT ![fetch.key] = Page(fetch.key, fetch.records, fetch.records)]
          /\ fetch' = NoFetch
       \/ /\ failed # {} /\ fetch.tries < 3
          /\ fetch' = [fetch EXCEPT !.records = Records(fetch.key), !.tries = @ + 1]
          /\ UNCHANGED data
       \/ /\ failed # {}
          /\ fetch' = NoFetch
          /\ UNCHANGED data
    /\ UNCHANGED <<top, address, cursors, page, resetDue, turns, walkVars>>

\* The first request fails or is rate limited.
FetchFails ==
    /\ fetch # NoFetch
    /\ fetch' = NoFetch
    /\ UNCHANGED <<top, address, cursors, page, resetDue, data, ops, turns, walkVars>>

\* gcTime: operations nobody asked for in half an hour are dropped.
OpsForgotten(a, n) ==
    /\ <<a, n>> \in ops /\ fetch = NoFetch
    /\ ops' = ops \ {<<a, n>>}
    /\ UNCHANGED <<top, address, cursors, page, resetDue, data, fetch, turns, walkVars>>

Turn == ~resetDue /\ turns < MaxTurns /\ turns' = turns + 1

\* The panel has its buttons when the page on screen has transactions.
Shown == data[Key]
Buttons == Shown.loaded /\ Shown.items # {}

\* goNext pushes the cursor of the page on screen, and shows the next index.
goNext ==
    /\ Turn /\ Buttons /\ Shown.next # 0
    /\ cursors' = Append(cursors, Shown.next)
    /\ page' = page + 1
    /\ UNCHANGED <<top, address, resetDue, data, fetch, ops, walkVars>>

\* goPrev leaves the stack as it is.
goPrev ==
    /\ Turn /\ Buttons /\ page > 0
    /\ page' = page - 1
    /\ UNCHANGED <<top, address, cursors, resetDue, data, fetch, ops, walkVars>>

SwitchAccount(a) ==
    /\ Turn /\ a # address
    /\ address' = a
    /\ resetDue' = TRUE
    /\ UNCHANGED <<top, cursors, page, data, fetch, ops, walkVars>>

\* The effect on the address, a render after the switch.
ResetEffect ==
    /\ resetDue
    /\ cursors' = <<First>> /\ page' = 0 /\ resetDue' = FALSE
    /\ UNCHANGED <<top, address, data, fetch, ops, turns, walkVars>>

-----------------------------------------------------------------------------
(* The walk over an issuer's invoices.                                     *)

InvoiceCreated ==
    /\ Len(rows) < MaxInvoices
    /\ rows' = Append(rows, "Listed")
    /\ UNCHANGED <<walk, stats, historyVars>>

InvoiceFunded(i) ==
    /\ rows[i] = "Listed"
    /\ rows' = [rows EXCEPT ![i] = "Funded"]
    /\ UNCHANGED <<walk, stats, historyVars>>

\* The handler's totalPages for a COUNT, at least one.
TotalPages(total) ==
    LET pages == (total + PageSize - 1) \div PageSize IN IF pages < 1 THEN 1 ELSE pages

\* The SELECT of page p: newest first.
getInvoices(p) ==
    {i \in 1 .. Len(rows) : LET place == Len(rows) - i IN place \div PageSize = p - 1}

\* useInvoiceStats runs every 15 s and after an action.
StartWalk ==
    /\ walk = NoWalk
    /\ walk' = [NoWalk EXCEPT !.page = 1, !.totalPages = 1, !.atStart = Len(rows)]
    /\ UNCHANGED <<rows, stats, historyVars>>

\* A request of getAllInvoices, GET /invoices?page=p&limit=PageSize, reaches the
\* indexer: GetInvoicesPage counts the invoices, in a statement of its own.
CountInvoices ==
    /\ walk.page \in 1 .. MaxPages /\ walk.page <= walk.totalPages
    /\ ~walk.counted
    /\ walk' = [walk EXCEPT !.counted = TRUE, !.total = Len(rows)]
    /\ UNCHANGED <<rows, stats, historyVars>>

\* MUTANT: the number of pages is taken from the first answer.
pagesKnownAtFirst(w) == IF w.page = 1 THEN TotalPages(w.total) ELSE w.totalPages

\* res.totalPages || 1, of every answer.
pagesKnown(w) == TotalPages(w.total)

\* It then selects the page, without a transaction around the two, and the
\* answer arrives; a row seen twice counts once, as seen last.
WalkPage ==
    /\ walk.counted
    /\ LET got == getInvoices(walk.page)
           seen == [i \in got \cup DOMAIN walk.byId |->
                       IF i \in got THEN rows[i] ELSE walk.byId[i]]
           next == [walk EXCEPT !.page = @ + 1, !.totalPages = pagesKnown(walk), !.byId = seen,
                                !.counted = FALSE, !.grown = Len(rows) - walk.total]
       IN \/ /\ got # {} /\ next.page <= next.totalPages /\ next.page <= MaxPages
             /\ walk' = next
             /\ UNCHANGED stats
          \/ /\ ~(got # {} /\ next.page <= next.totalPages /\ next.page <= MaxPages)
             /\ walk' = NoWalk
             /\ stats' = next
    /\ UNCHANGED <<rows, historyVars>>

WalkFails ==
    /\ walk # NoWalk
    /\ walk' = NoWalk
    /\ UNCHANGED <<rows, stats, historyVars>>

\* computeInvoiceStats: the counts of the walk's invoices by status.
computeInvoiceStats(w) ==
    [s \in Statuses |-> Cardinality({i \in DOMAIN w.byId : w.byId[i] = s})]

-----------------------------------------------------------------------------
HistoryNext ==
    \/ \E a \in Accounts : TransactionCloses(a) \/ SwitchAccount(a)
    \/ \E a \in Accounts, n \in 1 .. MaxTx : OpsForgotten(a, n)
    \/ \E failed \in SUBSET fetch.records : OpsSettled(failed)
    \/ FetchTransactions \/ FetchFails \/ goNext \/ goPrev \/ ResetEffect

WalkNext ==
    \/ InvoiceCreated \/ StartWalk \/ CountInvoices \/ WalkPage \/ WalkFails
    \/ \E i \in DOMAIN rows : InvoiceFunded(i)

Next ==
    /\ \/ screen = "profile" /\ HistoryNext
       \/ screen = "dashboard" /\ WalkNext
    /\ UNCHANGED screen

Spec == Init /\ [][Next]_vars

-----------------------------------------------------------------------------
\* A page on screen is whole: it has every transaction of ours from the newest
\* it read down to where the next page begins, whatever lookups failed, were
\* cached or forgotten on the way, and whenever new transactions closed
\* (useTxHistory.ts:285-316, #1091).
PageIsWhole ==
    \A k \in Keys : data[k].loaded =>
        data[k].items = {n \in Ours[k[1]] : data[k].next <= n /\ n <= data[k].newest}

\* The totals on screen count every invoice that was there when the walk began,
\* once, but at most the oldest ones, as many as were created between the COUNT
\* and the SELECT of the walk's last request, and unless the walk was cut at its
\* page limit: whatever is created and funded between and during its requests
\* (api.ts:445-490, queries.go:272-332, #874).
TotalsAreComplete ==
    stats # NoWalk =>
        \/ stats.page > MaxPages
        \/ /\ (stats.grown + 1) .. stats.atStart \subseteq DOMAIN stats.byId
           /\ LET total == computeInvoiceStats(stats)
                  counted == total["Listed"] + total["Funded"]
              IN stats.atStart <= counted + stats.grown /\ counted <= Len(rows)
=============================================================================
