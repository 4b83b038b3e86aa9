----------------------------- MODULE InvoiceDesk -----------------------------
(***************************************************************************)
(* The pages on which a user browses invoices and acts on them: the        *)
(* marketplace and the dashboard (a table, a selection to compare, a       *)
(* console with one InvoiceCard), an invoice's own page, and the LP page.  *)
(* Statuses live in three places: on the chain, in the indexer's rows, and *)
(* in the query cache and the snapshot that the console keeps.             *)
(*                                                                         *)
(* A contract write is one step here, with the outcomes that ContractWrite *)
(* promises; its inside is SorobanClient's.  The wallet is verified, the   *)
(* role selector may stand on any role and the due date may have passed:   *)
(* only the status restricts what a button offers.                         *)
(***************************************************************************)
EXTENDS ContractMethods, Integers, Sequences, SequencesExt

CONSTANTS
    Accounts,     \* wallets the user may switch between
    Issuer,       \* Issuer[i]: the wallet that issued invoice i
    Face,         \* Face[i]: its face value
    Deposits,     \* amounts a deposit may have
    Start,        \* on-chain statuses to begin with
    Limits,       \* rows on a page; the smallest is the initial choice
    Cap,          \* invoices that can be compared (4 in the code)
    MaxWrites,    \* bound on the writes
    MaxTurns      \* bound on the user's steps: writes, and changes of the page, the
                  \* view, the wallet or the selection

Invoices == DOMAIN Face

ASSUME BoundsAreNat == MaxWrites \in Nat /\ MaxTurns \in Nat /\ Cap \in Nat
ASSUME StartsAreStatuses == Start \subseteq [Invoices -> ChainStatus]
ASSUME AmountsAreNat == Face \in [Invoices -> Nat] /\ Deposits \subseteq Nat
ASSUME LimitsArePositive == Limits \subseteq Nat \ {0} /\ Limits # {}

Screens == {"marketplace", "dashboard", "detail", "lp"}
\* The status select, and whether a minimum amount is typed in.
Filters == [status : {"ALL", "Listed"}, min : {0, 2}]
DefaultFilter == [status |-> "Listed", min |-> 0]
None == [id |-> 0, status |-> "None"]
NoRequest == [kind |-> "none", id |-> 0, amount |-> 0]

Spending == {"repay", "deposit"}

VARIABLES
    chain,      \* chain[i]: the on-chain status
    rows,       \* rows[i]: the indexer's status
    allowance,  \* allowance[c]: what contract c may still take from the wallet
    screen, address, filter, page, limit,
    data,       \* the cache of the list queries, by key
    selected,   \* the invoice in the console or on its page
    compare,    \* selectedInvoiceIds
    dialog,     \* pendingAction of the confirmation dialog
    listForm,   \* showListForm of the card in the console
    loading,    \* the writes that a mounted component waits for
    writes,     \* the writes so far
    turns

chainVars == <<chain, rows, allowance>>
viewVars == <<screen, address, filter, page, limit, turns>>
pickVars == <<selected, compare>>
panels == <<dialog, listForm>>
vars == <<chainVars, viewVars, data, pickVars, panels, loading, writes>>

\* The indexer has no status of its own for an attested invoice.
RowStatus(s) == IF s = "Attested" THEN "Created" ELSE s

Init ==
    /\ chain \in Start
    /\ rows = [i \in Invoices |-> RowStatus(chain[i])]
    /\ allowance = [c \in {"invoice", "pool"} |-> 0]
    /\ screen \in {"marketplace", "dashboard"} /\ address \in Range(Issuer)
    /\ filter = DefaultFilter /\ page = 1 /\ limit = Min(Limits)
    /\ data = <<>> /\ selected = None /\ compare = <<>>
    /\ dialog = NoRequest /\ listForm = FALSE /\ loading = {} /\ writes = <<>> /\ turns = 0

-----------------------------------------------------------------------------
(* The table.                                                              *)

HasTable == screen \in {"marketplace", "dashboard"}
Key == [of |-> IF screen = "marketplace" THEN filter.status ELSE address,
        screen |-> screen, page |-> page, limit |-> limit]

Matches(k, i) ==
    /\ rows[i] # "None"
    /\ IF k.screen = "marketplace" THEN k.of \in {"ALL", rows[i]} ELSE Issuer[i] = k.of

\* getInvoices: one page of the matching rows, newest first, and how many pages
\* there are.  PagedReads has the two statements apart.
getInvoices(k) ==
    LET match == {i \in Invoices : Matches(k, i)}
        place(i) == Cardinality({j \in match : j > i})
        pages == (Cardinality(match) + k.limit - 1) \div k.limit
    IN [rows |-> {[id |-> i, status |-> rows[i]] :
                     i \in {j \in match : place(j) \div k.limit = k.page - 1}},
        totalPages |-> IF pages = 0 THEN 1 ELSE pages]

\* The cache with an answer for key k.
Cached(k, answer) == [j \in {k} \cup DOMAIN data |-> IF j = k THEN answer ELSE data[j]]

\* MUTANT: no refetchInterval, as if the data never went stale.
FetchListOnce ==
    /\ HasTable /\ Key \notin DOMAIN data
    /\ data' = Cached(Key, getInvoices(Key))
    /\ UNCHANGED <<chainVars, viewVars, pickVars, panels, loading, writes>>

\* The query of the page on screen is answered: when it is new, every 15 s, and
\* after invalidateInvoiceQueries.  One that fails changes nothing.
FetchList ==
    /\ HasTable
    /\ data' = Cached(Key, getInvoices(Key))
    /\ UNCHANGED <<chainVars, viewVars, pickVars, panels, loading, writes>>

Loaded == HasTable /\ Key \in DOMAIN data
totalPages == data[Key].totalPages

Fits(f, r) == f.status \in {"ALL", r.status} /\ Face[r.id] >= f.min

\* The rows of the table: on the marketplace, those above the minimum.
Shown ==
    IF ~Loaded THEN {}
    ELSE {r \in data[Key].rows : screen = "marketplace" => Face[r.id] >= filter.min}

ShownIds == {r.id : r \in Shown}

\* A user acts on the page unless the confirmation dialog covers it.
Free == dialog = NoRequest
StepsLeft == turns + Len(writes) < MaxTurns
Turn == StepsLeft /\ turns' = turns + 1

\* A row is clicked, or picked with Enter.  The marketplace reuses the card of
\* the console for the next invoice, the dashboard makes a new one.
handleSelectInvoice(r) ==
    /\ Free /\ r \in Shown
    /\ selected' = r
    /\ loading' = IF screen = "dashboard" /\ selected.id # r.id
                  THEN {n \in loading : writes[n].kind = "create"} ELSE loading
    /\ listForm' = (listForm /\ ~(screen = "dashboard" /\ selected.id # r.id))
    /\ UNCHANGED <<chainVars, viewVars, data, compare, dialog, writes>>

\* The card leaves the page: nothing waits for its write any more.
Forget ==
    /\ selected' = None
    /\ loading' = {n \in loading : writes[n].kind = "create"}
    /\ listForm' = FALSE

ClearConsole ==
    /\ Free /\ HasTable /\ selected # None
    /\ Forget
    /\ UNCHANGED <<chainVars, viewVars, data, compare, dialog, writes>>

\* MUTANT: the effect on the filters forgets the amounts.
ResetViewOnStatus(f) ==
    /\ page' = 1
    /\ IF f.status # filter.status THEN Forget ELSE UNCHANGED <<selected, loading, listForm>>

\* The effect on the filters.
ResetView(f) == page' = 1 /\ Forget

\* A filter field, or a preset (all fields at once).
SetFilter(f) ==
    /\ Free /\ screen = "marketplace" /\ f # filter
    /\ Turn
    /\ filter' = f
    /\ ResetView(f)
    /\ UNCHANGED <<chainVars, screen, address, limit, data, compare, dialog, writes>>

\* The button of an empty table: the default view, even if that is the view.
emptyStateAction ==
    /\ Free /\ screen = "marketplace" /\ Shown = {}
    /\ Turn
    /\ filter' = DefaultFilter
    /\ page' = 1 /\ Forget
    /\ UNCHANGED <<chainVars, screen, address, limit, data, compare, dialog, writes>>

clampPage(p) == IF p < 1 THEN 1 ELSE IF p > totalPages THEN totalPages ELSE p

\* MUTANT: turning the page forgets the selection.
handlePageChangeForgets(p) ==
    /\ Free /\ Shown # {} /\ clampPage(p) # page
    /\ Turn
    /\ page' = clampPage(p)
    /\ compare' = <<>>
    /\ Forget
    /\ UNCHANGED <<chainVars, screen, address, filter, limit, data, dialog, writes>>

\* The table has its pagination when it has rows.
handlePageChange(p) ==
    /\ Free /\ Shown # {} /\ clampPage(p) # page
    /\ Turn
    /\ page' = clampPage(p)
    /\ Forget
    /\ UNCHANGED <<chainVars, screen, address, filter, limit, data, compare, dialog, writes>>

handleLimitChange(l) ==
    /\ Free /\ Shown # {} /\ l # limit
    /\ Turn
    /\ limit' = l /\ page' = 1
    /\ Forget
    /\ UNCHANGED <<chainVars, screen, address, filter, data, compare, dialog, writes>>

\* Freighter switches the wallet; the dashboard's effect clears its console.
SwitchAccount(a) ==
    /\ a # address
    /\ Turn
    /\ address' = a
    /\ IF screen = "dashboard" THEN Forget ELSE UNCHANGED <<selected, loading, listForm>>
    /\ UNCHANGED <<chainVars, screen, filter, page, limit, data, compare, dialog, writes>>

\* Another page is opened: all but the stored filters begins anew.
Navigate(s) ==
    /\ Free /\ s # screen /\ s # "detail"
    /\ Turn
    /\ screen' = s
    /\ page' = 1 /\ limit' = Min(Limits) /\ compare' = <<>>
    /\ selected' = None /\ loading' = {} /\ listForm' = FALSE
    /\ UNCHANGED <<chainVars, address, filter, data, dialog, writes>>

getInvoiceByID(i) == [id |-> i, status |-> rows[i]]

\* An invoice's own page, with what the server rendered.
OpenInvoice(i) ==
    /\ Free /\ screen # "detail" /\ rows[i] # "None"
    /\ Turn
    /\ screen' = "detail"
    /\ selected' = getInvoiceByID(i)
    /\ loading' = {} /\ listForm' = FALSE /\ compare' = <<>>
    /\ UNCHANGED <<chainVars, address, filter, page, limit, data, dialog, writes>>

-----------------------------------------------------------------------------
(* The selection to compare.                                               *)

\* Ids in the order of the table: by face value.
pageIds == SetToSortSeq(ShownIds, LAMBDA i, j : Face[i] > Face[j])

handleSelectionChange(ids) ==
    /\ compare' = SubSeq(ids, 1, Min({Cap, Len(ids)}))
    /\ Turn
    /\ UNCHANGED <<chainVars, screen, address, filter, page, limit, data, selected, panels,
                   loading, writes>>

Selectable == Free /\ screen = "marketplace" /\ Shown # {}

toggleRowSelection(i) ==
    /\ Selectable /\ i \in ShownIds
    /\ handleSelectionChange(
          IF Contains(compare, i) THEN SelectSeq(compare, LAMBDA j : j # i)
          ELSE Append(compare, i))

merged == compare \o SelectSeq(pageIds, LAMBDA i : ~Contains(compare, i))

toggleAllOnPage ==
    /\ Selectable
    /\ handleSelectionChange(
          IF ShownIds \subseteq Range(compare)
          THEN SelectSeq(compare, LAMBDA i : i \notin ShownIds)
          ELSE merged)

clearSelection ==
    /\ Free /\ screen = "marketplace" /\ compare # <<>>
    /\ handleSelectionChange(<<>>)

-----------------------------------------------------------------------------
(* Actions on invoices and on the pool.                                    *)

\* The card's buttons, and the form it shows for as long as showListForm is
\* set, whatever the status of the invoice it has by now.
CardOffers(s, form) ==
    (IF form THEN {"list_for_financing"} ELSE {}) \cup
    CASE s = "Listed" -> {"fund_invoice"} [] s = "Funded" -> {"mark_shipped"}
      [] s = "Active" -> {"confirm_delivery", "trigger_default"}
      [] s = "Confirmed" -> {"repay"} [] OTHER -> {}

DetailOffers(s) ==
    CASE s = "Funded" -> {"mark_shipped"} [] s = "Active" -> {"confirm_delivery"}
      [] s = "Confirmed" -> {"repay", "trigger_default"} [] OTHER -> {}

CardBusy == \E n \in loading : writes[n].kind # "create"

\* "Configure financing terms", and the form's Cancel.
openListForm ==
    /\ Free /\ HasTable /\ selected.status = "Created" /\ ~CardBusy
    /\ listForm' = TRUE
    /\ UNCHANGED <<chainVars, viewVars, data, pickVars, dialog, loading, writes>>

cancelListForm ==
    /\ Free /\ listForm
    /\ listForm' = FALSE
    /\ UNCHANGED <<chainVars, viewVars, data, pickVars, dialog, loading, writes>>

\* What a click asks for on this page.
CardRequests ==
    IF ~HasTable \/ selected = None \/ CardBusy THEN {}
    ELSE {[kind |-> m, id |-> selected.id, amount |-> IF m = "repay" THEN Face[selected.id] ELSE 0] :
             m \in CardOffers(selected.status, listForm)}

DetailRequests ==
    IF screen # "detail" \/ loading # {} THEN {}
    ELSE {[kind |-> m, id |-> selected.id, amount |-> IF m = "repay" THEN Face[selected.id] ELSE 0] :
             m \in DetailOffers(selected.status)}

Waiting(kind) == \E n \in loading : writes[n].kind = kind

PoolRequests ==
    IF screen # "lp" THEN {}
    ELSE {[kind |-> "deposit", id |-> 0, amount |-> a] :
             a \in IF Waiting("deposit") THEN {} ELSE Deposits}
         \cup {[kind |-> "withdraw", id |-> 0, amount |-> 0] :
             a \in IF Waiting("withdraw") THEN {} ELSE {1}}

\* The form's last step, whose buttons are off while it works.
FormReady == screen = "dashboard" /\ ~Waiting("create")

\* The form lists what it has created; the invoice is a new one.
FormRequests ==
    {[kind |-> "create", id |-> i, amount |-> 0] :
        i \in IF ~FormReady THEN {}
              ELSE {j \in Invoices : /\ chain[j] = "None" /\ Issuer[j] = address
                                     /\ \A n \in DOMAIN writes : writes[n].id # j}}

\* The actions that ask first.
Confirmed(r) ==
    \/ r.kind \in {"confirm_delivery", "repay", "trigger_default", "withdraw"}
    \/ r.kind = "mark_shipped" /\ screen = "detail"

FirstStage(kind) ==
    IF kind \in Spending THEN "allowance" ELSE IF kind = "create" THEN "create" ELSE "send"

\* A card that a switch of the wallet removed waits for nothing.
Mounted(r) == r.id = 0 \/ r.kind = "create" \/ selected.id = r.id

\* handleAction, handleList, handleDeposit, handleCreate: the write begins.
Begin(r) ==
    /\ Len(writes) < MaxWrites /\ StepsLeft
    /\ writes' = Append(writes, [kind |-> r.kind, id |-> r.id, amount |-> r.amount,
                                 stage |-> FirstStage(r.kind), rival |-> FALSE, result |-> "none"])
    /\ loading' = IF Mounted(r) THEN loading \cup {Len(writes) + 1} ELSE loading

Click(r) ==
    /\ Free
    /\ r \in CardRequests \cup DetailRequests \cup PoolRequests \cup FormRequests
    /\ \/ Confirmed(r) /\ dialog' = r /\ UNCHANGED <<writes, loading>>
       \/ ~Confirmed(r) /\ Begin(r) /\ UNCHANGED dialog
    /\ UNCHANGED <<chainVars, viewVars, data, pickVars, listForm>>

cancelDialog ==
    /\ dialog # NoRequest
    /\ dialog' = NoRequest
    /\ UNCHANGED <<chainVars, viewVars, data, pickVars, listForm, loading, writes>>

\* The action confirmed is the one asked for, whatever the page shows by now.
handleConfirm ==
    /\ dialog # NoRequest
    /\ dialog' = NoRequest
    /\ Begin(dialog)
    /\ UNCHANGED <<chainVars, viewVars, data, pickVars, listForm>>

\* The form is closed while it works.
CloseForm ==
    /\ Free /\ Waiting("create")
    /\ loading' = {n \in loading : writes[n].kind # "create"}
    /\ UNCHANGED <<chainVars, viewVars, data, pickVars, panels, writes>>

-----------------------------------------------------------------------------
(* A write under way.                                                      *)

Spender(kind) == IF kind = "repay" THEN "invoice" ELSE "pool"
Stage(n, s) == writes[n].stage = s
Move(n, s) == writes' = [writes EXCEPT ![n].stage = s] /\ UNCHANGED loading

Over(n, result) ==
    [kind |-> "none", id |-> 0, amount |-> 0, stage |-> "done", rival |-> writes[n].rival,
     result |-> result]

\* A write that failed: its component stops waiting.
Settle(n, result) ==
    /\ writes' = [writes EXCEPT ![n] = Over(n, result)]
    /\ loading' = loading \ {n}

\* One that worked: an invoice's own page reads it again, a card whose form
\* asked for it closes the form.
Succeed(n) ==
    /\ listForm' = (listForm /\ ~(n \in loading /\ writes[n].kind = "list_for_financing"))
    /\ selected' = IF n \in loading /\ screen = "detail"
                   THEN getInvoiceByID(selected.id) ELSE selected
    /\ loading' = loading \ {n}

\* MUTANT: any allowance will do.
enoughIfAny(n) == allowance[Spender(writes[n].kind)] > 0

enough(n) == allowance[Spender(writes[n].kind)] >= writes[n].amount

\* ensureAllowance reads the allowance.
ReadAllowance(n) ==
    /\ Stage(n, "allowance")
    /\ Move(n, IF enough(n) THEN "send" ELSE "approve")
    /\ UNCHANGED <<chainVars, viewVars, data, pickVars, panels>>

\* Others of the same spender that have passed their check.
Outdate(n) ==
    [m \in DOMAIN writes |->
        [writes[m] EXCEPT !.rival = @ \/ ( /\ m # n
                                           /\ writes[m].kind = writes[n].kind
                                           /\ writes[m].stage = "send" )]]

\* The answer of a submission is lost: the user is told of an error, and the
\* transaction may still land, at once, late or never.
LoseAnswer(n) ==
    /\ writes[n].stage \in {"approve", "send"}
    /\ writes' = [writes EXCEPT ![n] =
                     [writes[n] EXCEPT !.result = "error",
                         !.stage = IF @ = "approve" THEN "approveLate" ELSE "sendLate"]]
    /\ loading' = loading \ {n}
    /\ UNCHANGED <<chainVars, viewVars, data, pickVars, panels>>

NeverLands(n) ==
    /\ writes[n].stage \in {"approveLate", "sendLate"}
    /\ Settle(n, "error")
    /\ UNCHANGED <<chainVars, viewVars, data, pickVars, panels>>

\* approve sets the allowance to the amount.
Approve(n, answered) ==
    /\ Stage(n, IF answered THEN "approve" ELSE "approveLate")
    /\ allowance' = [allowance EXCEPT ![Spender(writes[n].kind)] = writes[n].amount]
    /\ writes' = [Outdate(n) EXCEPT ![n] =
                     IF answered THEN [writes[n] EXCEPT !.stage = "send"] ELSE Over(n, "error")]
    /\ UNCHANGED <<chain, rows, viewVars, data, pickVars, panels, loading>>

\* A read, a signature or a submission fails before it has an effect.
Fails(n) ==
    /\ writes[n].stage \in {"allowance", "approve", "create", "send"}
    /\ Settle(n, "error")
    /\ UNCHANGED <<chainVars, viewVars, data, pickVars, panels>>

\* The token contract's check.
CanSpend(n) ==
    writes[n].kind \in Spending => allowance[Spender(writes[n].kind)] >= writes[n].amount
Accepted(n) == (writes[n].id # 0 => Accepts(writes[n].kind, chain[writes[n].id])) /\ CanSpend(n)

\* The contract call takes effect.
Takes(n, answered) ==
    LET w == writes[n]
    IN /\ Stage(n, IF answered THEN "send" ELSE "sendLate") /\ Accepted(n)
       /\ chain' = [i \in Invoices |-> IF i = w.id THEN After(w.kind, chain[i]) ELSE chain[i]]
       /\ allowance' = IF w.kind \notin Spending THEN allowance
                       ELSE [allowance EXCEPT ![Spender(w.kind)] = @ - w.amount]
       /\ writes' = [Outdate(n) EXCEPT ![n] = Over(n, IF answered THEN "ok" ELSE "error")]
       /\ \/ answered /\ Succeed(n)
          \/ ~answered /\ UNCHANGED <<selected, loading, listForm>>
       /\ UNCHANGED <<rows, viewVars, data, compare, dialog>>

Refused(n) ==
    /\ Stage(n, "send") /\ ~Accepted(n)
    /\ Settle(n, IF CanSpend(n) THEN "error" ELSE "allowance")
    /\ UNCHANGED <<chainVars, viewVars, data, pickVars, panels>>

-----------------------------------------------------------------------------
(* The form: create through the API, simulate, list.                       *)

\* The form closes and has the dashboard clear its console, which a form that
\* was closed before does too unless its dashboard is gone.
FormSucceeds(n) ==
    /\ writes' = [writes EXCEPT ![n] = Over(n, "ok")]
    /\ \/ screen = "dashboard" /\ selected' = None /\ loading' = {} /\ listForm' = FALSE
       \/ n \notin loading /\ UNCHANGED <<selected, loading, listForm>>

createInvoice(n, answered) ==
    /\ Stage(n, "create") /\ chain[writes[n].id] = "None"
    /\ chain' = [chain EXCEPT ![writes[n].id] = "Created"]
    /\ IF answered THEN Move(n, "created") ELSE Settle(n, "error")
    /\ UNCHANGED <<rows, allowance, viewVars, data, pickVars, panels>>

\* Created only, or the simulation of the listing is asked for.
AfterCreate(n, immediateList) ==
    /\ Stage(n, "created")
    /\ \/ immediateList /\ Move(n, "simulate") /\ UNCHANGED <<selected, listForm>>
       \/ ~immediateList /\ FormSucceeds(n)
    /\ UNCHANGED <<chainVars, viewVars, data, compare, dialog>>

CanList(n) == Accepts("list_for_financing", chain[writes[n].id])

SimulateListing(n) ==
    /\ Stage(n, "simulate")
    /\ \/ CanList(n) /\ Move(n, "list")
       \/ Move(n, "cancel")
    /\ UNCHANGED <<chainVars, viewVars, data, pickVars, panels>>

ListCreated(n) ==
    /\ Stage(n, "list")
    /\ \/ /\ CanList(n)
          /\ chain' = [chain EXCEPT ![writes[n].id] = "Listed"]
          /\ \/ FormSucceeds(n)
             \/ Move(n, "cancel") /\ UNCHANGED <<selected, listForm>>
       \/ Move(n, "cancel") /\ UNCHANGED <<chain, selected, listForm>>
    /\ UNCHANGED <<rows, allowance, viewVars, data, compare, dialog>>

\* cancelCreatedInvoice: the indexer refuses, UpdateInvoiceStatus changes a
\* funded invoice only.
cancelCreatedInvoice(n) ==
    /\ Stage(n, "cancel")
    /\ Settle(n, "error")
    /\ UNCHANGED <<chainVars, viewVars, data, pickVars, panels>>

-----------------------------------------------------------------------------
\* The indexer catches up with an invoice.
Index(i) ==
    /\ rows[i] # RowStatus(chain[i])
    /\ rows' = [rows EXCEPT ![i] = RowStatus(chain[i])]
    /\ UNCHANGED <<chain, allowance, viewVars, data, pickVars, panels, loading, writes>>

\* An agent attests an invoice.
Attest(i) ==
    /\ chain[i] = "Created"
    /\ chain' = [chain EXCEPT ![i] = "Attested"]
    /\ UNCHANGED <<rows, allowance, viewVars, data, pickVars, panels, loading, writes>>

Requests == CardRequests \cup DetailRequests \cup PoolRequests \cup FormRequests

UserNext ==
    \/ \E r \in Shown : handleSelectInvoice(r)
    \/ \E f \in Filters : SetFilter(f)
    \/ \E p \in page - 1 .. page + 1 : handlePageChange(p)
    \/ \E l \in Limits : handleLimitChange(l)
    \/ \E a \in Accounts : SwitchAccount(a)
    \/ \E s \in Screens : Navigate(s)
    \/ \E i \in Invoices : OpenInvoice(i) \/ toggleRowSelection(i)
    \/ \E r \in Requests : Click(r)
    \/ ClearConsole \/ emptyStateAction \/ toggleAllOnPage \/ clearSelection
    \/ cancelDialog \/ handleConfirm \/ CloseForm \/ openListForm \/ cancelListForm

WriteNext(n) ==
    \/ ReadAllowance(n) \/ Fails(n) \/ Refused(n) \/ LoseAnswer(n) \/ NeverLands(n)
    \/ SimulateListing(n) \/ ListCreated(n) \/ cancelCreatedInvoice(n)
    \/ \E b \in BOOLEAN : Approve(n, b) \/ Takes(n, b) \/ createInvoice(n, b) \/ AfterCreate(n, b)

Next ==
    \/ FetchList \/ UserNext
    \/ \E n \in DOMAIN writes : WriteNext(n)
    \/ \E i \in Invoices : Index(i) \/ Attest(i)

\* The list is polled for as long as its page is open, and the indexer runs.
FairSpec ==
    /\ Init /\ [][Next]_vars
    /\ WF_vars(FetchList)
    /\ \A i \in Invoices : WF_vars(Index(i))

-----------------------------------------------------------------------------
\* What the console shows fits the view: on the marketplace it passes the
\* filters in force, on the dashboard the connected wallet issued it
\* (marketplace/page.tsx:183-186, dashboard/page.tsx:83-85).
ConsoleFitsView ==
    selected # None =>
        /\ screen = "marketplace" => Fits(filter, selected)
        /\ screen = "dashboard" => Issuer[selected.id] = address

\* "selections made on other pages survive paging back and forth"
\* (InvoiceTable.tsx:326-327): as long as the page is open, an invoice leaves the
\* selection only when it is unticked in the table that shows it, or by the Clear
\* button; not by a turn of the page, another filter, or Select all at the limit
\* of what can be compared.
Toggles == toggleAllOnPage \/ \E i \in Invoices : toggleRowSelection(i)

SelectionSurvives ==
    [][ screen' = screen =>
          \A i \in Range(compare) \ Range(compare') :
              (Toggles /\ i \in ShownIds) \/ (clearSelection /\ ~Toggles) ]_vars

\* A repayment or a deposit is refused for want of an allowance only when
\* another one of its kind came between its check and its transfer
\* (useTokenAllowance.ts:41-79).
AllowanceCovers ==
    \A n \in DOMAIN writes : writes[n].result = "allowance" => writes[n].rival

\* When invoices and views stop changing, the list on screen ends up as the
\* indexer has it, also after a write whose event was indexed long after the
\* write had settled (useInvoices.ts:22-32, 127-161).
ListCatchesUp == <>[](HasTable => Loaded /\ data[Key] = getInvoices(Key))
=============================================================================
