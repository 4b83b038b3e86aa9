------------------------------ MODULE Listener ------------------------------
(***************************************************************************)
(* The event listener of the indexer (indexer/listener) with the tables it *)
(* writes, the chain it follows through Soroban RPC, a backfill process    *)
(* (indexer/cmd/backfill) writing the same tables, and the API's one write *)
(* to the status column, PATCH /invoices/{id}/status.                      *)
(*                                                                         *)
(* A poll is several steps: verify the recorded ledger hash, fetch a page, *)
(* look up which of its events are already indexed, apply the others one   *)
(* transaction each, fetch the next page, save the checkpoint.  The chain  *)
(* and the other process may move between any two of them.                 *)
(***************************************************************************)
EXTENDS Integers, FiniteSets, InvoiceTable

CONSTANTS
    Invoices,        \* invoice ids
    Kinds,           \* kinds of contract events the chain emits
    Depth,           \* INDEXER_CONFIRMATION_DEPTH
    PageSize,        \* events per getEvents page (100 in the code)
    InitTip,         \* newest closed ledger when the model starts
    InitCheckpoint,  \* saved checkpoint when the model starts, 0 for none
    StableTip,       \* TRUE: no ledger closes while a poll is under way
    BackfillRanges,  \* ranges <<from, to>> an operator may backfill
    PatchStatuses,   \* statuses clients send to PATCH /invoices/{id}/status
    ReorgDepth,      \* a reorganisation rewrites fewer ledgers than the last ReorgDepth + 1
    MaxLedger,       \* bound: last ledger of the chain
    PerLedger,       \* bound: events per ledger
    MaxReorgs,       \* bound: reorganisations
    MaxFaults        \* bound: crashes, failed RPC calls and failed statements

LifecycleKinds == {"Create", "List", "Fund", "Ship", "Confirm", "Repay", "Default"}
AllKinds == LifecycleKinds \cup {"Attest", "Pool", "Register", "Unknown"}

ASSUME ListenerAssumption ==
    /\ Invoices # {}
    /\ Kinds \subseteq AllKinds
    /\ Depth \in Nat
    /\ PageSize \in Nat \ {0}
    /\ MaxLedger \in Nat
    /\ InitTip \in 1..MaxLedger
    /\ InitCheckpoint \in 0..InitTip
    /\ StableTip \in BOOLEAN
    /\ BackfillRanges \subseteq (1..MaxLedger) \X (1..MaxLedger)
    /\ PatchStatuses \subseteq Statuses \ {"Absent"}
    /\ ReorgDepth \in Nat
    /\ PerLedger \in Nat
    /\ MaxReorgs \in Nat
    /\ MaxFaults \in Nat

VARIABLES
    tip,          \* newest closed ledger
    chain,        \* contract events, those of the ledger being built included
    fork,         \* ledger -> its header hash (which reorganisation wrote it)
    status,       \* invoices.status
    attestedAt,   \* invoices.attested_at, 0 for none
    poolStats,    \* ledger at which the pool contract was last read into pool_stats
    eventsLog,    \* events_log
    deliveries,   \* events whose webhook_deliveries rows are written
    checkpoint,   \* indexer_checkpoint, 0 for no row
    pc,           \* where each process is
    startLedger,  \* first ledger of a process's poll (Start's currentLedger)
    endLedger,    \* last ledger of a backfill, 0 for none
    cursor,       \* <<ledger, pos>> of the last event fetched
    latest,       \* latestLedgerSeq
    pending,      \* events of the page left to apply
    pastEnd,      \* the page had events after endLedger
    finalized,    \* finalizedLedger and finalizedHash
    running,      \* ListenerHealth reports healthy
    patched,      \* observation: invoices whose status the API has written
    firstLedger,  \* observation: the ledger indexing began at, 0 before
    reorgs,       \* observation: reorganisations so far
    faults        \* observation: environment faults so far

chainVars == <<tip, chain, fork, reorgs>>
dbVars == <<status, attestedAt, poolStats, eventsLog, deliveries, patched>>
pollVars == <<startLedger, endLedger, cursor, latest, pending, pastEnd>>
memVars == <<finalized, running, firstLedger>>
vars == <<chainVars, dbVars, checkpoint, pc, pollVars, memVars, faults>>

Procs == {"main", "backfill"}
Ledgers == 1..MaxLedger
Event == [ledger : Ledgers, pos : 1..PerLedger, kind : Kinds, inv : Invoices]

ID(e) == <<e.ledger, e.pos>>
Precedes(a, b) == \/ a[1] < b[1]
                  \/ a[1] = b[1] /\ a[2] < b[2]

\* Mutant of IsFirst: the page is applied in any order.
IsFirstUnordered(e, S) == e \in S

IsFirst(e, S) == e \in S /\ \A f \in S \ {e} : Precedes(ID(e), ID(f))
IsLast(e, S) == e \in S /\ \A f \in S \ {e} : Precedes(ID(f), ID(e))

NoHash == [ledger |-> 0, hash |-> 0]

TypeOK ==
    /\ tip \in Ledgers
    /\ chain \subseteq Event
    /\ fork \in [Ledgers -> 0..MaxReorgs]
    /\ status \in [Invoices -> Statuses]
    /\ attestedAt \in [Invoices -> 0..MaxLedger]
    /\ poolStats \in 0..MaxLedger
    /\ eventsLog \subseteq Event
    /\ deliveries \subseteq Event
    /\ checkpoint \in 0..MaxLedger + 1
    /\ pc \in [Procs -> {"down", "idle", "fetch", "dedup", "apply", "done", "halted"}]
    /\ startLedger \in [Procs -> 0..MaxLedger + 1]
    /\ endLedger \in [Procs -> 0..MaxLedger]
    /\ cursor \in [Procs -> (0..MaxLedger) \X (0..PerLedger)]
    /\ latest \in [Procs -> 0..MaxLedger]
    /\ pending \in [Procs -> SUBSET Event]
    /\ pastEnd \in [Procs -> BOOLEAN]
    /\ finalized \in [ledger : 0..MaxLedger, hash : 0..MaxReorgs]
    /\ running \in BOOLEAN
    /\ patched \subseteq Invoices
    /\ firstLedger \in 0..MaxLedger + 1
    /\ reorgs \in 0..MaxReorgs
    /\ faults \in 0..MaxFaults

Init ==
    /\ tip = InitTip
    /\ chain = {}
    /\ fork = [l \in Ledgers |-> 0]
    /\ status = [i \in Invoices |-> "Absent"]
    /\ attestedAt = [i \in Invoices |-> 0]
    /\ poolStats = 0
    /\ eventsLog = {}
    /\ deliveries = {}
    /\ checkpoint = InitCheckpoint
    /\ pc = [p \in Procs |-> "down"]
    /\ startLedger = [p \in Procs |-> 0]
    /\ endLedger = [p \in Procs |-> 0]
    /\ cursor = [p \in Procs |-> <<0, 0>>]
    /\ latest = [p \in Procs |-> 0]
    /\ pending = [p \in Procs |-> {}]
    /\ pastEnd = [p \in Procs |-> FALSE]
    /\ finalized = NoHash
    /\ running = FALSE
    /\ patched = {}
    /\ firstLedger = InitCheckpoint
    /\ reorgs = 0
    /\ faults = 0

Polling(p) == pc[p] \in {"fetch", "dedup", "apply", "done"}

Fault == faults < MaxFaults /\ faults' = faults + 1

-----------------------------------------------------------------------------
(***************************************************************************)
(* The chain (external): contracts emit events into the ledger being       *)
(* built, ledger tip + 1, and ledgers close.                               *)
(***************************************************************************)

\* The status a set of lifecycle events of one invoice leads to.
StatusAfter(history) ==
    IF history = {} THEN "Absent"
    ELSE LET k == (CHOOSE e \in history : IsLast(e, history)).kind
         IN  CASE k = "Create"  -> "Created"   [] k = "List"  -> "Listed"
               [] k = "Fund"    -> "Funded"    [] k = "Ship"  -> "Active"
               [] k = "Confirm" -> "Confirmed" [] k = "Repay" -> "Repaid"
               [] k = "Default" -> "Defaulted"

\* The contract's own state of an invoice, from the events it emitted.
ContractStatus(i) ==
    StatusAfter({e \in chain : e.inv = i /\ e.kind \in LifecycleKinds})

\* The contract enforces the lifecycle; the other events come at any time.
ContractEmits(k, i) ==
    \/ k = "Create"  /\ ContractStatus(i) = "Absent"
    \/ k = "List"    /\ ContractStatus(i) = "Created"
    \/ k = "Fund"    /\ ContractStatus(i) = "Listed"
    \/ k = "Ship"    /\ ContractStatus(i) = "Funded"
    \/ k = "Confirm" /\ ContractStatus(i) = "Active"
    \/ k = "Repay"   /\ ContractStatus(i) = "Confirmed"
    \/ k = "Default" /\ ContractStatus(i) \in {"Funded", "Active", "Confirmed"}
    \/ k = "Attest"  /\ ContractStatus(i) # "Absent"
    \/ k \in {"Pool", "Register", "Unknown"}

Emit(k, i) ==
    LET open == {e \in chain : e.ledger = tip + 1}
    IN  /\ tip < MaxLedger
        /\ Cardinality(open) < PerLedger
        /\ ContractEmits(k, i)
        /\ chain' = chain \cup {[ledger |-> tip + 1, pos |-> Cardinality(open) + 1,
                                 kind |-> k, inv |-> i]}
        /\ UNCHANGED <<tip, fork, reorgs, dbVars, checkpoint, pc, pollVars, memVars, faults>>

CloseLedger ==
    /\ tip < MaxLedger
    /\ StableTip => \A p \in Procs : ~Polling(p)
    /\ tip' = tip + 1
    /\ UNCHANGED <<chain, fork, reorgs, dbVars, checkpoint, pc, pollVars, memVars, faults>>

\* Ledgers from l on are replaced: their hashes change, their events are gone.
Reorg(l) ==
    /\ reorgs < MaxReorgs
    /\ l \in Ledgers /\ l <= tip /\ tip - ReorgDepth < l
    /\ reorgs' = reorgs + 1
    /\ fork' = [m \in Ledgers |-> IF m >= l THEN reorgs + 1 ELSE fork[m]]
    /\ chain' = {e \in chain : e.ledger < l}
    /\ UNCHANGED <<tip, dbVars, checkpoint, pc, pollVars, memVars, faults>>

-----------------------------------------------------------------------------
(***************************************************************************)
(* One poll (pollEventsRange), shared by the listener and the backfill.    *)
(***************************************************************************)

\* What getEvents can return after the cursor, and the page it returns.
Available(p) ==
    {e \in chain : /\ e.ledger <= tip
                   /\ startLedger[p] <= e.ledger
                   /\ Precedes(cursor[p], ID(e))}

Page(p) ==
    {e \in Available(p) :
        Cardinality({f \in Available(p) : Precedes(ID(f), ID(e))}) < PageSize}

WithinEnd(p, e) == endLedger[p] = 0 \/ e.ledger <= endLedger[p]

\* Mutant of Deferred: the window is one ledger too short.
DeferredOffByOne(e) == e.ledger > tip - Depth + 1

\* The confirmation-depth buffer; at Depth 0 it keeps every closed ledger.
Deferred(e) == e.ledger > tip - Depth

\* One getEvents page.  The branch for a listener without contract ids (it would
\* go to the tip and ignore the depth) is dead: config.Load requires all four.
FetchPage(p) ==
    LET page      == Page(p)
        confirmed == {e \in page : WithinEnd(p, e) /\ ~Deferred(e)}
    IN  /\ pc[p] = "fetch"
        /\ latest' = [latest EXCEPT ![p] = tip]
        /\ \/ /\ confirmed = {}
              /\ pc' = [pc EXCEPT ![p] = "done"]
              /\ UNCHANGED <<cursor, pending, pastEnd>>
           \/ /\ confirmed # {}
              /\ pc' = [pc EXCEPT ![p] = "dedup"]
              /\ pending' = [pending EXCEPT ![p] = confirmed]
              /\ \E e \in page : IsLast(e, page) /\ cursor' = [cursor EXCEPT ![p] = ID(e)]
              /\ pastEnd' = [pastEnd EXCEPT ![p] = \E e \in page : ~WithinEnd(p, e)]
        /\ UNCHANGED <<chainVars, dbVars, checkpoint, startLedger, endLedger, memVars, faults>>

\* AreEventsProcessed: one query for the page, its answer kept for the page.
Processed(e) == \E f \in eventsLog : ID(f) = ID(e)

Dedup(p) ==
    /\ pc[p] = "dedup"
    /\ pc' = [pc EXCEPT ![p] = "apply"]
    /\ pending' = [pending EXCEPT ![p] = {e \in @ : ~Processed(e)}]
    /\ UNCHANGED <<chainVars, dbVars, checkpoint, startLedger, endLedger, cursor, latest,
                   pastEnd, memVars, faults>>

NextPage(p) ==
    /\ pc[p] = "apply"
    /\ pending[p] = {}
    /\ pc' = [pc EXCEPT ![p] = IF pastEnd[p] THEN "done" ELSE "fetch"]
    /\ UNCHANGED <<chainVars, dbVars, checkpoint, pollVars, memVars, faults>>

\* LogEvent: INSERT ... ON CONFLICT (event_id) DO NOTHING.
LogEvent(e) == eventsLog' = IF Processed(e) THEN eventsLog ELSE eventsLog \cup {e}

\* The statement each handler runs on the invoice row, and its result.
HandlerResult(e) ==
    LET st == status[e.inv]
    IN  CASE e.kind = "Create"  -> InsertInvoice(st)
          [] e.kind = "List"    -> UpdateInvoiceListed(st)
          [] e.kind = "Fund"    -> UpdateInvoiceFunded(st)
          [] e.kind = "Ship"    -> UpdateInvoiceShipped(st)
          [] e.kind = "Confirm" -> UpdateInvoiceDeliveryConfirmed(st)
          [] e.kind = "Repay"   -> UpdateInvoiceRepaid(st)
          [] e.kind = "Default" -> UpdateInvoiceStatus(st, "Defaulted")
          [] e.kind = "Attest"  -> UpdateInvoiceAttestation(st)
          [] e.kind \in {"Pool", "Register", "Unknown"} -> st

\* Only the listener has a webhook dispatcher; a backfill is built without one.
HasDispatcher(p) == p = "main"

\* EnqueueDeliveries refuses a type outside AllEventTypes, which has no attestation.
Dispatchable(e) == e.kind # "Attest"

\* Handlers that read the pool contract into pool_stats, outside the transaction.
SyncsPool(e) == e.kind \in {"Fund", "Repay", "Default"}

\* The event the loop over the page has reached.
Applying(p, e) == pc[p] = "apply" /\ IsFirst(e, pending[p])

\* The transaction of an event whose handler succeeds: row, log and deliveries.
HandleEvent(p, e) ==
    /\ Applying(p, e)
    /\ e.kind \notin {"Register", "Unknown"}
    /\ HandlerResult(e) \in Statuses
    /\ HasDispatcher(p) => Dispatchable(e)
    /\ status' = [status EXCEPT ![e.inv] = HandlerResult(e)]
    /\ attestedAt' = IF e.kind = "Attest"
                     THEN [attestedAt EXCEPT ![e.inv] = e.ledger] ELSE attestedAt
    /\ LogEvent(e)
    /\ deliveries' = IF HasDispatcher(p) THEN deliveries \cup {e} ELSE deliveries
    /\ \/ poolStats' = (IF SyncsPool(e) THEN tip ELSE poolStats) /\ UNCHANGED faults
       \/ SyncsPool(e) /\ Fault /\ UNCHANGED poolStats
    /\ pending' = [pending EXCEPT ![p] = @ \ {e}]
    /\ UNCHANGED <<chainVars, patched, checkpoint, pc, startLedger, endLedger, cursor,
                   latest, pastEnd, memVars>>

\* Events that are only logged (stale ones, registrations) or skipped unlogged.
HandleWithoutEffect(p, e) ==
    /\ Applying(p, e)
    /\ \/ /\ \/ e.kind = "Register"
             \/ HandlerResult(e) = ErrInvalidInvoiceTransition
          /\ LogEvent(e)
       \/ e.kind = "Unknown" /\ UNCHANGED eventsLog
    /\ pending' = [pending EXCEPT ![p] = @ \ {e}]
    /\ UNCHANGED <<chainVars, status, attestedAt, poolStats, deliveries, patched, checkpoint,
                   pc, startLedger, endLedger, cursor, latest, pastEnd, memVars, faults>>

\* Mutants of AbortPoll: the loop ends on an error, or hides it from /health.
AbortPollStops(p) ==
    /\ pc' = [pc EXCEPT ![p] = "halted"]
    /\ pending' = [pending EXCEPT ![p] = {}]
    /\ UNCHANGED <<startLedger, endLedger, cursor, latest, pastEnd, memVars>>
AbortPollSilent(p) ==
    /\ pc' = [pc EXCEPT ![p] = IF p = "main" THEN "idle" ELSE "down"]
    /\ pending' = [pending EXCEPT ![p] = {}]
    /\ UNCHANGED <<startLedger, endLedger, cursor, latest, pastEnd, memVars>>

\* A failed poll: Start backs off and polls the same ledger again; a backfill exits.
AbortPoll(p) ==
    /\ pc' = [pc EXCEPT ![p] = IF p = "main" THEN "idle" ELSE "down"]
    /\ pending' = [pending EXCEPT ![p] = {}]
    /\ running' = IF p = "main" THEN FALSE ELSE running
    /\ UNCHANGED <<startLedger, endLedger, cursor, latest, pastEnd, finalized, firstLedger>>

\* The transaction of an event rolls back: its handler or the dispatcher refuses it.
RejectEvent(p, e) ==
    /\ Applying(p, e)
    /\ \/ HandlerResult(e) = ErrInvoiceNotFound
       \/ HasDispatcher(p) /\ ~Dispatchable(e)
    /\ AbortPoll(p)
    /\ UNCHANGED <<chainVars, dbVars, checkpoint, faults>>

\* Mutant of PollFails: the log row is written outside the transaction.
PollFailsAfterLog(p) ==
    \E e \in pending[p] :
        /\ Applying(p, e) /\ Fault /\ LogEvent(e) /\ AbortPoll(p)
        /\ UNCHANGED <<chainVars, status, attestedAt, poolStats, deliveries, patched,
                       checkpoint>>
\* getEvents, the lookup or the transaction fails; pool_stats may have been written.
PollFails(p) ==
    /\ \/ pc[p] \in {"fetch", "dedup"} /\ UNCHANGED poolStats
       \/ \E e \in pending[p] :
             /\ Applying(p, e)
             /\ \/ UNCHANGED poolStats
                \/ /\ SyncsPool(e) /\ HandlerResult(e) \in Statuses
                   /\ poolStats' = tip
    /\ Fault
    /\ AbortPoll(p)
    /\ UNCHANGED <<chainVars, status, attestedAt, eventsLog, deliveries, patched, checkpoint>>

-----------------------------------------------------------------------------
(***************************************************************************)
(* The listener's loop (Start).                                            *)
(***************************************************************************)

\* Resume at the checkpoint, else after the newest indexed ledger, else at the tip.
ResumesAt(l) ==
    \/ checkpoint > 0 /\ l = checkpoint
    \/ /\ checkpoint = 0
       /\ \E e \in eventsLog : IsLast(e, eventsLog) /\ l = e.ledger + 1
    \/ checkpoint = 0 /\ eventsLog = {} /\ l = tip

Start ==
    /\ pc["main"] = "down"
    /\ pc' = [pc EXCEPT !["main"] = "idle"]
    /\ \E l \in 1..MaxLedger + 1 :
          /\ ResumesAt(l)
          /\ startLedger' = [startLedger EXCEPT !["main"] = l]
          /\ firstLedger' = IF firstLedger = 0 THEN l ELSE firstLedger
    /\ finalized' = NoHash
    /\ running' = TRUE
    /\ UNCHANGED <<chainVars, dbVars, checkpoint, endLedger, cursor, latest, pending,
                   pastEnd, faults>>

Rewritten == finalized.ledger > 0 /\ fork[finalized.ledger] # finalized.hash

\* verifyFinalizedLedger passes, or its lookup fails and it is skipped; a poll begins.
BeginPoll ==
    /\ pc["main"] = "idle"
    /\ \/ ~Rewritten /\ UNCHANGED faults
       \/ Rewritten /\ Fault
    /\ pc' = [pc EXCEPT !["main"] = "fetch"]
    /\ cursor' = [cursor EXCEPT !["main"] = <<0, 0>>]
    /\ latest' = [latest EXCEPT !["main"] = 0]
    /\ UNCHANGED <<chainVars, dbVars, checkpoint, startLedger, endLedger, pending, pastEnd,
                   memVars>>

\* Mutant of HaltOnReorg: the record is dropped and indexing goes on.
HaltOnReorgForgets ==
    /\ pc["main"] = "idle"
    /\ Rewritten
    /\ finalized' = NoHash
    /\ UNCHANGED <<chainVars, dbVars, checkpoint, pc, pollVars, running, firstLedger, faults>>

\* The recorded hash changed: Start returns the reorg error and the process exits.
HaltOnReorg ==
    /\ pc["main"] = "idle"
    /\ Rewritten
    /\ pc' = [pc EXCEPT !["main"] = "halted"]
    /\ running' = FALSE
    /\ UNCHANGED <<chainVars, dbVars, checkpoint, pollVars, finalized, firstLedger, faults>>

\* Mutants of NextLedger: buffer ignored; the safe ledger itself, not clamped.
NextLedgerUnbuffered(p) == IF latest[p] < startLedger[p] THEN startLedger[p] ELSE latest[p] + 1
NextLedgerUnclamped(p) == latest[p] - Depth

\* The ledger the next poll starts at, never before this one's.
NextLedger(p) ==
    LET safeLedger == latest[p] - Depth
    IN  IF safeLedger < startLedger[p] THEN startLedger[p] ELSE safeLedger + 1

\* The poll succeeded: move on, record the boundary's hash, save the checkpoint.
FinishPoll ==
    LET next == NextLedger("main")
    IN  /\ pc["main"] = "done"
        /\ pc' = [pc EXCEPT !["main"] = "idle"]
        /\ startLedger' = [startLedger EXCEPT !["main"] = next]
        /\ running' = TRUE
        /\ \E recorded, saved \in BOOLEAN :
              /\ finalized' = IF recorded /\ next - 1 > finalized.ledger
                              THEN [ledger |-> next - 1, hash |-> fork[next - 1]]
                              ELSE finalized
              /\ checkpoint' = IF saved THEN next ELSE checkpoint
              /\ IF recorded /\ saved THEN UNCHANGED faults ELSE Fault
        /\ UNCHANGED <<chainVars, dbVars, endLedger, cursor, latest, pending, pastEnd,
                       firstLedger>>

\* The process dies, or is stopped between two events; only the tables survive.
Crash(p) ==
    /\ pc[p] \notin {"down", "halted"}
    /\ Fault
    /\ pc' = [pc EXCEPT ![p] = "down"]
    /\ pending' = [pending EXCEPT ![p] = {}]
    /\ running' = IF p = "main" THEN FALSE ELSE running
    /\ UNCHANGED <<chainVars, dbVars, checkpoint, startLedger, endLedger, cursor, latest,
                   pastEnd, finalized, firstLedger>>

-----------------------------------------------------------------------------
(***************************************************************************)
(* The backfill command (BackfillRange): one poll over a range.            *)
(***************************************************************************)

BackfillRange(range) ==
    /\ pc["backfill"] = "down"
    /\ range[1] <= range[2]
    /\ pc' = [pc EXCEPT !["backfill"] = "fetch"]
    /\ startLedger' = [startLedger EXCEPT !["backfill"] = range[1]]
    /\ endLedger' = [endLedger EXCEPT !["backfill"] = range[2]]
    /\ cursor' = [cursor EXCEPT !["backfill"] = <<0, 0>>]
    /\ latest' = [latest EXCEPT !["backfill"] = 0]
    /\ UNCHANGED <<chainVars, dbVars, checkpoint, pending, pastEnd, memVars, faults>>

FinishBackfill ==
    /\ pc["backfill"] = "done"
    /\ pc' = [pc EXCEPT !["backfill"] = "down"]
    /\ UNCHANGED <<chainVars, dbVars, checkpoint, pollVars, memVars, faults>>

-----------------------------------------------------------------------------
(***************************************************************************)
(* The API's write (HandlePatchInvoiceStatus), for any authenticated       *)
(* caller: the query of a default with a status of the caller's choice.    *)
(* A status outside the CHECK list ("Cancelled"), a missing row and a row  *)
(* in another status are errors that change nothing.                       *)
(***************************************************************************)

PatchInvoiceStatus(i, s) ==
    /\ UpdateInvoiceStatus(status[i], s) \in Statuses
    /\ status' = [status EXCEPT ![i] = UpdateInvoiceStatus(status[i], s)]
    /\ patched' = patched \cup {i}
    /\ UNCHANGED <<chainVars, attestedAt, poolStats, eventsLog, deliveries, checkpoint, pc,
                   pollVars, memVars, faults>>

-----------------------------------------------------------------------------
\* Steps of a poll in which the environment does not fail.
PollStep(p) ==
    \/ FetchPage(p)
    \/ Dedup(p)
    \/ \E e \in pending[p] : \/ HandleEvent(p, e)
                              \/ HandleWithoutEffect(p, e)
                              \/ RejectEvent(p, e)
    \/ NextPage(p)

MainStep == Start \/ BeginPoll \/ HaltOnReorg \/ PollStep("main") \/ FinishPoll

BackfillStep == PollStep("backfill") \/ FinishBackfill

PatchStep == \E i \in Invoices, s \in PatchStatuses : PatchInvoiceStatus(i, s)

Next ==
    \/ \E k \in Kinds, i \in Invoices : Emit(k, i)
    \/ CloseLedger
    \/ \E l \in Ledgers : Reorg(l)
    \/ MainStep
    \/ BackfillStep
    \/ \E range \in BackfillRanges : BackfillRange(range)
    \/ PatchStep
    \/ \E p \in Procs : PollFails(p) \/ Crash(p)

Spec == Init /\ [][Next]_vars

\* The listener's goroutine runs, the ticker ticks, and ledgers keep closing.
Fairness == WF_vars(MainStep) /\ WF_vars(CloseLedger)

FairSpec == Spec /\ Fairness

-----------------------------------------------------------------------------
(***************************************************************************)
(* Properties                                                              *)
(***************************************************************************)

\* Events the handlers know; the default branch skips the others unlogged.
Known(e) == e.kind # "Unknown"

\* Nothing is skipped: every known event of a closed ledger below the saved
\* checkpoint, or below the ledger the running listener polls from, is in
\* events_log (the poller never advances past an event it did not apply).
NothingSkipped ==
    \A e \in chain :
        (/\ Known(e)
         /\ firstLedger <= e.ledger
         /\ \/ e.ledger < checkpoint
            \/ pc["main"] # "down" /\ e.ledger < startLedger["main"]) => e \in eventsLog

\* In order: an event is indexed only after every earlier event of its invoice
\* (pages, retries and restarts never reorder one invoice's history).
InOrder ==
    \A e \in eventsLog, f \in chain :
        (f.inv = e.inv /\ Known(f) /\ firstLedger <= f.ledger /\ Precedes(ID(f), ID(e)))
            => f \in eventsLog

\* Mirror: the status of every row the API has not written is where its logged
\* events lead, so the only events ever ignored as stale are replays of events
\* already applied, or events of an invoice that was patched.
OnlyReplaysIgnored ==
    \A i \in Invoices \ patched :
        status[i] = StatusAfter({e \in eventsLog : e.inv = i /\ e.kind \in LifecycleKinds})

\* Atomicity: an event of the listener is logged with its webhook fan-out or
\* not at all, whatever fails in between (issue 925); the events a patched row
\* makes stale are logged without it.
LoggedWithDeliveries ==
    /\ deliveries \subseteq eventsLog
    /\ \A e \in eventsLog \ deliveries : e.kind = "Register" \/ e.inv \in patched

\* The checkpoint never passes the confirmation boundary of the chain tip,
\* except to stay where indexing first began.
CheckpointBehindWindow ==
    checkpoint <= firstLedger \/ checkpoint <= tip - Depth + 1

\* What is indexed stays true: no reorganisation confined to the confirmation
\* window removes an event that is already in events_log.
IndexedIsFinal == eventsLog \subseteq chain

\* A reorganisation confined to the confirmation window never halts the listener:
\* the recorded hash is always that of a ledger the window has passed.
NeverHaltsInWindow == pc["main"] # "halted"

\* The rows implement the documented lifecycle, listener and backfill together;
\* the API's write leaves it, and only from a status that a default may leave.
Lifecycle == INSTANCE InvoiceLifecycle WITH overridden <- patched
FollowsLifecycle == Lifecycle!Spec

\* Restarts resume from the checkpoint: it never moves back.
CheckpointNeverBack == [][checkpoint' >= checkpoint]_vars

\* Once a ledger clears the confirmation window, every known event of it is
\* eventually in events_log, whatever poll, process or transaction fails meanwhile.
EventuallyIndexed ==
    \A l \in Ledgers :
        (l <= tip - Depth /\ firstLedger <= l)
            ~> (\A e \in chain : (e.ledger = l /\ Known(e)) => e \in eventsLog)

\* A listener that stays behind is seen: if some confirmed event is from some point
\* on always missing, /health reports the listener unhealthy from some point on.
Behind == \E e \in chain : /\ Known(e) /\ e \notin eventsLog
                           /\ firstLedger <= e.ledger /\ e.ledger <= tip - Depth
WedgeIsVisible == <>[]Behind => <>[]~running

\* A rewrite of the recorded ledger stops the listener before its next poll, also
\* when a verification was skipped, unless the poll that skipped it got past the
\* ledger: it then records the hash of a newer one and the rewrite is never seen.
RewriteHalts ==
    \A l \in Ledgers :
        (pc["main"] = "idle" /\ Rewritten /\ finalized.ledger = l)
            ~> (pc["main"] \in {"halted", "down"} \/ finalized.ledger > l)
=============================================================================
