# TrusTrove: TLA+ models, checks and proofs

TrusTrove finances invoices on Stellar. Contracts (in another repository) hold
the money and emit events; the Go **indexer** follows those events, mirrors them
into PostgreSQL, serves them over HTTP, relays invoice creation, and fans events
out to webhook subscribers; the TypeScript **SDK**, **React bindings**, **web
application** and **CLI** read from it and submit user-signed transactions.

This directory models the state machines of all three layers. Every module is a
translation of code; `PROJECT.json` gives, for each definition, the lines it
stands for.

    tlc -config sdk_write.cfg MCSorobanClient     # one run
    tlapm ListenerProofs.tla                      # one module's proofs

## 1. Inventory

| Part | State | Operations | Interacts through | What makes it correct |
|---|---|---|---|---|
| Event listener (`listener/`) | start ledger, recorded ledger hash, backoff, health flag | resume, verify hash, fetch page, de-duplicate, apply event, save checkpoint, halt | RPC `getEvents`/`getLedgers`; the tables; the dispatcher inside the event's transaction; `ListenerHealth` | nothing skipped, nothing reordered, nothing half applied; final once indexed; halts on a rewrite; never stuck unseen |
| Tables (`db/queries.go`) | `invoices`, `events_log`, `pool_snapshots`, `indexer_checkpoint` | guarded updates, insert-or-ignore, checkpoint upsert | shared by listener, backfill, API | rows move only along the lifecycle, but for what the API writes |
| Invoice API (`api/handlers_invoices.go`) | none of its own | list a page (a COUNT, then a SELECT), set a status (PATCH) | reads the tables; PATCH writes the status column the listener writes | a page and its total fit together; a write leaves the lifecycle only where the query lets it |
| Backfill command (`cmd/backfill`) | none of its own | one poll over a range | writes the listener's tables, without a dispatcher | cannot break what the listener guarantees |
| Webhook dispatcher (`webhook/`) | `webhook_deliveries` | one row per active subscription and event | called in the listener's transaction | a delivery for every logged event |
| Delivery workers (`webhooks/`, `db/webhooks.go`) | claims, attempts in flight | claim, send, retry, dead-letter, stop | rows shared with other replicas; HTTP | no concurrent sends, the configured attempts, every row settles |
| Subscriptions (`api/handlers_webhooks.go`) | `webhook_subscriptions` | create, list, delete (cascades) | the queue's rows | deletion never resurrects a row |
| Login (`auth/`, `api/handlers_auth.go`) | nonce map in memory | issue, verify, consume, token | concurrent HTTP requests | single use, owner only, valid challenges survive |
| Invoice rate limiter (`middleware/`) | bucket map, buckets | remaining, allow, evict | concurrent requests, cleanup goroutine | the limit, over as long as the cleanup remembers; nobody refused early |
| SDK (`packages/sdk`) | none between calls | read, simulate, sign, submit, poll, retry | RPC, wallet | a write takes effect at most once and is reported truthfully |
| React bindings (`packages/sdk-react`) | query and mutation state | run, refetch, abandon, mutate | component lifetime, the SDK | what is shown as settled is for the inputs shown |
| Wallet session (`hooks/useWallet`, `useAuth`, `store/wallet`, `lib/freighter`) | account, network, token; per panel a watcher and an attempt | connect, switch network, watch, log in, log out, reload | Freighter, the store shared by all panels | the session is for what Freighter reports |
| Local data (`useNotifications`, preferences, saved searches) | `localStorage` and each tab's copies | merge, mark read, mute, save, clear | tabs share the storage | an account's data stays its own; nothing is silently replaced |
| History and totals (`useTxHistory`, `getAllInvoices`) | cursor stack, page cache, operation cache | page, look up, retry, walk | Horizon, indexer | a page or a total is complete or not shown |
| Invoice pages (`app/*`, `components/invoice`, `useInvoices`, `usePool`) | view, list cache, console, selection, dialog, writes | browse, filter, select, confirm, approve, write, create | SDK, indexer, wallet | the console fits the view; lists catch up; allowances suffice |
| Relay, router, the rest of the API, migrations, CLI, formatting helpers | see section 5 | | | (not modelled) |

The hard behaviours: the chain moves between the steps of a poll, processes die
between two writes, two processes write the same tables, claims expire under a
running attempt, maps are shared by concurrent requests; in the browser, every
answer comes after an `await` during which the user, the wallet, another tab or
another component has changed what the answer is for; and the answer to a
submission can be lost. `PROJECT.json` lists them as hazards, each at its line.

## 2. Modules

| Module | Models | |
|---|---|---|
| `InvoiceTable` | the status column and the queries that write it, as operators from the status found to the result | used by `Listener` |
| `InvoiceLifecycle` | the abstract promise: each invoice moves along the documented edges | refined by `Listener` (`FollowsLifecycle`) |
| `Listener` | listener, backfill, their tables, and the chain as environment | `MCListener` for TLC |
| `WebhookQueue` | subscriptions, dispatcher, delivery rows, any number of workers, time | `MCWebhookQueue` |
| `AuthChallenge` | login challenges, nonce store, concurrent requests | checked directly |
| `InvoiceRateLimiter` | limiter, cleanup, concurrent requests | checked directly |
| `ContractMethods` | every method of the SDK's clients: read or write, what it returns, who signs, its edge of the on-chain lifecycle | used by the three below |
| `ContractWrite` | the abstract promise of a mutating SDK call | refined by `SorobanClient` (`KeepsPromise`) |
| `SorobanClient` | `BaseContractClient` with concurrent calls, the RPC server and the ledger | `MCSorobanClient` |
| `AsyncHooks` | `useAsyncQuery`, `useAsyncMutation` and each hook's dependency list | checked directly |
| `WalletSession` | wallet store, panels, watcher, login, Freighter | checked directly |
| `BrowserStorage` | notifications, preferences and saved searches over several tabs | `MCBrowserStorage` |
| `PagedReads` | transaction history and the walk over all invoices | `MCPagedReads` |
| `InvoiceDesk` | the pages on which invoices are browsed and acted on | `MCInvoiceDesk` |
| `ListenerProofs`, `WebhookQueueProofs`, `AuthChallengeProofs`, `InvoiceRateLimiterProofs`, `SorobanClientProofs`, `AsyncHooksProofs`, `BrowserStorageProofs`, `WebProofs` | theorems | section 4 |

### Listener

One poll is several steps, because the code does RPC calls and database
statements one after the other and the rest of the world moves in between:

- `Start`: `EventListener.Start` up to the loop: `ResumesAt` picks the
  checkpoint, else the ledger after the newest logged one, else the tip.
- `BeginPoll` / `HaltOnReorg`: `verifyFinalizedLedger`; a failed lookup is a
  fault after which the poll goes on.
- `FetchPage`: one `getEvents` call with the range filter and the
  confirmation-depth filter. `Page` and `Available` are the RPC server's answer.
  `pollEventsRange` also has a branch for a listener without contract IDs, which skips
  the buffer; the configuration requires all four (`config.go:216-219`), so no
  listener takes it and the model leaves it out.
- `Dedup`: `AreEventsProcessed`, once per page.
- `HandleEvent`, `HandleWithoutEffect`, `RejectEvent`: `handleEvent` for the
  first event left. The transaction is one step: row, `events_log` and
  `webhook_deliveries` commit together. Refreshing `pool_stats` is outside the
  transaction in the code, so it may fail alone, or happen and be followed by a
  rollback (`PollFails`).
- `NextPage`, `FinishPoll`: paging; then `NextLedger`, the health flag,
  `recordFinalizedLedger` and `UpsertCheckpoint`, each of which may fail without
  failing the poll.
- `AbortPoll`: any error: unhealthy, the same ledger again (a backfill exits).
- `Crash`, `BackfillRange`, `FinishBackfill`.
- `PatchInvoiceStatus`: `PATCH /invoices/{id}/status`, open to every authenticated
  caller. It runs the query that also records a default, `UpdateInvoiceStatus`, with
  any status of the table's CHECK list, so it moves Funded, Active and Confirmed rows
  and no others. `patched` is an observation: the rows it has moved.
  `InvoiceLifecycle` has it as `Override`.

The chain emits events as the contracts' lifecycle allows (`ContractEmits`),
closes ledgers, and may replace its last ledgers (`Reorg`). An event is its
ledger, its position, its kind and its invoice; payloads are left out.
`firstLedger` is an observation: what came before indexing began is not owed.

### WebhookQueue

`ClaimPendingDeliveries` is the single `FOR UPDATE SKIP LOCKED` statement.
`BeginAttempt`, `WaitForSlot` and `BeginBlocked` split `deliverBatch` where its
loop can block between checking the context and starting an attempt. `Delivered`,
`Failed` and `Unrecorded` are the outcomes of `attemptDelivery`, each with the
query it runs; `handleFailure` uses the attempt count *read by the claim*, the
queries the row's own. Time is kept as ticks left on a claim and on a retry and
as the age of an attempt, so it is unbounded: `Tick` may happen unless an attempt
has reached its timeout or a free slot is waiting to be taken. `AttemptTime` is
the HTTP timeout plus the time to write the outcome. `expired` is an observation:
the rows whose lock ran out while a worker had them. The lock starts with the claim
of the batch, so with the code's defaults (50 rows, 8 slots, 10 s, 60 s) that
happens to the last rows of a slow batch.

### AuthChallenge

`VerifyChallenge` (parsing, timebounds, signatures), `ConsumeNonce` and
`GenerateJWT` are separate steps of a request, so requests interleave between
them. A submission is a nonce, an address, and who signed; only the server can
make its own signature. Timebounds are compared in whole seconds (`Unix`), the
nonce's expiry exactly.

### InvoiceRateLimiter

A request of `Allow` looks its bucket up (map lock) and then uses it (bucket
lock); `EvictStale` may run in between. A bucket that was evicted while a request
holds it lives on for that request; `strays` are the attempts recorded in such a
bucket. A bucket unused for two cleanup intervals is evicted with attempts that still
count, since the window (1 h) is longer than that (20 min); `Recent` are the attempts
the cleanup cannot have forgotten.
`RemainingAttempts` only fills response headers and is left out.

### SorobanClient and ContractWrite

A call is at one of its awaits: `account`, `simulate`, `prepare`, `sign`,
`send`/`sent`, `poll`. Requests that only read are one step, retried by
`withRetry` after a network error; any other error ends the call at once. `sendTransaction` is split in three: the client sends
(`SendTransaction`), the server receives it, perhaps long after the client has
given up (`ServerReceives`), and the client gets the answer or a transport error
(`SendAnswered`). The server (external) checks sequence number and time bound,
answers `PENDING`, `DUPLICATE`, `TRY_AGAIN_LATER` or `ERROR`, and later applies
or drops what it queued. Two identical calls of one account that read the same
sequence number in the same second build the same transaction (`TwinsOf`).

`ContractWrite` is what a caller may rely on: an effect at most once; "ok" only
if it is on the ledger; "failed" only if it never will be; "unknown" otherwise.
The refinement maps the errors of `base.ts` to these three (`Failures`,
`Unknowns`) and the state of the call's submission to the abstract effect.

In `ContractMethods`, `create` has no edge of an invoice's lifecycle: each call that
succeeds makes an invoice of its own, and two of them are no rivals.

### AsyncHooks

The hooks are records: the method they call, the inputs their function reads and
the inputs their effect depends on. `Render` changes an input at once, `Effect`
runs after it, as React does; `generation` is `generationRef`, advanced by the
cleanup and by the run. `Refetch` is the bare `run` that the hook returns, so it may
be called between a render and its effect and after the unmount; `held` are the runs
of the latter. `installed` says that an effect's cleanup is due. `HooksMatchClients` (an assumption TLC evaluates) says
that query hooks only read and mutation hooks only write.

### WalletSession

The store is one per page; `stage`, `previous`, `poll` and `banner` are per
panel, because `useWallet` keeps its guard, its watcher and its error per
component. `Watch` is the effect that restarts a watcher from the store; it is due
when the store is off the watcher's snapshot, which every change of its dependencies
brings about except one that the watcher itself reported, whose effect only drops a
poll, as `PollFails` does;
`PollReads` and `PollReports` the two halves of a poll, `onChange` the callback,
which reads the store as it is then. A switch of the network is answered by
Freighter and continues as a connect.

### BrowserStorage

A script runs to its end before another tab touches the storage, so handlers and
effects are atomic; what interleaves are tabs, and the effects of one commit with
the next render. `pending[t]` holds the effects that are due; `RunEffects` runs
them in their order with the values of their render. A saved search and a muted
category are represented by the account they were entered for.

### PagedReads

Two independent readers. History: `FetchTransactions` reads the records below the
cursor, `OpsSettled` is `Promise.allSettled` over the operation lookups with any
subset failing, and the page is stored only if all are there. Totals: a
request of `getAllInvoices` is two steps, `CountInvoices` and `WalkPage`, because
`GetInvoicesPage` counts and selects in two statements without a transaction; rows
are numbered by creation, so that one more row moves every older one down. `atStart`
is the number of invoices when the walk began, `grown` how many were created between
the two statements of its last request.

### InvoiceDesk

The status of an invoice is in three places: `chain`, the indexer's `rows`, and
what the browser holds (`data`, the query cache; `selected`, the console's
snapshot). A write goes through its stages (`allowance`, `approve`, `send`; the
form's `create`, `simulate`, `list`, `cancel`) while the page goes on; `loading`
holds the writes a mounted component still waits for. The contract's acceptance
comes from `ContractMethods`; the inside of a call is left to `SorobanClient`,
whose promise (done, failed or unknown) gives the outcomes. A write whose answer is
lost (`LoseAnswer`) reports an error and may still land, late or never
(`NeverLands`). The list form is a state of the card (`listForm`), which keeps
it open for whatever invoice the card shows next, and each creation by the form
makes an invoice that was not there before.

## 3. Runs

Passing runs:

| Run | Checks | Bounds and why |
|---|---|---|
| `listener_core` | `NothingSkipped` `InOrder` `OnlyReplaysIgnored` `LoggedWithDeliveries` `CheckpointBehindWindow` `IndexedIsFinal` `NeverHaltsInWindow` `FollowsLifecycle` `EventuallyIndexed` `CheckpointNeverBack` | fair; depth 1, all seven lifecycle events, 4 ledgers of up to 3 events, pages of 2: partly deferred pages, several pages, one crash or failure at any step, one reorganisation inside the window; PATCH sets a row back (Listed) or forward (Repaid) at any step |
| `listener_halt` | `RewriteHalts` `WedgeIsVisible` | fair; a rewrite deeper than the window, one fault, which may be a skipped verification, attestations (which can never be applied), ledgers of two events in pages of one, a backfill racing the listener; a halted listener stops, so deadlock is not checked (183 thousand states) |
| `webhook_queue` | `NoConcurrentAttempts` `AttemptsAsConfigured` `SettledIsFinal` `EverySettled` | fair; 2 workers, 2 rows, 1 slot, attempts of 2 ticks, a claim of 3: longer than an attempt, as the code asks, and shorter than the batch, as with its defaults; 2 attempts, one fault, one shutdown (269 thousand) |
| `auth_login` | `OneTokenPerChallenge` `RedeemedByOwnerInTime` `ValidChallengeKept` | 2 requests, 2 challenges, every combination of signers, half-second clock, one restart |
| `ratelimit_cleanup` | `LimitIsExact` | 2 clients, 2 requests at once, a window of four cleanup intervals (the code: six), evictions at every step |
| `sdk_write` | `NeverSentTwice` `RivalsShareOneTransaction` `KeepsPromise` `EveryCallSettles` | fair; 2 calls of one account, each a funding, a deposit, a read or a simulation; every loop may run twice, so each is both repeated and exhausted; the time bound is 2 ticks, so a transaction can expire queued or on the way (480 thousand) |
| `sdk_react` | `SettledIsForInputs` `PendingWhileRunning` `NoLateWrite` `LoadingEnds` | fair; each hook, with the spender and the signer changing, 3 runs (two of them can be overtaken, the last may be a refetch after the unmount), 2 overlapping mutations (453 thousand) |
| `web_wallet` | `SessionFollowsFreighter` `OnlyConnectOpensSession` | fair; 2 accounts, 2 networks, the navigation bar's panel and one that comes and goes, one change in Freighter at any moment beside the switch the app asks for (327 thousand) |
| `web_storage` | `WalletScoped` `DamagedIsKept` `ReadStaysRead` | 2 interchangeable tabs, 2 accounts and none, one event, one saved search: enough for a copy of one account or tab to meet the key of another (3.2 million) |
| `web_history` | `PageIsWhole` `TotalsAreComplete` | pages of 2 over up to 4 transactions, ours and foreign; any subset of lookups fails; up to 5 invoices in pages of 2 and at most 3 pages, created at any step, between COUNT and SELECT too (2.6 million) |
| `web_invoice` | `ConsoleFitsView` `AllowanceCovers` `SelectionSurvives` `ListCatchesUp` | fair; 3 invoices of two wallets, pages of 2 or 3, comparison of 2, at most two writes and three writes and changes of view together: one write may overtake another, a page or a wallet changes under a write, and a selection of two can be lost in part, by paging or at its limit (540 thousand) |

Where deadlock is not checked the bounds let the system come to rest.
`MaxWrites`, `MaxTurns`, `MaxChanges`, `MaxRuns`, `MaxReorgs`, `MaxFaults`,
`MaxStops` and the like bound how often the environment or the user acts; the
code's own limits (`MaxAttempts`, `MaxPolls`, `Cap`, `PageSize`, `FeedSize`) are
the constants with the code's value in their comment.

Where the code does something else than a comment says of it (the findings of
`PROJECT.json`), one run shows TLC's counterexample; in the others the property
states what does hold, and the exception it makes is the disagreement. Without the
exception TLC refutes the property in the same run:

| Run | What happens | The comment |
|---|---|---|
| `listener_v_deferred` (violation) | A ledger closes between two pages of a poll: events the first page deferred are below the next start ledger and are lost. | `soroban.go:453`: the next poll "re-fetches the window" |
| `listener_core`, `FollowsLifecycle` | PATCH cannot cancel a new invoice, and can set a funded one to any status; the listener then ignores the events that no longer fit. | `handlers_invoices.go:36-39`: "to mark a newly created invoice as Cancelled" |
| `listener_halt`, `RewriteHalts` | After a skipped verification the poll records a newer hash, and the rewrite is never looked at again. | `soroban.go:218-219`: "the check resumes on the next poll" |
| `webhook_queue`, `NoConcurrentAttempts` | The lock runs from the claim of the batch: a row that waited for a slot is sent after it ran out, and by another worker too. | `worker.go:33-34`: exceeding HTTPTimeout is enough |
| `ratelimit_cleanup`, `LimitIsExact` | A client that pauses for two cleanup intervals gets its limit anew within one window. | `invoice_rate_limiter.go:16-17`: the maximum "within the rate-limit window" |
| `sdk_react`, `NoLateWrite` | A refetch called after the unmount writes state. | `async.ts:21-22`: a request that settles after unmount "cannot write state" |
| `web_history`, `TotalsAreComplete` | Invoices created between COUNT and SELECT of the last page push the oldest ones off it. | `api.ts:447-452`: "must cover the whole set" |

**Conditions of the passing runs.** Some constants, or a disjunct of the
property, are what makes it hold. Changing the one named shows the behaviour that
is excluded:

| Property | Condition | Otherwise |
|---|---|---|
| `NothingSkipped` | with a buffer, the tip is steady during a poll (`StableTip`) | `listener_v_deferred` |
| `NothingSkipped` | a checkpoint exists (`InitCheckpoint > 0`) | a crash during the very first poll resumes after the newest logged ledger, whose other events are lost |
| `NeverHaltsInWindow` | a checkpoint exists | a fresh start records the hash of a ledger inside the window, and its harmless rewrite halts the listener |
| `RewriteHalts` | the record has not moved on (in the property) | a skipped verification: the poll goes on and replaces the record, and the rewrite is never noticed |
| `WedgeIsVisible` | with a buffer, the tip is steady during a poll (`StableTip`) | the silent skip of `listener_v_deferred`: events are missing for ever and /health is green |
| `EventuallyIndexed` | no attestation in `Kinds` | the dispatcher refuses it, the event is rolled back, and every later poll fails at it |
| `OnlyReplaysIgnored`, `LoggedWithDeliveries` | the row was not written by PATCH (`patched`, in the property) | later events of the row are ignored as stale, and logged without deliveries |
| `OnlyReplaysIgnored` | no backfill (`BackfillRanges = {}`) | a backfill overtakes the listener: an event that was never applied is ignored as stale |
| `FollowsLifecycle` | PATCH is the abstract `Override` | a Funded, Active or Confirmed row goes to any status, back or to the end |
| `NoConcurrentAttempts`, `SettledIsFinal`, `AttemptsAsConfigured` | no claim on the row ran out in a worker's hands (`expired`, in the property) | another worker claims the row in flight, sends it once more, and a late outcome relabels it; no exception is needed where a batch fits its claim (`ClaimOutlastsBatch`), which the defaults do not |
| `AttemptsAsConfigured` | allows for one attempt per stop | a shutdown while the loop waits for a slot costs the row an attempt that is never sent |
| `LimitIsExact` | the shorter of the window and two cleanup intervals, without `strays` (in the property) | a bucket evicted before its use does not count the attempt; with the code's constants (1 h against 20 min) the cleanup forgets attempts that still count |
| `NoLateWrite` | the run is not a refetch called after the unmount (`held`, in the property) | its answer is written |
| `TotalsAreComplete` | the walk was not cut at its page limit (in the property) | totals above 10 000 invoices are silently low |
| `TotalsAreComplete` | all but the oldest `grown` invoices (in the property) | created between COUNT and SELECT of the last request, new invoices push as many old ones to a page the walk does not ask for |
| `SelectionSurvives` | an invoice may be unticked in the table that shows it, or cleared (in the property) | that is what the user asked for; leaving the page drops the selection |
| `AllowanceCovers` | no other write of the kind came in between (in the property) | two overlapping repayments share one allowance and the second is refused |

The event kinds `Pool`, `Register` and `Unknown` are in no run, to keep the state
spaces small: they are logged and change no row. The proofs of section 4 cover them.

**Known divergences** that the models show and no property is stated for, since
the code does not do it:

- The pool statistics lag: a refresh that fails is only logged, and pool events do
  not refresh them at all (`poolStats`).
- The list form stays open when the console moves to another invoice, and then offers
  to list one that is not in status Created; the contract refuses (`CardOffers`).
- A login that outlives a disconnect or an account switch stores the token of an
  account that is no longer connected (`LoginSucceeds`).
- Two panels may connect at once; one that fails disconnects the other's session
  (`ConnectFails`).
- After Next, Previous, Next and Next the history's third page is the second
  again, because `goNext` appends to the stack that the page indexes; and a page
  of foreign transactions only has no buttons to leave it (`Buttons`).
- Two tabs overwrite each other's saved searches; saved searches that do not
  parse are replaced, unlike a damaged notification history.
- The console's snapshot is not refreshed; a card that was re-mounted offers a
  write that is under way. The contract refuses the second one
  (`RivalsShareOneTransaction`).
- The dashboard keeps its page number across an account switch, and a page beyond
  the end is empty and has no pagination (`handlePageChange`).
- The form's cancellation of an invoice whose listing failed never succeeds: the
  indexer only moves funded invoices (`cancelCreatedInvoice`). Creating again
  after a lost answer makes a second invoice. The form lists at once, although
  listing needs an attestation.

**Fairness.** `Listener`: weak fairness of the listener's own steps (its
goroutine runs, the ticker keeps ticking, the process is restarted by its
supervisor) and of ledgers closing. Nothing is assumed of the chain emitting, of
reorganisations or of faults, which are bounded in number. `WebhookQueue`: weak
fairness of time and of every worker's steps (it polls, its attempts end by the
HTTP timeout, it is restarted). Which outcome an attempt has is not assumed:
a subscriber may fail for ever. `SorobanClient`: every request is answered or
fails, time passes, a queued transaction is decided; nothing makes the user sign,
so a call may wait in `sign` for ever, and the property says so. `AsyncHooks`:
React runs the effects of a committed render and every call settles, which is
`EveryCallSettles` one layer below. `WalletSession`: strong fairness of the
navigation bar's effect and polls. A poll may be discarded whenever the effect
runs again, and may fail, so weak fairness would allow that to happen for ever;
the code's interval timer starts another each time, and polls that fail for ever
are an extension that is gone. `InvoiceDesk`: weak fairness of the list's polling
(`refetchInterval`) and of the indexer, which `EventuallyIndexed` provides.

**Mutants.** Each property of a passing run has a mutated definition beside the
real one (a dropped guard, an off-by-one, a missing reset) under which TLC
refutes it; `PROJECT.json` pairs them.

## 4. Proofs

TLAPS proves, for all values of the constants that satisfy the named assumptions,
the theorems below. A condition the code does not guarantee is a hypothesis of the
theorem, not an assumption of the model; the table of section 3 says what happens
without it. The inductive invariants of the listener, of the queue and of the web
pages were checked by TLC on the runs' instances before they were proved.

### `ListenerProofs`

- `TypeCorrect`: `TypeOK`, strengthened with the chain being finite, since an
  event's position is a cardinality.
- `WindowIsFinal`: `IndexedIsFinal` if `ReorgDepth <= Depth`. The inductive
  invariant says that the events of a page, once past the filter, and the logged
  ones are in the chain and lie below the window, which the tip only ever moves up.
- `CheckpointMonotone` and `CheckpointIsBuffered` (given an initial checkpoint):
  the listener's start ledger is at or after the checkpoint while it runs, and
  never past the window of the tip.
- `RefinesLifecycle`: listener, backfill and the API's PATCH together implement
  `InvoiceLifecycle`: every step changes one row along one edge or none, or is an
  `Override` of a Funded, Active or Confirmed row, which is remembered.
- `NothingIsSkipped`: `NothingSkipped` for any page size, with crashes, failed
  statements and backfills, if there is an initial checkpoint, `ReorgDepth <= Depth`,
  and the tip is steady during a poll or there is no buffer (`StableTip \/ Depth = 0`).
  `ListenInv` is about the middle of a poll: an event that the cursor has reached
  and the window has cleared is indexed or pending (`Swept`), and what is pending
  was reached (`Held`). The step that needs work is the page: a page is a prefix
  of what is after the cursor (`PageIsPrefix`), so the last one reached bounds the
  others, and an empty page means nothing is left (`EmptyPage`, from the first
  event after the cursor, `FirstEvent`).
- `IndexedInOrder`, `MirrorIsExact`, `LoggedIsDelivered`: the other invariants of
  `listener_core`, under the same hypotheses and without a backfill, the last two
  for rows PATCH has not written, while it writes others at any time. From `ListenInv`, the earliest pending event has nothing missing
  before it (`OrderInv`); the chain only holds events the contract could emit
  (`LifecycleInv`); so the status a handler finds is the one its query expects
  (`MirrorInv`), no event is dropped as stale, and each logged event has its
  deliveries.
- `WindowNeverHalts`: `NeverHaltsInWindow` from a checkpoint that has cleared the
  window (`InitCheckpoint <= InitTip - Depth + 1`): a recorded hash is that of a
  ledger no reorganisation reaches (`HashInv`).

### `WebhookQueueProofs`

The first four results hold for every setting of the worker, the code's defaults
included; the exception they make (`expired`) is part of the property.

- `QueueTypeCorrect`: typing.
- `ExclusiveAttempts`: `NoConcurrentAttempts`. Not inductive; `CleanInv` says of a row
  on which no claim ran out that it has one holder, who has a running lock, has read
  the row's own count, and that the row is pending or deleted (`Clean`).
- `SettledRowsStay`: `SettledIsFinal`, from the same invariant; that a dead-lettered
  row is never queued again, even after a claim ran out, needs the counts below: who
  still has the row has read a count that leaves no retry.
- `AttemptsConfigured`: `AttemptsAsConfigured`. `Counts` bounds the attempts made by
  the row's count from both sides, one above for each attempt in flight, of which
  there is one while the row is clean and at most one per worker afterwards (`Reach`);
  a shutdown is charged once, since a worker whose context is done has no claimed rows
  left and at most starts what was blocked (`Running`, `Spent`).
- `ClaimOutlastsBatch`: the configurations that need no exception. If for some `R`,
  `BatchSize <= R * Concurrency` and `R * AttemptTime <= LockDuration` (`InClaim`),
  `expired` stays empty. The claim on a held row outlasts the rest of its attempt
  (`Locked`), and `Paced` says how a batch goes by: after `m` rounds less `s` ticks, at
  least `m * Concurrency` rows of the batch were sent or have at most `s` ticks to go. A
  tick either continues the round or, when no attempt is at its last tick, begins a new
  one with every slot taken, because time does not pass while a row waits at a free
  slot. The defaults miss `InClaim` (7 rounds of 10 s against 60 s), and a lock longer
  than one attempt, which `worker.go:33-34` asks for, is not enough for it.

### `AuthChallengeProofs`

- `SingleUse`: `OneTokenPerChallenge`. A request past `consume` took its nonce out
  of the store (`Taken`), no two requests hold the same nonce (`Apart`), and a nonce
  still stored has no token (`Unredeemed`).
- `OwnerInTime`, `ChallengeKept`: the other two invariants, from the above and that
  a request past the signature checks speaks for the owner (`Vouched`).

### `InvoiceRateLimiterProofs`

- `NotRefusedEarly`: half of `LimitIsExact`, for every setting: what a bucket holds
  was allowed to its client (`Owned`), attempts are numbered and so never counted
  twice (`Numbered`), and a bucket never holds more than `Limit` (`Bounded`).
- `LimitExact`: `LimitIsExact`, for every limit, window and cleanup interval. The
  further part, `Kept`, says that an allowed attempt that still counts and is not
  older than two cleanup intervals is in the bucket the map names, unless it is one of
  `strays`: a bucket that was used since is not evicted.

### `SorobanClientProofs`

- `NeverTwice`, `RivalsAgree`: from `Inv`, which relates where a call stands to what
  the network has of it (`SubmissionInv`: polling means accepted, before `sent`
  nothing was sent), transactions to the identical calls that share them
  (`TwinInv`), and the status to the edges taken (`LedgerInv`: every edge raises the
  rank of the status, so none is taken twice).
- `PromiseKept`: the refinement of `ContractWrite`, action by action: sending and
  polling are stutters, the server's acceptance opens the abstract effect, the
  ledger's decision settles it, and the last step of a call reports.
- `ReportsAreTrue`: what the promise means to a caller, carried over to the SDK by
  the refinement: a report of done or failed is true and stays true.
- `TypeCorrect`.

### `AsyncHooksProofs`

- `SettledForInputs`: for each hook of the package, whose effect depends on all its
  query reads (`HooksComplete`, by cases over the table of hooks), a mounted component
  whose effect has run is at the run asked with its inputs (`CurrentInv`).
- `LateAnswersDropped`: `NoLateWrite`; the counter is ahead of every run but the
  newest (`CounterInv`), and unmounting moves it past them all, so that only a
  refetch called after that (`held`) can be at the counter.
- `PendingIsRunning`: the counter of calls equals the calls in flight.
- `TypeCorrect`: the counter has room for each run and each cleanup.

### `BrowserStorageProofs`

- `StorageScoped`: `WalletScoped` is inductive with `CopiesInv`: what a tab holds is
  of the account it was read for, and that is the connected one unless a re-read is
  due; the effects run in the order that keeps this.
- `DamagedKept`, `ReadKept`: from `ReadInv` and what each step does to a history.
- `TypeCorrect`.

### `WebProofs`

One module for the three web components that have no proof module of their own:
it extends `InvoiceDesk` and has `PagedReads` and `WalletSession` as the instances
`Reads` and `Wallet`, whose named assumptions are hypotheses of their theorems. Names
that two components share are declared once; no theorem is about more than one.

- `ConsoleFits`: `ConsoleFitsView`. It rests on the cache: rows are kept under the
  key of the view they were asked for and match that key whatever became of the
  invoices or of the view since (`CacheFitsKeys`). A row that is picked comes from
  the entry of the current key; every step that changes a filter, or the wallet on
  the dashboard, empties the console.
- `AllowanceEnough`: `AllowanceCovers`, for any amounts and any number of writes. A
  write that is about to be sent and has no rival has the allowance it needs
  (`WriteCovered`): it read it or set it, and what moves the allowance of a spender is
  a write of that spender's one kind, which makes rivals of the others
  (`SpendCovered`). The rest of `AllowanceInv` says that an amount is a number all
  the way from the row that is picked to the write (`AmountsAreNat`).
- `HistoryPagesWhole`: `Reads!PageIsWhole`, for any page size. What Horizon answers is
  a window, the newest `TxLimit` transactions up to some point (`RecordsAreWindow`); a
  fetch under way has one (`HistoryInv`); and the page of a window has everything
  between its two ends (`PageOfWindow`).
- `WalkTotalsComplete`: `Reads!TotalsAreComplete`, for any page size and any number of
  invoices that come in between. The walk has what was there at its start and is by
  now on one of the pages read (`Covered`): a new invoice moves the others to later
  pages only. It stops at an empty page, at the last one by its own COUNT, when the
  invoices beyond it are at most as many as came after the COUNT (`LastPage`), or at
  its limit.
- `ReadsTypes`: typing of `PagedReads`.
- `SessionOpensByConnect`: `Wallet!OnlyConnectOpensSession`, for any number of panels,
  and `WalletTypes`, the typing it needs. Of the steps that write the store, a poll
  leaves a closed session alone.

### Only model-checked

- Everything with fairness (`EventuallyIndexed`, `WedgeIsVisible`, `RewriteHalts`,
  `EverySettled`, `EveryCallSettles`, `LoadingEnds`, `SessionFollowsFreighter`,
  `ListCatchesUp`): liveness is out of TLAPS' reach.
- `SelectionSurvives`: the selection is filtered with `SelectSeq`, and the table's
  order is a sorted sequence of a set; what either yields for every input takes an
  induction over sequences, which is out of reach too.

## 5. Not modelled

- Data whose detail no property tells apart: XDR encoding and decoding (malformed
  events act like the attestation: the poll fails at them), log payloads, metrics,
  HTTP formats, webhook envelopes and signatures, rate-limit headers, arguments
  and results of contract calls, wording of errors.
- Pure helpers without state: amounts and schemas of the SDK, formatting, parsing,
  validation and PDF layout of the web application.
- The invoice relay: its write is the SDK's protocol with one server account
  (`SorobanClient`); its HTTP handling and document storage are left out. Router,
  cache and migrations: request plumbing, and locks that are the database's. Of the
  API, PATCH is in `Listener`, `GET /invoices` in `PagedReads` and `InvoiceDesk`, login
  and subscriptions have their modules; apart from the relay, its other routes only
  read.
- Rendering, theme, focus, onboarding, simulation previews, table sorting, the
  stored filters; the CLI's one-shot reads.
- A reorganisation halt is final in `Listener`; in production the supervisor may
  restart the process. A network switch that Freighter answers after a later
  connect of the same panel has ended. The abort signal of a query, which no hook
  passes on.

## 6. Plan

Every invariant that a run checks is proved, and every action property but
`SelectionSurvives`. What would add most next is a model of the invoice relay
(`api/create_invoice.go`): its one server account is the hazard of section 1 that only
the SDK's model covers so far.
