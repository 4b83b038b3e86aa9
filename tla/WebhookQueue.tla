----------------------------- MODULE WebhookQueue ----------------------------
(***************************************************************************)
(* The webhook delivery queue: subscriptions, the webhook_deliveries rows  *)
(* the dispatcher writes, and the delivery workers (one per indexer        *)
(* process) that claim, send and settle them.                              *)
(*                                                                         *)
(* Time is kept as the ticks still to run (nextIn, lockLeft) and the ticks *)
(* an attempt has taken (age), so that it need not be bounded.  A tick is  *)
(* longer than the poll interval: an idle worker may poll at any time.     *)
(***************************************************************************)
EXTENDS Integers, FiniteSets

CONSTANTS
    Workers,       \* delivery workers (replicas, or old and new during a deploy)
    Subs,          \* subscription ids
    Events,        \* event ids
    BatchSize,     \* rows one poll claims (50)
    Concurrency,   \* attempts a worker makes in parallel (8)
    AttemptTime,   \* longest attempt: HTTP timeout, then the write of its outcome
    LockDuration,  \* how long a claim lasts
    BackoffBase,   \* backoffBase
    MaxAttempts,   \* webhook_deliveries.max_attempts (5)
    MaxStops,      \* bound: graceful shutdowns
    MaxFaults      \* bound: crashes and outcomes that could not be written

ASSUME QueueAssumption ==
    /\ IsFiniteSet(Workers) /\ IsFiniteSet(Subs) /\ IsFiniteSet(Events)
    /\ BatchSize \in Nat \ {0}
    /\ Concurrency \in Nat \ {0}
    /\ AttemptTime \in Nat
    /\ LockDuration \in Nat \ {0}
    /\ MaxAttempts \in Nat \ {0}
    /\ MaxStops \in Nat
    /\ MaxFaults \in Nat
    /\ \A n \in 1..MaxAttempts : BackoffBase * 2^n \in Nat

Deliveries == Subs \X Events

VARIABLES
    subs,      \* webhook_subscriptions: "none", "active" or "deleted"
    status,    \* webhook_deliveries.status, "absent" for no row
    attempts,  \* webhook_deliveries.attempts
    nextIn,    \* ticks until next_attempt_at
    lockLeft,  \* ticks until locked_until has passed, 0 when free
    pc,        \* "down", "idle" or "batch"
    ctxDone,   \* the worker's context is cancelled
    stage,     \* worker -> delivery -> what the worker does with it
    seen,      \* worker -> delivery -> attempts as read by the claim
    age,       \* worker -> delivery -> ticks the attempt has taken
    tries,     \* observation: attempts made under a live context
    expired,   \* observation: rows whose claim ran out in a worker's hands
    stops,     \* observation: graceful shutdowns so far
    faults     \* observation: crashes and unwritten outcomes so far

rowVars == <<status, attempts, nextIn, lockLeft>>
workVars == <<stage, seen, age>>
vars == <<subs, rowVars, pc, ctxDone, workVars, tries, expired, stops, faults>>

\* claimed: in the batch; blocked: the loop waits for a slot with it;
\* posting: in flight; cancelled: begun after the context was cancelled.
Stages == {"none", "claimed", "blocked", "posting", "cancelled"}

TypeOK ==
    /\ subs \in [Subs -> {"none", "active", "deleted"}]
    /\ status \in [Deliveries -> {"absent", "pending", "delivered", "dead_letter"}]
    /\ attempts \in [Deliveries -> Nat]
    /\ nextIn \in [Deliveries -> Nat]
    /\ lockLeft \in [Deliveries -> 0..LockDuration + 1]
    /\ pc \in [Workers -> {"down", "idle", "batch"}]
    /\ ctxDone \in [Workers -> BOOLEAN]
    /\ stage \in [Workers -> [Deliveries -> Stages]]
    /\ seen \in [Workers -> [Deliveries -> Nat]]
    /\ age \in [Workers -> [Deliveries -> 0..AttemptTime]]
    /\ tries \in [Deliveries -> Nat]
    /\ expired \subseteq Deliveries
    /\ stops \in 0..MaxStops
    /\ faults \in 0..MaxFaults

Nothing == [d \in Deliveries |-> "none"]
Zeros == [d \in Deliveries |-> 0]

Init ==
    /\ subs = [s \in Subs |-> "none"]
    /\ status = [d \in Deliveries |-> "absent"]
    /\ attempts = Zeros
    /\ nextIn = Zeros
    /\ lockLeft = Zeros
    /\ pc = [w \in Workers |-> "down"]
    /\ ctxDone = [w \in Workers |-> FALSE]
    /\ stage = [w \in Workers |-> Nothing]
    /\ seen = [w \in Workers |-> Zeros]
    /\ age = [w \in Workers |-> Zeros]
    /\ tries = Zeros
    /\ expired = {}
    /\ stops = 0
    /\ faults = 0

Fault == faults < MaxFaults /\ faults' = faults + 1

At(w, S) == {d \in Deliveries : stage[w][d] \in S}
Claimed(w) == At(w, {"claimed"})
Blocked(w) == At(w, {"blocked"})
InFlight(w) == At(w, {"posting", "cancelled"})
FreeSlot(w) == Cardinality(InFlight(w)) < Concurrency
Holders(d) == {w \in Workers : stage[w][d] # "none"}

-----------------------------------------------------------------------------
(***************************************************************************)
(* Subscriptions (API) and the dispatcher.                                 *)
(***************************************************************************)

Subscribe(s) ==
    /\ subs[s] = "none"
    /\ subs' = [subs EXCEPT ![s] = "active"]
    /\ UNCHANGED <<rowVars, pc, ctxDone, workVars, tries, expired, stops, faults>>

\* Deleting a subscription cascades to its rows, those in flight included.
Unsubscribe(s) ==
    /\ subs[s] = "active"
    /\ subs' = [subs EXCEPT ![s] = "deleted"]
    /\ status' = [d \in Deliveries |-> IF d[1] = s THEN "absent" ELSE status[d]]
    /\ UNCHANGED <<attempts, nextIn, lockLeft, pc, ctxDone, workVars, tries, expired, stops, faults>>

\* One row per active subscription; ON CONFLICT (subscription_id, event_id) DO NOTHING.
EnqueueDeliveries(e) ==
    /\ status' = [d \in Deliveries |->
                    IF d[2] = e /\ subs[d[1]] = "active" /\ status[d] = "absent"
                    THEN "pending" ELSE status[d]]
    /\ UNCHANGED <<subs, attempts, nextIn, lockLeft, pc, ctxDone, workVars, tries, expired, stops, faults>>

-----------------------------------------------------------------------------
(***************************************************************************)
(* A worker: Start, processBatch, deliverBatch.                            *)
(***************************************************************************)

StartWorker(w) ==
    /\ pc[w] = "down"
    /\ pc' = [pc EXCEPT ![w] = "idle"]
    /\ ctxDone' = [ctxDone EXCEPT ![w] = FALSE]
    /\ UNCHANGED <<subs, rowVars, workVars, tries, expired, stops, faults>>

\* Mutants of Claimable: the lock is not looked at; the last attempt is never made.
ClaimableUnlocked == {d \in Deliveries : status[d] = "pending" /\ nextIn[d] = 0}
ClaimableOffByOne == {d \in Deliveries : /\ status[d] = "pending"
                                         /\ nextIn[d] = 0
                                         /\ lockLeft[d] = 0
                                         /\ attempts[d] + 1 < MaxAttempts}

\* Due rows of active subscriptions that no live claim holds.
Claimable == {d \in Deliveries : /\ status[d] = "pending"
                                 /\ nextIn[d] = 0
                                 /\ lockLeft[d] = 0
                                 /\ subs[d[1]] = "active"}

\* One statement (FOR UPDATE SKIP LOCKED): claims of two workers are disjoint.
\* Claimable rows are all due; which of them LIMIT keeps is left open.
ClaimPendingDeliveries(w, S) ==
    /\ pc[w] = "idle"
    /\ S \subseteq Claimable /\ S # {}
    /\ Cardinality(S) <= BatchSize
    /\ S = Claimable \/ Cardinality(S) = BatchSize
    /\ pc' = [pc EXCEPT ![w] = "batch"]
    /\ lockLeft' = [d \in Deliveries |-> IF d \in S THEN LockDuration + 1 ELSE lockLeft[d]]
    /\ stage' = [stage EXCEPT ![w] = [d \in Deliveries |-> IF d \in S THEN "claimed" ELSE "none"]]
    /\ seen' = [seen EXCEPT ![w] = [d \in Deliveries |-> IF d \in S THEN attempts[d] ELSE 0]]
    /\ UNCHANGED <<subs, status, attempts, nextIn, ctxDone, age, tries, expired, stops, faults>>

\* The loop over the batch takes a free slot and starts the attempt.
BeginAttempt(w, d) ==
    /\ stage[w][d] = "claimed"
    /\ Blocked(w) = {}
    /\ FreeSlot(w)
    /\ stage' = [stage EXCEPT ![w][d] = "posting"]
    /\ tries' = [tries EXCEPT ![d] = @ + 1]
    /\ UNCHANGED <<subs, rowVars, pc, ctxDone, seen, age, expired, stops, faults>>

\* The loop has checked the context and blocks on the slots.
WaitForSlot(w, d) ==
    /\ stage[w][d] = "claimed"
    /\ Blocked(w) = {}
    /\ ~FreeSlot(w)
    /\ stage' = [stage EXCEPT ![w][d] = "blocked"]
    /\ UNCHANGED <<subs, rowVars, pc, ctxDone, seen, age, tries, expired, stops, faults>>

\* A slot is free again; the context is not checked a second time.
BeginBlocked(w, d) ==
    /\ stage[w][d] = "blocked"
    /\ FreeSlot(w)
    /\ stage' = [stage EXCEPT ![w][d] = IF ctxDone[w] THEN "cancelled" ELSE "posting"]
    /\ tries' = IF ctxDone[w] THEN tries ELSE [tries EXCEPT ![d] = @ + 1]
    /\ UNCHANGED <<subs, rowVars, pc, ctxDone, seen, age, expired, stops, faults>>

\* The attempt is over: the worker forgets it and its slot is free.
Release(w, d) ==
    /\ stage' = [stage EXCEPT ![w][d] = "none"]
    /\ seen' = [seen EXCEPT ![w][d] = 0]
    /\ age' = [age EXCEPT ![w][d] = 0]

\* An update by id: a row that was deleted meanwhile is left deleted.
SetStatus(d, st) == status' = [status EXCEPT ![d] = IF @ = "absent" THEN @ ELSE st]

MarkDeliverySuccess(d) ==
    /\ SetStatus(d, "delivered")
    /\ attempts' = [attempts EXCEPT ![d] = @ + 1]
    /\ lockLeft' = [lockLeft EXCEPT ![d] = 0]
    /\ UNCHANGED nextIn

MarkDeliveryRetry(d, delay) ==
    /\ SetStatus(d, IF attempts[d] + 1 >= MaxAttempts THEN "dead_letter" ELSE "pending")
    /\ attempts' = [attempts EXCEPT ![d] = @ + 1]
    /\ nextIn' = [nextIn EXCEPT ![d] = IF attempts[d] + 1 >= MaxAttempts THEN @ ELSE delay]
    /\ lockLeft' = [lockLeft EXCEPT ![d] = 0]

MarkDeliveryDeadLetter(d) ==
    /\ SetStatus(d, "dead_letter")
    /\ lockLeft' = [lockLeft EXCEPT ![d] = 0]
    /\ UNCHANGED <<attempts, nextIn>>

\* The subscriber answers 2xx and the success is written.
Delivered(w, d) ==
    /\ stage[w][d] = "posting"
    /\ MarkDeliverySuccess(d)
    /\ Release(w, d)
    /\ UNCHANGED <<subs, pc, ctxDone, tries, expired, stops, faults>>

\* Mutant of handleFailure: gives up one attempt early.
handleFailureEarly(w, d) ==
    IF seen[w][d] + 2 >= MaxAttempts THEN MarkDeliveryDeadLetter(d)
    ELSE MarkDeliveryRetry(d, BackoffBase * 2^(seen[w][d] + 1))

\* The attempt count is the one the claim read.
handleFailure(w, d) ==
    IF seen[w][d] + 1 >= MaxAttempts THEN MarkDeliveryDeadLetter(d)
    ELSE MarkDeliveryRetry(d, BackoffBase * 2^(seen[w][d] + 1))

\* Unsafe URL, transport error, cancelled context or a non-2xx answer.
Failed(w, d) ==
    /\ stage[w][d] \in {"posting", "cancelled"}
    /\ handleFailure(w, d)
    /\ Release(w, d)
    /\ UNCHANGED <<subs, pc, ctxDone, tries, expired, stops, faults>>

\* The outcome, whatever it was, cannot be written: it is only logged.
Unrecorded(w, d) ==
    /\ stage[w][d] \in {"posting", "cancelled"}
    /\ Fault
    /\ Release(w, d)
    /\ UNCHANGED <<subs, rowVars, pc, ctxDone, tries, expired, stops>>

\* wg.Wait returns; the loop polls again, or ends if the context is done.
FinishBatch(w) ==
    /\ pc[w] = "batch"
    /\ stage[w] = Nothing
    /\ pc' = [pc EXCEPT ![w] = IF ctxDone[w] THEN "down" ELSE "idle"]
    /\ UNCHANGED <<subs, rowVars, ctxDone, workVars, tries, expired, stops, faults>>

\* The process is asked to stop: an idle worker ends, a batch starts no more attempts.
Stop(w) ==
    /\ pc[w] # "down" /\ ~ctxDone[w]
    /\ stops < MaxStops /\ stops' = stops + 1
    /\ pc' = [pc EXCEPT ![w] = IF @ = "idle" THEN "down" ELSE @]
    /\ ctxDone' = [ctxDone EXCEPT ![w] = TRUE]
    /\ stage' = [stage EXCEPT ![w] = [d \in Deliveries |-> IF @[d] = "claimed" THEN "none" ELSE @[d]]]
    /\ seen' = [seen EXCEPT ![w] = [d \in Deliveries |-> IF stage[w][d] = "claimed" THEN 0 ELSE @[d]]]
    /\ UNCHANGED <<subs, rowVars, age, tries, expired, faults>>

Crash(w) ==
    /\ pc[w] # "down"
    /\ Fault
    /\ pc' = [pc EXCEPT ![w] = "down"]
    /\ stage' = [stage EXCEPT ![w] = Nothing]
    /\ seen' = [seen EXCEPT ![w] = Zeros]
    /\ age' = [age EXCEPT ![w] = Zeros]
    /\ UNCHANGED <<subs, rowVars, ctxDone, tries, expired, stops>>

-----------------------------------------------------------------------------
(***************************************************************************)
(* Time.  An attempt ends within AttemptTime and a free slot is taken      *)
(* within the tick in which it is free.                                    *)
(***************************************************************************)
Less1(n) == IF n = 0 THEN 0 ELSE n - 1

MayTick ==
    \A w \in Workers :
        /\ \A d \in InFlight(w) : age[w][d] < AttemptTime
        /\ Claimed(w) \cup Blocked(w) # {} => ~FreeSlot(w)

Tick ==
    /\ MayTick
    /\ nextIn' = [d \in Deliveries |-> Less1(nextIn[d])]
    /\ lockLeft' = [d \in Deliveries |-> Less1(lockLeft[d])]
    /\ age' = [w \in Workers |-> [d \in Deliveries |->
                  IF d \in InFlight(w) THEN age[w][d] + 1 ELSE age[w][d]]]
    /\ expired' = expired \cup {d \in Deliveries : lockLeft[d] <= 1 /\ Holders(d) # {}}
    /\ UNCHANGED <<subs, status, attempts, pc, ctxDone, stage, seen, tries, stops, faults>>

-----------------------------------------------------------------------------
\* What a worker does when nothing fails.
WorkerStep(w) ==
    \/ StartWorker(w)
    \/ \E S \in SUBSET Claimable : ClaimPendingDeliveries(w, S)
    \/ \E d \in Deliveries : \/ BeginAttempt(w, d)
                             \/ WaitForSlot(w, d)
                             \/ BeginBlocked(w, d)
                             \/ Delivered(w, d)
                             \/ Failed(w, d)
    \/ FinishBatch(w)

Next ==
    \/ \E s \in Subs : Subscribe(s) \/ Unsubscribe(s)
    \/ \E e \in Events : EnqueueDeliveries(e)
    \/ \E w \in Workers : WorkerStep(w) \/ Stop(w) \/ Crash(w)
    \/ \E w \in Workers, d \in Deliveries : Unrecorded(w, d)
    \/ Tick

Spec == Init /\ [][Next]_vars

\* Workers are restarted and keep polling; time passes.
Fairness == WF_vars(Tick) /\ \A w \in Workers : WF_vars(WorkerStep(w))

FairSpec == Spec /\ Fairness

-----------------------------------------------------------------------------
(***************************************************************************)
(* Properties                                                              *)
(***************************************************************************)

\* Two workers attempt the same row at the same time only if a claim on that row ran
\* out in a worker's hands before, whoever crashes, stops or fails to record.
NoConcurrentAttempts ==
    \A v, w \in Workers : v # w => InFlight(v) \cap InFlight(w) \subseteq expired

\* A settled row stays settled: no late outcome of another attempt reopens or relabels
\* it (the Mark queries do not check the status), unless a claim on it ran out in a
\* worker's hands; and even then a dead-lettered row is never queued again.
SettledIsFinal ==
    [][\A d \in Deliveries :
          status[d] \in {"delivered", "dead_letter"} /\ status'[d] \notin {status[d], "absent"}
              => d \in expired /\ ~(status[d] = "dead_letter" /\ status'[d] = "pending")]_vars

\* A row is sent at most MaxAttempts times, plus once for every crash or unrecorded
\* outcome, plus, once a claim on it ran out, one attempt of every other worker.
AttemptsBounded ==
    \A d \in Deliveries :
        tries[d] <= MaxAttempts + faults + (IF d \in expired THEN Cardinality(Workers) - 1 ELSE 0)

\* A delivery is dead-lettered only after MaxAttempts attempts, short only of those
\* a shutdown cancelled (one each), and the row then shows one attempt fewer
\* (docs/webhooks.md), or more when a claim on it ran out.
DeadLetterExhausted ==
    \A d \in Deliveries :
        status[d] = "dead_letter" =>
            /\ tries[d] + stops >= MaxAttempts
            /\ attempts[d] >= MaxAttempts - 1
            /\ attempts[d] > MaxAttempts - 1 => d \in expired

\* The number of attempts is the configured one from both sides.
AttemptsAsConfigured == AttemptsBounded /\ DeadLetterExhausted

\* No delivery is lost: every pending row is eventually delivered or
\* dead-lettered, unless its subscription is deleted.
EverySettled ==
    \A d \in Deliveries : status[d] = "pending" ~> status[d] # "pending"
=============================================================================
