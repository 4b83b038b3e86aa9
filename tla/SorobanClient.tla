---------------------------- MODULE SorobanClient ----------------------------
(***************************************************************************)
(* BaseContractClient of the TypeScript SDK (packages/sdk/src/base.ts):    *)
(* readContract, simulateTransaction and writeContract, run concurrently   *)
(* against a Soroban RPC server that may lose requests and answers, be     *)
(* congested, lag behind the ledger, and drop what it queued.              *)
(*                                                                         *)
(* A call is a sequence of awaits.  One action is one attempt of one       *)
(* awaited request with what the code does with its answer.  Requests that *)
(* only read are one step: the answer is used at the next step, by when it *)
(* may be stale.  sendTransaction is the one request whose loss matters,   *)
(* and may reach the server after the client has given it up.              *)
(***************************************************************************)
EXTENDS ContractMethods, Integers

CONSTANTS
    Calls,               \* calls of the SDK's methods, each made once
    Accounts,            \* Stellar accounts that sign
    Requests,            \* the <<kind, method>> pairs a call may be for
    MaxAttempts,         \* withRetry's attempts (3)
    MaxBroadcasts,       \* MutationRetryPolicy.maxAttempts (3)
    MaxPolls,            \* MAX_TRANSACTION_POLL_ATTEMPTS (30)
    TimeBound            \* setTimeout(30), in ticks of the model's clock

ASSUME BoundsPositive ==
    /\ MaxAttempts \in Nat \ {0}
    /\ MaxBroadcasts \in Nat
    /\ MaxPolls \in Nat \ {0}
    /\ TimeBound \in Nat \ {0}

ASSUME RequestsAreMethods ==
    \A r \in Requests :
        /\ r[2] \in Methods
        /\ r[1] \in {Method[r[2]].kind, "simulate"}

VARIABLES
    pc,        \* pc[c]: the await the call is at
    req,       \* req[c]: <<kind, method, account>> of the call
    attempt,   \* attempt[c]: attempts made of the current request
    polls,     \* polls[c]: getTransaction answers seen
    seq,       \* seq[c]: sequence number of the transaction c built
    life,      \* life[c]: ticks until the transaction c built expires
    tx,        \* tx[c]: the call that first built this very transaction
    sub,       \* sub[c]: what became of c's own submission
    out,       \* out[c]: what the promise settled with
    fate,      \* fate[c]: the network's view of transaction c
    seqNum,    \* seqNum[a]: the account's sequence number on the ledger
    status     \* on-chain status of the one invoice

client == <<pc, req, attempt, polls, seq, life, tx, out>>
vars == <<pc, req, attempt, polls, seq, life, tx, sub, out, fate, seqNum, status>>

NoReq == <<"none", "none", "none">>

Kind(c) == req[c][1]
MethodOf(c) == req[c][2]
Account(c) == req[c][3]

\* The errors of base.ts that leave the transaction certainly unapplied, and
\* those after which it may still be.
Failures == {"SimulationError", "MissingReturnValueError", "TransactionSendError",
             "TransactionTryAgainLaterError", "TransactionFailedError", "rejected"}
Unknowns == {"TransactionTimeoutError", "NetworkError", "RequestError"}

TypeOK ==
    /\ pc \in [Calls -> {"idle", "account", "simulate", "prepare", "sign", "send",
                         "sent", "poll", "done"}]
    /\ req \in [Calls -> {NoReq} \cup {<<r[1], r[2], a>> : r \in Requests, a \in Accounts}]
    /\ attempt \in [Calls -> 0 .. (IF MaxAttempts > MaxBroadcasts THEN MaxAttempts
                                   ELSE MaxBroadcasts)]
    /\ polls \in [Calls -> 0 .. MaxPolls]
    /\ seq \in [Calls -> Nat]
    /\ life \in [Calls -> 0 .. TimeBound]
    /\ tx \in [Calls -> Calls]
    /\ sub \in [Calls -> {"none", "flying", "accepted", "busy", "refused"}]
    /\ out \in [Calls -> {"none", "ok"} \cup Failures \cup Unknowns]
    /\ fate \in [Calls -> {"none", "queued", "success", "failed", "dropped"}]
    /\ seqNum \in [Accounts -> Nat]
    /\ status \in ChainStatus

Init ==
    /\ pc = [c \in Calls |-> "idle"]
    /\ req = [c \in Calls |-> NoReq]
    /\ attempt = [c \in Calls |-> 0]
    /\ polls = [c \in Calls |-> 0]
    /\ seq = [c \in Calls |-> 0]
    /\ life = [c \in Calls |-> 0]
    /\ tx = [c \in Calls |-> c]
    /\ sub = [c \in Calls |-> "none"]
    /\ out = [c \in Calls |-> "none"]
    /\ fate = [c \in Calls |-> "none"]
    /\ seqNum = [a \in Accounts |-> 0]
    /\ status \in {Method[r[2]].to : r \in Requests} \cup UNION {Method[r[2]].from : r \in Requests}

-----------------------------------------------------------------------------
(* Control of one call.                                                    *)

\* The promise settles with o.
Settle(c, o) ==
    /\ pc' = [pc EXCEPT ![c] = "done"]
    /\ out' = [out EXCEPT ![c] = o]
    /\ attempt' = [attempt EXCEPT ![c] = 0]

\* The awaited request was answered and the code goes on to the next await.
Proceed(c, to) ==
    /\ pc' = [pc EXCEPT ![c] = to]
    /\ attempt' = [attempt EXCEPT ![c] = 0]
    /\ UNCHANGED out

\* withRetry: a network-shaped error is tried again after a pause until the
\* attempts are used up, then thrown; any other is thrown at once.
withRetry(c) ==
    \/ /\ attempt[c] + 1 < MaxAttempts
       /\ attempt' = [attempt EXCEPT ![c] = @ + 1]
       /\ UNCHANGED <<pc, out>>
    \/ attempt[c] + 1 = MaxAttempts /\ Settle(c, "NetworkError")
    \/ Settle(c, "RequestError")

\* A client method is called: the arguments are encoded and readContract,
\* simulateTransaction or writeContract starts with getAccount.
Begin(c) ==
    /\ pc[c] = "idle"
    /\ \E r \in Requests, a \in Accounts : req' = [req EXCEPT ![c] = <<r[1], r[2], a>>]
    /\ Proceed(c, "account")
    /\ UNCHANGED <<polls, seq, life, tx, sub, fate, seqNum, status>>

\* Two calls of one account for the same method and arguments that read the
\* same sequence number within the same second build the same transaction.
TwinsOf(c) ==
    {d \in Calls \ {c} : /\ req[d] = req[c]
                         /\ Kind(d) = "write"
                         /\ seq[d] = seqNum[Account(c)] + 1
                         /\ life[d] = TimeBound}

\* getAccount is answered with the ledger's sequence number and the
\* transaction is built with it and with its time bound.
ReadAccount(c) ==
    /\ pc[c] = "account"
    /\ \/ /\ seq' = [seq EXCEPT ![c] = seqNum[Account(c)] + 1]
          /\ life' = [life EXCEPT ![c] = TimeBound]
          /\ tx' = [tx EXCEPT ![c] = IF TwinsOf(c) = {} THEN c
                                     ELSE tx[CHOOSE d \in TwinsOf(c) : TRUE]]
          /\ Proceed(c, "simulate")
       \/ /\ withRetry(c)
          /\ UNCHANGED <<seq, life, tx>>
    /\ UNCHANGED <<req, polls, sub, fate, seqNum, status>>

\* simulateTransaction runs the method on the ledger as it stands.  It may
\* refuse what the status allows (a balance, a role); it never accepts what
\* the status forbids.
Simulate(c) ==
    /\ pc[c] = "simulate"
    /\ \/ /\ Accepts(MethodOf(c), status)
          /\ IF Kind(c) = "write" THEN Proceed(c, "prepare") ELSE Settle(c, "ok")
       \/ Settle(c, "SimulationError")
       \/ Kind(c) = "read" /\ Settle(c, "MissingReturnValueError")
       \/ withRetry(c)
    /\ UNCHANGED <<req, polls, seq, life, tx, sub, fate, seqNum, status>>

\* prepareTransaction simulates once more and throws when that fails.
Prepare(c) ==
    /\ pc[c] = "prepare"
    /\ \/ Accepts(MethodOf(c), status) /\ Proceed(c, "sign")
       \/ Settle(c, "SimulationError")
       \/ withRetry(c)
    /\ UNCHANGED <<req, polls, seq, life, tx, sub, fate, seqNum, status>>

\* The wallet's prompt: signed, or refused.
Sign(c) ==
    /\ pc[c] = "sign"
    /\ Proceed(c, "send") \/ Settle(c, "rejected")
    /\ UNCHANGED <<req, polls, seq, life, tx, sub, fate, seqNum, status>>

-----------------------------------------------------------------------------
(* The RPC server (external) as base.ts and its comments use it.           *)

OthersQueued(c) ==
    \E d \in Calls : /\ fate[d] = "queued" /\ d # tx[c] /\ Account(d) = Account(c)

\* Sequence number and time bound still admit the transaction c built.
Admissible(c) == seq[c] = seqNum[Account(c)] + 1 /\ life[c] > 0

\* PENDING: the transaction is queued.  DUPLICATE: this very transaction is
\* queued already.
Queued(c) ==
    \/ /\ fate[tx[c]] = "none" /\ Admissible(c) /\ ~OthersQueued(c)
       /\ fate' = [fate EXCEPT ![tx[c]] = "queued"]
    \/ /\ fate[tx[c]] = "queued"
       /\ UNCHANGED fate

\* A sendTransaction request reaches the server, perhaps after the client gave
\* it up: accepted, answered TRY_AGAIN_LATER (congestion, or another
\* transaction of the account is queued; nothing was queued) or ERROR.
ServerReceives(c) ==
    /\ sub[c] = "flying"
    /\ \/ /\ Queued(c)
          /\ sub' = [sub EXCEPT ![c] = "accepted"]
       \/ /\ fate[tx[c]] # "queued"
          /\ sub' \in {[sub EXCEPT ![c] = a] : a \in {"busy", "refused"}}
          /\ UNCHANGED fate
    /\ UNCHANGED <<client, seqNum, status>>

\* The request is lost for good.
RequestLost(c) ==
    /\ sub[c] = "flying"
    /\ pc[c] = "done"
    /\ sub' = [sub EXCEPT ![c] = "refused"]
    /\ UNCHANGED <<client, fate, seqNum, status>>

\* A ledger closes with transaction r: it takes the account's next sequence
\* number, and takes effect or fails.
ApplyTx(r) ==
    /\ fate[r] = "queued"
    /\ Admissible(r)
    /\ seqNum' = [seqNum EXCEPT ![Account(r)] = @ + 1]
    /\ \/ /\ Accepts(MethodOf(r), status)
          /\ fate' = [fate EXCEPT ![r] = "success"]
          /\ status' = After(MethodOf(r), status)
       \/ /\ fate' = [fate EXCEPT ![r] = "failed"]
          /\ UNCHANGED status
    /\ UNCHANGED <<client, sub>>

\* The queue forgets r: evicted, or past its time bound.
DropTx(r) ==
    /\ fate[r] = "queued"
    /\ fate' = [fate EXCEPT ![r] = "dropped"]
    /\ UNCHANGED <<client, sub, seqNum, status>>

Tick ==
    /\ \E c \in Calls : life[c] > 0
    /\ life' = [c \in Calls |-> IF life[c] > 0 THEN life[c] - 1 ELSE 0]
    /\ UNCHANGED <<pc, req, attempt, polls, seq, tx, sub, out, fate, seqNum, status>>

-----------------------------------------------------------------------------
(* broadcast and the confirmation loop.                                    *)

SendTransaction(c) ==
    /\ pc[c] = "send"
    /\ pc' = [pc EXCEPT ![c] = "sent"]
    /\ sub' = [sub EXCEPT ![c] = "flying"]
    /\ UNCHANGED <<req, attempt, polls, seq, life, tx, out, fate, seqNum, status>>

\* TRY_AGAIN_LATER is sent again until the policy's attempts, at least one,
\* are used up.
TryAgainLater(c) ==
    /\ sub[c] = "busy"
    /\ sub' = [sub EXCEPT ![c] = "none"]
    /\ IF attempt[c] + 1 < MaxBroadcasts
       THEN /\ attempt' = [attempt EXCEPT ![c] = @ + 1]
            /\ pc' = [pc EXCEPT ![c] = "send"]
            /\ UNCHANGED out
       ELSE Settle(c, "TransactionTryAgainLaterError")

\* MUTANT: sendTransaction is wrapped in withRetry like the other requests.
TransportErrorRetried(c) ==
    /\ IF attempt[c] + 1 < MaxAttempts
       THEN /\ attempt' = [attempt EXCEPT ![c] = @ + 1]
            /\ pc' = [pc EXCEPT ![c] = "send"]
            /\ UNCHANGED out
       ELSE Settle(c, "NetworkError")
    /\ UNCHANGED sub

\* A transport error is thrown to the caller, whatever became of the request.
TransportError(c) == Settle(c, "NetworkError") /\ UNCHANGED sub

SendAnswered(c) ==
    /\ pc[c] = "sent"
    /\ \/ sub[c] = "accepted" /\ Proceed(c, "poll") /\ UNCHANGED sub
       \/ TryAgainLater(c)
       \/ sub[c] = "refused" /\ Settle(c, "TransactionSendError") /\ UNCHANGED sub
       \/ TransportError(c)
    /\ UNCHANGED <<req, polls, seq, life, tx, fate, seqNum, status>>

\* MUTANT: the loop's end is not told from success.
NotFoundSucceeds(c) ==
    /\ polls' = [polls EXCEPT ![c] = @ + 1]
    /\ IF polls[c] + 1 < MaxPolls THEN Proceed(c, "poll") ELSE Settle(c, "ok")

\* MUTANT: the loop's end is reported as the transaction's failure.
NotFoundFails(c) ==
    /\ polls' = [polls EXCEPT ![c] = @ + 1]
    /\ IF polls[c] + 1 < MaxPolls THEN Proceed(c, "poll")
       ELSE Settle(c, "TransactionFailedError")

\* MUTANT: the attempts of the confirmation loop are not counted.
NotFoundUnbounded(c) ==
    /\ Proceed(c, "poll")
    /\ UNCHANGED polls

\* NOT_FOUND: queued, dropped, or applied and not yet known to this server.
NotFound(c) ==
    /\ polls' = [polls EXCEPT ![c] = @ + 1]
    /\ IF polls[c] + 1 < MaxPolls THEN Proceed(c, "poll")
       ELSE Settle(c, "TransactionTimeoutError")

GetTransaction(c) ==
    /\ pc[c] = "poll"
    /\ \/ fate[tx[c]] = "success" /\ Settle(c, "ok") /\ UNCHANGED polls
       \/ fate[tx[c]] = "failed" /\ Settle(c, "TransactionFailedError") /\ UNCHANGED polls
       \/ NotFound(c)
       \/ withRetry(c) /\ UNCHANGED polls
    /\ UNCHANGED <<req, seq, life, tx, sub, fate, seqNum, status>>

-----------------------------------------------------------------------------
\* What the caller's code does by itself once a method was called.
Step(c) == ReadAccount(c) \/ Simulate(c) \/ Prepare(c) \/ SendTransaction(c)
             \/ SendAnswered(c) \/ GetTransaction(c)

Network == \E c \in Calls : \/ ServerReceives(c) \/ RequestLost(c)
                            \/ ApplyTx(c) \/ DropTx(c)

AllSettled ==
    /\ \A c \in Calls : pc[c] = "done" /\ fate[c] # "queued" /\ sub[c] # "flying"
    /\ \A c \in Calls : life[c] = 0
    /\ UNCHANGED vars

Next ==
    \/ \E c \in Calls : Begin(c) \/ Step(c) \/ Sign(c)
    \/ Network
    \/ Tick
    \/ AllSettled

Spec == Init /\ [][Next]_vars

\* Timers and the event loop run, every request is answered or fails, time
\* passes and a queued transaction is decided.  Nothing makes the user sign.
FairSpec ==
    /\ Spec
    /\ \A c \in Calls : WF_vars(Step(c))
    /\ \A c \in Calls : WF_vars(ApplyTx(c) \/ DropTx(c))
    /\ WF_vars(Tick)

-----------------------------------------------------------------------------
(* The SDK keeps the promise of ContractWrite.                             *)

\* What an outcome tells the caller of a write.
Report(o) ==
    IF o = "none" THEN "running"
    ELSE IF o = "ok" THEN "ok"
    ELSE IF o \in Failures THEN "failed" ELSE "unknown"

PhaseOf(c) == IF Kind(c) = "write" THEN Report(out[c]) ELSE "idle"

\* What the ledger did with a transaction the network accepted.
Outcome(f) ==
    IF f = "success" THEN "applied"
    ELSE IF f \in {"failed", "dropped"} THEN "void" ELSE "open"

EffectOf(c) == IF sub[c] = "accepted" THEN Outcome(fate[tx[c]]) ELSE "none"

Promise == INSTANCE ContractWrite WITH
    phase <- [c \in Calls |-> PhaseOf(c)],
    effect <- [c \in Calls |-> EffectOf(c)]

\* Reads and simulations have no effect; a write takes effect at most once; it
\* is reported done only when it is on the ledger and failed only when it never
\* will be.  base.ts:305-396: the answers of broadcast and of the confirmation
\* loop, through lost answers, late arrivals, twins and stale simulations.
KeepsPromise == Promise!Spec

\* "re-submitting the same XDR would risk a duplicate funding or repayment":
\* whenever the signed transaction is about to be sent, again or for the first
\* time, no earlier submission of this call is in the network's hands.
\* base.ts:366-396.
NeverSentTwice ==
    \A c \in Calls : pc[c] = "send" => sub[c] = "none"

\* Two writes that both succeed from the same edge of the invoice's lifecycle
\* were one transaction: the second of two rival fundings or repayments is
\* refused by the ledger however stale its simulation was.
RivalsShareOneTransaction ==
    \A c, d \in Calls :
        /\ out[c] = "ok" /\ out[d] = "ok"
        /\ Kind(c) = "write" /\ Kind(d) = "write"
        /\ MethodOf(c) = MethodOf(d) /\ Method[MethodOf(c)].from # {}
        => tx[c] = tx[d]

\* A promise always settles unless it waits for the wallet: withRetry, the
\* broadcast loop and the confirmation loop are bounded (base.ts:219-240,
\* 378-390, 335-349).
EveryCallSettles ==
    \A c \in Calls :
        (pc[c] \notin {"idle", "sign"}) ~> (pc[c] \in {"sign", "done"})
=============================================================================
