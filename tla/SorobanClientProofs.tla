------------------------ MODULE SorobanClientProofs ------------------------
(***************************************************************************)
(* What the SDK's calls keep true for any number of concurrent calls,      *)
(* accounts, attempts and polls: a signed transaction is never sent while  *)
(* an earlier submission of it may be in the network's hands, rival writes *)
(* along one edge of the lifecycle are one transaction, and every step is  *)
(* a step, or none, of the promise of ContractWrite.                       *)
(*                                                                         *)
(* None of these is inductive by itself.  Inv relates where a call stands  *)
(* to what the network has of it, transactions to the calls that share     *)
(* them, and the status of the invoice to the edges that were taken.       *)
(***************************************************************************)
EXTENDS SorobanClient, TLAPS

\* Every edge of the lifecycle leads to a status of higher rank, so no edge is
\* taken twice.
Rank == [None |-> 0, Created |-> 1, Attested |-> 2, Listed |-> 3, Funded |-> 4,
         Active |-> 5, Confirmed |-> 6, Repaid |-> 7, Defaulted |-> 7]

\* The awaits of a call that has nothing in the network's hands.
Before == {"idle", "account", "simulate", "prepare", "sign", "send"}

\* polls stays in its type because the loop ends at MaxPolls.
PollsLeft == \A c \in Calls : pc[c] # "done" => polls[c] < MaxPolls

\* Where a call stands agrees with what it asked and how it ended.
ControlInv ==
    \A c \in Calls :
        /\ pc[c] = "done" <=> out[c] # "none"
        /\ pc[c] = "idle" <=> req[c] = NoReq
        /\ pc[c] = "idle" => tx[c] = c
        /\ pc[c] \in {"prepare", "sign", "send", "sent", "poll"} => Kind(c) = "write"

\* Where a call stands agrees with what the network has of it.
SubmissionInv ==
    \A c \in Calls :
        /\ pc[c] \in Before => sub[c] = "none"
        /\ pc[c] = "poll" => sub[c] = "accepted"
        /\ sub[c] = "flying" => Kind(c) = "write" /\ (pc[c] = "sent" \/ out[c] = "NetworkError")
        /\ sub[c] = "accepted" => fate[tx[c]] # "none"

\* A transaction is shared only by identical calls.
TwinInv ==
    \A c \in Calls :
        /\ req[tx[c]] = req[c]
        /\ fate[c] # "none" => req[c] # NoReq
        /\ out[c] = "ok" /\ Kind(c) = "write" => fate[tx[c]] = "success"

\* c's transaction took an edge of the lifecycle.
Moved(c) == fate[c] = "success" /\ Method[MethodOf(c)].from # {}

\* The status is past every edge that was taken, and each was taken once.
LedgerInv ==
    /\ \A c \in Calls : Moved(c) => Rank[Method[MethodOf(c)].to] <= Rank[status]
    /\ \A c, d \in Calls : Moved(c) /\ Moved(d) /\ MethodOf(c) = MethodOf(d) => c = d

Inv == TypeOK /\ PollsLeft /\ ControlInv /\ SubmissionInv /\ TwinInv /\ LedgerInv

-----------------------------------------------------------------------------
(* The method table.                                                       *)

\* A method reads or writes, and where it names an edge of the lifecycle the
\* edge leads forward.
Forward(m) ==
    /\ m.kind \in {"read", "write"}
    /\ m.to \in ChainStatus
    /\ m.from \subseteq ChainStatus
    /\ \A s \in m.from : Rank[s] < Rank[m.to]

LEMMA RankType == \A s \in ChainStatus : Rank[s] \in Nat
  BY DEF Rank, ChainStatus

LEMMA ReadForward == Forward(Read)
  BY DEF Forward, Read, ChainStatus

LEMMA WriteForward ==
  ASSUME NEW r, NEW w PROVE Forward(Write(r, w))
  BY DEF Forward, Write, ChainStatus

LEMMA EdgeForward ==
  ASSUME NEW r, NEW w, NEW f \in SUBSET ChainStatus, NEW t \in ChainStatus,
         \A s \in f : Rank[s] < Rank[t]
  PROVE  Forward(Edge(r, w, f, t))
  BY DEF Forward, Edge

LEMMA ClientsForward ==
  ASSUME NEW p \in Clients, NEW m \in DOMAIN p
  PROVE  Forward(p[m])
<1>1. CASE p = InvoiceClientWrites
  <2>1. /\ Forward(Write("hash", {"admin"}))
        /\ Forward(Write("hash", {"issuer"}))
        /\ Forward(Edge("hash", {"anyone"}, {"Created"}, "Attested"))
    BY WriteForward, EdgeForward DEF Rank, ChainStatus
  <2> QED  BY <1>1, <2>1 DEF InvoiceClientWrites
<1>2. CASE p = InvoiceClientLifecycle
  <2>1. /\ Forward(Edge("true", {"issuer"}, {"Attested"}, "Listed"))
        /\ Forward(Edge("true", {"issuer"}, {"Funded"}, "Active"))
        /\ Forward(Edge("true", {"buyer", "issuer"}, {"Active"}, "Confirmed"))
        /\ Forward(Edge("true", {"buyer"}, {"Confirmed"}, "Repaid"))
        /\ Forward(Edge("true", {"admin"}, {"Funded", "Active", "Confirmed"}, "Defaulted"))
    BY EdgeForward DEF Rank, ChainStatus
  <2> QED  BY <1>2, <2>1 DEF InvoiceClientLifecycle
<1>3. CASE p \in {InvoiceClientReads, PoolClientReads, AgentRegistryClient}
  BY <1>3, ReadForward DEF InvoiceClientReads, PoolClientReads, AgentRegistryClient
<1>4. CASE p = PoolClient
  <2>1. Forward(Edge("true", {"lp"}, {"Listed"}, "Funded"))
    BY EdgeForward DEF Rank, ChainStatus
  <2> QED  BY <1>4, <2>1, WriteForward DEF PoolClient
<1>5. CASE p \in {EscrowClient, RegistryClient, TokenClient}
  BY <1>5, ReadForward, WriteForward DEF EscrowClient, RegistryClient, TokenClient
<1> QED
  BY <1>1, <1>2, <1>3, <1>4, <1>5 DEF Clients

LEMMA MethodForward == \A m \in Methods : Forward(Method[m])
<1> SUFFICES ASSUME NEW m \in Methods PROVE Forward(Method[m])
  OBVIOUS
<1>1. \E p \in Clients : m \in DOMAIN p
  BY DEF Methods, Method, Merge
<1> DEFINE q == CHOOSE p \in Clients : m \in DOMAIN p
<1>2. q \in Clients /\ m \in DOMAIN q
  BY <1>1
<1>3. Method[m] = q[m]
  BY <1>1 DEF Method, Merge
<1> QED
  BY <1>2, <1>3, ClientsForward

-----------------------------------------------------------------------------
(* Initial states and types.                                               *)

\* A call that was made has a request of the table.
LEMMA AskedType ==
  ASSUME TypeOK, NEW c \in Calls
  PROVE  /\ req[c] = NoReq => Kind(c) = "none"
         /\ req[c] # NoReq => /\ Kind(c) \in {"read", "write", "simulate"}
                              /\ MethodOf(c) \in Methods
                              /\ Account(c) \in Accounts
<1>1. req[c] \in {NoReq} \cup {<<r[1], r[2], a>> : r \in Requests, a \in Accounts}
  BY DEF TypeOK
<1>2. CASE req[c] # NoReq
  <2> PICK r \in Requests, a \in Accounts : req[c] = <<r[1], r[2], a>>
    BY <1>1, <1>2
  <2>1. r[2] \in Methods /\ r[1] \in {"read", "write", "simulate"}
    BY RequestsAreMethods, MethodForward DEF Forward
  <2> QED
    BY <1>2, <2>1 DEF Kind, MethodOf, Account
<1> QED
  BY <1>2 DEF NoReq, Kind

LEMMA InitInv == Init => Inv
<1> SUFFICES ASSUME Init PROVE Inv
  OBVIOUS
<1>1. status \in ChainStatus
  <2>1. \A r \in Requests : r[2] \in Methods
    BY RequestsAreMethods
  <2> QED
    BY <2>1, MethodForward DEF Init, Forward
<1>2. TypeOK /\ PollsLeft
  BY <1>1, BoundsPositive DEF Init, TypeOK, PollsLeft
<1>3. ControlInv /\ SubmissionInv /\ TwinInv /\ LedgerInv
  BY DEF Init, ControlInv, SubmissionInv, TwinInv, LedgerInv, Moved, Kind, NoReq, Before
<1> QED
  BY <1>2, <1>3 DEF Inv

LEMMA BeginAsks ==
  ASSUME TypeOK, NEW c \in Calls, Begin(c)
  PROVE  req'[c] # NoReq
<1> PICK r \in Requests, a \in Accounts : req' = [req EXCEPT ![c] = <<r[1], r[2], a>>]
  BY DEF Begin
<1>1. r[1] \in {"read", "write", "simulate"}
  BY RequestsAreMethods, MethodForward DEF Forward
<1>2. req'[c] = <<r[1], r[2], a>>
  BY DEF TypeOK
<1> QED
  BY <1>1, <1>2 DEF NoReq

\* The transaction a call builds is its own or a twin's.
LEMMA ReadTx ==
  ASSUME TypeOK, NEW c \in Calls, ReadAccount(c)
  PROVE  \E e \in Calls : /\ tx' = [tx EXCEPT ![c] = e]
                          /\ \/ e \in {c, tx[c]}
                             \/ \E d \in Calls : req[d] = req[c] /\ e = tx[d]
<1> DEFINE d == CHOOSE d \in TwinsOf(c) : TRUE
           e == IF TwinsOf(c) = {} THEN c ELSE tx[d]
<1>1. CASE tx' = [tx EXCEPT ![c] = e]
  <2>1. TwinsOf(c) # {} => d \in Calls /\ req[d] = req[c]
    <3>1. TwinsOf(c) # {} => d \in TwinsOf(c)
      OBVIOUS
    <3> QED
      BY <3>1 DEF TwinsOf
  <2>2. /\ e \in Calls
        /\ e = c \/ \E x \in Calls : req[x] = req[c] /\ e = tx[x]
    <3>1. CASE TwinsOf(c) = {}
      BY <3>1
    <3>2. CASE TwinsOf(c) # {}
      <4>1. e = tx[d]
        BY <3>2
      <4> HIDE DEF e, d
      <4> QED
        BY <2>1, <3>2, <4>1 DEF TypeOK
    <3> QED
      BY <3>1, <3>2
  <2> HIDE DEF e
  <2> QED
    BY <1>1, <2>2
<1>2. CASE UNCHANGED tx
  BY <1>2 DEF TypeOK
<1> QED
  BY <1>1, <1>2 DEF ReadAccount

\* What Settle, Proceed and withRetry assign.
CallType ==
    /\ pc \in [Calls -> {"idle", "account", "simulate", "prepare", "sign", "send",
                         "sent", "poll", "done"}]
    /\ attempt \in [Calls -> 0 .. (IF MaxAttempts > MaxBroadcasts THEN MaxAttempts
                                   ELSE MaxBroadcasts)]
    /\ out \in [Calls -> {"none", "ok"} \cup Failures \cup Unknowns]

\* Who is done may have used up its polls; nobody else has.
CallStep == CallType' /\ \A d \in Calls : pc'[d] # "done" => pc[d] # "done"

LEMMA SettleType ==
  ASSUME TypeOK, NEW c \in Calls, NEW o \in {"ok"} \cup Failures \cup Unknowns, Settle(c, o)
  PROVE  CallStep /\ pc'[c] = "done"
  BY BoundsPositive DEF TypeOK, Settle, CallType, CallStep

LEMMA ProceedType ==
  ASSUME TypeOK, NEW c \in Calls, pc[c] # "done", Proceed(c, "account")
           \/ Proceed(c, "simulate") \/ Proceed(c, "prepare") \/ Proceed(c, "sign")
           \/ Proceed(c, "send") \/ Proceed(c, "poll")
  PROVE  CallStep
  BY BoundsPositive DEF TypeOK, Proceed, CallType, CallStep

LEMMA RetryType ==
  ASSUME TypeOK, NEW c \in Calls, withRetry(c)
  PROVE  CallStep
<1>1. CASE Settle(c, "NetworkError") \/ Settle(c, "RequestError")
  BY <1>1, SettleType DEF Unknowns
<1>2. CASE /\ attempt[c] + 1 < MaxAttempts
           /\ attempt' = [attempt EXCEPT ![c] = @ + 1]
           /\ UNCHANGED <<pc, out>>
  BY <1>2, BoundsPositive DEF TypeOK, CallType, CallStep
<1> QED
  BY <1>1, <1>2 DEF withRetry

LEMMA BroadcastType ==
  ASSUME TypeOK, NEW c \in Calls, TryAgainLater(c), pc[c] # "done"
  PROVE  CallStep
<1>1. CASE Settle(c, "TransactionTryAgainLaterError")
  BY <1>1, SettleType DEF Failures
<1>2. CASE /\ attempt[c] + 1 < MaxBroadcasts
           /\ attempt' = [attempt EXCEPT ![c] = @ + 1]
           /\ pc' = [pc EXCEPT ![c] = "send"]
           /\ UNCHANGED out
  BY <1>2, BoundsPositive DEF TypeOK, CallType, CallStep
<1> QED
  BY <1>1, <1>2 DEF TryAgainLater

LEMMA NextType ==
  ASSUME Inv, [Next]_vars
  PROVE  TypeOK' /\ PollsLeft'
<1>0. TypeOK /\ PollsLeft
  BY DEF Inv
<1>a. ASSUME NEW c \in Calls, CallStep,
             UNCHANGED <<req, polls, seq, life, tx, sub, fate, seqNum, status>>
      PROVE  TypeOK' /\ PollsLeft'
  BY <1>0, <1>a DEF CallStep, CallType, TypeOK, PollsLeft
<1>1. ASSUME NEW c \in Calls, Begin(c) PROVE TypeOK' /\ PollsLeft'
  <2>1. CallStep
    BY <1>0, <1>1, ProceedType DEF Begin
  <2>2. req' \in [Calls -> {NoReq} \cup {<<r[1], r[2], a>> : r \in Requests, a \in Accounts}]
    BY <1>0, <1>1 DEF Begin, TypeOK
  <2> QED
    BY <1>0, <1>1, <2>1, <2>2 DEF Begin, CallStep, CallType, TypeOK, PollsLeft
<1>2. ASSUME NEW c \in Calls, ReadAccount(c) PROVE TypeOK' /\ PollsLeft'
  <2>1. Account(c) \in Accounts
    BY <1>0, <1>2, AskedType DEF Inv, ControlInv, ReadAccount
  <2>2. /\ seq' \in [Calls -> Nat]
        /\ life' \in [Calls -> 0 .. TimeBound]
    BY <1>0, <1>2, <2>1, BoundsPositive DEF ReadAccount, TypeOK
  <2>3. tx' \in [Calls -> Calls]
    BY <1>0, <1>2, ReadTx DEF TypeOK
  <2>4. CallStep
    BY <1>0, <1>2, ProceedType, RetryType DEF ReadAccount
  <2> QED
    BY <1>0, <1>2, <2>2, <2>3, <2>4 DEF ReadAccount, CallStep, CallType, TypeOK, PollsLeft
<1>3. ASSUME NEW c \in Calls, Simulate(c) PROVE TypeOK' /\ PollsLeft'
  BY <1>0, <1>3, <1>a, ProceedType, SettleType, RetryType DEF Simulate, Failures
<1>4. ASSUME NEW c \in Calls, Prepare(c) PROVE TypeOK' /\ PollsLeft'
  BY <1>0, <1>4, <1>a, ProceedType, SettleType, RetryType DEF Prepare, Failures
<1>5. ASSUME NEW c \in Calls, Sign(c) PROVE TypeOK' /\ PollsLeft'
  BY <1>0, <1>5, <1>a, ProceedType, SettleType DEF Sign, Failures
<1>6. ASSUME NEW c \in Calls, SendTransaction(c) PROVE TypeOK' /\ PollsLeft'
  BY <1>0, <1>6 DEF SendTransaction, TypeOK, PollsLeft
<1>7. ASSUME NEW c \in Calls, SendAnswered(c) PROVE TypeOK' /\ PollsLeft'
  <2>1. CallStep
    BY <1>0, <1>7, ProceedType, SettleType, BroadcastType
       DEF SendAnswered, TransportError, Failures, Unknowns
  <2>2. sub' \in [Calls -> {"none", "flying", "accepted", "busy", "refused"}]
    BY <1>0, <1>7 DEF SendAnswered, TryAgainLater, TransportError, TypeOK
  <2> QED
    BY <1>0, <1>7, <2>1, <2>2 DEF SendAnswered, CallStep, CallType, TypeOK, PollsLeft
<1>8. ASSUME NEW c \in Calls, GetTransaction(c) PROVE TypeOK' /\ PollsLeft'
  <2>1. CallStep
    BY <1>0, <1>8, ProceedType, SettleType, RetryType
       DEF GetTransaction, NotFound, Failures, Unknowns
  <2>2. CASE UNCHANGED polls
    BY <1>0, <1>8, <1>a, <2>1, <2>2 DEF GetTransaction
  <2>3. CASE NotFound(c)
    <3>1. /\ polls' = [polls EXCEPT ![c] = @ + 1]
          /\ polls[c] \in Nat /\ polls[c] < MaxPolls
          /\ polls[c] + 1 < MaxPolls \/ pc'[c] = "done"
      BY <1>0, <1>8, <2>3, SettleType
         DEF GetTransaction, NotFound, Unknowns, TypeOK, PollsLeft
    <3>2. polls' \in [Calls -> 0 .. MaxPolls] /\ PollsLeft'
      BY <1>0, <2>1, <3>1, BoundsPositive DEF TypeOK, PollsLeft, CallStep
    <3> QED
      BY <1>0, <1>8, <2>1, <3>2 DEF GetTransaction, CallStep, CallType, TypeOK
  <2> QED
    BY <1>8, <2>2, <2>3 DEF GetTransaction
<1>9. ASSUME NEW c \in Calls, ServerReceives(c) PROVE TypeOK' /\ PollsLeft'
  BY <1>0, <1>9 DEF ServerReceives, Queued, client, TypeOK, PollsLeft
<1>10. ASSUME NEW c \in Calls, RequestLost(c) PROVE TypeOK' /\ PollsLeft'
  BY <1>0, <1>10 DEF RequestLost, client, TypeOK, PollsLeft
<1>11. ASSUME NEW c \in Calls, ApplyTx(c) PROVE TypeOK' /\ PollsLeft'
  <2>1. MethodOf(c) \in Methods /\ Account(c) \in Accounts
    BY <1>0, <1>11, AskedType DEF Inv, TwinInv, ApplyTx
  <2>2. status' \in ChainStatus
    BY <1>0, <1>11, <2>1, MethodForward DEF ApplyTx, After, Forward, TypeOK
  <2> QED
    BY <1>0, <1>11, <2>1, <2>2 DEF ApplyTx, client, TypeOK, PollsLeft
<1>12. ASSUME NEW c \in Calls, DropTx(c) PROVE TypeOK' /\ PollsLeft'
  BY <1>0, <1>12 DEF DropTx, client, TypeOK, PollsLeft
<1>13. CASE Tick
  BY <1>0, <1>13, BoundsPositive DEF Tick, TypeOK, PollsLeft
<1>14. CASE UNCHANGED vars
  BY <1>0, <1>14 DEF vars, TypeOK, PollsLeft
<1> QED
  BY <1>1, <1>2, <1>3, <1>4, <1>5, <1>6, <1>7, <1>8, <1>9, <1>10, <1>11, <1>12,
     <1>13, <1>14 DEF Next, Step, Network, AllSettled

-----------------------------------------------------------------------------
(* The inductive invariant.                                                *)

LEMMA NextControl ==
  ASSUME Inv, [Next]_vars
  PROVE  ControlInv'
<1> USE DEF TypeOK, ControlInv, Kind, Failures, Unknowns
<1>0. TypeOK /\ ControlInv /\ SubmissionInv /\ TwinInv
  BY DEF Inv
<1>1. ASSUME NEW c \in Calls, Begin(c) PROVE ControlInv'
  <2>1. req'[c] # NoReq
    BY <1>0, <1>1, BeginAsks
  <2> QED
    BY <1>0, <1>1, <2>1 DEF Begin, Proceed
<1>2. ASSUME NEW c \in Calls, ReadAccount(c) PROVE ControlInv'
  BY <1>0, <1>2 DEF ReadAccount, Proceed, withRetry, Settle
<1>3. ASSUME NEW c \in Calls, Simulate(c) PROVE ControlInv'
  BY <1>0, <1>3 DEF Simulate, Proceed, withRetry, Settle
<1>4. ASSUME NEW c \in Calls, Prepare(c) PROVE ControlInv'
  BY <1>0, <1>4 DEF Prepare, Proceed, withRetry, Settle
<1>5. ASSUME NEW c \in Calls, Sign(c) PROVE ControlInv'
  BY <1>0, <1>5 DEF Sign, Proceed, Settle
<1>6. ASSUME NEW c \in Calls, SendTransaction(c) PROVE ControlInv'
  BY <1>0, <1>6 DEF SendTransaction
<1>7. ASSUME NEW c \in Calls, SendAnswered(c) PROVE ControlInv'
  BY <1>0, <1>7 DEF SendAnswered, TryAgainLater, TransportError, Proceed,
                   Settle
<1>8. ASSUME NEW c \in Calls, GetTransaction(c) PROVE ControlInv'
  BY <1>0, <1>8 DEF GetTransaction, NotFound, Proceed, withRetry, Settle
<1>9. ASSUME NEW c \in Calls, ServerReceives(c) PROVE ControlInv'
  BY <1>0, <1>9 DEF ServerReceives, Queued, client
<1>10. ASSUME NEW c \in Calls, RequestLost(c) PROVE ControlInv'
  BY <1>0, <1>10 DEF RequestLost, client
<1>11. ASSUME NEW c \in Calls, ApplyTx(c) PROVE ControlInv'
  BY <1>0, <1>11 DEF ApplyTx, client
<1>12. ASSUME NEW c \in Calls, DropTx(c) PROVE ControlInv'
  BY <1>0, <1>12 DEF DropTx, client
<1>13. CASE Tick
  BY <1>0, <1>13 DEF Tick
<1>14. CASE UNCHANGED vars
  BY <1>0, <1>14 DEF vars
<1> QED
  BY <1>1, <1>2, <1>3, <1>4, <1>5, <1>6, <1>7, <1>8, <1>9, <1>10, <1>11, <1>12,
     <1>13, <1>14 DEF Next, Step, Network, AllSettled

LEMMA NextSubmission ==
  ASSUME Inv, [Next]_vars
  PROVE  SubmissionInv'
<1> USE DEF TypeOK, ControlInv, SubmissionInv, Before, Kind
<1>0. TypeOK /\ ControlInv /\ SubmissionInv /\ TwinInv
  BY DEF Inv
<1>1. ASSUME NEW c \in Calls, Begin(c) PROVE SubmissionInv'
  BY <1>0, <1>1 DEF Begin, Proceed
<1>2. ASSUME NEW c \in Calls, ReadAccount(c) PROVE SubmissionInv'
  BY <1>0, <1>2 DEF ReadAccount, Proceed, withRetry, Settle
<1>3. ASSUME NEW c \in Calls, Simulate(c) PROVE SubmissionInv'
  BY <1>0, <1>3 DEF Simulate, Proceed, withRetry, Settle
<1>4. ASSUME NEW c \in Calls, Prepare(c) PROVE SubmissionInv'
  BY <1>0, <1>4 DEF Prepare, Proceed, withRetry, Settle
<1>5. ASSUME NEW c \in Calls, Sign(c) PROVE SubmissionInv'
  BY <1>0, <1>5 DEF Sign, Proceed, Settle
<1>6. ASSUME NEW c \in Calls, SendTransaction(c) PROVE SubmissionInv'
  BY <1>0, <1>6 DEF SendTransaction
<1>7. ASSUME NEW c \in Calls, SendAnswered(c) PROVE SubmissionInv'
  BY <1>0, <1>7 DEF SendAnswered, TryAgainLater, TransportError, Proceed,
                   Settle
<1>8. ASSUME NEW c \in Calls, GetTransaction(c) PROVE SubmissionInv'
  BY <1>0, <1>8 DEF GetTransaction, NotFound, Proceed, withRetry, Settle
<1>9. ASSUME NEW c \in Calls, ServerReceives(c) PROVE SubmissionInv'
  BY <1>0, <1>9 DEF ServerReceives, Queued, client
<1>10. ASSUME NEW c \in Calls, RequestLost(c) PROVE SubmissionInv'
  BY <1>0, <1>10 DEF RequestLost, client
<1>11. ASSUME NEW c \in Calls, ApplyTx(c) PROVE SubmissionInv'
  BY <1>0, <1>11 DEF ApplyTx, client
<1>12. ASSUME NEW c \in Calls, DropTx(c) PROVE SubmissionInv'
  BY <1>0, <1>12 DEF DropTx, client
<1>13. CASE Tick
  BY <1>0, <1>13 DEF Tick
<1>14. CASE UNCHANGED vars
  BY <1>0, <1>14 DEF vars
<1> QED
  BY <1>1, <1>2, <1>3, <1>4, <1>5, <1>6, <1>7, <1>8, <1>9, <1>10, <1>11, <1>12,
     <1>13, <1>14 DEF Next, Step, Network, AllSettled

LEMMA NextTwin ==
  ASSUME Inv, [Next]_vars
  PROVE  TwinInv'
<1> USE DEF TypeOK, ControlInv, SubmissionInv, TwinInv, Kind
<1>0. TypeOK /\ ControlInv /\ SubmissionInv /\ TwinInv
  BY DEF Inv
<1>1. ASSUME NEW c \in Calls, Begin(c) PROVE TwinInv'
  BY <1>0, <1>1 DEF Begin, Proceed
<1>2. ASSUME NEW c \in Calls, ReadAccount(c) PROVE TwinInv'
  <2> PICK e \in Calls :
        /\ tx' = [tx EXCEPT ![c] = e]
        /\ e \in {c, tx[c]} \/ \E d \in Calls : req[d] = req[c] /\ e = tx[d]
    BY <1>0, <1>2, ReadTx
  <2>1. req[e] = req[c]
    BY <1>0
  <2>2. UNCHANGED <<req, fate>> /\ out'[c] # "ok" /\ \A d \in Calls \ {c} : out'[d] = out[d]
    BY <1>0, <1>2 DEF ReadAccount, Proceed, withRetry, Settle
  <2> QED
    BY <1>0, <2>1, <2>2
<1>3. ASSUME NEW c \in Calls, Simulate(c) PROVE TwinInv'
  BY <1>0, <1>3 DEF Simulate, Proceed, withRetry, Settle
<1>4. ASSUME NEW c \in Calls, Prepare(c) PROVE TwinInv'
  BY <1>0, <1>4 DEF Prepare, Proceed, withRetry, Settle
<1>5. ASSUME NEW c \in Calls, Sign(c) PROVE TwinInv'
  BY <1>0, <1>5 DEF Sign, Proceed, Settle
<1>6. ASSUME NEW c \in Calls, SendTransaction(c) PROVE TwinInv'
  BY <1>0, <1>6 DEF SendTransaction
<1>7. ASSUME NEW c \in Calls, SendAnswered(c) PROVE TwinInv'
  BY <1>0, <1>7 DEF SendAnswered, TryAgainLater, TransportError, Proceed,
                   Settle
<1>8. ASSUME NEW c \in Calls, GetTransaction(c) PROVE TwinInv'
  BY <1>0, <1>8 DEF GetTransaction, NotFound, Proceed, withRetry, Settle
<1>9. ASSUME NEW c \in Calls, ServerReceives(c) PROVE TwinInv'
  BY <1>0, <1>9 DEF ServerReceives, Queued, client
<1>10. ASSUME NEW c \in Calls, RequestLost(c) PROVE TwinInv'
  BY <1>0, <1>10 DEF RequestLost, client
<1>11. ASSUME NEW c \in Calls, ApplyTx(c) PROVE TwinInv'
  BY <1>0, <1>11 DEF ApplyTx, client
<1>12. ASSUME NEW c \in Calls, DropTx(c) PROVE TwinInv'
  BY <1>0, <1>12 DEF DropTx, client
<1>13. CASE Tick
  BY <1>0, <1>13 DEF Tick
<1>14. CASE UNCHANGED vars
  BY <1>0, <1>14 DEF vars
<1> QED
  BY <1>1, <1>2, <1>3, <1>4, <1>5, <1>6, <1>7, <1>8, <1>9, <1>10, <1>11, <1>12,
     <1>13, <1>14 DEF Next, Step, Network, AllSettled

\* Nothing but a ledger that closes makes a transaction succeed.
LEMMA OnlyApplyMoves ==
  ASSUME Inv, [Next]_vars, \A c \in Calls : ~ApplyTx(c)
  PROVE  /\ UNCHANGED status
         /\ \A d \in Calls : fate'[d] = "success" => fate[d] = "success" /\ req'[d] = req[d]
<1> DEFINE G == /\ UNCHANGED status
                /\ \A d \in Calls : fate'[d] = "success" =>
                                      fate[d] = "success" /\ req'[d] = req[d]
<1>0. TypeOK /\ ControlInv /\ TwinInv
  BY DEF Inv
<1>1. ASSUME NEW c \in Calls, Begin(c) PROVE G
  <2>1. fate[c] = "none"
    BY <1>0, <1>1 DEF Begin, ControlInv, TwinInv, TypeOK
  <2> QED
    BY <1>0, <1>1, <2>1 DEF Begin, TypeOK
<1>2. ASSUME NEW c \in Calls, Step(c) \/ Sign(c) PROVE G
  BY <1>2 DEF Step, ReadAccount, Simulate, Prepare, Sign, SendTransaction, SendAnswered,
              GetTransaction
<1>3. ASSUME NEW c \in Calls, ServerReceives(c) \/ RequestLost(c) \/ DropTx(c) PROVE G
  BY <1>0, <1>3 DEF ServerReceives, Queued, RequestLost, DropTx, client, TypeOK
<1>4. CASE Tick \/ UNCHANGED vars
  BY <1>4 DEF Tick, vars
<1> QED
  BY <1>1, <1>2, <1>3, <1>4 DEF Next, Network, AllSettled

LEMMA NextLedger ==
  ASSUME Inv, [Next]_vars
  PROVE  LedgerInv'
<1>0. TypeOK /\ ControlInv /\ TwinInv /\ LedgerInv
  BY DEF Inv
<1>1. CASE \A c \in Calls : ~ApplyTx(c)
  <2>1. \A c \in Calls : Moved(c)' => Moved(c) /\ MethodOf(c)' = MethodOf(c)
    BY <1>1, OnlyApplyMoves DEF Moved, MethodOf
  <2>2. UNCHANGED status
    BY <1>1, OnlyApplyMoves
  <2> QED
    BY <1>0, <2>1, <2>2 DEF LedgerInv
<1>2. ASSUME NEW c \in Calls, ApplyTx(c) PROVE LedgerInv'
  <2> DEFINE m == Method[MethodOf(c)]
  <2>1. MethodOf(c) \in Methods
    BY <1>0, <1>2, AskedType DEF TwinInv, ApplyTx
  <2>2. Forward(m)
    BY <2>1, MethodForward
  <2>3. UNCHANGED req /\ \A d \in Calls \ {c} : fate'[d] = fate[d]
    BY <1>0, <1>2 DEF ApplyTx, client, TypeOK
  <2>4. \A d \in Calls : MethodOf(d)' = MethodOf(d)
    BY <2>3 DEF MethodOf
  <2>5. \A d \in Calls \ {c} : Moved(d)' => Moved(d)
    BY <2>3, <2>4 DEF Moved
  <2>6. ~Moved(c)
    BY <1>2 DEF ApplyTx, Moved
  <2>7. CASE Moved(c)'
    <3>1. m.from # {} /\ status \in m.from /\ status' = m.to
      <4>1. fate'[c] = "success" /\ m.from # {}
        BY <2>4, <2>7 DEF Moved
      <4> QED
        BY <1>0, <1>2, <4>1 DEF ApplyTx, Accepts, After, TypeOK
    <3>2. Rank[status] < Rank[status'] /\ Rank[status] \in Nat /\ Rank[status'] \in Nat
      BY <2>2, <3>1, RankType DEF Forward
    <3>3. \A d \in Calls \ {c} : Moved(d) => /\ Rank[Method[MethodOf(d)].to] <= Rank[status]
                                            /\ Rank[Method[MethodOf(d)].to] \in Nat
      <4>1. \A d \in Calls : Moved(d) => MethodOf(d) \in Methods
        BY <1>0, AskedType DEF Moved, TwinInv
      <4> QED
        BY <1>0, <4>1, MethodForward, RankType DEF LedgerInv, Forward
    <3>4. \A d \in Calls \ {c} : Moved(d) => MethodOf(d) # MethodOf(c)
      BY <3>1, <3>2, <3>3
    <3>5. \A d \in Calls : Moved(d)' => Rank[Method[MethodOf(d)].to] <= Rank[status']
      BY <2>5, <3>1, <3>2, <3>3
    <3>6. \A d, e \in Calls : Moved(d)' /\ Moved(e)' /\ MethodOf(d) = MethodOf(e) => d = e
      BY <1>0, <2>5, <3>4 DEF LedgerInv
    <3> QED
      BY <2>4, <3>5, <3>6 DEF LedgerInv
  <2>8. CASE ~Moved(c)'
    <3>1. \A d \in Calls : Moved(d)' => Moved(d)
      BY <2>5, <2>8
    <3>2. UNCHANGED status
      BY <1>0, <1>2, <2>4, <2>8 DEF ApplyTx, After, Moved, TypeOK
    <3> QED
      BY <1>0, <2>4, <3>1, <3>2 DEF LedgerInv
  <2> QED
    BY <2>7, <2>8
<1> QED
  BY <1>1, <1>2

LEMMA Invariance == Spec => []Inv
<1>1. Inv /\ [Next]_vars => Inv'
  BY NextType, NextControl, NextSubmission, NextTwin, NextLedger DEF Inv
<1> QED
  BY <1>1, InitInv, PTL DEF Spec

\* Every variable keeps its type: attempts and polls stay within their bounds.
\* base.ts:219-240, 335-349, 378-390.
THEOREM TypeCorrect == Spec => []TypeOK
<1>1. Inv => TypeOK
  BY DEF Inv
<1> QED
  BY <1>1, Invariance, PTL

\* Whenever broadcast sends the signed transaction, no earlier submission of the
\* call is in the network's hands: a transport error is thrown and never sent
\* again, and TRY_AGAIN_LATER means nothing was queued.  base.ts:366-396.
THEOREM NeverTwice == Spec => []NeverSentTwice
<1>1. Inv => NeverSentTwice
  BY DEF Inv, SubmissionInv, NeverSentTwice, Before
<1> QED
  BY <1>1, Invariance, PTL

\* Two successful writes along the same edge of the lifecycle are one
\* transaction, however stale their simulations were.  base.ts:305-363.
THEOREM RivalsAgree == Spec => []RivalsShareOneTransaction
<1>1. Inv => RivalsShareOneTransaction
  <2> SUFFICES ASSUME Inv, NEW c \in Calls, NEW d \in Calls,
                      out[c] = "ok", out[d] = "ok", Kind(c) = "write", Kind(d) = "write",
                      MethodOf(c) = MethodOf(d), Method[MethodOf(c)].from # {}
               PROVE  tx[c] = tx[d]
    BY DEF RivalsShareOneTransaction
  <2>1. tx[c] \in Calls /\ tx[d] \in Calls
    BY DEF Inv, TypeOK
  <2>2. MethodOf(tx[c]) = MethodOf(c) /\ MethodOf(tx[d]) = MethodOf(d)
    BY DEF Inv, TwinInv, MethodOf
  <2>3. Moved(tx[c]) /\ Moved(tx[d])
    BY <2>2 DEF Inv, TwinInv, Moved
  <2> QED
    BY <2>1, <2>2, <2>3 DEF Inv, LedgerInv
<1> QED
  BY <1>1, Invariance, PTL

-----------------------------------------------------------------------------
(* The promise of ContractWrite.                                           *)

\* A step of the SDK as the caller's promises and the ledger show it.
SameEffects == \A d \in Calls : EffectOf(d)' = EffectOf(d)
SamePhases == \A d \in Calls : PhaseOf(d)' = PhaseOf(d)
PromiseStep == [Promise!Next]_(Promise!vars)

LEMMA Stutter ==
  ASSUME SameEffects, SamePhases
  PROVE  PromiseStep
  BY DEF SameEffects, SamePhases, PromiseStep, Promise!vars

LEMMA EffectsKept ==
  ASSUME UNCHANGED <<sub, tx, fate>>
  PROVE  SameEffects
  BY DEF SameEffects, EffectOf

LEMMA PhasesKept ==
  ASSUME UNCHANGED <<req, out>>
  PROVE  SamePhases
  BY DEF SamePhases, PhaseOf, Kind

\* A promise that settles is a return of the abstract write.
LEMMA SettleReturns ==
  ASSUME TypeOK, ControlInv, NEW c \in Calls, NEW o \in {"ok"} \cup Failures \cup Unknowns,
         pc[c] # "done", Settle(c, o), UNCHANGED req, SameEffects,
         Kind(c) = "write" /\ o = "ok" => EffectOf(c) = "applied",
         Kind(c) = "write" /\ o \in Failures => EffectOf(c) \in {"none", "void"}
  PROVE  PromiseStep
<1>1. /\ out' = [out EXCEPT ![c] = o]
      /\ out[c] = "none"
  BY DEF Settle, ControlInv, TypeOK
<1>2. \A d \in Calls : Kind(d)' = Kind(d)
  BY DEF Kind
<1>3. \A d \in Calls \ {c} : PhaseOf(d)' = PhaseOf(d)
  BY <1>1, <1>2 DEF PhaseOf, TypeOK
<1>4. CASE Kind(c) # "write"
  <2>1. SamePhases
    BY <1>2, <1>3, <1>4 DEF SamePhases, PhaseOf
  <2> QED
    BY <2>1, Stutter
<1>5. CASE Kind(c) = "write"
  <2> DEFINE p == Report(o)
  <2>1. /\ p \in {"ok", "failed", "unknown"}
        /\ p = "ok" => o = "ok"
        /\ p = "failed" => o \in Failures
    BY DEF Report, Failures, Unknowns
  <2>2. PhaseOf(c) = "running"
    BY <1>1, <1>5 DEF PhaseOf, Report
  <2>3. PhaseOf(c)' = p
    BY <1>1, <1>2, <1>5 DEF PhaseOf, TypeOK
  <2> HIDE DEF p
  <2>4. Promise!Return(c, p)
    BY <1>3, <1>5, <2>1, <2>2, <2>3 DEF Promise!Return, Promise!MayReturn, SameEffects
  <2> QED
    BY <2>1, <2>4 DEF PromiseStep, Promise!Next
<1> QED
  BY <1>4, <1>5

\* withRetry gives up with an unknown outcome, or changes nothing seen.
LEMMA RetryReturns ==
  ASSUME TypeOK, ControlInv, NEW c \in Calls, pc[c] # "done", withRetry(c),
         UNCHANGED req, SameEffects
  PROVE  PromiseStep
<1>1. CASE Settle(c, "NetworkError") \/ Settle(c, "RequestError")
  BY <1>1, SettleReturns DEF Failures, Unknowns
<1>2. CASE UNCHANGED out
  BY <1>2, PhasesKept, Stutter
<1> QED
  BY <1>1, <1>2 DEF withRetry

\* Before anything was submitted a write has no effect.
LEMMA NoEffectBefore ==
  ASSUME SubmissionInv, NEW c \in Calls, pc[c] \in Before
  PROVE  EffectOf(c) = "none"
  BY DEF SubmissionInv, EffectOf

\* One lemma per operation: each is a step of the promise, or none.
LEMMA BeginRefines ==
  ASSUME Inv, NEW c \in Calls, Begin(c)
  PROVE  PromiseStep
<1>1. UNCHANGED <<sub, tx, fate, out>>
  BY DEF Begin, Proceed
<1>2. SameEffects
  BY <1>1, EffectsKept
<1>3. PhaseOf(c) = "idle" /\ out[c] = "none"
  <2>1. req[c] = NoReq /\ out[c] = "none"
    BY DEF Inv, ControlInv, Begin
  <2> QED
    BY <2>1 DEF PhaseOf, Kind, NoReq
<1>4. \A d \in Calls \ {c} : PhaseOf(d)' = PhaseOf(d)
  BY <1>1 DEF Begin, PhaseOf, Kind, Inv, TypeOK
<1>5. PhaseOf(c)' \in {"idle", "running"}
  BY <1>1, <1>3 DEF PhaseOf, Report
<1>6. CASE PhaseOf(c)' = "idle"
  BY <1>2, <1>3, <1>4, <1>6, Stutter DEF SamePhases
<1>7. CASE PhaseOf(c)' = "running"
  <2>1. Promise!Begin(c)
    BY <1>2, <1>3, <1>4, <1>7 DEF Promise!Begin, SameEffects
  <2> QED
    BY <2>1 DEF PromiseStep, Promise!Next
<1> QED
  BY <1>5, <1>6, <1>7

LEMMA ReadAccountRefines ==
  ASSUME Inv, NEW c \in Calls, ReadAccount(c)
  PROVE  PromiseStep
<1>0. TypeOK /\ ControlInv /\ SubmissionInv
  BY DEF Inv
<1>1. UNCHANGED <<req, sub, fate>> /\ pc[c] = "account"
  BY DEF ReadAccount
<1>2. SameEffects
  <2>1. sub[c] # "accepted"
    BY <1>0, <1>1 DEF SubmissionInv, Before
  <2>2. \A d \in Calls \ {c} : tx'[d] = tx[d]
    BY <1>0 DEF ReadAccount, TypeOK
  <2> QED
    BY <1>1, <2>1, <2>2 DEF SameEffects, EffectOf
<1>3. CASE Proceed(c, "simulate")
  BY <1>1, <1>2, <1>3, PhasesKept, Stutter DEF Proceed
<1>4. CASE withRetry(c)
  BY <1>0, <1>1, <1>2, <1>4, RetryReturns
<1> QED
  BY <1>3, <1>4 DEF ReadAccount

LEMMA LocalRefines ==
  ASSUME Inv, NEW c \in Calls, Simulate(c) \/ Prepare(c) \/ Sign(c)
  PROVE  PromiseStep
<1>0. TypeOK /\ ControlInv /\ SubmissionInv
  BY DEF Inv
<1>1. UNCHANGED <<req, sub, tx, fate>> /\ pc[c] \in {"simulate", "prepare", "sign"}
  BY DEF Simulate, Prepare, Sign
<1>2. SameEffects /\ EffectOf(c) = "none"
  BY <1>0, <1>1, EffectsKept, NoEffectBefore DEF Before
<1>3. CASE UNCHANGED out
  BY <1>1, <1>2, <1>3, PhasesKept, Stutter
<1>4. CASE withRetry(c)
  BY <1>0, <1>1, <1>2, <1>4, RetryReturns
<1>5. ASSUME NEW o \in Failures, Settle(c, o) PROVE PromiseStep
  BY <1>0, <1>1, <1>2, <1>5, SettleReturns DEF Failures
<1>6. CASE Kind(c) # "write" /\ Settle(c, "ok")
  BY <1>0, <1>1, <1>2, <1>6, SettleReturns DEF Failures
<1> QED
  BY <1>3, <1>4, <1>5, <1>6 DEF Simulate, Prepare, Sign, Proceed, Failures

LEMMA SendRefines ==
  ASSUME Inv, NEW c \in Calls, SendTransaction(c) \/ RequestLost(c)
  PROVE  PromiseStep
<1>1. UNCHANGED <<req, out, tx, fate>> /\ sub[c] # "accepted" /\ sub'[c] # "accepted"
      /\ \A d \in Calls \ {c} : sub'[d] = sub[d]
  BY DEF SendTransaction, RequestLost, client, Inv, TypeOK, SubmissionInv, Before
<1>2. SameEffects
  BY <1>1 DEF SameEffects, EffectOf
<1> QED
  BY <1>1, <1>2, PhasesKept, Stutter

LEMMA SendAnsweredRefines ==
  ASSUME Inv, NEW c \in Calls, SendAnswered(c)
  PROVE  PromiseStep
<1>0. TypeOK /\ ControlInv /\ SubmissionInv
  BY DEF Inv
<1>1. UNCHANGED <<req, tx, fate>> /\ pc[c] = "sent"
  BY DEF SendAnswered
<1>2. UNCHANGED sub \/ (sub[c] = "busy" /\ sub' = [sub EXCEPT ![c] = "none"])
  BY DEF SendAnswered, TryAgainLater, TransportError
<1>3. SameEffects
  BY <1>0, <1>1, <1>2 DEF SameEffects, EffectOf, TypeOK
<1>4. CASE UNCHANGED out
  BY <1>1, <1>3, <1>4, PhasesKept, Stutter
<1>5. CASE sub[c] = "busy" /\ Settle(c, "TransactionTryAgainLaterError")
  BY <1>0, <1>1, <1>3, <1>5, SettleReturns DEF Failures, EffectOf
<1>6. CASE sub[c] = "refused" /\ Settle(c, "TransactionSendError")
  BY <1>0, <1>1, <1>3, <1>6, SettleReturns DEF Failures, EffectOf
<1>7. CASE Settle(c, "NetworkError")
  BY <1>0, <1>1, <1>3, <1>7, SettleReturns DEF Failures, Unknowns
<1> QED
  BY <1>4, <1>5, <1>6, <1>7 DEF SendAnswered, TryAgainLater, TransportError, Proceed

LEMMA GetTransactionRefines ==
  ASSUME Inv, NEW c \in Calls, GetTransaction(c)
  PROVE  PromiseStep
<1>0. TypeOK /\ ControlInv /\ SubmissionInv
  BY DEF Inv
<1>1. UNCHANGED <<req, sub, tx, fate>> /\ pc[c] = "poll"
  BY DEF GetTransaction
<1>2. SameEffects /\ EffectOf(c) = Outcome(fate[tx[c]])
  BY <1>0, <1>1, EffectsKept DEF EffectOf, SubmissionInv
<1>3. CASE UNCHANGED out
  BY <1>1, <1>2, <1>3, PhasesKept, Stutter
<1>4. CASE fate[tx[c]] = "success" /\ Settle(c, "ok")
  BY <1>0, <1>1, <1>2, <1>4, SettleReturns DEF Failures, Outcome
<1>5. CASE fate[tx[c]] = "failed" /\ Settle(c, "TransactionFailedError")
  BY <1>0, <1>1, <1>2, <1>5, SettleReturns DEF Failures, Outcome
<1>6. CASE Settle(c, "TransactionTimeoutError")
  BY <1>0, <1>1, <1>2, <1>6, SettleReturns DEF Failures, Unknowns
<1>7. CASE withRetry(c)
  BY <1>0, <1>1, <1>2, <1>7, RetryReturns
<1> QED
  BY <1>3, <1>4, <1>5, <1>6, <1>7 DEF GetTransaction, NotFound, Proceed

LEMMA ServerReceivesRefines ==
  ASSUME Inv, NEW c \in Calls, ServerReceives(c)
  PROVE  PromiseStep
<1>0. TypeOK /\ ControlInv /\ SubmissionInv
  BY DEF Inv
<1>1. UNCHANGED <<req, out, tx>> /\ sub[c] = "flying"
  BY DEF ServerReceives, client
<1>2. SamePhases
  BY <1>1, PhasesKept
<1>3. CASE sub'[c] # "accepted"
  <2>1. UNCHANGED fate /\ \A d \in Calls \ {c} : sub'[d] = sub[d]
    BY <1>0, <1>3 DEF ServerReceives, TypeOK
  <2>2. SameEffects
    BY <1>1, <1>3, <2>1 DEF SameEffects, EffectOf
  <2> QED
    BY <1>2, <2>2, Stutter
<1>4. CASE sub'[c] = "accepted"
  <2>1. Queued(c) /\ sub' = [sub EXCEPT ![c] = "accepted"]
    BY <1>0, <1>4 DEF ServerReceives, TypeOK
  <2>2. EffectOf(c) = "none"
    BY <1>1 DEF EffectOf
  <2>3. EffectOf(c)' = "open"
    BY <1>0, <1>1, <1>4, <2>1 DEF EffectOf, Outcome, Queued, TypeOK
  <2>4. ASSUME NEW d \in Calls \ {c} PROVE EffectOf(d)' = EffectOf(d)
    <3>1. sub'[d] = sub[d]
      BY <1>0, <2>1 DEF TypeOK
    <3>2. sub[d] = "accepted" => fate'[tx[d]] = fate[tx[d]]
      BY <1>0, <2>1 DEF Queued, SubmissionInv, TypeOK
    <3> QED
      BY <1>1, <3>1, <3>2 DEF EffectOf
  <2>5. PhaseOf(c) \in {"running", "unknown"}
    BY <1>0, <1>1 DEF SubmissionInv, ControlInv, PhaseOf, Report, Failures
  <2>6. Promise!Submit(c)
    BY <1>2, <2>2, <2>3, <2>4, <2>5 DEF Promise!Submit, SamePhases
  <2> QED
    BY <2>6 DEF PromiseStep, Promise!Next
<1> QED
  BY <1>3, <1>4

\* A ledger, or an eviction, decides the calls that share r together.
LEMMA DecideRefines ==
  ASSUME Inv, NEW r \in Calls, ApplyTx(r) \/ DropTx(r)
  PROVE  PromiseStep
<1> DEFINE S == {c \in Calls : sub[c] = "accepted" /\ tx[c] = r}
           how == Outcome(fate'[r])
<1>0. TypeOK
  BY DEF Inv
<1>1. UNCHANGED <<req, out, tx, sub>> /\ fate[r] = "queued"
      /\ \A d \in Calls \ {r} : fate'[d] = fate[d]
  BY <1>0 DEF ApplyTx, DropTx, client, TypeOK
<1>2. SamePhases
  BY <1>1, PhasesKept
<1>3. how \in {"applied", "void"}
  BY <1>0 DEF ApplyTx, DropTx, Outcome, TypeOK
<1>4. \A d \in S : EffectOf(d) = "open" /\ EffectOf(d)' = how
  BY <1>1 DEF EffectOf, Outcome
<1>5. \A d \in Calls \ S : EffectOf(d)' = EffectOf(d)
  BY <1>0, <1>1 DEF EffectOf, TypeOK
<1> HIDE DEF how
<1>6. CASE S = {}
  BY <1>2, <1>5, <1>6, Stutter DEF SameEffects
<1>7. CASE S # {}
  <2>1. S \in SUBSET Calls
    OBVIOUS
  <2> HIDE DEF S
  <2>2. Promise!Decide(S, how)
    BY <1>2, <1>4, <1>5, <1>7, <2>1 DEF Promise!Decide, SamePhases
  <2> QED
    BY <1>3, <2>1, <2>2 DEF PromiseStep, Promise!Next
<1> QED
  BY <1>6, <1>7

LEMMA StepRefines ==
  ASSUME Inv, [Next]_vars
  PROVE  PromiseStep
<1>1. CASE Tick \/ UNCHANGED vars
  <2>1. UNCHANGED <<req, out, sub, tx, fate>>
    BY <1>1 DEF Tick, vars
  <2> QED
    BY <2>1, EffectsKept, PhasesKept, Stutter
<1> QED
  BY <1>1, BeginRefines, ReadAccountRefines, LocalRefines, SendRefines,
     SendAnsweredRefines, GetTransactionRefines, ServerReceivesRefines, DecideRefines
     DEF Next, Step, Network, AllSettled

\* readContract, simulateTransaction and writeContract implement the promise of
\* ContractWrite: at most one effect per write, "ok" only when it is on the
\* ledger, a failure only when it never will be.  base.ts:279-427.
THEOREM PromiseKept == Spec => KeepsPromise
<1>1. Init => Promise!Init
  BY DEF Init, Promise!Init, PhaseOf, EffectOf, Kind, NoReq
<1> QED
  BY <1>1, StepRefines, Invariance, PTL DEF Spec, KeepsPromise, Promise!Spec, PromiseStep

\* What the promise alone makes inductive: a report stays true.
ReportInv ==
    \A c \in Calls : /\ PhaseOf(c) = "ok" => EffectOf(c) = "applied"
                     /\ PhaseOf(c) = "failed" => EffectOf(c) \in {"none", "void"}

LEMMA NextReport ==
  ASSUME ReportInv, PromiseStep
  PROVE  ReportInv'
<1>1. ASSUME NEW c \in Calls, Promise!Begin(c) PROVE ReportInv'
  BY <1>1 DEF ReportInv, Promise!Begin
<1>2. ASSUME NEW c \in Calls, Promise!Submit(c) PROVE ReportInv'
  BY <1>2 DEF ReportInv, Promise!Submit
<1>3. ASSUME NEW S \in SUBSET Calls, NEW how \in {"applied", "void"}, Promise!Decide(S, how)
      PROVE  ReportInv'
  BY <1>3 DEF ReportInv, Promise!Decide
<1>4. ASSUME NEW c \in Calls, NEW p \in {"ok", "failed", "unknown"}, Promise!Return(c, p)
      PROVE  ReportInv'
  BY <1>4 DEF ReportInv, Promise!Return, Promise!MayReturn
<1>5. CASE UNCHANGED Promise!vars
  BY <1>5 DEF ReportInv, Promise!vars
<1> QED
  BY <1>1, <1>2, <1>3, <1>4, <1>5 DEF PromiseStep, Promise!Next, ReportInv

\* A caller who was told that a write is done or has failed was told the truth
\* for good: no later step of the network makes a failed write take effect or
\* takes back one that is done.  base.ts:305-396.
THEOREM ReportsAreTrue == Spec => []Promise!ReportIsTrue
<1>1. Init => ReportInv
  BY DEF Init, ReportInv, PhaseOf, EffectOf, Kind, NoReq
<1>2. ReportInv => Promise!ReportIsTrue
  BY DEF ReportInv, Promise!ReportIsTrue
<1> QED
  BY <1>1, <1>2, NextReport, Invariance, StepRefines, PTL DEF Spec
=============================================================================
