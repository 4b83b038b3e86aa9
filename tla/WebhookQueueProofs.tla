------------------------- MODULE WebhookQueueProofs --------------------------
(***************************************************************************)
(* Proofs about WebhookQueue, for every number of workers, subscriptions   *)
(* and events and every setting of the worker.                             *)
(***************************************************************************)
EXTENDS WebhookQueue, FiniteSetTheorems, TLAPS

(***************************************************************************)
(* Typing.                                                                 *)
(***************************************************************************)
RowType ==
    /\ status \in [Deliveries -> {"absent", "pending", "delivered", "dead_letter"}]
    /\ attempts \in [Deliveries -> Nat]
    /\ nextIn \in [Deliveries -> Nat]
    /\ lockLeft \in [Deliveries -> 0..LockDuration + 1]

WorkType ==
    /\ stage \in [Workers -> [Deliveries -> Stages]]
    /\ seen \in [Workers -> [Deliveries -> Nat]]
    /\ age \in [Workers -> [Deliveries -> 0..AttemptTime]]

LEMMA InitType == Init => TypeOK
  <1> SUFFICES ASSUME Init PROVE TypeOK
    OBVIOUS
  <1> USE QueueAssumption DEF Init, Zeros, Nothing, Stages
  <1>1. subs \in [Subs -> {"none", "active", "deleted"}]
    OBVIOUS
  <1>2. RowType
    BY DEF RowType
  <1>3. pc \in [Workers -> {"down", "idle", "batch"}]
    OBVIOUS
  <1>4. ctxDone \in [Workers -> BOOLEAN]
    OBVIOUS
  <1>5. WorkType
    BY DEF WorkType
  <1>6. tries \in [Deliveries -> Nat] /\ expired \subseteq Deliveries /\ stops \in 0..MaxStops /\ faults \in 0..MaxFaults
    OBVIOUS
  <1> QED BY <1>1, <1>2, <1>3, <1>4, <1>5, <1>6 DEF TypeOK, RowType, WorkType

\* An outcome written to a row, or not written at all.
LEMMA MarkType ==
    ASSUME TypeOK, NEW w \in Workers, NEW d \in Deliveries,
           MarkDeliverySuccess(d) \/ handleFailure(w, d) \/ UNCHANGED rowVars
    PROVE  RowType'
  <1> USE QueueAssumption DEF TypeOK, RowType, SetStatus
  <1>1. CASE MarkDeliverySuccess(d)
    BY <1>1 DEF MarkDeliverySuccess
  <1>2. CASE UNCHANGED rowVars
    BY <1>2 DEF rowVars
  <1>3. CASE seen[w][d] + 1 >= MaxAttempts /\ MarkDeliveryDeadLetter(d)
    BY <1>3 DEF MarkDeliveryDeadLetter
  <1>4. CASE /\ ~(seen[w][d] + 1 >= MaxAttempts)
             /\ MarkDeliveryRetry(d, BackoffBase * 2^(seen[w][d] + 1))
    <2> DEFINE delay == BackoffBase * 2^(seen[w][d] + 1)
    <2>1. delay \in Nat
      <3>1. seen[w][d] + 1 \in 1..MaxAttempts
        BY <1>4
      <3> QED BY <3>1
    <2>2. MarkDeliveryRetry(d, delay)
      BY <1>4
    <2> HIDE DEF delay
    <2> QED BY <2>1, <2>2 DEF MarkDeliveryRetry
  <1> QED BY <1>1, <1>2, <1>3, <1>4 DEF handleFailure

LEMMA ReleaseType ==
    ASSUME TypeOK, NEW w \in Workers, NEW d \in Deliveries, Release(w, d)
    PROVE  WorkType'
  BY QueueAssumption DEF TypeOK, WorkType, Release, Stages

LEMMA EndType ==
    ASSUME TypeOK, NEW w \in Workers, NEW d \in Deliveries,
           Delivered(w, d) \/ Failed(w, d) \/ Unrecorded(w, d)
    PROVE  TypeOK'
  <1>1. RowType'
    BY MarkType DEF Delivered, Failed, Unrecorded
  <1>2. WorkType'
    BY ReleaseType DEF Delivered, Failed, Unrecorded
  <1>3. faults' \in 0..MaxFaults
    BY QueueAssumption DEF Delivered, Failed, Unrecorded, Fault, TypeOK
  <1>4. UNCHANGED <<subs, pc, ctxDone, tries, expired, stops>>
    BY DEF Delivered, Failed, Unrecorded
  <1> QED BY <1>1, <1>2, <1>3, <1>4 DEF TypeOK, RowType, WorkType

LEMMA SubsType ==
    ASSUME TypeOK,
           \/ \E s \in Subs : Subscribe(s) \/ Unsubscribe(s)
           \/ \E e \in Events : EnqueueDeliveries(e)
    PROVE  TypeOK'
  <1> USE DEF TypeOK, rowVars, workVars
  <1>1. ASSUME NEW s \in Subs, Subscribe(s) PROVE TypeOK'
    BY <1>1 DEF Subscribe
  <1>2. ASSUME NEW s \in Subs, Unsubscribe(s) PROVE TypeOK'
    BY <1>2 DEF Unsubscribe
  <1>3. ASSUME NEW e \in Events, EnqueueDeliveries(e) PROVE TypeOK'
    BY <1>3 DEF EnqueueDeliveries
  <1> QED BY <1>1, <1>2, <1>3

LEMMA ClaimType ==
    ASSUME TypeOK, NEW w \in Workers, NEW S \in SUBSET Claimable,
           ClaimPendingDeliveries(w, S)
    PROVE  TypeOK'
  <1> USE QueueAssumption DEF TypeOK
  <1>1. lockLeft' \in [Deliveries -> 0..LockDuration + 1]
    BY DEF ClaimPendingDeliveries
  <1>2. stage' \in [Workers -> [Deliveries -> Stages]]
    BY DEF ClaimPendingDeliveries, Stages
  <1>3. seen' \in [Workers -> [Deliveries -> Nat]]
    BY DEF ClaimPendingDeliveries
  <1>4. pc' \in [Workers -> {"down", "idle", "batch"}]
    BY DEF ClaimPendingDeliveries
  <1> QED BY <1>1, <1>2, <1>3, <1>4 DEF ClaimPendingDeliveries

LEMMA BeginType ==
    ASSUME TypeOK, NEW w \in Workers, NEW d \in Deliveries,
           BeginAttempt(w, d) \/ WaitForSlot(w, d) \/ BeginBlocked(w, d)
    PROVE  TypeOK'
  <1>1. stage' \in [Workers -> [Deliveries -> Stages]]
    <2>1. PICK g \in Stages : stage' = [stage EXCEPT ![w][d] = g]
      BY DEF BeginAttempt, WaitForSlot, BeginBlocked, Stages
    <2> QED BY <2>1 DEF TypeOK
  <1>2. tries' \in [Deliveries -> Nat]
    <2>1. tries' \in {tries, [tries EXCEPT ![d] = @ + 1]}
      BY DEF BeginAttempt, WaitForSlot, BeginBlocked
    <2>2. [tries EXCEPT ![d] = @ + 1] \in [Deliveries -> Nat]
      BY DEF TypeOK
    <2> QED BY <2>1, <2>2 DEF TypeOK
  <1>3. UNCHANGED <<subs, rowVars, pc, ctxDone, seen, age, expired, stops, faults>>
    BY DEF BeginAttempt, WaitForSlot, BeginBlocked
  <1> QED BY <1>1, <1>2, <1>3 DEF TypeOK, rowVars

LEMMA LoopType ==
    ASSUME TypeOK, NEW w \in Workers,
           StartWorker(w) \/ FinishBatch(w) \/ Stop(w) \/ Crash(w)
    PROVE  TypeOK'
  <1>1. pc' \in [Workers -> {"down", "idle", "batch"}]
    <2>1. pc \in [Workers -> {"down", "idle", "batch"}]
      BY DEF TypeOK
    <2>2. PICK v \in {"down", "idle", "batch"} : pc' = [pc EXCEPT ![w] = v]
      <3>1. CASE StartWorker(w) \/ FinishBatch(w)
        BY <3>1 DEF StartWorker, FinishBatch
      <3>2. CASE Stop(w)
        BY <3>2, <2>1 DEF Stop
      <3>3. CASE Crash(w)
        BY <3>3 DEF Crash
      <3> QED BY <3>1, <3>2, <3>3
    <2> QED BY <2>1, <2>2
  <1>2. ctxDone' \in [Workers -> BOOLEAN]
    BY DEF StartWorker, FinishBatch, Stop, Crash, TypeOK
  <1>3. WorkType'
    <2> USE QueueAssumption DEF WorkType, TypeOK, Stages
    <2>1. CASE StartWorker(w) \/ FinishBatch(w)
      BY <2>1 DEF StartWorker, FinishBatch, workVars
    <2>2. CASE Stop(w)
      BY <2>2 DEF Stop
    <2>3. CASE Crash(w)
      BY <2>3 DEF Crash, Nothing, Zeros
    <2> QED BY <2>1, <2>2, <2>3
  <1>4. stops' \in 0..MaxStops /\ faults' \in 0..MaxFaults
    <2> USE QueueAssumption DEF TypeOK
    <2>1. CASE StartWorker(w) \/ FinishBatch(w)
      BY <2>1 DEF StartWorker, FinishBatch
    <2>2. CASE Stop(w)
      BY <2>2 DEF Stop
    <2>3. CASE Crash(w)
      BY <2>3 DEF Crash, Fault
    <2> QED BY <2>1, <2>2, <2>3
  <1>5. UNCHANGED <<subs, rowVars, tries, expired>>
    BY DEF StartWorker, FinishBatch, Stop, Crash
  <1> QED BY <1>1, <1>2, <1>3, <1>4, <1>5 DEF TypeOK, WorkType, rowVars

LEMMA Less1Type ==
    ASSUME NEW n \in Nat
    PROVE  Less1(n) \in Nat /\ Less1(n) <= n /\ Less1(n) >= n - 1
  BY DEF Less1

LEMMA TickType ==
    ASSUME TypeOK, Tick
    PROVE  TypeOK'
  <1> USE QueueAssumption DEF TypeOK
  <1>1. /\ nextIn' \in [Deliveries -> Nat]
        /\ lockLeft' \in [Deliveries -> 0..LockDuration + 1]
    <2>1. ASSUME NEW d \in Deliveries
          PROVE  Less1(nextIn[d]) \in Nat /\ Less1(lockLeft[d]) \in 0..LockDuration + 1
      <3>1. nextIn[d] \in Nat /\ lockLeft[d] \in 0..LockDuration + 1
        OBVIOUS
      <3> QED BY <3>1, Less1Type
    <2> QED BY <2>1 DEF Tick
  <1>2. age' \in [Workers -> [Deliveries -> 0..AttemptTime]]
    <2> SUFFICES ASSUME NEW w \in Workers, NEW d \in Deliveries
                 PROVE  (IF d \in InFlight(w) THEN age[w][d] + 1 ELSE age[w][d]) \in 0..AttemptTime
      BY DEF Tick
    <2>1. age[w][d] \in 0..AttemptTime
      OBVIOUS
    <2>2. d \in InFlight(w) => age[w][d] < AttemptTime
      BY DEF Tick, MayTick
    <2> QED BY <2>1, <2>2
  <1> QED BY <1>1, <1>2 DEF Tick

LEMMA NextType == TypeOK /\ [Next]_vars => TypeOK'
  <1> SUFFICES ASSUME TypeOK, [Next]_vars PROVE TypeOK'
    OBVIOUS
  <1>1. CASE UNCHANGED vars
    BY <1>1 DEF vars, rowVars, workVars, TypeOK
  <1>2. CASE Next
    BY <1>2, SubsType, ClaimType, BeginType, EndType, LoopType, TickType
       DEF Next, WorkerStep
  <1> QED BY <1>1, <1>2

\* Every reachable state of the queue is well typed; in particular no attempt
\* outlives AttemptTime and no claim outlives LockDuration.
THEOREM QueueTypeCorrect == Spec => []TypeOK
  BY InitType, NextType, PTL DEF Spec

-----------------------------------------------------------------------------
\* A worker has the row in its batch.
Holds(w, d) == stage[w][d] # "none"

\* A worker holds rows only while it works on a batch.
Idle == \A w \in Workers : pc[w] # "batch" => \A d \in Deliveries : ~Holds(w, d)

LEMMA NextIdle ==
    ASSUME TypeOK, Idle, [Next]_vars
    PROVE  Idle'
  <1> SUFFICES ASSUME NEW w \in Workers, NEW d \in Deliveries, pc'[w] # "batch"
               PROVE  stage'[w][d] = "none"
    BY DEF Idle, Holds
  <1>0. pc[w] # "batch" => stage[w][d] = "none"
    BY DEF Idle, Holds
  <1>1. CASE UNCHANGED <<pc, stage>>
    BY <1>0, <1>1
  <1>2. ASSUME NEW v \in Workers, NEW c \in Deliveries,
               \/ BeginAttempt(v, c) \/ WaitForSlot(v, c) \/ BeginBlocked(v, c)
               \/ Delivered(v, c) \/ Failed(v, c) \/ Unrecorded(v, c)
        PROVE  stage'[w][d] = "none"
    <2>1. UNCHANGED pc /\ stage[v][c] # "none" /\ \E g \in Stages : stage' = [stage EXCEPT ![v][c] = g]
      BY <1>2 DEF BeginAttempt, WaitForSlot, BeginBlocked, Delivered, Failed, Unrecorded, Release,
                  Stages
    <2>2. pc[v] = "batch"
      BY <2>1 DEF Idle, Holds
    <2> QED BY <1>0, <2>1, <2>2 DEF TypeOK
  <1>3. ASSUME NEW v \in Workers, NEW S \in SUBSET Claimable, ClaimPendingDeliveries(v, S)
        PROVE  stage'[w][d] = "none"
    <2>1. w # v
      BY <1>3 DEF ClaimPendingDeliveries, TypeOK
    <2> QED BY <1>0, <1>3, <2>1 DEF ClaimPendingDeliveries, TypeOK
  <1>4. ASSUME NEW v \in Workers, StartWorker(v)
        PROVE  stage'[w][d] = "none"
    BY <1>0, <1>4 DEF StartWorker, workVars, TypeOK
  <1>5. ASSUME NEW v \in Workers, FinishBatch(v)
        PROVE  stage'[w][d] = "none"
    BY <1>0, <1>5 DEF FinishBatch, workVars, TypeOK, Nothing
  <1>6. ASSUME NEW v \in Workers, Stop(v)
        PROVE  stage'[w][d] = "none"
    <2>1. pc[w] # "batch"
      BY <1>6 DEF Stop, TypeOK
    <2> QED BY <1>0, <1>6, <2>1 DEF Stop, TypeOK
  <1>7. ASSUME NEW v \in Workers, Crash(v)
        PROVE  stage'[w][d] = "none"
    BY <1>0, <1>7 DEF Crash, Nothing, TypeOK
  <1>8. CASE \/ \E s \in Subs : Subscribe(s) \/ Unsubscribe(s)
             \/ \E e \in Events : EnqueueDeliveries(e)
             \/ Tick
             \/ UNCHANGED vars
    BY <1>1, <1>8 DEF Subscribe, Unsubscribe, EnqueueDeliveries, Tick, vars, workVars
  <1> QED BY <1>2, <1>3, <1>4, <1>5, <1>6, <1>7, <1>8 DEF Next, WorkerStep

(***************************************************************************)
(* Rows whose claim never ran out.  A claimed row is sent without looking  *)
(* at the lock again, and the Mark queries look at neither the lock nor    *)
(* the status.  What protects a row is that it has one holder (Clean),     *)
(* which lasts as long as the lock does: the next claim of the row needs   *)
(* its lock to have run out, and then the row counts as expired.           *)
(***************************************************************************)
Clean(d) ==
    \/ d \in expired
    \/ /\ \A v, w \in Workers : Holds(v, d) /\ Holds(w, d) => v = w
       /\ \A w \in Workers : Holds(w, d) => /\ lockLeft[d] > 0
                                            /\ status[d] \in {"pending", "absent"}
                                            /\ seen[w][d] = attempts[d]

CleanInv == \A d \in Deliveries : Clean(d)

\* A row stays clean while its columns stay and no worker takes it.
Untouched(d) ==
    /\ status'[d] \in {status[d], "absent"} \/ (status[d] = "absent" /\ status'[d] = "pending")
    /\ lockLeft'[d] = lockLeft[d] /\ attempts'[d] = attempts[d]
    /\ \A w \in Workers : stage'[w][d] # "none" => stage[w][d] # "none" /\ seen'[w][d] = seen[w][d]

LEMMA StaysClean ==
    ASSUME NEW d \in Deliveries, Clean(d), expired' = expired, Untouched(d)
    PROVE  Clean(d)'
  BY DEF Clean, Untouched, Holds

\* The end of an attempt: a clean row is left without a holder.
LEMMA EndClean ==
    ASSUME TypeOK, CleanInv, NEW v \in Workers, NEW c \in Deliveries,
           Delivered(v, c) \/ Failed(v, c) \/ Unrecorded(v, c)
    PROVE  CleanInv'
  <1>1. /\ stage' = [stage EXCEPT ![v][c] = "none"] /\ seen' = [seen EXCEPT ![v][c] = 0]
        /\ stage[v][c] \in {"posting", "cancelled"} /\ UNCHANGED expired
    BY DEF Delivered, Failed, Unrecorded, Release
  <1>2. ASSUME NEW d \in Deliveries, d # c
        PROVE  status'[d] = status[d] /\ attempts'[d] = attempts[d] /\ lockLeft'[d] = lockLeft[d]
    BY <1>2 DEF Delivered, Failed, Unrecorded, handleFailure, MarkDeliverySuccess, MarkDeliveryRetry,
                MarkDeliveryDeadLetter, SetStatus, rowVars, TypeOK
  <1> SUFFICES ASSUME NEW d \in Deliveries PROVE Clean(d)'
    BY DEF CleanInv
  <1>3. Clean(d)
    BY DEF CleanInv
  <1>4. CASE d = c
    <2>1. \A w \in Workers : stage'[w][c] = IF w = v THEN "none" ELSE stage[w][c]
      BY <1>1 DEF TypeOK
    <2>2. Holds(v, c)
      BY <1>1 DEF Holds
    <2> QED BY <1>1, <1>3, <1>4, <2>1, <2>2 DEF Clean, Holds
  <1>5. CASE d # c
    <2>1. \A w \in Workers : stage'[w][d] = stage[w][d] /\ seen'[w][d] = seen[w][d]
      BY <1>1, <1>5 DEF TypeOK
    <2>2. Untouched(d)
      BY <1>2, <1>5, <2>1 DEF Untouched
    <2> QED BY <1>1, <1>3, <2>2, StaysClean
  <1> QED BY <1>4, <1>5

LEMMA BeginClean ==
    ASSUME TypeOK, CleanInv, NEW v \in Workers, NEW c \in Deliveries,
           BeginAttempt(v, c) \/ WaitForSlot(v, c) \/ BeginBlocked(v, c)
    PROVE  CleanInv'
  <1>1. /\ UNCHANGED <<status, attempts, lockLeft, seen, expired>>
        /\ stage[v][c] \in {"claimed", "blocked"}
    BY DEF BeginAttempt, WaitForSlot, BeginBlocked, rowVars
  <1>2. PICK g \in {"blocked", "posting", "cancelled"} : stage' = [stage EXCEPT ![v][c] = g]
    BY DEF BeginAttempt, WaitForSlot, BeginBlocked
  <1>3. \A w \in Workers, d \in Deliveries : stage'[w][d] # "none" => stage[w][d] # "none"
    BY <1>1, <1>2 DEF TypeOK
  <1>4. \A d \in Deliveries : Untouched(d)
    BY <1>1, <1>3 DEF Untouched
  <1> QED BY <1>1, <1>4, StaysClean DEF CleanInv

LEMMA LoopClean ==
    ASSUME TypeOK, CleanInv, NEW v \in Workers,
           StartWorker(v) \/ FinishBatch(v) \/ Stop(v) \/ Crash(v)
    PROVE  CleanInv'
  <1>1. UNCHANGED <<status, attempts, lockLeft, expired>>
    BY DEF StartWorker, FinishBatch, Stop, Crash, rowVars
  <1>2. ASSUME NEW w \in Workers, NEW d \in Deliveries, stage'[w][d] # "none"
        PROVE  stage[w][d] # "none" /\ seen'[w][d] = seen[w][d]
    <2>1. CASE StartWorker(v) \/ FinishBatch(v)
      BY <1>2, <2>1 DEF StartWorker, FinishBatch, workVars
    <2>2. CASE Stop(v)
      BY <1>2, <2>2 DEF Stop, TypeOK
    <2>3. CASE Crash(v)
      BY <1>2, <2>3 DEF Crash, Nothing, TypeOK
    <2> QED BY <2>1, <2>2, <2>3
  <1>3. \A d \in Deliveries : Untouched(d)
    BY <1>1, <1>2 DEF Untouched
  <1> QED BY <1>1, <1>3, StaysClean DEF CleanInv

\* A claimed row had no live lock, so a clean one had no holder.
LEMMA ClaimClean ==
    ASSUME TypeOK, CleanInv, NEW v \in Workers, NEW S \in SUBSET Claimable,
           ClaimPendingDeliveries(v, S)
    PROVE  CleanInv'
  <1>1. /\ lockLeft' = [d \in Deliveries |-> IF d \in S THEN LockDuration + 1 ELSE lockLeft[d]]
        /\ UNCHANGED <<status, attempts, expired>>
    BY DEF ClaimPendingDeliveries
  <1>2. ASSUME NEW w \in Workers, NEW d \in Deliveries
        PROVE  /\ stage'[w][d] = IF w = v THEN IF d \in S THEN "claimed" ELSE "none" ELSE stage[w][d]
               /\ seen'[w][d] = IF w = v THEN IF d \in S THEN attempts[d] ELSE 0 ELSE seen[w][d]
    BY DEF ClaimPendingDeliveries, TypeOK
  <1> SUFFICES ASSUME NEW d \in Deliveries PROVE Clean(d)'
    BY DEF CleanInv
  <1>3. Clean(d)
    BY DEF CleanInv
  <1>4. CASE d \in S
    <2>1. lockLeft[d] = 0 /\ status[d] = "pending" /\ ~(0 > 0)
      BY <1>4 DEF Claimable
    <2>2. d \in expired \/ \A w \in Workers : ~Holds(w, d)
      BY <1>3, <2>1 DEF Clean
    <2>3. lockLeft'[d] > 0
      BY <1>1, <1>4, QueueAssumption
    <2> QED BY <1>1, <1>2, <1>4, <2>1, <2>2, <2>3 DEF Clean, Holds
  <1>5. CASE d \notin S
    <2>1. lockLeft'[d] = lockLeft[d]
      BY <1>1, <1>5
    <2>2. Untouched(d)
      BY <1>1, <1>2, <1>5, <2>1 DEF Untouched
    <2> QED BY <1>1, <1>3, <2>2, StaysClean
  <1> QED BY <1>4, <1>5

\* A lock that runs out in a worker's hands is recorded.
LEMMA TickClean ==
    ASSUME TypeOK, CleanInv, Tick
    PROVE  CleanInv'
  <1> SUFFICES ASSUME NEW d \in Deliveries PROVE Clean(d)'
    BY DEF CleanInv
  <1>1. /\ UNCHANGED <<status, attempts, stage, seen>> /\ lockLeft'[d] = Less1(lockLeft[d])
        /\ expired' = expired \cup {c \in Deliveries : lockLeft[c] <= 1 /\ Holders(c) # {}}
    BY DEF Tick
  <1>2. lockLeft[d] \in Nat /\ Clean(d)
    BY DEF TypeOK, CleanInv
  <1>3. CASE d \in expired'
    BY <1>3 DEF Clean
  <1>4. CASE d \notin expired' /\ lockLeft[d] <= 1
    <2>1. \A w \in Workers : ~Holds(w, d)'
      BY <1>1, <1>4 DEF Holds, Holders
    <2> QED BY <2>1 DEF Clean
  <1>5. CASE d \notin expired' /\ ~(lockLeft[d] <= 1)
    <2>1. lockLeft'[d] > 0
      BY <1>1, <1>2, <1>5 DEF Less1
    <2>2. d \notin expired /\ \A w \in Workers : Holds(w, d)' => Holds(w, d)
      BY <1>1, <1>5 DEF Holds
    <2> QED BY <1>1, <1>2, <2>1, <2>2 DEF Clean
  <1> QED BY <1>3, <1>4, <1>5

LEMMA OtherClean ==
    ASSUME TypeOK, CleanInv,
           \/ \E s \in Subs : Subscribe(s) \/ Unsubscribe(s)
           \/ \E e \in Events : EnqueueDeliveries(e)
           \/ UNCHANGED vars
    PROVE  CleanInv'
  <1>1. UNCHANGED <<attempts, lockLeft, stage, seen, expired>>
    BY DEF Subscribe, Unsubscribe, EnqueueDeliveries, vars, rowVars, workVars
  <1>2. ASSUME NEW d \in Deliveries
        PROVE  status'[d] \in {status[d], "absent"} \/ (status[d] = "absent" /\ status'[d] = "pending")
    <2>1. ASSUME NEW s \in Subs, Subscribe(s) \/ Unsubscribe(s)
          PROVE  status'[d] \in {status[d], "absent"}
      BY <2>1 DEF Subscribe, Unsubscribe, rowVars
    <2>2. ASSUME NEW e \in Events, EnqueueDeliveries(e)
          PROVE  status'[d] = status[d] \/ (status[d] = "absent" /\ status'[d] = "pending")
      BY <2>2 DEF EnqueueDeliveries
    <2> QED BY <2>1, <2>2 DEF vars, rowVars
  <1>3. \A d \in Deliveries : Untouched(d)
    BY <1>1, <1>2 DEF Untouched
  <1> QED BY <1>1, <1>3, StaysClean DEF CleanInv

LEMMA NextClean ==
    ASSUME TypeOK, CleanInv, [Next]_vars
    PROVE  CleanInv'
  BY EndClean, BeginClean, LoopClean, ClaimClean, TickClean, OtherClean DEF Next, WorkerStep

LEMMA InitClean == Init => CleanInv
  BY DEF Init, CleanInv, Clean, Holds, Nothing

\* With any setting of the worker, two workers attempt one row at the same time only
\* if a claim on it ran out in a worker's hands before, whoever crashes, stops or
\* fails to record an outcome (deliverBatch, webhooks/worker.go).
THEOREM ExclusiveAttempts == Spec => []NoConcurrentAttempts
  <1>1. TypeOK /\ CleanInv /\ [Next]_vars => (TypeOK /\ CleanInv)'
    BY NextType, NextClean
  <1>2. CleanInv => NoConcurrentAttempts
    <2> SUFFICES ASSUME CleanInv, NEW v \in Workers, NEW w \in Workers, v # w,
                        NEW d \in InFlight(v) \cap InFlight(w)
                 PROVE  d \in expired
      BY DEF NoConcurrentAttempts
    <2>1. d \in Deliveries /\ Holds(v, d) /\ Holds(w, d)
      BY DEF InFlight, At, Holds
    <2> QED BY <2>1 DEF CleanInv, Clean
  <1> QED BY <1>1, <1>2, InitType, InitClean, PTL DEF Spec

-----------------------------------------------------------------------------
(***************************************************************************)
(* The number of attempts.  handleFailure decides with the count the claim *)
(* read, which is never ahead of the row's (Read).  Counts compares the    *)
(* row's count with the attempts made: behind them are only the attempts   *)
(* in flight (Sends) and faults, ahead of them only shutdowns.  A shutdown *)
(* is paid for once, since a worker whose context is done claims nothing   *)
(* and starts only what was blocked (Running, Spent).  A row is claimed    *)
(* only while it has attempts left; from then on every worker that has it  *)
(* can add one (Upper, Reach).                                             *)
(***************************************************************************)
Running == \A w \in Workers : ctxDone[w] => pc[w] # "idle" /\ Claimed(w) = {}

Waits(d) == {w \in Workers : stage[w][d] \in {"claimed", "blocked"}}
Sends(d) == {w \in Workers : stage[w][d] = "posting"}
Spent(d) == {w \in Workers : \/ stage[w][d] \in {"posting", "cancelled"}
                             \/ stage[w][d] = "blocked" /\ ctxDone[w]}
Reach(d) == IF d \in expired THEN Cardinality(Workers) ELSE 1

\* A row is there from its event until its subscription is deleted.
Kept(d) ==
    /\ subs[d[1]] = "deleted" => status[d] = "absent"
    /\ status[d] = "absent" /\ subs[d[1]] # "deleted"
         => Holders(d) = {} /\ attempts[d] = 0 /\ tries[d] = 0

Lower(d) == tries[d] + stops >= attempts[d] + Cardinality(Spent(d))
Upper(d) == tries[d] + Cardinality(Waits(d)) <= MaxAttempts - 1 + faults + Reach(d)
Recorded(d) == status[d] = "pending" \/ attempts[d] < MaxAttempts - 1
                 => tries[d] <= attempts[d] + faults + Cardinality(Sends(d))
Retried(d) == status[d] = "pending" => attempts[d] < MaxAttempts
GivenUp(d) == status[d] = "dead_letter" => /\ tries[d] + stops >= MaxAttempts
                                           /\ attempts[d] >= MaxAttempts - 1
                                           /\ attempts[d] > MaxAttempts - 1 => d \in expired
Read(d) == \A w \in Workers : stage[w][d] # "none" => seen[w][d] <= attempts[d]

RowCounts(d) == Lower(d) /\ Upper(d) /\ Recorded(d) /\ Retried(d) /\ GivenUp(d) /\ Read(d)

Counts == \A d \in Deliveries : Kept(d) /\ RowCounts(d)

CountInv == Running /\ Counts

\* Sets of workers that gain or lose one worker.
LEMMA WorkerSets ==
    ASSUME NEW X \in SUBSET Workers, NEW v \in Workers
    PROVE  /\ Cardinality(X) \in Nat
           /\ Cardinality(X \cup {v}) = IF v \in X THEN Cardinality(X) ELSE Cardinality(X) + 1
           /\ Cardinality(X \ {v}) = IF v \in X THEN Cardinality(X) - 1 ELSE Cardinality(X)
  <1>1. IsFiniteSet(X)
    BY QueueAssumption, FS_Subset
  <1> QED BY <1>1, FS_CardinalityType, FS_AddElement, FS_RemoveElement

\* What the values of a row are.
LEMMA RowTypes ==
    ASSUME TypeOK, NEW d \in Deliveries
    PROVE  /\ attempts[d] \in Nat /\ tries[d] \in Nat /\ stops \in Nat /\ faults \in Nat
           /\ MaxAttempts \in Nat /\ MaxAttempts >= 1
           /\ status[d] \in {"absent", "pending", "delivered", "dead_letter"}
           /\ d[1] \in Subs /\ subs[d[1]] \in {"none", "active", "deleted"}
           /\ \A w \in Workers : stage[w][d] \in Stages /\ seen[w][d] \in Nat
           /\ Cardinality(Waits(d)) \in Nat /\ Cardinality(Sends(d)) \in Nat
           /\ Cardinality(Spent(d)) \in Nat /\ Reach(d) \in Nat
  <1>1. /\ Cardinality(Waits(d)) \in Nat /\ Cardinality(Sends(d)) \in Nat
        /\ Cardinality(Spent(d)) \in Nat /\ Cardinality(Workers) \in Nat
    <2>1. \A X \in SUBSET Workers : Cardinality(X) \in Nat
      BY QueueAssumption, FS_Subset, FS_CardinalityType
    <2> QED BY <2>1 DEF Waits, Sends, Spent
  <1>2. Reach(d) \in Nat
    BY <1>1 DEF Reach
  <1>3. d[1] \in Subs /\ subs[d[1]] \in {"none", "active", "deleted"}
    BY DEF TypeOK, Deliveries
  <1>4. \A w \in Workers : stage[w][d] \in Stages /\ seen[w][d] \in Nat
    BY DEF TypeOK
  <1>5. status[d] \in {"absent", "pending", "delivered", "dead_letter"}
    BY DEF TypeOK
  <1> QED BY <1>1, <1>2, <1>3, <1>4, <1>5, QueueAssumption DEF TypeOK

\* A row keeps its counts in a step that leaves its columns alone, in which no
\* worker takes it, and in which faults and shutdowns only add up.
RowAlone(d) ==
    /\ status'[d] = status[d] /\ attempts'[d] = attempts[d] /\ tries'[d] = tries[d]
    /\ subs'[d[1]] = "deleted" <=> subs[d[1]] = "deleted"
    /\ expired \subseteq expired' /\ Reach(d)' >= Reach(d)
    /\ faults' >= faults /\ stops' >= stops
    /\ Cardinality(Spent(d)') <= Cardinality(Spent(d)) + (stops' - stops)
    /\ Cardinality(Waits(d)') <= Cardinality(Waits(d))
    /\ Cardinality(Sends(d)') + (faults' - faults) >= Cardinality(Sends(d))
    /\ \A w \in Workers : stage'[w][d] # "none" => stage[w][d] # "none" /\ seen'[w][d] = seen[w][d]

LEMMA AloneCounts ==
    ASSUME TypeOK, TypeOK', NEW d \in Deliveries, Kept(d), RowCounts(d), RowAlone(d)
    PROVE  Kept(d)' /\ RowCounts(d)'
  <1>1. /\ attempts[d] \in Nat /\ tries[d] \in Nat /\ stops \in Nat /\ faults \in Nat
        /\ MaxAttempts \in Nat
        /\ Cardinality(Waits(d)) \in Nat /\ Cardinality(Sends(d)) \in Nat
        /\ Cardinality(Spent(d)) \in Nat /\ Reach(d) \in Nat
    BY RowTypes
  <1>2. /\ stops' \in Nat /\ faults' \in Nat
        /\ Cardinality(Waits(d)') \in Nat /\ Cardinality(Sends(d)') \in Nat
        /\ Cardinality(Spent(d)') \in Nat /\ Reach(d)' \in Nat
    <2>1. \A X \in SUBSET Workers : Cardinality(X) \in Nat
      BY QueueAssumption, FS_Subset, FS_CardinalityType
    <2>2. Cardinality(Workers) \in Nat
      BY <2>1
    <2>3. stops' \in Nat /\ faults' \in Nat
      BY DEF TypeOK
    <2>4. Reach(d)' \in Nat
      BY <2>2 DEF Reach
    <2>5. Waits(d)' \in SUBSET Workers /\ Sends(d)' \in SUBSET Workers /\ Spent(d)' \in SUBSET Workers
      BY DEF Waits, Sends, Spent
    <2> QED BY <2>1, <2>3, <2>4, <2>5
  <1>3. Kept(d)'
    <2>1. Holders(d)' \subseteq Holders(d)
      BY DEF RowAlone, Holders
    <2> QED BY <2>1 DEF Kept, RowAlone
  <1>4. Lower(d)'
    BY <1>1, <1>2 DEF RowCounts, Lower, RowAlone
  <1>5. Upper(d)'
    BY <1>1, <1>2 DEF RowCounts, Upper, RowAlone
  <1>6. Recorded(d)'
    BY <1>1, <1>2 DEF RowCounts, Recorded, RowAlone
  <1>7. Retried(d)'
    BY DEF RowCounts, Retried, RowAlone
  <1>8. GivenUp(d)'
    BY <1>1, <1>2 DEF RowCounts, GivenUp, RowAlone
  <1>9. Read(d)'
    BY DEF RowCounts, Read, RowAlone
  <1> QED BY <1>3, <1>4, <1>5, <1>6, <1>7, <1>8, <1>9 DEF RowCounts

\* A row no worker does anything with, in a step without a shutdown.
LEMMA OtherRow ==
    ASSUME TypeOK, TypeOK', NEW d \in Deliveries, Kept(d), RowCounts(d),
           UNCHANGED <<subs, expired, stops>>, faults' >= faults,
           status'[d] = status[d], attempts'[d] = attempts[d], tries'[d] = tries[d],
           \A w \in Workers : /\ stage'[w][d] = stage[w][d] /\ seen'[w][d] = seen[w][d]
                              /\ stage[w][d] # "none" => ctxDone'[w] = ctxDone[w]
    PROVE  Kept(d)' /\ RowCounts(d)'
  <1>1. Waits(d)' = Waits(d) /\ Sends(d)' = Sends(d)
    BY DEF Waits, Sends
  <1>2. Spent(d)' = Spent(d)
    BY DEF Spent
  <1>3. Reach(d)' = Reach(d)
    BY DEF Reach
  <1>4. /\ Cardinality(Waits(d)) \in Nat /\ Cardinality(Sends(d)) \in Nat
        /\ Cardinality(Spent(d)) \in Nat /\ Reach(d) \in Nat /\ stops \in Nat /\ faults \in Nat
        /\ faults' \in Nat
    BY RowTypes DEF TypeOK
  <1>5. /\ Reach(d)' >= Reach(d) /\ faults' >= faults /\ stops' >= stops
        /\ Cardinality(Spent(d)') <= Cardinality(Spent(d)) + (stops' - stops)
        /\ Cardinality(Waits(d)') <= Cardinality(Waits(d))
        /\ Cardinality(Sends(d)') + (faults' - faults) >= Cardinality(Sends(d))
    BY <1>1, <1>2, <1>3, <1>4
  <1>6. RowAlone(d)
    BY <1>5 DEF RowAlone
  <1> QED BY <1>6, AloneCounts

\* A worker whose context is done claims nothing.
LEMMA NextRunning ==
    ASSUME TypeOK, Running, [Next]_vars
    PROVE  Running'
  <1> SUFFICES ASSUME NEW w \in Workers, ctxDone'[w]
               PROVE  pc'[w] # "idle" /\ \A d \in Deliveries : stage'[w][d] # "claimed"
    BY DEF Running, Claimed, At
  <1>0. ctxDone[w] => pc[w] # "idle" /\ \A d \in Deliveries : stage[w][d] # "claimed"
    BY DEF Running, Claimed, At
  <1> DEFINE Goal == pc'[w] # "idle" /\ \A d \in Deliveries : stage'[w][d] # "claimed"
  <1>1. CASE UNCHANGED <<pc, ctxDone, stage>>
    BY <1>0, <1>1
  <1>2. ASSUME NEW v \in Workers, NEW c \in Deliveries,
               \/ BeginAttempt(v, c) \/ WaitForSlot(v, c) \/ BeginBlocked(v, c)
               \/ Delivered(v, c) \/ Failed(v, c) \/ Unrecorded(v, c)
        PROVE  Goal
    <2>1. /\ UNCHANGED <<pc, ctxDone>>
          /\ \E g \in Stages \ {"claimed"} : stage' = [stage EXCEPT ![v][c] = g]
      BY <1>2 DEF BeginAttempt, WaitForSlot, BeginBlocked, Delivered, Failed, Unrecorded, Release,
                  Stages
    <2>2. \A d \in Deliveries : stage'[w][d] = "claimed" => stage[w][d] = "claimed"
      BY <2>1 DEF TypeOK
    <2> QED BY <1>0, <2>1, <2>2
  <1>3. ASSUME NEW v \in Workers, NEW S \in SUBSET Claimable, ClaimPendingDeliveries(v, S)
        PROVE  Goal
    <2>1. w # v
      BY <1>0, <1>3 DEF ClaimPendingDeliveries
    <2>2. pc'[w] = pc[w] /\ stage'[w] = stage[w] /\ ctxDone[w]
      BY <1>3, <2>1 DEF ClaimPendingDeliveries, TypeOK
    <2> QED BY <1>0, <2>2
  <1>4. ASSUME NEW v \in Workers, StartWorker(v)
        PROVE  Goal
    <2>1. w # v
      BY <1>4 DEF StartWorker, TypeOK
    <2>2. ctxDone[w] /\ pc'[w] = pc[w] /\ stage' = stage
      BY <1>4, <2>1 DEF StartWorker, workVars, TypeOK
    <2> QED BY <1>0, <2>2
  <1>5. ASSUME NEW v \in Workers, FinishBatch(v)
        PROVE  Goal
    <2>1. ctxDone[w] /\ stage' = stage /\ pc'[w] \in {pc[w], "down"}
      BY <1>5 DEF FinishBatch, workVars, TypeOK
    <2> QED BY <1>0, <2>1
  <1>6. ASSUME NEW v \in Workers, Stop(v)
        PROVE  Goal
    <2>1. CASE w = v
      <3>1. pc'[w] # "idle"
        BY <1>6, <2>1 DEF Stop, TypeOK
      <3>2. \A d \in Deliveries : stage'[w][d] # "claimed"
        BY <1>6, <2>1 DEF Stop, TypeOK
      <3> QED BY <3>1, <3>2
    <2>2. CASE w # v
      <3>1. ctxDone[w] /\ pc'[w] = pc[w] /\ stage'[w] = stage[w]
        BY <1>6, <2>2 DEF Stop, TypeOK
      <3> QED BY <1>0, <3>1
    <2> QED BY <2>1, <2>2
  <1>7. ASSUME NEW v \in Workers, Crash(v)
        PROVE  Goal
    <2>1. ctxDone[w] /\ pc'[w] \in {pc[w], "down"}
      BY <1>7 DEF Crash, TypeOK
    <2>2. \A d \in Deliveries : stage'[w][d] \in {stage[w][d], "none"}
      BY <1>7 DEF Crash, Nothing, TypeOK
    <2> QED BY <1>0, <2>1, <2>2
  <1>8. CASE \/ \E s \in Subs : Subscribe(s) \/ Unsubscribe(s)
             \/ \E e \in Events : EnqueueDeliveries(e)
             \/ Tick
             \/ UNCHANGED vars
    BY <1>1, <1>8 DEF Subscribe, Unsubscribe, EnqueueDeliveries, Tick, vars, workVars
  <1> QED BY <1>2, <1>3, <1>4, <1>5, <1>6, <1>7, <1>8 DEF Next, WorkerStep

\* An attempt begins, or waits for a slot.
LEMMA BeginCounts ==
    ASSUME TypeOK, TypeOK', Running, Counts, NEW v \in Workers, NEW c \in Deliveries,
           BeginAttempt(v, c) \/ WaitForSlot(v, c) \/ BeginBlocked(v, c)
    PROVE  Counts'
  <1>1. /\ UNCHANGED <<subs, status, attempts, ctxDone, seen, expired, stops, faults>>
        /\ stage[v][c] \in {"claimed", "blocked"}
        /\ stage[v][c] = "claimed" => ~ctxDone[v]
    BY DEF BeginAttempt, WaitForSlot, BeginBlocked, rowVars, Running, Claimed, At
  <1>2. PICK g \in {"blocked", "posting", "cancelled"} :
            /\ stage' = [stage EXCEPT ![v][c] = g]
            /\ \/ g = "blocked" /\ stage[v][c] = "claimed" /\ tries' = tries
               \/ g = "posting" /\ ~ctxDone[v] /\ tries' = [tries EXCEPT ![c] = @ + 1]
               \/ g = "cancelled" /\ ctxDone[v] /\ stage[v][c] = "blocked" /\ tries' = tries
    <2>1. CASE BeginAttempt(v, c)
      BY <1>1, <2>1 DEF BeginAttempt
    <2>2. CASE WaitForSlot(v, c)
      BY <2>2 DEF WaitForSlot
    <2>3. CASE BeginBlocked(v, c)
      BY <2>3 DEF BeginBlocked
    <2> QED BY <2>1, <2>2, <2>3
  <1>3. \A w \in Workers, d \in Deliveries :
            stage'[w][d] = IF w = v /\ d = c THEN g ELSE stage[w][d]
    BY <1>2 DEF TypeOK
  <1> SUFFICES ASSUME NEW d \in Deliveries PROVE Kept(d)' /\ RowCounts(d)'
    BY DEF Counts
  <1>4. Kept(d) /\ RowCounts(d) /\ stops \in Nat /\ faults \in Nat
    BY RowTypes DEF Counts
  <1>5. CASE d # c
    <2>1. tries'[d] = tries[d]
      BY <1>2, <1>5 DEF TypeOK
    <2>2. faults' >= faults
      BY <1>1, <1>4
    <2>3. \A w \in Workers : /\ stage'[w][d] = stage[w][d] /\ seen'[w][d] = seen[w][d]
                             /\ stage[w][d] # "none" => ctxDone'[w] = ctxDone[w]
      BY <1>1, <1>3, <1>5
    <2> QED BY <1>1, <1>4, <2>1, <2>2, <2>3, OtherRow
  <1>6. CASE d = c /\ g # "posting"
    <2>1. Waits(d)' \subseteq Waits(d) /\ Sends(d)' = Sends(d)
      BY <1>1, <1>2, <1>3, <1>6 DEF Waits, Sends
    <2>2. Spent(d)' = Spent(d)
      BY <1>1, <1>2, <1>3, <1>6 DEF Spent
    <2>3. /\ Cardinality(Waits(d)') \in Nat /\ Cardinality(Waits(d)') <= Cardinality(Waits(d))
      <3>1. IsFiniteSet(Waits(d))
        BY QueueAssumption, FS_Subset DEF Waits
      <3> QED BY <2>1, <3>1, FS_Subset, FS_CardinalityType
    <2>4. /\ Cardinality(Sends(d)) \in Nat /\ Cardinality(Spent(d)) \in Nat /\ Reach(d) \in Nat
      BY RowTypes
    <2>5. Reach(d)' = Reach(d)
      BY <1>1 DEF Reach
    <2>6. /\ Reach(d)' >= Reach(d) /\ faults' >= faults /\ stops' >= stops
          /\ Cardinality(Spent(d)') <= Cardinality(Spent(d)) + (stops' - stops)
          /\ Cardinality(Waits(d)') <= Cardinality(Waits(d))
          /\ Cardinality(Sends(d)') + (faults' - faults) >= Cardinality(Sends(d))
      BY <1>1, <1>4, <2>1, <2>2, <2>3, <2>4, <2>5
    <2>7. \A w \in Workers : stage'[w][d] # "none" => stage[w][d] # "none" /\ seen'[w][d] = seen[w][d]
      BY <1>1, <1>3
    <2>8. tries'[d] = tries[d]
      BY <1>2, <1>6
    <2>9. RowAlone(d)
      BY <1>1, <2>6, <2>7, <2>8 DEF RowAlone
    <2> QED BY <1>4, <2>9, AloneCounts
  <1>7. CASE d = c /\ g = "posting"
    <2>1. /\ Waits(d)' = Waits(d) \ {v} /\ v \in Waits(d)
          /\ Sends(d)' = Sends(d) \cup {v} /\ v \notin Sends(d)
      BY <1>1, <1>3, <1>7 DEF Waits, Sends
    <2>2. Spent(d)' = Spent(d) \cup {v}
      BY <1>1, <1>2, <1>3, <1>7 DEF Spent
    <2>3. /\ Cardinality(Waits(d)') = Cardinality(Waits(d)) - 1
          /\ Cardinality(Sends(d)') = Cardinality(Sends(d)) + 1
          /\ Cardinality(Spent(d)') <= Cardinality(Spent(d)) + 1
          /\ Cardinality(Spent(d)') \in Nat
      <3>1. Waits(d) \in SUBSET Workers /\ Sends(d) \in SUBSET Workers /\ Spent(d) \in SUBSET Workers
        BY DEF Waits, Sends, Spent
      <3>2. Cardinality(Waits(d) \ {v}) = Cardinality(Waits(d)) - 1
        BY <2>1, <3>1, WorkerSets
      <3>3. Cardinality(Sends(d) \cup {v}) = Cardinality(Sends(d)) + 1
        BY <2>1, <3>1, WorkerSets
      <3>4. /\ Cardinality(Spent(d)) \in Nat
            /\ Cardinality(Spent(d) \cup {v}) \in {Cardinality(Spent(d)), Cardinality(Spent(d)) + 1}
        BY <3>1, WorkerSets
      <3> QED BY <2>1, <2>2, <3>2, <3>3, <3>4
    <2>4. tries'[d] = tries[d] + 1
      BY <1>2, <1>7 DEF TypeOK
    <2>5. /\ attempts[d] \in Nat /\ tries[d] \in Nat /\ MaxAttempts \in Nat
          /\ Cardinality(Waits(d)) \in Nat /\ Cardinality(Sends(d)) \in Nat
          /\ Cardinality(Spent(d)) \in Nat /\ Reach(d) \in Nat
      BY RowTypes
    <2>6. Reach(d)' = Reach(d)
      BY <1>1 DEF Reach
    <2>7. Lower(d)'
      BY <1>1, <1>4, <2>3, <2>4, <2>5 DEF RowCounts, Lower
    <2>8. Upper(d)'
      BY <1>1, <1>4, <2>3, <2>4, <2>5, <2>6 DEF RowCounts, Upper
    <2>9. Recorded(d)'
      BY <1>1, <1>4, <2>3, <2>4, <2>5 DEF RowCounts, Recorded
    <2>10. Retried(d)' /\ Read(d)'
      BY <1>1, <1>3, <1>4, <1>7 DEF RowCounts, Retried, Read
    <2>11. GivenUp(d)'
      BY <1>1, <1>4, <2>4, <2>5 DEF RowCounts, GivenUp
    <2>12. Kept(d)'
      <3>1. v \in Holders(d)
        BY <1>1, <1>7 DEF Holders
      <3> QED BY <1>1, <1>4, <3>1 DEF Kept
    <2> QED BY <2>7, <2>8, <2>9, <2>10, <2>11, <2>12 DEF RowCounts
  <1> QED BY <1>5, <1>6, <1>7

\* What an outcome writes to its row: the count goes up, or the row is given up.
LEMMA EndWrites ==
    ASSUME TypeOK, NEW v \in Workers, NEW c \in Deliveries,
           MarkDeliverySuccess(c) \/ handleFailure(v, c)
    PROVE  /\ \A d \in Deliveries : d # c => status'[d] = status[d] /\ attempts'[d] = attempts[d]
           /\ status'[c] = "absent" <=> status[c] = "absent"
           /\ \/ attempts'[c] = attempts[c] + 1 /\ status'[c] \in {"absent", "delivered"}
              \/ /\ attempts'[c] = attempts[c] + 1 /\ seen[v][c] + 1 < MaxAttempts
                 /\ status'[c] \in {"absent", "pending", "dead_letter"}
                 /\ status'[c] = "pending" => attempts[c] + 1 < MaxAttempts
                 /\ status'[c] = "dead_letter" => attempts[c] + 1 >= MaxAttempts
              \/ /\ attempts'[c] = attempts[c] /\ seen[v][c] + 1 >= MaxAttempts
                 /\ status'[c] \in {"absent", "dead_letter"}
  <1> USE DEF TypeOK, SetStatus
  <1>0. seen[v][c] \in Nat /\ MaxAttempts \in Nat /\ attempts[c] \in Nat
    BY QueueAssumption
  <1>1. CASE MarkDeliverySuccess(c)
    BY <1>1 DEF MarkDeliverySuccess
  <1>2. CASE seen[v][c] + 1 >= MaxAttempts /\ MarkDeliveryDeadLetter(c)
    BY <1>2 DEF MarkDeliveryDeadLetter
  <1>3. CASE /\ ~(seen[v][c] + 1 >= MaxAttempts)
             /\ MarkDeliveryRetry(c, BackoffBase * 2^(seen[v][c] + 1))
    <2>1. seen[v][c] + 1 < MaxAttempts
      BY <1>0, <1>3
    <2>2. CASE attempts[c] + 1 >= MaxAttempts
      <3>1. status' = [status EXCEPT ![c] = IF @ = "absent" THEN @ ELSE "dead_letter"]
        BY <1>3, <2>2 DEF MarkDeliveryRetry
      <3>2. attempts' = [attempts EXCEPT ![c] = @ + 1]
        BY <1>3 DEF MarkDeliveryRetry
      <3> QED BY <2>1, <2>2, <3>1, <3>2
    <2>3. CASE ~(attempts[c] + 1 >= MaxAttempts)
      <3>1. status' = [status EXCEPT ![c] = IF @ = "absent" THEN @ ELSE "pending"]
        BY <1>3, <2>3 DEF MarkDeliveryRetry
      <3>2. attempts' = [attempts EXCEPT ![c] = @ + 1]
        BY <1>3 DEF MarkDeliveryRetry
      <3>3. attempts[c] + 1 < MaxAttempts
        BY <1>0, <2>3
      <3> QED BY <2>1, <3>1, <3>2, <3>3
    <2> QED BY <2>2, <2>3
  <1> QED BY <1>1, <1>2, <1>3 DEF handleFailure

\* An attempt ends and its outcome is written, or is lost.
LEMMA EndCounts ==
    ASSUME TypeOK, TypeOK', CleanInv, Counts, NEW v \in Workers, NEW c \in Deliveries,
           Delivered(v, c) \/ Failed(v, c) \/ Unrecorded(v, c)
    PROVE  Counts'
  <1>1. /\ stage' = [stage EXCEPT ![v][c] = "none"] /\ seen' = [seen EXCEPT ![v][c] = 0]
        /\ stage[v][c] \in {"posting", "cancelled"}
        /\ UNCHANGED <<subs, ctxDone, tries, expired, stops>>
    BY DEF Delivered, Failed, Unrecorded, Release
  <1>2. \A w \in Workers, d \in Deliveries :
            /\ stage'[w][d] = IF w = v /\ d = c THEN "none" ELSE stage[w][d]
            /\ ~(w = v /\ d = c) => seen'[w][d] = seen[w][d]
    BY <1>1 DEF TypeOK
  <1>3. faults \in Nat /\ faults' \in Nat /\ faults' >= faults /\ stops \in Nat
    BY DEF Delivered, Failed, Unrecorded, Fault, TypeOK
  <1>4. \/ UNCHANGED <<status, attempts>> /\ faults' = faults + 1
        \/ (MarkDeliverySuccess(c) \/ handleFailure(v, c)) /\ faults' = faults
    BY DEF Delivered, Failed, Unrecorded, Fault, rowVars
  <1> SUFFICES ASSUME NEW d \in Deliveries PROVE Kept(d)' /\ RowCounts(d)'
    BY DEF Counts
  <1>5. Kept(d) /\ RowCounts(d)
    BY DEF Counts
  <1>6. CASE d # c
    <2>1. status'[d] = status[d] /\ attempts'[d] = attempts[d]
      BY <1>4, <1>6, EndWrites
    <2>2. \A w \in Workers : /\ stage'[w][d] = stage[w][d] /\ seen'[w][d] = seen[w][d]
                             /\ stage[w][d] # "none" => ctxDone'[w] = ctxDone[w]
      BY <1>1, <1>2, <1>6
    <2> QED BY <1>1, <1>3, <1>5, <2>1, <2>2, OtherRow
  <1>7. CASE d = c
    <2>1. Waits(d)' = Waits(d) /\ Sends(d)' = Sends(d) \ {v}
      BY <1>1, <1>2, <1>7 DEF Waits, Sends
    <2>2. Spent(d)' = Spent(d) \ {v} /\ v \in Spent(d)
      BY <1>1, <1>2, <1>7 DEF Spent
    <2>3. /\ attempts[d] \in Nat /\ tries[d] \in Nat /\ MaxAttempts \in Nat /\ MaxAttempts >= 1
          /\ Cardinality(Waits(d)) \in Nat /\ Cardinality(Sends(d)) \in Nat
          /\ Cardinality(Spent(d)) \in Nat /\ Reach(d) \in Nat /\ seen[v][d] \in Nat
      BY RowTypes
    <2>4. /\ Cardinality(Sends(d)') + 1 >= Cardinality(Sends(d)) /\ Cardinality(Sends(d)') \in Nat
          /\ Cardinality(Spent(d)') = Cardinality(Spent(d)) - 1
          /\ Cardinality(Spent(d)') \in Nat
      <3>1. Sends(d) \in SUBSET Workers /\ Spent(d) \in SUBSET Workers /\ Sends(d) \ {v} \in SUBSET Workers
            /\ Spent(d) \ {v} \in SUBSET Workers
        BY DEF Sends, Spent
      <3>2. Cardinality(Sends(d) \ {v}) \in {Cardinality(Sends(d)), Cardinality(Sends(d)) - 1}
        BY <3>1, WorkerSets
      <3>3. Cardinality(Spent(d) \ {v}) = Cardinality(Spent(d)) - 1
        BY <2>2, <3>1, WorkerSets
      <3>4. Cardinality(Sends(d) \ {v}) \in Nat /\ Cardinality(Spent(d) \ {v}) \in Nat
        BY <3>1, WorkerSets
      <3> QED BY <2>1, <2>2, <2>3, <3>2, <3>3, <3>4
    <2>5. Reach(d)' = Reach(d)
      BY <1>1 DEF Reach
    <2>6. CASE UNCHANGED <<status, attempts>> /\ faults' = faults + 1
      <3>1. /\ Reach(d)' >= Reach(d) /\ faults' >= faults /\ stops' >= stops
            /\ Cardinality(Spent(d)') <= Cardinality(Spent(d)) + (stops' - stops)
            /\ Cardinality(Waits(d)') <= Cardinality(Waits(d))
            /\ Cardinality(Sends(d)') + (faults' - faults) >= Cardinality(Sends(d))
        BY <1>1, <1>3, <2>1, <2>3, <2>4, <2>5, <2>6
      <3>2. \A w \in Workers : stage'[w][d] # "none" => stage[w][d] # "none" /\ seen'[w][d] = seen[w][d]
        BY <1>2
      <3>3. RowAlone(d)
        BY <1>1, <2>6, <3>1, <3>2 DEF RowAlone
      <3> QED BY <1>5, <3>3, AloneCounts
    <2>7. CASE (MarkDeliverySuccess(c) \/ handleFailure(v, c)) /\ faults' = faults
      <3>1. /\ status'[d] = "absent" <=> status[d] = "absent"
            /\ \/ attempts'[d] = attempts[d] + 1 /\ status'[d] \in {"absent", "delivered"}
               \/ /\ attempts'[d] = attempts[d] + 1 /\ seen[v][d] + 1 < MaxAttempts
                  /\ status'[d] \in {"absent", "pending", "dead_letter"}
                  /\ status'[d] = "pending" => attempts[d] + 1 < MaxAttempts
                  /\ status'[d] = "dead_letter" => attempts[d] + 1 >= MaxAttempts
               \/ /\ attempts'[d] = attempts[d] /\ seen[v][d] + 1 >= MaxAttempts
                  /\ status'[d] \in {"absent", "dead_letter"}
        BY <1>7, <2>7, EndWrites
      <3>2. seen[v][d] <= attempts[d] /\ Holds(v, d)
        BY <1>1, <1>5, <1>7 DEF RowCounts, Read, Holds
      <3>3. d \notin expired => seen[v][d] = attempts[d] /\ status[d] \in {"pending", "absent"}
        BY <3>2 DEF CleanInv, Clean
      <3>4. tries[d] + stops >= attempts[d] + Cardinality(Spent(d)) /\ Cardinality(Spent(d)) >= 1
        BY <1>5, <2>3, <2>4 DEF RowCounts, Lower
      <3>5. Lower(d)'
        BY <1>1, <1>3, <2>3, <2>4, <3>1, <3>4 DEF Lower
      <3>6. Upper(d)'
        BY <1>1, <1>5, <2>1, <2>5, <2>7 DEF RowCounts, Upper
      <3>7. Recorded(d)'
        <4> SUFFICES ASSUME status'[d] = "pending" \/ attempts'[d] < MaxAttempts - 1
                     PROVE  tries'[d] <= attempts'[d] + faults' + Cardinality(Sends(d)')
          BY DEF Recorded
        <4>1. attempts[d] < MaxAttempts - 1 /\ attempts'[d] = attempts[d] + 1
          BY <2>3, <3>1, <3>2
        <4>2. tries[d] <= attempts[d] + faults + Cardinality(Sends(d))
          BY <1>5, <4>1 DEF RowCounts, Recorded
        <4> QED BY <1>1, <1>3, <2>3, <2>4, <2>7, <4>1, <4>2
      <3>8. Retried(d)'
        BY <2>3, <3>1 DEF Retried
      <3>9. GivenUp(d)'
        <4> SUFFICES ASSUME status'[d] = "dead_letter"
                     PROVE  /\ tries'[d] + stops' >= MaxAttempts
                            /\ attempts'[d] >= MaxAttempts - 1
                            /\ attempts'[d] > MaxAttempts - 1 => d \in expired'
          BY DEF GivenUp
        <4>1. attempts[d] + 1 >= MaxAttempts
          BY <2>3, <3>1, <3>2
        <4>2. tries'[d] + stops' >= MaxAttempts
          BY <1>1, <1>3, <2>3, <3>4, <4>1
        <4>3. attempts'[d] >= MaxAttempts - 1
          BY <2>3, <3>1, <4>1
        <4>4. ASSUME d \notin expired PROVE ~(attempts'[d] > MaxAttempts - 1)
          <5>1. status[d] = "pending" /\ seen[v][d] = attempts[d]
            BY <3>1, <3>3, <4>4
          <5>2. attempts[d] < MaxAttempts
            BY <1>5, <5>1 DEF RowCounts, Retried
          <5>3. attempts'[d] = attempts[d]
            BY <2>3, <3>1, <4>1, <5>1
          <5> QED BY <2>3, <5>2, <5>3
        <4> QED BY <1>1, <4>2, <4>3, <4>4
      <3>10. Read(d)'
        <4> SUFFICES ASSUME NEW w \in Workers, stage'[w][d] # "none" PROVE seen'[w][d] <= attempts'[d]
          BY DEF Read
        <4>1. stage[w][d] # "none" /\ seen'[w][d] = seen[w][d] /\ seen[w][d] \in Nat
          BY <1>2, RowTypes
        <4>2. seen[w][d] <= attempts[d]
          BY <1>5, <4>1 DEF RowCounts, Read
        <4>3. attempts'[d] \in {attempts[d], attempts[d] + 1}
          BY <3>1
        <4> QED BY <2>3, <4>1, <4>2, <4>3
      <3>11. Kept(d)'
        <4>1. v \in Holders(d)
          BY <1>1, <1>7 DEF Holders
        <4> QED BY <1>1, <1>5, <3>1, <4>1 DEF Kept
      <3> QED BY <3>5, <3>6, <3>7, <3>8, <3>9, <3>10, <3>11 DEF RowCounts
    <2> QED BY <1>4, <2>6, <2>7
  <1> QED BY <1>6, <1>7

\* Claimed rows are pending; their count is read.
LEMMA ClaimCounts ==
    ASSUME TypeOK, TypeOK', Idle, CleanInv, Counts, NEW v \in Workers, NEW S \in SUBSET Claimable,
           ClaimPendingDeliveries(v, S)
    PROVE  Counts'
  <1>1. UNCHANGED <<subs, status, attempts, ctxDone, tries, expired, stops, faults>> /\ pc[v] = "idle"
    BY DEF ClaimPendingDeliveries
  <1>2. ASSUME NEW w \in Workers, NEW d \in Deliveries
        PROVE  /\ stage'[w][d] = IF w = v THEN IF d \in S THEN "claimed" ELSE "none" ELSE stage[w][d]
               /\ seen'[w][d] = IF w = v THEN IF d \in S THEN attempts[d] ELSE 0 ELSE seen[w][d]
    BY DEF ClaimPendingDeliveries, TypeOK
  <1>3. \A d \in Deliveries : stage[v][d] = "none"
    BY <1>1 DEF Idle, Holds
  <1> SUFFICES ASSUME NEW d \in Deliveries PROVE Kept(d)' /\ RowCounts(d)'
    BY DEF Counts
  <1>4. Kept(d) /\ RowCounts(d) /\ stops \in Nat /\ faults \in Nat
    BY RowTypes DEF Counts
  <1>5. Sends(d)' = Sends(d) /\ Spent(d)' = Spent(d) /\ Reach(d)' = Reach(d)
    <2>1. Sends(d)' = Sends(d)
      BY <1>2, <1>3 DEF Sends
    <2>2. Spent(d)' = Spent(d)
      BY <1>1, <1>2, <1>3 DEF Spent
    <2> QED BY <1>1, <2>1, <2>2 DEF Reach
  <1>6. /\ attempts[d] \in Nat /\ tries[d] \in Nat /\ MaxAttempts \in Nat
        /\ Cardinality(Waits(d)) \in Nat /\ Cardinality(Sends(d)) \in Nat
        /\ Cardinality(Spent(d)) \in Nat /\ Reach(d) \in Nat
    BY RowTypes
  <1>7. CASE d \notin S
    <2>1. Waits(d)' = Waits(d)
      BY <1>2, <1>3, <1>7 DEF Waits
    <2>2. /\ Reach(d)' >= Reach(d) /\ faults' >= faults /\ stops' >= stops
          /\ Cardinality(Spent(d)') <= Cardinality(Spent(d)) + (stops' - stops)
          /\ Cardinality(Waits(d)') <= Cardinality(Waits(d))
          /\ Cardinality(Sends(d)') + (faults' - faults) >= Cardinality(Sends(d))
      BY <1>1, <1>4, <1>5, <1>6, <2>1
    <2>3. \A w \in Workers : stage'[w][d] # "none" => stage[w][d] # "none" /\ seen'[w][d] = seen[w][d]
      BY <1>2, <1>7
    <2>4. RowAlone(d)
      BY <1>1, <2>2, <2>3 DEF RowAlone
    <2> QED BY <1>4, <2>4, AloneCounts
  <1>8. CASE d \in S
    <2>1. status[d] = "pending" /\ subs[d[1]] = "active" /\ lockLeft[d] = 0
      BY <1>8 DEF Claimable
    <2>2. Waits(d)' = Waits(d) \cup {v}
      BY <1>2, <1>8 DEF Waits
    <2>3. /\ Waits(d)' \in SUBSET Workers /\ Cardinality(Waits(d)') \in Nat
          /\ Sends(d) \in SUBSET Workers /\ IsFiniteSet(Workers)
      BY <2>2, WorkerSets, QueueAssumption DEF Waits, Sends
    <2>4. Cardinality(Waits(d)') + Cardinality(Sends(d)) <= Reach(d)
      <3>1. CASE d \in expired
        <4>1. IsFiniteSet(Waits(d)') /\ IsFiniteSet(Sends(d))
          BY <2>3, FS_Subset
        <4>2. Waits(d)' \cap Sends(d) = {}
          BY <1>3, <2>2 DEF Waits, Sends
        <4>3. Cardinality({}) = 0
          BY FS_EmptySet
        <4>4. Cardinality(Waits(d)' \cup Sends(d)) = Cardinality(Waits(d)') + Cardinality(Sends(d)) - Cardinality({})
          BY <4>1, <4>2, FS_Union
        <4>5. Cardinality(Waits(d)' \cup Sends(d)) <= Cardinality(Workers)
          BY <2>3, FS_Subset
        <4> QED BY <1>6, <2>3, <3>1, <4>3, <4>4, <4>5 DEF Reach
      <3>2. CASE d \notin expired
        <4>1. \A w \in Workers : stage[w][d] = "none"
          <5>1. ~(lockLeft[d] > 0)
            BY <2>1
          <5> QED BY <3>2, <5>1 DEF CleanInv, Clean, Holds
        <4>2. Waits(d) = {} /\ Sends(d) = {}
          BY <4>1 DEF Waits, Sends
        <4>3. Cardinality(Waits(d)') = 1 /\ Cardinality(Sends(d)) = 0
          <5>1. Waits(d)' = {v}
            BY <2>2, <4>2
          <5>2. Cardinality({v}) = 1 /\ Cardinality({}) = 0
            BY FS_EmptySet, FS_Singleton
          <5> QED BY <4>2, <5>1, <5>2
        <4> QED BY <3>2, <4>3 DEF Reach
      <3> QED BY <3>1, <3>2
    <2>5. attempts[d] < MaxAttempts /\ tries[d] <= attempts[d] + faults + Cardinality(Sends(d))
      BY <1>4, <2>1 DEF RowCounts, Retried, Recorded
    <2>6. Upper(d)'
      BY <1>1, <1>4, <1>5, <1>6, <2>3, <2>4, <2>5 DEF Upper
    <2>7. Lower(d)' /\ Recorded(d)' /\ Retried(d)' /\ GivenUp(d)'
      BY <1>1, <1>4, <1>5 DEF RowCounts, Lower, Recorded, Retried, GivenUp
    <2>8. Read(d)'
      <3> SUFFICES ASSUME NEW w \in Workers, stage'[w][d] # "none" PROVE seen'[w][d] <= attempts[d]
        BY <1>1 DEF Read
      <3>1. CASE w = v
        BY <1>2, <1>6, <1>8, <3>1
      <3>2. CASE w # v
        BY <1>2, <1>4, <3>2 DEF RowCounts, Read
      <3> QED BY <3>1, <3>2
    <2>9. Kept(d)'
      BY <1>1, <2>1 DEF Kept
    <2> QED BY <2>6, <2>7, <2>8, <2>9 DEF RowCounts
  <1> QED BY <1>7, <1>8

\* Starting and ending a batch, a shutdown and a crash.
LEMMA LoopCounts ==
    ASSUME TypeOK, TypeOK', Idle, Counts, NEW v \in Workers,
           StartWorker(v) \/ FinishBatch(v) \/ Stop(v) \/ Crash(v)
    PROVE  Counts'
  <1>1. UNCHANGED <<subs, status, attempts, tries, expired>>
    BY DEF StartWorker, FinishBatch, Stop, Crash, rowVars
  <1> SUFFICES ASSUME NEW d \in Deliveries PROVE Kept(d)' /\ RowCounts(d)'
    BY DEF Counts
  <1>2. Kept(d) /\ RowCounts(d)
    BY DEF Counts
  <1>3. /\ stops \in Nat /\ faults \in Nat /\ Reach(d) \in Nat
        /\ Cardinality(Waits(d)) \in Nat /\ Cardinality(Sends(d)) \in Nat
        /\ Cardinality(Spent(d)) \in Nat
    BY RowTypes
  <1>4. Reach(d)' = Reach(d)
    BY <1>1 DEF Reach
  <1>5. Waits(d) \in SUBSET Workers /\ Sends(d) \in SUBSET Workers /\ Spent(d) \in SUBSET Workers
    BY DEF Waits, Sends, Spent
  <1>6. CASE StartWorker(v)
    <2>1. /\ pc[v] = "down" /\ ctxDone' = [ctxDone EXCEPT ![v] = FALSE]
          /\ UNCHANGED <<stage, seen, stops, faults>>
      BY <1>6 DEF StartWorker, workVars
    <2>2. stage[v][d] = "none"
      BY <2>1 DEF Idle, Holds
    <2>3. \A w \in Workers : /\ stage'[w][d] = stage[w][d] /\ seen'[w][d] = seen[w][d]
                             /\ stage[w][d] # "none" => ctxDone'[w] = ctxDone[w]
      BY <2>1, <2>2 DEF TypeOK
    <2>4. faults' >= faults
      BY <1>3, <2>1
    <2> QED BY <1>1, <1>2, <2>1, <2>3, <2>4, OtherRow
  <1>7. CASE FinishBatch(v)
    <2>1. UNCHANGED <<ctxDone, stage, seen, stops, faults>>
      BY <1>7 DEF FinishBatch, workVars
    <2>2. faults' >= faults
      BY <1>3, <2>1
    <2> QED BY <1>1, <1>2, <2>1, <2>2, OtherRow
  <1>8. CASE Stop(v)
    <2>1. /\ stops' = stops + 1 /\ UNCHANGED faults
          /\ ctxDone' = [ctxDone EXCEPT ![v] = TRUE]
      BY <1>8 DEF Stop
    <2>2. ASSUME NEW w \in Workers
          PROVE  /\ w # v => stage'[w][d] = stage[w][d] /\ seen'[w][d] = seen[w][d] /\ ctxDone'[w] = ctxDone[w]
                 /\ stage[w][d] # "claimed" => stage'[w][d] = stage[w][d] /\ seen'[w][d] = seen[w][d]
                 /\ w = v /\ stage[w][d] = "claimed" => stage'[w][d] = "none"
      <3>1. /\ stage \in [Workers -> [Deliveries -> Stages]] /\ seen \in [Workers -> [Deliveries -> Nat]]
            /\ ctxDone \in [Workers -> BOOLEAN]
        BY DEF TypeOK
      <3>2. CASE w # v
        <4>1. ctxDone'[w] = ctxDone[w]
          BY <2>1, <3>1, <3>2
        <4>2. stage'[w] = stage[w] /\ seen'[w] = seen[w]
          BY <1>8, <3>1, <3>2 DEF Stop
        <4> QED BY <3>2, <4>1, <4>2
      <3>3. CASE w = v
        <4>1. stage'[w] = [e \in Deliveries |-> IF stage[w][e] = "claimed" THEN "none" ELSE stage[w][e]]
          BY <1>8, <3>1, <3>3 DEF Stop
        <4>2. seen'[w] = [e \in Deliveries |-> IF stage[w][e] = "claimed" THEN 0 ELSE seen[w][e]]
          BY <1>8, <3>1, <3>3 DEF Stop
        <4> QED BY <3>3, <4>1, <4>2
      <3> QED BY <3>2, <3>3
    <2>3. Sends(d)' = Sends(d)
      BY <2>2 DEF Sends
    <2>4. Waits(d)' = Waits(d) \/ Waits(d)' = Waits(d) \ {v}
      BY <2>2 DEF Waits
    <2>5. Spent(d)' = Spent(d) \/ Spent(d)' = Spent(d) \cup {v}
      <3>1. ctxDone'[v]
        BY <2>1 DEF TypeOK
      <3>2. CASE stage[v][d] \in {"posting", "cancelled", "blocked"}
        BY <2>2, <3>1, <3>2 DEF Spent
      <3>3. CASE stage[v][d] \in {"none", "claimed"}
        BY <2>2, <3>3 DEF Spent
      <3> QED BY <3>2, <3>3, RowTypes DEF Stages
    <2>6. Cardinality(Waits(d)') <= Cardinality(Waits(d))
      <3>1. Cardinality(Waits(d) \ {v}) \in {Cardinality(Waits(d)), Cardinality(Waits(d)) - 1}
        BY <1>5, WorkerSets
      <3> QED BY <1>3, <2>4, <3>1
    <2>7. Cardinality(Spent(d)') <= Cardinality(Spent(d)) + 1
      <3>1. Cardinality(Spent(d) \cup {v}) \in {Cardinality(Spent(d)), Cardinality(Spent(d)) + 1}
        BY <1>5, WorkerSets
      <3> QED BY <1>3, <2>5, <3>1
    <2>8. /\ Reach(d)' >= Reach(d) /\ faults' >= faults /\ stops' >= stops
          /\ Cardinality(Spent(d)') <= Cardinality(Spent(d)) + (stops' - stops)
          /\ Cardinality(Sends(d)') + (faults' - faults) >= Cardinality(Sends(d))
      <3>1. stops' - stops = 1 /\ faults' - faults = 0
        BY <1>3, <2>1
      <3> QED BY <1>3, <1>4, <2>1, <2>3, <2>7, <3>1
    <2>9. \A w \in Workers : stage'[w][d] # "none" => stage[w][d] # "none" /\ seen'[w][d] = seen[w][d]
      BY <2>2
    <2>10. RowAlone(d)
      BY <1>1, <2>6, <2>8, <2>9 DEF RowAlone
    <2> QED BY <1>2, <2>10, AloneCounts
  <1>9. CASE Crash(v)
    <2>1. /\ faults' = faults + 1 /\ UNCHANGED <<stops, ctxDone>>
          /\ stage' = [stage EXCEPT ![v] = Nothing]
          /\ seen' = [seen EXCEPT ![v] = Zeros]
      BY <1>9 DEF Crash, Fault
    <2>2. ASSUME NEW w \in Workers
          PROVE  /\ w # v => stage'[w][d] = stage[w][d] /\ seen'[w][d] = seen[w][d]
                 /\ w = v => stage'[w][d] = "none"
      BY <2>1 DEF Nothing, TypeOK
    <2>3. /\ Waits(d)' = Waits(d) \ {v} /\ Sends(d)' = Sends(d) \ {v}
      BY <2>2 DEF Waits, Sends
    <2>4. Spent(d)' = Spent(d) \ {v}
      BY <2>1, <2>2 DEF Spent
    <2>5. /\ Cardinality(Waits(d)') \in {Cardinality(Waits(d)), Cardinality(Waits(d)) - 1}
          /\ Cardinality(Sends(d)') \in {Cardinality(Sends(d)), Cardinality(Sends(d)) - 1}
          /\ Cardinality(Spent(d)') \in {Cardinality(Spent(d)), Cardinality(Spent(d)) - 1}
      <3>1. Cardinality(Waits(d) \ {v}) \in {Cardinality(Waits(d)), Cardinality(Waits(d)) - 1}
        BY <1>5, WorkerSets
      <3>2. Cardinality(Sends(d) \ {v}) \in {Cardinality(Sends(d)), Cardinality(Sends(d)) - 1}
        BY <1>5, WorkerSets
      <3>3. Cardinality(Spent(d) \ {v}) \in {Cardinality(Spent(d)), Cardinality(Spent(d)) - 1}
        BY <1>5, WorkerSets
      <3> QED BY <2>3, <2>4, <3>1, <3>2, <3>3
    <2>6. /\ Reach(d)' >= Reach(d) /\ faults' >= faults /\ stops' >= stops
          /\ Cardinality(Spent(d)') <= Cardinality(Spent(d)) + (stops' - stops)
          /\ Cardinality(Waits(d)') <= Cardinality(Waits(d))
          /\ Cardinality(Sends(d)') + (faults' - faults) >= Cardinality(Sends(d))
      <3>1. stops' - stops = 0 /\ faults' - faults = 1
        BY <1>3, <2>1
      <3> QED BY <1>3, <1>4, <2>1, <2>5, <3>1
    <2>7. \A w \in Workers : stage'[w][d] # "none" => stage[w][d] # "none" /\ seen'[w][d] = seen[w][d]
      BY <2>2
    <2>8. RowAlone(d)
      BY <1>1, <2>6, <2>7 DEF RowAlone
    <2> QED BY <1>2, <2>8, AloneCounts
  <1> QED BY <1>6, <1>7, <1>8, <1>9

\* Time passes: a lock that runs out in a worker's hands lets other workers in.
LEMMA TickCounts ==
    ASSUME TypeOK, TypeOK', Counts, Tick
    PROVE  Counts'
  <1> SUFFICES ASSUME NEW d \in Deliveries PROVE Kept(d)' /\ RowCounts(d)'
    BY DEF Counts
  <1>1. /\ UNCHANGED <<subs, status, attempts, ctxDone, stage, seen, tries, stops, faults>>
        /\ expired' = expired \cup {c \in Deliveries : lockLeft[c] <= 1 /\ Holders(c) # {}}
    BY DEF Tick
  <1>2. Waits(d)' = Waits(d) /\ Sends(d)' = Sends(d) /\ Spent(d)' = Spent(d)
    BY <1>1 DEF Waits, Sends, Spent
  <1>3. /\ stops \in Nat /\ faults \in Nat /\ Reach(d) \in Nat /\ Kept(d) /\ RowCounts(d)
        /\ Cardinality(Waits(d)) \in Nat /\ Cardinality(Sends(d)) \in Nat
        /\ Cardinality(Spent(d)) \in Nat
    BY RowTypes DEF Counts
  <1>4. Reach(d)' >= Reach(d)
    <2>1. CASE d \in expired' /\ d \notin expired
      <3>1. Workers # {}
        BY <1>1, <2>1 DEF Holders
      <3>2. Cardinality(Workers) \in Nat /\ Cardinality(Workers) # 0
        BY <3>1, QueueAssumption, FS_EmptySet, FS_CardinalityType
      <3> QED BY <2>1, <3>2 DEF Reach
    <2>2. CASE d \in expired' <=> d \in expired
      BY <1>3, <2>2 DEF Reach
    <2> QED BY <1>1, <2>1, <2>2
  <1>5. /\ faults' >= faults /\ stops' >= stops
        /\ Cardinality(Spent(d)') <= Cardinality(Spent(d)) + (stops' - stops)
        /\ Cardinality(Waits(d)') <= Cardinality(Waits(d))
        /\ Cardinality(Sends(d)') + (faults' - faults) >= Cardinality(Sends(d))
    BY <1>1, <1>2, <1>3
  <1>6. RowAlone(d)
    BY <1>1, <1>4, <1>5 DEF RowAlone
  <1> QED BY <1>3, <1>6, AloneCounts

\* Subscriptions and the dispatcher.
LEMMA OtherCounts ==
    ASSUME TypeOK, TypeOK', Counts,
           \/ \E s \in Subs : Subscribe(s) \/ Unsubscribe(s)
           \/ \E e \in Events : EnqueueDeliveries(e)
           \/ UNCHANGED vars
    PROVE  Counts'
  <1>1. UNCHANGED <<attempts, ctxDone, stage, seen, tries, expired, stops, faults>>
    BY DEF Subscribe, Unsubscribe, EnqueueDeliveries, vars, rowVars, workVars
  <1> SUFFICES ASSUME NEW d \in Deliveries PROVE Kept(d)' /\ RowCounts(d)'
    BY DEF Counts
  <1>2. /\ Waits(d)' = Waits(d) /\ Sends(d)' = Sends(d) /\ Spent(d)' = Spent(d)
        /\ Reach(d)' = Reach(d) /\ Holders(d)' = Holders(d)
    BY <1>1 DEF Waits, Sends, Spent, Reach, Holders
  <1>3. /\ Kept(d) /\ RowCounts(d) /\ d[1] \in Subs /\ stops \in Nat /\ faults \in Nat
        /\ Reach(d) \in Nat /\ MaxAttempts \in Nat /\ MaxAttempts >= 1
        /\ Cardinality(Waits(d)) \in Nat /\ Cardinality(Sends(d)) \in Nat
        /\ Cardinality(Spent(d)) \in Nat
    BY RowTypes DEF Counts
  <1>4. CASE status'[d] = status[d] /\ (subs'[d[1]] = "deleted" <=> subs[d[1]] = "deleted")
    <2>1. /\ Reach(d)' >= Reach(d) /\ faults' >= faults /\ stops' >= stops
          /\ Cardinality(Spent(d)') <= Cardinality(Spent(d)) + (stops' - stops)
          /\ Cardinality(Waits(d)') <= Cardinality(Waits(d))
          /\ Cardinality(Sends(d)') + (faults' - faults) >= Cardinality(Sends(d))
      BY <1>1, <1>2, <1>3
    <2>2. RowAlone(d)
      BY <1>1, <1>4, <2>1 DEF RowAlone
    <2> QED BY <1>3, <2>2, AloneCounts
  <1>5. CASE status'[d] = "absent" /\ subs'[d[1]] = "deleted"
    <2>1. Kept(d)'
      BY <1>5 DEF Kept
    <2>2. Lower(d)' /\ Upper(d)' /\ Read(d)'
      BY <1>1, <1>2, <1>3 DEF RowCounts, Lower, Upper, Read
    <2>3. Recorded(d)' /\ Retried(d)' /\ GivenUp(d)'
      BY <1>1, <1>2, <1>3, <1>5 DEF RowCounts, Recorded, Retried, GivenUp
    <2> QED BY <2>1, <2>2, <2>3 DEF RowCounts
  <1>6. CASE /\ status[d] = "absent" /\ status'[d] = "pending"
             /\ subs[d[1]] = "active" /\ subs' = subs
    <2>1. Holders(d) = {} /\ attempts[d] = 0 /\ tries[d] = 0
      BY <1>3, <1>6 DEF Kept
    <2>2. Kept(d)'
      BY <1>6 DEF Kept
    <2>3. Lower(d)' /\ Upper(d)' /\ Read(d)'
      BY <1>1, <1>2, <1>3 DEF RowCounts, Lower, Upper, Read
    <2>4. Recorded(d)' /\ Retried(d)' /\ GivenUp(d)'
      BY <1>1, <1>2, <1>3, <1>6, <2>1 DEF Recorded, Retried, GivenUp
    <2> QED BY <2>2, <2>3, <2>4 DEF RowCounts
  <1>7. \/ status'[d] = status[d] /\ (subs'[d[1]] = "deleted" <=> subs[d[1]] = "deleted")
        \/ status'[d] = "absent" /\ subs'[d[1]] = "deleted"
        \/ /\ status[d] = "absent" /\ status'[d] = "pending"
           /\ subs[d[1]] = "active" /\ subs' = subs
    <2>1. ASSUME NEW s \in Subs, Subscribe(s)
          PROVE  status'[d] = status[d] /\ (subs'[d[1]] = "deleted" <=> subs[d[1]] = "deleted")
      BY <1>3, <2>1 DEF Subscribe, rowVars, TypeOK
    <2>2. ASSUME NEW s \in Subs, Unsubscribe(s)
          PROVE  IF d[1] = s THEN status'[d] = "absent" /\ subs'[d[1]] = "deleted"
                 ELSE status'[d] = status[d] /\ subs'[d[1]] = subs[d[1]]
      BY <1>3, <2>2 DEF Unsubscribe, TypeOK
    <2>3. ASSUME NEW e \in Events, EnqueueDeliveries(e)
          PROVE  /\ subs' = subs
                 /\ \/ status'[d] = status[d]
                    \/ status[d] = "absent" /\ status'[d] = "pending" /\ subs[d[1]] = "active"
      BY <2>3 DEF EnqueueDeliveries
    <2>4. CASE UNCHANGED vars
      BY <2>4 DEF vars, rowVars
    <2> QED BY <2>1, <2>2, <2>3, <2>4
  <1> QED BY <1>4, <1>5, <1>6, <1>7

\* The invariant of the counts, and its step.
QueueInv == TypeOK /\ Idle /\ CleanInv /\ CountInv

LEMMA InitQueue == Init => QueueInv
  <1> SUFFICES ASSUME Init PROVE QueueInv
    OBVIOUS
  <1>1. \A w \in Workers, d \in Deliveries : stage[w][d] = "none" /\ ~Holds(w, d)
    BY DEF Init, Nothing, Holds
  <1>2. Idle /\ Running
    BY <1>1 DEF Idle, Running, Init
  <1>3. ASSUME NEW d \in Deliveries PROVE Kept(d) /\ RowCounts(d)
    <2>1. Waits(d) = {} /\ Sends(d) = {} /\ Spent(d) = {} /\ Holders(d) = {}
      BY <1>1 DEF Waits, Sends, Spent, Holders
    <2>2. /\ status[d] = "absent" /\ attempts[d] = 0 /\ tries[d] = 0 /\ stops = 0 /\ faults = 0
          /\ d[1] \in Subs /\ subs[d[1]] = "none" /\ Reach(d) = 1 /\ Cardinality({}) = 0
      BY FS_EmptySet DEF Init, Zeros, Deliveries, Reach
    <2>3. Kept(d)
      BY <2>1, <2>2 DEF Kept
    <2>4. Lower(d) /\ Upper(d) /\ Recorded(d)
      BY <2>1, <2>2, QueueAssumption DEF Lower, Upper, Recorded
    <2>5. Retried(d) /\ GivenUp(d) /\ Read(d)
      BY <1>1, <2>2 DEF Retried, GivenUp, Read
    <2> QED BY <2>3, <2>4, <2>5 DEF RowCounts
  <1> QED BY <1>2, <1>3, InitType, InitClean DEF QueueInv, CountInv, Counts

LEMMA NextQueue == QueueInv /\ [Next]_vars => QueueInv'
  <1> SUFFICES ASSUME QueueInv, [Next]_vars PROVE QueueInv'
    OBVIOUS
  <1>1. TypeOK /\ Idle /\ CleanInv /\ Running /\ Counts
    BY DEF QueueInv, CountInv
  <1>2. TypeOK' /\ Idle' /\ CleanInv' /\ Running'
    BY <1>1, NextType, NextIdle, NextClean, NextRunning
  <1>3. Counts'
    BY <1>1, <1>2, BeginCounts, EndCounts, ClaimCounts, LoopCounts, TickCounts, OtherCounts
       DEF Next, WorkerStep
  <1> QED BY <1>2, <1>3 DEF QueueInv, CountInv

\* With any setting of the worker, a row is attempted as often as max_attempts says: no
\* oftener, but for crashes, lost writes and the other workers once its claim ran out,
\* and no fewer times before it is given up, but for attempts a shutdown cancelled
\* (handleFailure and attemptDelivery, webhooks/worker.go).
THEOREM AttemptsConfigured == Spec => []AttemptsAsConfigured
  <1>1. QueueInv => AttemptsAsConfigured
    <2> SUFFICES ASSUME QueueInv PROVE AttemptsBounded /\ DeadLetterExhausted
      BY DEF AttemptsAsConfigured
    <2>1. TypeOK /\ \A d \in Deliveries : RowCounts(d)
      BY DEF QueueInv, CountInv, Counts
    <2>2. AttemptsBounded
      <3> SUFFICES ASSUME NEW d \in Deliveries
                   PROVE  tries[d] <= MaxAttempts + faults
                                        + (IF d \in expired THEN Cardinality(Workers) - 1 ELSE 0)
        BY DEF AttemptsBounded
      <3>1. /\ tries[d] \in Nat /\ faults \in Nat /\ MaxAttempts \in Nat
            /\ Cardinality(Waits(d)) \in Nat /\ Reach(d) \in Nat
        BY <2>1, RowTypes
      <3>2. tries[d] + Cardinality(Waits(d)) <= MaxAttempts - 1 + faults + Reach(d)
        BY <2>1 DEF RowCounts, Upper
      <3>3. CASE d \in expired
        BY <3>1, <3>2, <3>3 DEF Reach
      <3>4. CASE d \notin expired
        BY <3>1, <3>2, <3>4 DEF Reach
      <3> QED BY <3>3, <3>4
    <2>3. DeadLetterExhausted
      BY <2>1 DEF RowCounts, GivenUp, DeadLetterExhausted
    <2> QED BY <2>2, <2>3
  <1> QED BY <1>1, InitQueue, NextQueue, PTL DEF Spec

-----------------------------------------------------------------------------
(***************************************************************************)
(* Settled rows.  The Mark queries update a row whatever its status; what  *)
(* keeps a settled row settled is that a clean row is only ever held while *)
(* it is pending, or after its subscription was deleted.                   *)
(***************************************************************************)
StaysSettled ==
    \A d \in Deliveries :
        status[d] \in {"delivered", "dead_letter"} /\ status'[d] \notin {status[d], "absent"}
            => d \in expired /\ ~(status[d] = "dead_letter" /\ status'[d] = "pending")

LEMMA NextSettled ==
    ASSUME QueueInv, [Next]_vars
    PROVE  StaysSettled
  <1>0. TypeOK /\ CleanInv /\ Counts
    BY DEF QueueInv, CountInv
  <1> SUFFICES ASSUME NEW d \in Deliveries, status[d] \in {"delivered", "dead_letter"},
                      status'[d] \notin {status[d], "absent"}
               PROVE  d \in expired /\ ~(status[d] = "dead_letter" /\ status'[d] = "pending")
    BY DEF StaysSettled
  <1>1. ASSUME NEW v \in Workers, NEW c \in Deliveries, Delivered(v, c) \/ Failed(v, c),
               MarkDeliverySuccess(c) \/ handleFailure(v, c)
        PROVE  d \in expired /\ ~(status[d] = "dead_letter" /\ status'[d] = "pending")
    <2>1. d = c
      BY <1>0, <1>1, EndWrites
    <2>2. Holds(v, d)
      BY <1>1, <2>1 DEF Delivered, Failed, Holds
    <2>3. d \in expired
      BY <1>0, <2>2 DEF CleanInv, Clean
    <2>4. ASSUME status[d] = "dead_letter" PROVE status'[d] # "pending"
      <3>1. attempts[d] >= MaxAttempts - 1
        BY <1>0, <2>4 DEF Counts, RowCounts, GivenUp
      <3>2. attempts[d] \in Nat /\ MaxAttempts \in Nat
        BY <1>0, RowTypes
      <3>3. status'[d] = "pending" => attempts[d] + 1 < MaxAttempts
        BY <1>0, <1>1, <2>1, EndWrites
      <3> QED BY <3>1, <3>2, <3>3
    <2> QED BY <2>3, <2>4
  <1>2. ASSUME NEW e \in Events, EnqueueDeliveries(e)
        PROVE  FALSE
    BY <1>2 DEF EnqueueDeliveries
  <1>3. ASSUME NEW s \in Subs, Subscribe(s) \/ Unsubscribe(s)
        PROVE  FALSE
    BY <1>3 DEF Subscribe, Unsubscribe, rowVars
  <1>4. CASE UNCHANGED status
    BY <1>4
  <1>5. ASSUME NEW v \in Workers, StartWorker(v) \/ FinishBatch(v) \/ Stop(v) \/ Crash(v)
        PROVE  UNCHANGED status
    BY <1>5 DEF StartWorker, FinishBatch, Stop, Crash, rowVars
  <1>6. ASSUME NEW v \in Workers, NEW c \in Deliveries,
               BeginAttempt(v, c) \/ WaitForSlot(v, c) \/ BeginBlocked(v, c) \/ Unrecorded(v, c)
        PROVE  UNCHANGED status
    BY <1>6 DEF BeginAttempt, WaitForSlot, BeginBlocked, Unrecorded, rowVars
  <1>7. ASSUME NEW v \in Workers, NEW S \in SUBSET Claimable, ClaimPendingDeliveries(v, S)
        PROVE  UNCHANGED status
    BY <1>7 DEF ClaimPendingDeliveries
  <1>8. ASSUME NEW v \in Workers, NEW c \in Deliveries, Delivered(v, c) \/ Failed(v, c)
        PROVE  MarkDeliverySuccess(c) \/ handleFailure(v, c)
    BY <1>8 DEF Delivered, Failed
  <1>9. CASE Tick \/ UNCHANGED vars
    BY <1>4, <1>9 DEF Tick, vars, rowVars
  <1> QED BY <1>1, <1>2, <1>3, <1>4, <1>5, <1>6, <1>7, <1>8, <1>9 DEF Next, WorkerStep

\* With any setting of the worker, a delivered or dead-lettered row is reopened or
\* relabelled only once a claim on it ran out in a worker's hands, and a dead-lettered
\* row is never queued again, although the Mark queries do not check the status.
THEOREM SettledRowsStay == Spec => SettledIsFinal
  <1>1. QueueInv /\ [Next]_vars => [StaysSettled]_vars
    BY NextSettled
  <1>2. [StaysSettled]_vars =>
          [\A d \in Deliveries :
              status[d] \in {"delivered", "dead_letter"} /\ status'[d] \notin {status[d], "absent"}
                  => d \in expired /\ ~(status[d] = "dead_letter" /\ status'[d] = "pending")]_vars
    BY DEF StaysSettled
  <1> QED BY <1>1, <1>2, InitQueue, NextQueue, PTL DEF Spec, SettledIsFinal

-----------------------------------------------------------------------------
(***************************************************************************)
(* When no claim runs out.  A claimed row may wait for a slot before it is *)
(* sent, so the claim must outlast the wait and the attempt.  While a row  *)
(* waits, every slot is taken; in any AttemptTime ticks each slot is freed *)
(* at least once.  So the batch goes by in rounds of Concurrency rows, and *)
(* it suffices that a claim lasts as long as the rounds of a full batch    *)
(* (InClaim).  The defaults do not meet it: 50 rows over 8 slots at 10 s   *)
(* and more an attempt are 7 rounds, 70 s, against a lock of 60 s.         *)
(*                                                                         *)
(* Paced is the inductive form.  After m rounds less s ticks, m *          *)
(* Concurrency rows of the batch have been sent, or have at most s ticks   *)
(* to go: the others, Late, are the rest of the batch.                     *)
(***************************************************************************)
InClaim == \E R \in Nat : /\ BatchSize <= R * Concurrency
                          /\ R * AttemptTime <= LockDuration

Batch(w) == {d \in Deliveries : Holds(w, d)}
Waiting(w) == Batch(w) \ InFlight(w)
Late(w, x) == {d \in Batch(w) : d \in InFlight(w) => age[w][d] < x}

Rounds(w, m, s) ==
    /\ Cardinality(Late(w, AttemptTime - s)) + m * Concurrency <= BatchSize
    /\ \A d \in Waiting(w) : lockLeft[d] >= LockDuration + 1 + s - m * AttemptTime

Paced == \A w \in Workers :
             Waiting(w) # {} => \E m \in Nat, s \in 0..AttemptTime : Rounds(w, m, s)

Fresh == \A w \in Workers, d \in Deliveries : d \notin InFlight(w) => age[w][d] = 0

Locked == \A w \in Workers, d \in Deliveries :
              Holds(w, d) => lockLeft[d] + age[w][d] > AttemptTime

Exclusive == \A v, w \in Workers, d \in Deliveries :
                 Holds(v, d) /\ Holds(w, d) => v = w

ClaimInv == Paced /\ Fresh /\ Locked /\ Exclusive

\* The parts of a batch are finite, and a smaller part is no larger a number.
LEMMA PartFinite ==
    ASSUME NEW S \in SUBSET Deliveries
    PROVE  IsFiniteSet(S) /\ Cardinality(S) \in Nat
  <1>1. IsFiniteSet(Deliveries)
    BY QueueAssumption, FS_Product DEF Deliveries
  <1> QED BY <1>1, FS_Subset, FS_CardinalityType

LEMMA PartFewer ==
    ASSUME NEW S \in SUBSET Deliveries, NEW Q \in SUBSET S
    PROVE  /\ Cardinality(S) \in Nat /\ Cardinality(Q) \in Nat
           /\ Cardinality(Q) <= Cardinality(S)
  BY PartFinite, FS_Subset

LEMMA Parts ==
    /\ \A w : Batch(w) \subseteq Deliveries /\ Waiting(w) \subseteq Batch(w)
    /\ \A w, x : Late(w, x) \subseteq Batch(w) /\ Waiting(w) \subseteq Late(w, x)
  BY DEF Batch, Waiting, Late

\* The same of the state after a step.
LEMMA PartsNext ==
    /\ \A w : Batch(w)' \subseteq Deliveries /\ Waiting(w)' \subseteq Batch(w)'
    /\ \A w, x : Late(w, x)' \subseteq Batch(w)' /\ Waiting(w)' \subseteq Late(w, x)'
  BY DEF Batch, Waiting, Late

LEMMA MoreRounds ==
    \A m, n, c \in Nat : m <= n => m * c <= n * c
  OBVIOUS

\* A row that still waits after m rounds leaves time for one more.
LEMMA RoundToGo ==
    ASSUME InClaim, NEW w \in Workers, NEW m \in Nat, NEW s \in 0..AttemptTime,
           NEW k \in Nat, k > 0, k + m * Concurrency <= BatchSize
    PROVE  LockDuration + 1 + s - m * AttemptTime > AttemptTime
  <1>0. Concurrency \in Nat /\ AttemptTime \in Nat /\ BatchSize \in Nat /\ LockDuration \in Nat
    BY QueueAssumption
  <1>1. PICK R \in Nat : BatchSize <= R * Concurrency /\ R * AttemptTime <= LockDuration
    BY DEF InClaim
  <1>2. m * Concurrency \in Nat /\ R * Concurrency \in Nat /\ m * AttemptTime \in Nat
    BY <1>0
  <1>3. ~(R <= m)
    <2>1. ~(R * Concurrency <= m * Concurrency)
      BY <1>0, <1>1, <1>2
    <2> QED BY <1>0, <2>1, MoreRounds
  <1>4. (m + 1) * AttemptTime <= R * AttemptTime
    BY <1>0, <1>3, MoreRounds
  <1>5. (m + 1) * AttemptTime = m * AttemptTime + AttemptTime
    BY <1>0
  <1>6. R * AttemptTime \in Nat
    BY <1>0
  <1> QED BY <1>0, <1>1, <1>2, <1>4, <1>5, <1>6

\* So the claim on a waiting row outlasts the attempt that is still to begin.
WaitIsCovered == \A w \in Workers : \A d \in Waiting(w) : lockLeft[d] > AttemptTime

LEMMA WaitingLocked ==
    ASSUME InClaim
    PROVE  TypeOK /\ Paced => WaitIsCovered
  <1> SUFFICES ASSUME TypeOK, Paced, NEW w \in Workers, NEW d \in Waiting(w)
               PROVE  lockLeft[d] > AttemptTime
    BY DEF WaitIsCovered
  <1>1. PICK m \in Nat, s \in 0..AttemptTime : Rounds(w, m, s)
    BY DEF Paced
  <1> DEFINE L == Late(w, AttemptTime - s)
  <1>2. d \in L /\ L \subseteq Deliveries /\ d \in Deliveries
    BY Parts
  <1>3. IsFiniteSet(L) /\ Cardinality(L) \in Nat
    BY <1>2, PartFinite
  <1>4. Cardinality(L) > 0
    BY <1>2, <1>3, FS_EmptySet
  <1>5. Cardinality(L) + m * Concurrency <= BatchSize
    BY <1>1 DEF Rounds
  <1>6. lockLeft[d] >= LockDuration + 1 + s - m * AttemptTime
    BY <1>1 DEF Rounds
  <1>7. lockLeft[d] \in Nat
    BY <1>2 DEF TypeOK
  <1>8. LockDuration + 1 + s - m * AttemptTime > AttemptTime
    BY <1>3, <1>4, <1>5, RoundToGo
  <1>9. m * AttemptTime \in Nat /\ AttemptTime \in Nat /\ LockDuration \in Nat
    BY QueueAssumption
  <1> QED BY <1>6, <1>7, <1>8, <1>9

\* The rows a worker holds are not claimable.
LEMMA HeldNotClaimable ==
    ASSUME TypeOK, ClaimInv, NEW w \in Workers, NEW d \in Deliveries, Holds(w, d)
    PROVE  d \notin Claimable
  <1>1. age[w][d] \in 0..AttemptTime /\ lockLeft[d] \in Nat
    BY DEF TypeOK
  <1>2. lockLeft[d] + age[w][d] > AttemptTime
    BY DEF ClaimInv, Locked
  <1> QED BY <1>1, <1>2, QueueAssumption DEF Claimable

\* What a worker still holds after a step that leaves it no further behind.
KeepsUp(w, d) ==
    Holds(w, d)' => /\ Holds(w, d)
                    /\ age'[w][d] = age[w][d]
                    /\ lockLeft'[d] = lockLeft[d]
                    /\ d \in InFlight(w) => d \in InFlight(w)'

LEMMA StaysPaced ==
    ASSUME Paced, NEW w \in Workers, \A d \in Deliveries : KeepsUp(w, d), Waiting(w)' # {}
    PROVE  (\E m \in Nat, s \in 0..AttemptTime : Rounds(w, m, s))'
  <1>1. Waiting(w)' \subseteq Waiting(w)
    BY DEF Waiting, Batch, KeepsUp
  <1>2. PICK m \in Nat, s \in 0..AttemptTime : Rounds(w, m, s)
    BY <1>1 DEF Paced
  <1>3. Late(w, AttemptTime - s)' \subseteq Late(w, AttemptTime - s)
    BY DEF Late, Batch, KeepsUp
  <1>4. /\ Cardinality(Late(w, AttemptTime - s)) \in Nat
        /\ Cardinality(Late(w, AttemptTime - s)') \in Nat
        /\ Cardinality(Late(w, AttemptTime - s)') <= Cardinality(Late(w, AttemptTime - s))
    BY <1>3, Parts, PartFewer
  <1>5. \A d \in Waiting(w)' : lockLeft'[d] = lockLeft[d]
    BY DEF Waiting, Batch, KeepsUp
  <1>6. m * Concurrency \in Nat /\ BatchSize \in Nat
    BY QueueAssumption
  <1>7. Cardinality(Late(w, AttemptTime - s)') + m * Concurrency <= BatchSize
    BY <1>2, <1>4, <1>6 DEF Rounds
  <1>8. \A d \in Waiting(w)' : lockLeft'[d] >= LockDuration + 1 + s - m * AttemptTime
    BY <1>1, <1>2, <1>5 DEF Rounds
  <1>9. Rounds(w, m, s)'
    BY <1>7, <1>8 DEF Rounds
  <1> QED BY <1>9

\* A step after which no worker holds a row it did not hold, and which leaves the
\* lock and the age of every row still held alone.
LEMMA NothingClaimed ==
    ASSUME TypeOK, ClaimInv,
           \A w \in Workers, d \in Deliveries :
              KeepsUp(w, d) /\ (d \notin InFlight(w)' => age'[w][d] = 0)
    PROVE  ClaimInv'
  <1>1. Paced'
    BY StaysPaced DEF ClaimInv, Paced
  <1>2. Fresh'
    BY DEF Fresh
  <1>3. Locked'
    BY DEF ClaimInv, Locked, KeepsUp
  <1>4. Exclusive'
    BY DEF ClaimInv, Exclusive, KeepsUp
  <1> QED BY <1>1, <1>2, <1>3, <1>4 DEF ClaimInv

LEMMA EndKeepsClaims ==
    ASSUME TypeOK, ClaimInv, NEW v \in Workers, NEW c \in Deliveries,
           Delivered(v, c) \/ Failed(v, c) \/ Unrecorded(v, c)
    PROVE  ClaimInv'
  <1>1. /\ stage' = [stage EXCEPT ![v][c] = "none"]
        /\ age' = [age EXCEPT ![v][c] = 0]
        /\ stage[v][c] \in {"posting", "cancelled"}
    BY DEF Delivered, Failed, Unrecorded, Release
  <1>2. lockLeft' \in {lockLeft, [lockLeft EXCEPT ![c] = 0]}
    BY DEF Delivered, Failed, Unrecorded, handleFailure, MarkDeliverySuccess,
           MarkDeliveryRetry, MarkDeliveryDeadLetter, rowVars
  <1>3. Holds(v, c)
    BY <1>1 DEF Holds
  <1>4. ASSUME NEW w \in Workers, NEW d \in Deliveries
        PROVE  KeepsUp(w, d) /\ (d \notin InFlight(w)' => age'[w][d] = 0)
    <2>1. CASE w = v /\ d = c
      BY <1>1, <2>1 DEF Holds, TypeOK, KeepsUp
    <2>2. CASE w # v /\ d = c
      <3>1. ~Holds(w, d)
        BY <1>3, <2>2 DEF ClaimInv, Exclusive
      <3>2. stage'[w][d] = stage[w][d] /\ age'[w][d] = age[w][d]
        BY <1>1, <2>2 DEF TypeOK
      <3>3. d \notin InFlight(w)
        BY <3>1 DEF Holds, InFlight, At
      <3> QED BY <3>1, <3>2, <3>3 DEF Holds, ClaimInv, Fresh, KeepsUp
    <2>3. CASE d # c
      <3>1. /\ stage'[w][d] = stage[w][d]
            /\ age'[w][d] = age[w][d]
            /\ lockLeft'[d] = lockLeft[d]
        BY <1>1, <1>2, <2>3 DEF TypeOK
      <3>2. d \in InFlight(w)' <=> d \in InFlight(w)
        BY <3>1 DEF InFlight, At
      <3> QED BY <3>1, <3>2 DEF Holds, ClaimInv, Fresh, KeepsUp
    <2> QED BY <2>1, <2>2, <2>3
  <1> QED BY <1>4, NothingClaimed

LEMMA BeginKeepsClaims ==
    ASSUME TypeOK, ClaimInv, NEW v \in Workers, NEW c \in Deliveries,
           BeginAttempt(v, c) \/ WaitForSlot(v, c) \/ BeginBlocked(v, c)
    PROVE  ClaimInv'
  <1>1. /\ UNCHANGED <<lockLeft, age>>
        /\ stage[v][c] \in {"claimed", "blocked"}
    BY DEF BeginAttempt, WaitForSlot, BeginBlocked, rowVars
  <1>2. PICK g \in {"blocked", "posting", "cancelled"} : stage' = [stage EXCEPT ![v][c] = g]
    BY DEF BeginAttempt, WaitForSlot, BeginBlocked
  <1>3. ASSUME NEW w \in Workers, NEW d \in Deliveries
        PROVE  /\ Holds(w, d)' => Holds(w, d)
               /\ d \in InFlight(w) => d \in InFlight(w)'
    <2>1. CASE w = v /\ d = c
      BY <1>1, <1>2, <2>1 DEF Holds, InFlight, At
    <2>2. CASE ~(w = v /\ d = c)
      <3>1. stage'[w][d] = stage[w][d]
        BY <1>2, <2>2 DEF TypeOK
      <3> QED BY <3>1 DEF Holds, InFlight, At
    <2> QED BY <2>1, <2>2
  <1>4. \A w \in Workers, d \in Deliveries : d \notin InFlight(w)' => age'[w][d] = 0
    BY <1>1, <1>3 DEF ClaimInv, Fresh
  <1> QED BY <1>1, <1>3, <1>4, NothingClaimed DEF KeepsUp

LEMMA LoopKeepsClaims ==
    ASSUME TypeOK, ClaimInv, NEW v \in Workers,
           StartWorker(v) \/ FinishBatch(v) \/ Stop(v) \/ Crash(v)
    PROVE  ClaimInv'
  <1>1. CASE StartWorker(v) \/ FinishBatch(v)
    <2>1. UNCHANGED <<lockLeft, stage, age>>
      BY <1>1 DEF StartWorker, FinishBatch, rowVars, workVars
    <2>2. \A w \in Workers, d \in Deliveries :
             KeepsUp(w, d) /\ (d \notin InFlight(w)' => age'[w][d] = 0)
      BY <2>1 DEF Holds, InFlight, At, ClaimInv, Fresh, KeepsUp
    <2> QED BY <2>2, NothingClaimed
  <1>2. CASE Stop(v)
    <2>1. /\ UNCHANGED <<lockLeft, age>>
          /\ stage' = [stage EXCEPT ![v] = [d \in Deliveries |->
                          IF stage[v][d] = "claimed" THEN "none" ELSE stage[v][d]]]
      BY <1>2 DEF Stop, rowVars, TypeOK
    <2>2. ASSUME NEW w \in Workers, NEW d \in Deliveries
          PROVE  /\ stage'[w][d] # "none" => stage[w][d] # "none"
                 /\ stage[w][d] \in {"posting", "cancelled"} => stage'[w][d] = stage[w][d]
      BY <2>1 DEF TypeOK
    <2>3. \A w \in Workers, d \in Deliveries :
             KeepsUp(w, d) /\ (d \notin InFlight(w)' => age'[w][d] = 0)
      BY <2>1, <2>2 DEF Holds, InFlight, At, ClaimInv, Fresh, KeepsUp
    <2> QED BY <2>3, NothingClaimed
  <1>3. CASE Crash(v)
    <2>1. /\ UNCHANGED lockLeft
          /\ stage' = [stage EXCEPT ![v] = Nothing]
          /\ age' = [age EXCEPT ![v] = Zeros]
      BY <1>3 DEF Crash, rowVars
    <2>2. ASSUME NEW w \in Workers, NEW d \in Deliveries
          PROVE  KeepsUp(w, d) /\ (d \notin InFlight(w)' => age'[w][d] = 0)
      <3>1. CASE w = v
        BY <2>1, <3>1 DEF TypeOK, Holds, Nothing, Zeros, KeepsUp
      <3>2. CASE w # v
        <4>1. stage'[w] = stage[w] /\ age'[w] = age[w]
          BY <2>1, <3>2 DEF TypeOK
        <4> QED BY <2>1, <4>1 DEF Holds, InFlight, At, ClaimInv, Fresh, KeepsUp
      <3> QED BY <3>1, <3>2
    <2> QED BY <2>2, NothingClaimed
  <1> QED BY <1>1, <1>2, <1>3

LEMMA SubsKeepClaims ==
    ASSUME TypeOK, ClaimInv, UNCHANGED <<lockLeft, stage, age>>
    PROVE  ClaimInv'
  <1>1. \A w \in Workers, d \in Deliveries :
           KeepsUp(w, d) /\ (d \notin InFlight(w)' => age'[w][d] = 0)
    BY DEF Holds, InFlight, At, ClaimInv, Fresh, KeepsUp
  <1> QED BY <1>1, NothingClaimed

LEMMA ClaimKeepsClaims ==
    ASSUME InClaim, TypeOK, ClaimInv, NEW v \in Workers, NEW S \in SUBSET Claimable,
           ClaimPendingDeliveries(v, S), stage[v] = Nothing
    PROVE  ClaimInv'
  <1>1. /\ lockLeft' = [d \in Deliveries |-> IF d \in S THEN LockDuration + 1 ELSE lockLeft[d]]
        /\ stage' = [stage EXCEPT ![v] = [d \in Deliveries |-> IF d \in S THEN "claimed" ELSE "none"]]
        /\ UNCHANGED age
        /\ Cardinality(S) <= BatchSize
    BY DEF ClaimPendingDeliveries
  <1>2. \A d \in Deliveries : stage'[v][d] = IF d \in S THEN "claimed" ELSE "none"
    BY <1>1 DEF TypeOK
  <1>3. \A w \in Workers, d \in Deliveries : w # v => stage'[w][d] = stage[w][d]
    BY <1>1 DEF TypeOK
  <1>4. \A w \in Workers, d \in Deliveries : w # v => (Holds(w, d)' <=> Holds(w, d))
    BY <1>3 DEF Holds
  <1>5. \A d \in Deliveries : Holds(v, d)' <=> d \in S
    BY <1>2 DEF Holds
  <1>6. \A w \in Workers, d \in S : ~Holds(w, d)
    BY HeldNotClaimable DEF Claimable
  <1>7. \A d \in Deliveries : age[v][d] = 0
    BY DEF ClaimInv, Fresh, InFlight, At, Nothing
  <1>8. Paced'
    <2> SUFFICES ASSUME NEW w \in Workers, Waiting(w)' # {}
                 PROVE  (\E m \in Nat, s \in 0..AttemptTime : Rounds(w, m, s))'
      BY DEF Paced
    <2>1. CASE w = v
      <3>1. Late(w, AttemptTime - 0)' \subseteq S /\ S \subseteq Deliveries
        BY <1>5, <2>1 DEF Late, Batch, Claimable
      <3>2. /\ Cardinality(Late(w, AttemptTime - 0)') \in Nat /\ Cardinality(S) \in Nat
            /\ Cardinality(Late(w, AttemptTime - 0)') <= Cardinality(S)
        BY <3>1, PartFewer
      <3>3. \A d \in Waiting(w)' : lockLeft'[d] = LockDuration + 1
        BY <1>1, <1>5, <2>1 DEF Waiting, Batch
      <3>4. /\ 0 * Concurrency = 0 /\ 0 * AttemptTime = 0 /\ 0 \in 0..AttemptTime
            /\ BatchSize \in Nat /\ LockDuration \in Nat
        BY QueueAssumption
      <3>5. Cardinality(Late(w, AttemptTime - 0)') + 0 * Concurrency <= BatchSize
        BY <1>1, <3>2, <3>4
      <3>6. \A d \in Waiting(w)' : lockLeft'[d] >= LockDuration + 1 + 0 - 0 * AttemptTime
        BY <3>3, <3>4
      <3>7. Rounds(w, 0, 0)'
        BY <3>5, <3>6 DEF Rounds
      <3> QED BY <3>4, <3>7
    <2>2. CASE w # v
      <3>1. \A d \in Deliveries : stage'[w][d] = stage[w][d]
        BY <1>3, <2>2
      <3>2. \A d \in Deliveries : KeepsUp(w, d)
        BY <1>1, <1>6, <3>1 DEF KeepsUp, Holds, InFlight, At
      <3> QED BY <3>2, StaysPaced DEF ClaimInv
    <2> QED BY <2>1, <2>2
  <1>9. Fresh'
    <2>1. \A w \in Workers, d \in Deliveries : w # v => (d \in InFlight(w)' <=> d \in InFlight(w))
      BY <1>3 DEF InFlight, At
    <2> QED BY <1>1, <1>7, <2>1 DEF ClaimInv, Fresh
  <1>10. Locked'
    <2> SUFFICES ASSUME NEW w \in Workers, NEW d \in Deliveries, Holds(w, d)'
                 PROVE  lockLeft'[d] + age'[w][d] > AttemptTime
      BY DEF Locked
    <2>1. age'[w][d] \in Nat
      BY <1>1 DEF TypeOK
    <2>2. CASE d \in S
      <3>1. lockLeft'[d] = LockDuration + 1
        BY <1>1, <2>2
      <3>2. AttemptTime <= LockDuration
        <4>1. PICK R \in Nat : BatchSize <= R * Concurrency /\ R * AttemptTime <= LockDuration
          BY DEF InClaim
        <4>2. /\ BatchSize \in Nat /\ BatchSize >= 1 /\ Concurrency \in Nat
              /\ AttemptTime \in Nat /\ LockDuration \in Nat
          BY QueueAssumption
        <4>3. 1 <= R
          <5>1. R = 0 => R * Concurrency = 0
            BY <4>2
          <5> QED BY <4>1, <4>2, <5>1
        <4>4. 1 * AttemptTime <= R * AttemptTime
          BY <4>2, <4>3, MoreRounds
        <4>5. 1 * AttemptTime = AttemptTime /\ R * AttemptTime \in Nat
          BY <4>2
        <4> QED BY <4>1, <4>2, <4>4, <4>5
      <3> QED BY <2>1, <3>1, <3>2, QueueAssumption
    <2>3. CASE d \notin S
      <3>1. Holds(w, d) /\ lockLeft'[d] = lockLeft[d] /\ age'[w][d] = age[w][d]
        BY <1>1, <1>4, <1>5, <2>3
      <3> QED BY <3>1 DEF ClaimInv, Locked
    <2> QED BY <2>2, <2>3
  <1>11. Exclusive'
    BY <1>4, <1>5, <1>6 DEF ClaimInv, Exclusive
  <1> QED BY <1>8, <1>9, <1>10, <1>11 DEF ClaimInv

\* Time passes: either the round goes on, or all its rows are sent and a new round
\* begins with every slot taken.
LEMMA TickKeepsPace ==
    ASSUME TypeOK, ClaimInv, Tick
    PROVE  Paced'
  <1> SUFFICES ASSUME NEW w \in Workers, Waiting(w)' # {}
               PROVE  (\E m \in Nat, s \in 0..AttemptTime : Rounds(w, m, s))'
    BY DEF Paced
  <1>0. /\ AttemptTime \in Nat /\ LockDuration \in Nat
        /\ Concurrency \in Nat /\ Concurrency >= 1 /\ BatchSize \in Nat
    BY QueueAssumption
  <1>1. /\ Batch(w)' = Batch(w) /\ InFlight(w)' = InFlight(w) /\ Waiting(w)' = Waiting(w)
        /\ InFlight(w) \subseteq Batch(w)
    BY DEF Tick, Batch, Holds, InFlight, At, Waiting
  <1>2. PICK m \in Nat, s \in 0..AttemptTime : Rounds(w, m, s)
    BY <1>1 DEF ClaimInv, Paced
  <1>3. /\ m * Concurrency \in Nat /\ m * AttemptTime \in Nat
        /\ (m + 1) * Concurrency = m * Concurrency + Concurrency
        /\ (m + 1) * AttemptTime = m * AttemptTime + AttemptTime
    BY <1>0
  <1>4. \A d \in InFlight(w) : /\ age[w][d] \in Nat /\ age[w][d] < AttemptTime
                               /\ age'[w][d] = age[w][d] + 1
    BY DEF Tick, MayTick, TypeOK, InFlight, At
  <1>5. \A d \in Waiting(w) : /\ lockLeft[d] \in Nat /\ lockLeft'[d] \in Nat
                              /\ lockLeft'[d] >= lockLeft[d] - 1
    <2> SUFFICES ASSUME NEW d \in Waiting(w)
                 PROVE  /\ lockLeft[d] \in Nat /\ lockLeft'[d] \in Nat
                        /\ lockLeft'[d] >= lockLeft[d] - 1
      OBVIOUS
    <2>1. d \in Deliveries /\ lockLeft[d] \in Nat
      BY DEF Waiting, Batch, TypeOK
    <2>2. lockLeft'[d] = Less1(lockLeft[d])
      BY <2>1 DEF Tick
    <2> QED BY <2>1, <2>2, Less1Type
  <1>6. CASE s > 0
    <2> DEFINE r == s - 1
    <2>1. r \in 0..AttemptTime /\ AttemptTime - r = AttemptTime - s + 1
      BY <1>0, <1>6
    <2>2. Late(w, AttemptTime - r)' = Late(w, AttemptTime - s)
      BY <1>0, <1>1, <1>4, <2>1 DEF Late
    <2>3. \A d \in Waiting(w)' : lockLeft'[d] >= LockDuration + 1 + r - m * AttemptTime
      BY <1>0, <1>1, <1>2, <1>3, <1>5, <1>6 DEF Rounds
    <2>4. Rounds(w, m, r)'
      BY <1>2, <2>2, <2>3 DEF Rounds
    <2> QED BY <2>1, <2>4
  <1>7. CASE s = 0
    <2> DEFINE r == AttemptTime - 1
    <2>1. Late(w, AttemptTime - s) = Batch(w)
      BY <1>0, <1>4, <1>7 DEF Late
    <2>2. ~FreeSlot(w)
      <3>1. Waiting(w) \subseteq Claimed(w) \cup Blocked(w)
        BY DEF Waiting, Batch, Holds, Claimed, Blocked, InFlight, At, TypeOK, Stages
      <3> QED BY <1>1, <3>1 DEF Tick, MayTick
    <2>3. Cardinality(InFlight(w)) >= Concurrency /\ Cardinality(InFlight(w)) \in Nat
      <3>1. InFlight(w) \subseteq Deliveries
        BY DEF InFlight, At
      <3>2. Cardinality(InFlight(w)) \in Nat
        BY <3>1, PartFinite
      <3> QED BY <1>0, <2>2, <3>2 DEF FreeSlot
    <2>4. AttemptTime >= 1 /\ r \in 0..AttemptTime /\ AttemptTime - r = 1
      <3>1. InFlight(w) # {}
        BY <1>0, <2>3, FS_EmptySet
      <3> QED BY <1>0, <1>4, <3>1
    <2>5. Late(w, AttemptTime - r)' = Batch(w) \ InFlight(w)
      BY <1>1, <1>4, <2>4 DEF Late
    <2>6. /\ Cardinality(Batch(w) \ InFlight(w)) = Cardinality(Batch(w)) - Cardinality(InFlight(w))
          /\ Cardinality(Batch(w)) \in Nat
      <3>1. Batch(w) \cap InFlight(w) = InFlight(w)
        BY <1>1
      <3>2. IsFiniteSet(Batch(w)) /\ Cardinality(Batch(w)) \in Nat
        BY Parts, PartFinite
      <3>3. Cardinality(Batch(w) \ InFlight(w)) = Cardinality(Batch(w)) - Cardinality(Batch(w) \cap InFlight(w))
        BY <3>2, FS_Difference
      <3> QED BY <3>1, <3>2, <3>3
    <2>7. Cardinality(Late(w, AttemptTime - r)') + (m + 1) * Concurrency <= BatchSize
      <3>1. Cardinality(Batch(w)) + m * Concurrency <= BatchSize
        BY <1>2, <2>1 DEF Rounds
      <3>2. Cardinality(Late(w, AttemptTime - r)') = Cardinality(Batch(w)) - Cardinality(InFlight(w))
        BY <2>5, <2>6
      <3> QED BY <1>0, <1>3, <2>3, <2>6, <3>1, <3>2
    <2>8. \A d \in Waiting(w)' : lockLeft'[d] >= LockDuration + 1 + r - (m + 1) * AttemptTime
      BY <1>0, <1>1, <1>2, <1>3, <1>5, <1>7 DEF Rounds
    <2>9. Rounds(w, m + 1, r)'
      BY <2>7, <2>8 DEF Rounds
    <2> QED BY <2>4, <2>9
  <1> QED BY <1>0, <1>6, <1>7

LEMMA TickKeepsClaims ==
    ASSUME InClaim, TypeOK, ClaimInv, Tick
    PROVE  ClaimInv'
  <1>1. UNCHANGED stage
    BY DEF Tick
  <1>2. \A w \in Workers : Batch(w)' = Batch(w) /\ InFlight(w)' = InFlight(w)
    BY <1>1 DEF Batch, Holds, InFlight, At
  <1>3. Paced'
    BY TickKeepsPace
  <1>4. Exclusive'
    BY <1>1 DEF ClaimInv, Exclusive, Holds
  <1>5. Fresh'
    BY <1>2 DEF ClaimInv, Fresh, Tick
  <1>6. Locked'
    <2> SUFFICES ASSUME NEW w \in Workers, NEW d \in Deliveries, Holds(w, d)'
                 PROVE  lockLeft'[d] + age'[w][d] > AttemptTime
      BY DEF Locked
    <2>1. Holds(w, d) /\ lockLeft[d] + age[w][d] > AttemptTime
      BY <1>1 DEF Holds, ClaimInv, Locked
    <2>2. lockLeft[d] \in Nat /\ age[w][d] \in Nat /\ lockLeft'[d] \in Nat /\ age'[w][d] \in Nat
      BY TickType DEF TypeOK
    <2>3. CASE d \in InFlight(w)
      <3>1. age'[w][d] = age[w][d] + 1 /\ lockLeft'[d] = Less1(lockLeft[d])
        BY <2>3 DEF Tick
      <3>2. Less1(lockLeft[d]) \in Nat /\ Less1(lockLeft[d]) >= lockLeft[d] - 1
        BY <2>2, Less1Type
      <3> QED BY <2>1, <2>2, <3>1, <3>2, QueueAssumption
    <2>4. CASE d \notin InFlight(w)
      <3>1. d \in Waiting(w)'
        BY <1>2, <2>1, <2>4 DEF Waiting, Batch
      <3>2. (TypeOK /\ Paced => WaitIsCovered)'
        BY WaitingLocked, PTL
      <3> QED BY <1>3, <2>2, <3>1, <3>2, TickType, QueueAssumption DEF WaitIsCovered
    <2> QED BY <2>3, <2>4
  <1> QED BY <1>3, <1>4, <1>5, <1>6 DEF ClaimInv

LEMMA NextClaimInv ==
    ASSUME InClaim, TypeOK, Idle, ClaimInv, [Next]_vars
    PROVE  ClaimInv'
  <1>1. ASSUME NEW w \in Workers, NEW S \in SUBSET Claimable, ClaimPendingDeliveries(w, S)
        PROVE  ClaimInv'
    <2>1. pc[w] = "idle"
      BY <1>1 DEF ClaimPendingDeliveries
    <2>2. stage[w] \in [Deliveries -> Stages] /\ \A d \in Deliveries : stage[w][d] = "none"
      BY <2>1 DEF Idle, Holds, TypeOK
    <2>3. stage[w] = Nothing
      BY <2>2 DEF Nothing
    <2> QED BY <1>1, <2>3, ClaimKeepsClaims
  <1>2. CASE \/ \E s \in Subs : Subscribe(s) \/ Unsubscribe(s)
             \/ \E e \in Events : EnqueueDeliveries(e)
             \/ UNCHANGED vars
    <2>1. UNCHANGED <<lockLeft, stage, age>>
      BY <1>2 DEF Subscribe, Unsubscribe, EnqueueDeliveries, vars, rowVars, workVars
    <2> QED BY <2>1, SubsKeepClaims
  <1> QED
    BY <1>1, <1>2, BeginKeepsClaims, EndKeepsClaims, LoopKeepsClaims, TickKeepsClaims
       DEF Next, WorkerStep

\* If a claim lasts as long as a full batch may take to go through the slots, no claim
\* runs out in a worker's hands; the properties above then hold without exception.
\* A lock longer than one HTTP timeout is not enough for it (worker.go:32-35).
THEOREM ClaimOutlastsBatch ==
    ASSUME InClaim
    PROVE  Spec => [](expired = {})
  <1> DEFINE I == TypeOK /\ Idle /\ ClaimInv /\ expired = {}
  <1>1. Init => I
    <2> SUFFICES ASSUME Init PROVE I
      OBVIOUS
    <2>1. \A w \in Workers, d \in Deliveries : ~Holds(w, d) /\ age[w][d] = 0
      BY DEF Init, Nothing, Zeros, Holds
    <2>2. \A w \in Workers : Batch(w) = {}
      BY <2>1 DEF Batch
    <2>3. Paced
      BY <2>2 DEF Paced, Waiting
    <2>4. Idle /\ Fresh /\ Locked /\ Exclusive
      BY <2>1 DEF Idle, Fresh, Locked, Exclusive
    <2> QED BY <2>3, <2>4, InitType DEF ClaimInv, Init
  <1>2. I /\ [Next]_vars => I'
    <2> SUFFICES ASSUME I, [Next]_vars PROVE I'
      OBVIOUS
    <2>1. TypeOK' /\ Idle' /\ ClaimInv'
      BY NextType, NextIdle, NextClaimInv
    <2>2. CASE Tick
      <3> SUFFICES ASSUME NEW d \in Deliveries, lockLeft[d] <= 1, Holders(d) # {}
                   PROVE  FALSE
        BY <2>1, <2>2 DEF Tick
      <3>1. PICK w \in Workers : Holds(w, d)'
        BY <2>2 DEF Holders, Holds, Tick
      <3>2. lockLeft'[d] + age'[w][d] > AttemptTime
        BY <2>1, <3>1 DEF ClaimInv, Locked
      <3>3. age'[w][d] \in 0..AttemptTime /\ lockLeft'[d] \in Nat /\ lockLeft[d] \in Nat
        BY <2>1 DEF TypeOK
      <3>4. lockLeft'[d] = Less1(lockLeft[d])
        BY <2>2 DEF Tick
      <3> QED BY <3>2, <3>3, <3>4, QueueAssumption DEF Less1
    <2>3. CASE ~Tick
      <3>1. UNCHANGED expired
        BY <2>3 DEF Next, WorkerStep, Subscribe, Unsubscribe, EnqueueDeliveries, StartWorker,
                    ClaimPendingDeliveries, BeginAttempt, WaitForSlot, BeginBlocked, Delivered,
                    Failed, Unrecorded, FinishBatch, Stop, Crash, vars
      <3> QED BY <2>1, <3>1
    <2> QED BY <2>2, <2>3
  <1> QED BY <1>1, <1>2, PTL DEF Spec
=============================================================================
