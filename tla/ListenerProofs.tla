--------------------------- MODULE ListenerProofs ---------------------------
(***************************************************************************)
(* Proofs about Listener, for every value of its constants.                *)
(***************************************************************************)
EXTENDS Listener, FiniteSetTheorems, WellFoundedInduction, TLAPS

(***************************************************************************)
(* Typing.  A new event takes the position after the events of its ledger, *)
(* so the type of an event needs the chain to be finite.                   *)
(***************************************************************************)
TypeInv == TypeOK /\ IsFiniteSet(chain)

LEMMA EventFields ==
    ASSUME NEW e \in Event
    PROVE  /\ e.ledger \in Ledgers /\ e.pos \in 1..PerLedger
           /\ e.kind \in Kinds /\ e.inv \in Invoices
           /\ ID(e) \in (0..MaxLedger) \X (0..PerLedger)
  BY ListenerAssumption DEF Event, Ledgers, ID

LEMMA PageInChain ==
    ASSUME NEW p \in Procs
    PROVE  \A e \in Page(p) : e \in chain /\ e.ledger <= tip
  BY DEF Page, Available

LEMMA InitTypeInv == Init => TypeInv
  <1> SUFFICES ASSUME Init PROVE TypeInv
    OBVIOUS
  <1>1. TypeOK
    <2> USE ListenerAssumption DEF Init
    <2>1. /\ tip \in Ledgers /\ chain \subseteq Event /\ fork \in [Ledgers -> 0..MaxReorgs]
          /\ reorgs \in 0..MaxReorgs /\ faults \in 0..MaxFaults
      BY DEF Ledgers
    <2>2. /\ status \in [Invoices -> Statuses] /\ attestedAt \in [Invoices -> 0..MaxLedger]
          /\ poolStats \in 0..MaxLedger /\ eventsLog \subseteq Event /\ deliveries \subseteq Event
          /\ checkpoint \in 0..MaxLedger + 1 /\ firstLedger \in 0..MaxLedger + 1
          /\ patched \subseteq Invoices
      BY DEF Statuses
    <2>3. /\ pc \in [Procs -> {"down", "idle", "fetch", "dedup", "apply", "done", "halted"}]
          /\ startLedger \in [Procs -> 0..MaxLedger + 1] /\ endLedger \in [Procs -> 0..MaxLedger]
          /\ latest \in [Procs -> 0..MaxLedger] /\ pending \in [Procs -> SUBSET Event]
      OBVIOUS
    <2>4. pastEnd \in [Procs -> BOOLEAN] /\ running \in BOOLEAN
      OBVIOUS
    <2>5. cursor \in [Procs -> (0..MaxLedger) \X (0..PerLedger)]
      OBVIOUS
    <2>6. finalized \in [ledger : 0..MaxLedger, hash : 0..MaxReorgs]
      BY DEF NoHash
    <2> QED BY <2>1, <2>2, <2>3, <2>4, <2>5, <2>6 DEF TypeOK
  <1>2. IsFiniteSet(chain)
    BY FS_EmptySet DEF Init
  <1> QED BY <1>1, <1>2 DEF TypeInv

LEMMA EmitTypeInv ==
    ASSUME TypeInv, NEW k \in Kinds, NEW i \in Invoices, Emit(k, i)
    PROVE  TypeInv'
  <1> DEFINE open == {e \in chain : e.ledger = tip + 1}
             new == [ledger |-> tip + 1, pos |-> Cardinality(open) + 1, kind |-> k, inv |-> i]
  <1>1. IsFiniteSet(open) /\ Cardinality(open) \in Nat
    BY FS_Subset, FS_CardinalityType DEF TypeInv
  <1>2. new \in Event
    BY <1>1, ListenerAssumption DEF Emit, Event, Ledgers, TypeInv, TypeOK
  <1>3. chain' = chain \cup {new}
    BY DEF Emit
  <1>4. IsFiniteSet(chain')
    BY <1>3, FS_AddElement DEF TypeInv
  <1>5. TypeOK'
    BY <1>2, <1>3 DEF Emit, TypeInv, TypeOK, dbVars, pollVars, memVars
  <1> QED BY <1>4, <1>5 DEF TypeInv

LEMMA ChainTypeInv ==
    ASSUME TypeInv, CloseLedger \/ \E l \in Ledgers : Reorg(l)
    PROVE  TypeInv'
  <1>1. CASE CloseLedger
    BY <1>1, ListenerAssumption
       DEF CloseLedger, TypeInv, TypeOK, Ledgers, dbVars, pollVars, memVars
  <1>2. CASE \E l \in Ledgers : Reorg(l)
    <2> PICK l \in Ledgers : Reorg(l)
      BY <1>2
    <2>1. IsFiniteSet(chain')
      BY FS_Subset DEF Reorg, TypeInv
    <2>2. chain' \subseteq Event
      BY DEF Reorg, TypeInv, TypeOK
    <2>3. fork' \in [Ledgers -> 0..MaxReorgs] /\ reorgs' \in 0..MaxReorgs
      BY ListenerAssumption DEF Reorg, TypeInv, TypeOK, Ledgers
    <2>4. TypeOK'
      BY <2>2, <2>3 DEF Reorg, TypeInv, TypeOK, dbVars, pollVars, memVars
    <2> QED BY <2>1, <2>4 DEF TypeInv
  <1> QED BY <1>1, <1>2

LEMMA FetchTypeInv ==
    ASSUME TypeInv, NEW p \in Procs, FetchPage(p)
    PROVE  TypeInv'
  <1> USE DEF TypeInv
  <1>1. latest' \in [Procs -> 0..MaxLedger]
    BY ListenerAssumption DEF FetchPage, TypeOK, Ledgers
  <1>2. pc' \in [Procs -> {"down", "idle", "fetch", "dedup", "apply", "done", "halted"}]
    BY DEF FetchPage, TypeOK
  <1>3. pending' \in [Procs -> SUBSET Event]
    BY PageInChain, SMTT(30) DEF FetchPage, TypeOK
  <1>5. pastEnd' \in [Procs -> BOOLEAN]
    <2>1. ASSUME NEW b \in BOOLEAN, pastEnd' = [pastEnd EXCEPT ![p] = b]
          PROVE  pastEnd' \in [Procs -> BOOLEAN]
      BY <2>1 DEF TypeOK
    <2>2. CASE UNCHANGED pastEnd
      BY <2>2 DEF TypeOK
    <2>3. CASE pastEnd' = [pastEnd EXCEPT ![p] = \E e \in Page(p) : ~WithinEnd(p, e)]
      <3>1. (\E e \in Page(p) : ~WithinEnd(p, e)) \in BOOLEAN
        OBVIOUS
      <3> QED BY <2>1, <2>3, <3>1
    <2> QED BY <2>2, <2>3 DEF FetchPage
  <1>4. cursor' \in [Procs -> (0..MaxLedger) \X (0..PerLedger)]
    <2>1. CASE UNCHANGED cursor
      BY <2>1 DEF TypeOK
    <2>2. CASE \E e \in Page(p) : cursor' = [cursor EXCEPT ![p] = ID(e)]
      <3> PICK e \in Page(p) : cursor' = [cursor EXCEPT ![p] = ID(e)]
        BY <2>2
      <3>1. ID(e) \in (0..MaxLedger) \X (0..PerLedger)
        BY PageInChain, EventFields DEF TypeOK
      <3> QED BY <3>1 DEF TypeOK
    <2> QED BY <2>1, <2>2 DEF FetchPage
  <1> QED
    BY <1>1, <1>2, <1>3, <1>4, <1>5 DEF FetchPage, TypeOK, chainVars, dbVars, memVars

LEMMA AbortTypeInv ==
    ASSUME TypeInv, NEW p \in Procs, AbortPoll(p)
    PROVE  /\ pc' \in [Procs -> {"down", "idle", "fetch", "dedup", "apply", "done", "halted"}]
           /\ pending' \in [Procs -> SUBSET Event]
           /\ running' \in BOOLEAN
           /\ UNCHANGED <<startLedger, endLedger, cursor, latest, pastEnd, finalized, firstLedger>>
  BY DEF AbortPoll, TypeInv, TypeOK

LEMMA PollTypeInv ==
    ASSUME TypeInv, NEW p \in Procs, PollStep(p)
    PROVE  TypeInv'
  <1>1. CASE FetchPage(p)
    BY <1>1, FetchTypeInv
  <1>2. CASE Dedup(p)
    BY <1>2 DEF Dedup, TypeInv, TypeOK, chainVars, dbVars, memVars
  <1>3. CASE NextPage(p)
    BY <1>3 DEF NextPage, TypeInv, TypeOK, chainVars, dbVars, pollVars, memVars
  <1>4. ASSUME NEW e \in pending[p], HandleEvent(p, e)
        PROVE  TypeInv'
    <2>1. e \in Event /\ e.ledger \in 0..MaxLedger
      <3>1. e \in Event
        BY DEF TypeInv, TypeOK
      <3>2. e.ledger \in Ledgers
        BY <3>1, EventFields
      <3> QED BY <3>1, <3>2 DEF Ledgers
    <2>2. /\ status' \in [Invoices -> Statuses]
          /\ attestedAt' \in [Invoices -> 0..MaxLedger]
      <3>1. e.inv \in Invoices /\ HandlerResult(e) \in Statuses
        BY <1>4, <2>1, EventFields DEF HandleEvent
      <3> QED BY <1>4, <2>1, <3>1 DEF HandleEvent, TypeInv, TypeOK
    <2>3. /\ eventsLog' \subseteq Event /\ deliveries' \subseteq Event
          /\ pending' \in [Procs -> SUBSET Event]
      <3>1. eventsLog' = eventsLog \/ eventsLog' = eventsLog \cup {e}
        BY <1>4 DEF HandleEvent, LogEvent
      <3>2. deliveries' = deliveries \/ deliveries' = deliveries \cup {e}
        BY <1>4 DEF HandleEvent
      <3>3. pending' = [pending EXCEPT ![p] = @ \ {e}]
        BY <1>4 DEF HandleEvent
      <3> QED BY <2>1, <3>1, <3>2, <3>3 DEF TypeInv, TypeOK
    <2>4. poolStats' \in 0..MaxLedger /\ faults' \in 0..MaxFaults
      <3>1. poolStats' \in {poolStats, tip}
        BY <1>4 DEF HandleEvent
      <3>2. faults' = faults \/ Fault
        BY <1>4 DEF HandleEvent
      <3>3. poolStats' \in 0..MaxLedger
        BY <3>1, ListenerAssumption DEF TypeInv, TypeOK, Ledgers
      <3>4. faults' \in 0..MaxFaults
        BY <3>2, ListenerAssumption DEF Fault, TypeInv, TypeOK
      <3> QED BY <3>3, <3>4
    <2> QED
      BY <1>4, <2>2, <2>3, <2>4 DEF HandleEvent, TypeInv, TypeOK, chainVars, memVars
  <1>5. ASSUME NEW e \in pending[p], HandleWithoutEffect(p, e)
        PROVE  TypeInv'
    BY <1>5 DEF HandleWithoutEffect, LogEvent, TypeInv, TypeOK, chainVars, memVars
  <1>6. ASSUME NEW e \in pending[p], RejectEvent(p, e)
        PROVE  TypeInv'
    <2>1. AbortPoll(p)
      BY <1>6 DEF RejectEvent
    <2> QED
      BY <1>6, <2>1, AbortTypeInv DEF RejectEvent, TypeInv, TypeOK, chainVars, dbVars
  <1> QED BY <1>1, <1>2, <1>3, <1>4, <1>5, <1>6 DEF PollStep

LEMMA LoopTypeInv ==
    ASSUME TypeInv, Start \/ BeginPoll \/ HaltOnReorg \/ FinishPoll
    PROVE  TypeInv'
  <1> USE ListenerAssumption DEF TypeInv, chainVars, dbVars
  <1>1. CASE Start
    BY <1>1 DEF Start, TypeOK, NoHash, Procs
  <1>2. CASE BeginPoll
    BY <1>2 DEF BeginPoll, Fault, TypeOK, Procs, memVars
  <1>3. CASE HaltOnReorg
    BY <1>3 DEF HaltOnReorg, TypeOK, Procs, pollVars
  <1>4. CASE FinishPoll
    <2> DEFINE next == NextLedger("main")
    <2>1. next \in 0..MaxLedger + 1
      BY DEF NextLedger, TypeOK, Procs
    <2>2. /\ finalized' \in [ledger : 0..MaxLedger, hash : 0..MaxReorgs]
          /\ checkpoint' \in 0..MaxLedger + 1
          /\ faults' \in 0..MaxFaults
      <3> PICK recorded \in BOOLEAN, saved \in BOOLEAN :
                /\ finalized' = IF recorded /\ next - 1 > finalized.ledger
                                THEN [ledger |-> next - 1, hash |-> fork[next - 1]]
                                ELSE finalized
                /\ checkpoint' = IF saved THEN next ELSE checkpoint
                /\ IF recorded /\ saved THEN UNCHANGED faults ELSE Fault
        BY <1>4 DEF FinishPoll
      <3>1. checkpoint' \in 0..MaxLedger + 1 /\ faults' \in 0..MaxFaults
        BY <2>1 DEF Fault, TypeOK
      <3>2. CASE recorded /\ next - 1 > finalized.ledger
        <4>1. finalized.ledger \in Nat /\ fork \in [Ledgers -> 0..MaxReorgs]
          BY DEF TypeOK
        <4>2. next - 1 \in Ledgers
          BY <2>1, <3>2, <4>1 DEF Ledgers
        <4>3. next - 1 \in 0..MaxLedger /\ fork[next - 1] \in 0..MaxReorgs
          BY <4>1, <4>2 DEF Ledgers
        <4>4. finalized' = [ledger |-> next - 1, hash |-> fork[next - 1]]
          BY <3>2
        <4> HIDE DEF next
        <4>5. finalized' \in [ledger : 0..MaxLedger, hash : 0..MaxReorgs]
          BY <4>3, <4>4
        <4> QED BY <3>1, <4>5
      <3>3. CASE ~(recorded /\ next - 1 > finalized.ledger)
        BY <3>1, <3>3 DEF TypeOK
      <3> QED BY <3>2, <3>3
    <2> QED BY <1>4, <2>1, <2>2 DEF FinishPoll, TypeOK, Procs
  <1> QED BY <1>1, <1>2, <1>3, <1>4

LEMMA OtherTypeInv ==
    ASSUME TypeInv,
           \/ FinishBackfill
           \/ \E range \in BackfillRanges : BackfillRange(range)
           \/ PatchStep
           \/ \E p \in Procs : PollFails(p) \/ Crash(p)
    PROVE  TypeInv'
  <1> USE ListenerAssumption DEF TypeInv, chainVars, dbVars
  <1>1. CASE FinishBackfill
    BY <1>1 DEF FinishBackfill, TypeOK, Procs, pollVars, memVars
  <1>2. CASE \E range \in BackfillRanges : BackfillRange(range)
    <2> PICK range \in BackfillRanges : BackfillRange(range)
      BY <1>2
    <2>1. range[1] \in 1..MaxLedger /\ range[2] \in 1..MaxLedger
      OBVIOUS
    <2> QED BY <2>1 DEF BackfillRange, TypeOK, Procs, memVars
  <1>3. ASSUME NEW p \in Procs, PollFails(p)
        PROVE  TypeInv'
    <2>1. AbortPoll(p) /\ Fault
      BY <1>3 DEF PollFails
    <2>2. poolStats' \in 0..MaxLedger
      <3>1. poolStats' \in {poolStats, tip}
        BY <1>3 DEF PollFails
      <3>2. poolStats \in 0..MaxLedger /\ tip \in 0..MaxLedger
        BY DEF TypeOK, Ledgers
      <3> QED BY <3>1, <3>2
    <2>3. faults' \in 0..MaxFaults
      BY <2>1 DEF Fault, TypeOK
    <2>4. /\ pc' \in [Procs -> {"down", "idle", "fetch", "dedup", "apply", "done", "halted"}]
          /\ pending' \in [Procs -> SUBSET Event]
          /\ running' \in BOOLEAN
          /\ UNCHANGED <<startLedger, endLedger, cursor, latest, pastEnd, finalized, firstLedger>>
      BY <2>1, AbortTypeInv
    <2>5. UNCHANGED <<chainVars, status, attestedAt, eventsLog, deliveries, patched, checkpoint>>
      BY <1>3 DEF PollFails
    <2> QED
      BY <2>2, <2>3, <2>4, <2>5 DEF TypeOK
  <1>4. ASSUME NEW p \in Procs, Crash(p)
        PROVE  TypeInv'
    <2>1. running' \in BOOLEAN
      BY <1>4 DEF Crash, TypeOK
    <2>2. /\ pc' \in [Procs -> {"down", "idle", "fetch", "dedup", "apply", "done", "halted"}]
          /\ pending' \in [Procs -> SUBSET Event]
          /\ faults' \in 0..MaxFaults
      BY <1>4 DEF Crash, Fault, TypeOK
    <2> QED BY <1>4, <2>1, <2>2 DEF Crash, TypeOK
  <1>5. CASE PatchStep
    <2>1. PICK i \in Invoices, s \in PatchStatuses : PatchInvoiceStatus(i, s)
      BY <1>5 DEF PatchStep
    <2>2. status' \in [Invoices -> Statuses] /\ patched' \subseteq Invoices
      BY <2>1 DEF PatchInvoiceStatus, TypeOK
    <2> QED BY <2>1, <2>2 DEF PatchInvoiceStatus, TypeOK, pollVars, memVars
  <1> QED BY <1>1, <1>2, <1>3, <1>4, <1>5

LEMMA NextTypeInv == TypeInv /\ [Next]_vars => TypeInv'
  <1> SUFFICES ASSUME TypeInv, [Next]_vars PROVE TypeInv'
    OBVIOUS
  <1>1. CASE UNCHANGED vars
    BY <1>1 DEF vars, chainVars, dbVars, pollVars, memVars, TypeInv, TypeOK
  <1>2. CASE Next
    <2>1. "main" \in Procs /\ "backfill" \in Procs
      BY DEF Procs
    <2> QED
      BY <1>2, <2>1, EmitTypeInv, ChainTypeInv, PollTypeInv, LoopTypeInv, OtherTypeInv
         DEF Next, MainStep, BackfillStep
  <1> QED BY <1>1, <1>2

\* Every reachable state is well typed.
THEOREM TypeCorrect == Spec => []TypeOK
  <1>1. TypeInv => TypeOK
    BY DEF TypeInv
  <1> QED BY <1>1, InitTypeInv, NextTypeInv, PTL DEF Spec

-----------------------------------------------------------------------------
(***************************************************************************)
(* Finality.  Every event that is indexed, and every event of a page being *)
(* applied, is of a ledger the confirmation window has passed; a           *)
(* reorganisation confined to the window keeps all of those.  The pending  *)
(* events belong in the invariant: they are applied after the chain moved. *)
(***************************************************************************)
Confirmed(S) == \A e \in S : e \in chain /\ e.ledger <= tip - Depth

FinalInv ==
    /\ Confirmed(eventsLog)
    /\ \A p \in Procs : Confirmed(pending[p])

\* A step that leaves the chain alone and applies or drops pending events.
LEMMA AppliedStaysFinal ==
    ASSUME TypeInv, FinalInv, NEW p \in Procs,
           UNCHANGED <<tip, chain>>,
           \/ eventsLog' = eventsLog
           \/ \E e \in pending[p] : eventsLog' = eventsLog \cup {e},
           \E S \in SUBSET pending[p] : pending' = [pending EXCEPT ![p] = S]
    PROVE  FinalInv'
  <1>1. PICK S \in SUBSET pending[p] : pending' = [pending EXCEPT ![p] = S]
    OBVIOUS
  <1>2. ASSUME NEW q \in Procs PROVE Confirmed(pending[q])'
    BY <1>1 DEF Confirmed, FinalInv, TypeInv, TypeOK
  <1>3. Confirmed(eventsLog)'
    BY DEF Confirmed, FinalInv
  <1> QED BY <1>2, <1>3 DEF FinalInv

LEMMA ChainStaysFinal ==
    ASSUME ReorgDepth <= Depth, TypeInv, FinalInv,
           \/ \E k \in Kinds, i \in Invoices : Emit(k, i)
           \/ CloseLedger
           \/ \E l \in Ledgers : Reorg(l)
    PROVE  FinalInv'
  <1> USE ListenerAssumption
  <1>1. UNCHANGED <<eventsLog, pending>>
    BY DEF Emit, CloseLedger, Reorg, dbVars, pollVars
  <1>2. ASSUME NEW e \in Event, e \in chain, e.ledger <= tip - Depth
        PROVE  e \in chain' /\ e.ledger <= tip' - Depth
    <2>1. e.ledger \in Nat /\ tip \in Nat
      BY EventFields DEF TypeInv, TypeOK, Ledgers
    <2>2. CASE \E k \in Kinds, i \in Invoices : Emit(k, i)
      BY <1>2, <2>2 DEF Emit
    <2>3. CASE CloseLedger
      BY <1>2, <2>1, <2>3 DEF CloseLedger
    <2>4. CASE \E l \in Ledgers : Reorg(l)
      BY <1>2, <2>1, <2>4 DEF Reorg, Ledgers
    <2> QED BY <2>2, <2>3, <2>4
  <1>3. eventsLog \subseteq Event /\ \A p \in Procs : pending[p] \subseteq Event
    BY DEF TypeInv, TypeOK
  <1> QED BY <1>1, <1>2, <1>3 DEF FinalInv, Confirmed

LEMMA FetchStaysFinal ==
    ASSUME TypeInv, FinalInv, NEW p \in Procs, FetchPage(p)
    PROVE  FinalInv'
  <1>1. UNCHANGED <<tip, chain, eventsLog>>
    BY DEF FetchPage, chainVars, dbVars
  <1>2. ASSUME NEW e \in Page(p), ~Deferred(e)
        PROVE  e \in chain /\ e.ledger <= tip - Depth
    <2>1. e \in chain /\ e.ledger \in Nat /\ tip \in Nat
      <3>1. e \in chain
        BY PageInChain
      <3>2. e \in Event /\ tip \in Ledgers
        BY <3>1 DEF TypeInv, TypeOK
      <3>3. e.ledger \in Ledgers
        BY <3>2, EventFields
      <3> QED BY <3>1, <3>2, <3>3 DEF Ledgers
    <2> QED BY <1>2, <2>1, ListenerAssumption DEF Deferred
  <1>3. ASSUME NEW q \in Procs PROVE Confirmed(pending[q])'
    <2>1. CASE UNCHANGED pending
      BY <1>1, <2>1 DEF FinalInv, Confirmed
    <2>2. CASE pending' = [pending EXCEPT ![p] =
                              {e \in Page(p) : WithinEnd(p, e) /\ ~Deferred(e)}]
      BY <1>1, <1>2, <2>2 DEF FinalInv, Confirmed, TypeInv, TypeOK
    <2> QED BY <2>1, <2>2 DEF FetchPage
  <1> QED BY <1>1, <1>3 DEF FinalInv, Confirmed

LEMMA NextFinalInv ==
    ASSUME ReorgDepth <= Depth, TypeInv, FinalInv, [Next]_vars
    PROVE  FinalInv'
  <1> USE DEF chainVars, dbVars, pollVars
  <1>0. "main" \in Procs /\ "backfill" \in Procs
    BY DEF Procs
  <1>1. CASE \/ \E k \in Kinds, i \in Invoices : Emit(k, i)
             \/ CloseLedger
             \/ \E l \in Ledgers : Reorg(l)
    BY <1>1, ChainStaysFinal
  <1>2. ASSUME NEW p \in Procs, PollStep(p)
        PROVE  FinalInv'
    <2>1. CASE FetchPage(p)
      BY <2>1, FetchStaysFinal
    <2>2. CASE Dedup(p)
      BY <2>2, AppliedStaysFinal DEF Dedup
    <2>3. CASE NextPage(p)
      BY <2>3 DEF NextPage, FinalInv, Confirmed
    <2>4. ASSUME NEW e \in pending[p], HandleEvent(p, e)
          PROVE  FinalInv'
      BY <2>4, AppliedStaysFinal DEF HandleEvent, LogEvent
    <2>5. ASSUME NEW e \in pending[p], HandleWithoutEffect(p, e)
          PROVE  FinalInv'
      BY <2>5, AppliedStaysFinal DEF HandleWithoutEffect, LogEvent
    <2>6. ASSUME NEW e \in pending[p], RejectEvent(p, e)
          PROVE  FinalInv'
      BY <2>6, AppliedStaysFinal DEF RejectEvent, AbortPoll
    <2> QED BY <1>2, <2>1, <2>2, <2>3, <2>4, <2>5, <2>6 DEF PollStep
  <1>3. ASSUME NEW p \in Procs, PollFails(p)
        PROVE  FinalInv'
    BY <1>3, AppliedStaysFinal DEF PollFails, AbortPoll
  <1>4. ASSUME NEW p \in Procs, Crash(p)
        PROVE  FinalInv'
    BY <1>4, AppliedStaysFinal DEF Crash
  <1>5. CASE \/ Start \/ BeginPoll \/ HaltOnReorg \/ FinishPoll \/ FinishBackfill
             \/ \E range \in BackfillRanges : BackfillRange(range)
             \/ PatchStep
    <2>1. UNCHANGED <<tip, chain, eventsLog, pending>>
      BY <1>5 DEF Start, BeginPoll, HaltOnReorg, FinishPoll, FinishBackfill, BackfillRange,
                  PatchStep, PatchInvoiceStatus
    <2> QED BY <2>1 DEF FinalInv, Confirmed
  <1>6. CASE UNCHANGED vars
    BY <1>6 DEF vars, FinalInv, Confirmed
  <1> QED
    BY <1>0, <1>1, <1>2, <1>3, <1>4, <1>5, <1>6 DEF Next, MainStep, BackfillStep

\* With a confirmation depth no smaller than the deepest reorganisation, nothing
\* the listener or a backfill indexes is ever taken back by the chain.
THEOREM WindowIsFinal ==
    ASSUME ReorgDepth <= Depth
    PROVE  Spec => []IndexedIsFinal
  <1>1. Init => TypeInv /\ FinalInv
    BY InitTypeInv DEF Init, FinalInv, Confirmed
  <1>2. TypeInv /\ FinalInv /\ [Next]_vars => (TypeInv /\ FinalInv)'
    BY NextTypeInv, NextFinalInv
  <1>3. TypeInv /\ FinalInv => IndexedIsFinal
    BY DEF FinalInv, Confirmed, IndexedIsFinal
  <1> QED BY <1>1, <1>2, <1>3, PTL DEF Spec

-----------------------------------------------------------------------------
(***************************************************************************)
(* The checkpoint.  Only the listener writes it, always with the ledger it *)
(* goes on from, and it resumes at the checkpoint: the checkpoint is never *)
(* ahead of the ledger a running listener polls from.                      *)
(***************************************************************************)
ResumeInv == pc["main"] # "down" => checkpoint <= startLedger["main"]

\* NextLedger never goes back, and passes the window of the newest ledger seen
\* only to stay where it is.
LEMMA NextLedgerBounds ==
    ASSUME TypeInv
    PROVE  LET n == NextLedger("main")
           IN  /\ n \in Nat
               /\ n >= startLedger["main"]
               /\ n = startLedger["main"] \/ n = latest["main"] - Depth + 1
  BY ListenerAssumption DEF NextLedger, TypeInv, TypeOK, Procs

\* Steps other than Start and FinishPoll leave the checkpoint and the listener's
\* position alone, and only Start brings the listener up.
LEMMA OnlyLoopMoves ==
    ASSUME TypeInv, [Next]_vars, ~Start, ~FinishPoll
    PROVE  /\ UNCHANGED <<checkpoint, firstLedger>>
           /\ startLedger'["main"] = startLedger["main"]
           /\ pc["main"] = "down" => pc'["main"] = "down"
  <1> USE DEF chainVars, dbVars, pollVars, memVars, TypeInv, TypeOK, Procs
  <1>1. CASE UNCHANGED vars
    BY <1>1 DEF vars
  <1>2. CASE \/ \E k \in Kinds, i \in Invoices : Emit(k, i)
             \/ CloseLedger
             \/ \E l \in Ledgers : Reorg(l)
    BY <1>2 DEF Emit, CloseLedger, Reorg
  <1>3. CASE BeginPoll \/ HaltOnReorg \/ FinishBackfill \/ PatchStep
    BY <1>3 DEF BeginPoll, HaltOnReorg, FinishBackfill, PatchStep, PatchInvoiceStatus
  <1>4. CASE \E range \in BackfillRanges : BackfillRange(range)
    BY <1>4 DEF BackfillRange
  <1>5. ASSUME NEW p \in Procs, PollStep(p) \/ PollFails(p) \/ Crash(p)
        PROVE  /\ UNCHANGED <<checkpoint, firstLedger>>
               /\ startLedger'["main"] = startLedger["main"]
               /\ pc["main"] = "down" => pc'["main"] = "down"
    <2>1. CASE FetchPage(p) \/ Dedup(p) \/ NextPage(p)
      BY <2>1 DEF FetchPage, Dedup, NextPage
    <2>2. ASSUME NEW e \in pending[p], HandleEvent(p, e) \/ HandleWithoutEffect(p, e)
          PROVE  UNCHANGED <<checkpoint, firstLedger, startLedger, pc>>
      BY <2>2 DEF HandleEvent, HandleWithoutEffect
    <2>3. ASSUME NEW e \in pending[p], RejectEvent(p, e)
          PROVE  /\ UNCHANGED <<checkpoint, firstLedger, startLedger>>
                 /\ pc["main"] = "down" => pc'["main"] = "down"
      BY <2>3 DEF RejectEvent, Applying, AbortPoll
    <2>4. CASE PollFails(p)
      BY <2>4 DEF PollFails, Applying, AbortPoll
    <2>5. CASE Crash(p)
      BY <2>5 DEF Crash
    <2> QED BY <1>5, <2>1, <2>2, <2>3, <2>4, <2>5 DEF PollStep
  <1> QED BY <1>1, <1>2, <1>3, <1>4, <1>5 DEF Next, MainStep, BackfillStep

LEMMA NextResumeInv ==
    ASSUME TypeInv, ResumeInv, [Next]_vars
    PROVE  ResumeInv' /\ checkpoint' >= checkpoint
  <1> USE DEF TypeInv, TypeOK, Procs
  <1>1. CASE Start
    <2>1. PICK l \in 1..MaxLedger + 1 :
             ResumesAt(l) /\ startLedger' = [startLedger EXCEPT !["main"] = l]
      BY <1>1 DEF Start
    <2>2. checkpoint <= l
      BY <2>1 DEF ResumesAt
    <2>3. UNCHANGED checkpoint
      BY <1>1 DEF Start
    <2> QED BY <2>1, <2>2, <2>3 DEF ResumeInv
  <1>2. CASE FinishPoll
    <2> DEFINE n == NextLedger("main")
    <2>1. /\ startLedger'["main"] = n
          /\ checkpoint' \in {n, checkpoint}
          /\ pc["main"] = "done"
      BY <1>2 DEF FinishPoll
    <2>2. n \in Nat /\ n >= startLedger["main"]
      BY NextLedgerBounds
    <2>3. checkpoint <= startLedger["main"]
      BY <2>1 DEF ResumeInv
    <2> HIDE DEF n
    <2> QED BY <2>1, <2>2, <2>3 DEF ResumeInv
  <1>3. CASE ~Start /\ ~FinishPoll
    BY <1>3, OnlyLoopMoves DEF ResumeInv
  <1> QED BY <1>1, <1>2, <1>3

\* The saved checkpoint never moves back, whatever fails, restarts or is
\* backfilled, so a restart never undoes progress.
THEOREM CheckpointMonotone == Spec => CheckpointNeverBack
  <1>1. Init => TypeInv /\ ResumeInv
    BY InitTypeInv DEF Init, ResumeInv, Procs
  <1>2. TypeInv /\ ResumeInv /\ [Next]_vars
          => (TypeInv /\ ResumeInv)' /\ [checkpoint' >= checkpoint]_vars
    BY NextTypeInv, NextResumeInv
  <1> QED BY <1>1, <1>2, PTL DEF Spec, CheckpointNeverBack

-----------------------------------------------------------------------------
(***************************************************************************)
(* The checkpoint and the window.  With a checkpoint in the database the   *)
(* listener never resumes at the tip, so its position is where indexing    *)
(* began or a boundary of the window of some ledger it has seen.           *)
(***************************************************************************)
Bounded(l) == l <= InitCheckpoint \/ l <= tip - Depth + 1

WindowInv ==
    /\ firstLedger = InitCheckpoint
    /\ checkpoint > 0
    /\ Bounded(checkpoint)
    /\ Bounded(startLedger["main"])
    /\ pc["main"] # "down" => startLedger["main"] > 0
    /\ latest["main"] <= tip

LEMMA TipGrows ==
    ASSUME TypeInv, latest["main"] <= tip, [Next]_vars
    PROVE  tip' >= tip /\ latest'["main"] <= tip'
  <1> USE DEF chainVars, pollVars
  <1>0. /\ tip \in Nat /\ latest \in [Procs -> 0..MaxLedger] /\ "main" \in Procs
        /\ latest["main"] \in Nat
    BY ListenerAssumption DEF TypeInv, TypeOK, Procs, Ledgers
  <1>1. SUFFICES /\ tip' \in {tip, tip + 1}
                 /\ latest'["main"] \in {0, latest["main"], tip}
    BY <1>0
  <1>2. CASE UNCHANGED vars
    BY <1>2 DEF vars
  <1>3. CASE \/ \E k \in Kinds, i \in Invoices : Emit(k, i)
             \/ CloseLedger
             \/ \E l \in Ledgers : Reorg(l)
    BY <1>3 DEF Emit, CloseLedger, Reorg
  <1>4. CASE Start \/ HaltOnReorg \/ FinishPoll \/ FinishBackfill \/ PatchStep
    BY <1>4 DEF Start, HaltOnReorg, FinishPoll, FinishBackfill, PatchStep, PatchInvoiceStatus
  <1>5. CASE BeginPoll
    BY <1>0, <1>5 DEF BeginPoll
  <1>6. CASE \E range \in BackfillRanges : BackfillRange(range)
    BY <1>0, <1>6 DEF BackfillRange
  <1>7. ASSUME NEW p \in Procs, PollStep(p) \/ PollFails(p) \/ Crash(p)
        PROVE  /\ tip' \in {tip, tip + 1}
               /\ latest'["main"] \in {0, latest["main"], tip}
    <2>1. CASE FetchPage(p)
      BY <1>0, <2>1 DEF FetchPage
    <2>2. CASE Dedup(p) \/ NextPage(p)
      BY <2>2 DEF Dedup, NextPage
    <2>3. ASSUME NEW e \in pending[p],
                 HandleEvent(p, e) \/ HandleWithoutEffect(p, e) \/ RejectEvent(p, e)
          PROVE  UNCHANGED <<tip, latest>>
      BY <2>3 DEF HandleEvent, HandleWithoutEffect, RejectEvent, AbortPoll
    <2>4. CASE PollFails(p) \/ Crash(p)
      BY <2>4 DEF PollFails, AbortPoll, Crash
    <2> QED BY <1>7, <2>1, <2>2, <2>3, <2>4 DEF PollStep
  <1>8. "backfill" \in Procs
    BY DEF Procs
  <1> QED
    BY <1>0, <1>2, <1>3, <1>4, <1>5, <1>6, <1>7, <1>8 DEF Next, MainStep, BackfillStep

LEMMA BoundGrows ==
    ASSUME NEW l \in Nat, NEW c \in Nat, NEW d \in Nat, NEW t \in Nat, NEW u \in Nat,
           u >= t, l <= c \/ l <= t - d + 1
    PROVE  l <= c \/ l <= u - d + 1
  OBVIOUS

LEMMA NextWindowInv ==
    ASSUME InitCheckpoint > 0, TypeInv, WindowInv, [Next]_vars
    PROVE  WindowInv'
  <1>1. /\ tip \in Nat /\ latest["main"] \in Nat /\ checkpoint \in Nat
        /\ startLedger \in [Procs -> 0..MaxLedger + 1] /\ "main" \in Procs
        /\ startLedger["main"] \in Nat
        /\ Depth \in Nat /\ InitCheckpoint \in Nat
    BY ListenerAssumption DEF TypeInv, TypeOK, Procs, Ledgers
  <1>2. tip' \in Nat
    <2>1. TypeInv'
      BY NextTypeInv
    <2> QED BY <2>1, ListenerAssumption DEF TypeInv, TypeOK, Ledgers
  <1>3. tip' >= tip /\ latest'["main"] <= tip'
    BY TipGrows DEF WindowInv
  <1>4. ASSUME NEW l \in Nat, Bounded(l)
        PROVE  l <= InitCheckpoint \/ l <= tip' - Depth + 1
    BY <1>1, <1>2, <1>3, <1>4, BoundGrows DEF Bounded
  <1>5. CASE Start
    <2>1. PICK l \in 1..MaxLedger + 1 :
             /\ ResumesAt(l)
             /\ startLedger' = [startLedger EXCEPT !["main"] = l]
             /\ firstLedger' = IF firstLedger = 0 THEN l ELSE firstLedger
      BY <1>5 DEF Start
    <2>2. l = checkpoint
      BY <2>1 DEF ResumesAt, WindowInv
    <2>3. UNCHANGED checkpoint
      BY <1>5 DEF Start
    <2>4. startLedger'["main"] = checkpoint /\ firstLedger' = firstLedger
      BY <1>1, <2>1, <2>2 DEF WindowInv
    <2> QED BY <1>1, <1>3, <1>4, <2>3, <2>4 DEF WindowInv, Bounded
  <1>6. CASE FinishPoll
    <2> DEFINE n == NextLedger("main")
    <2>1. /\ startLedger'["main"] = n
          /\ checkpoint' \in {n, checkpoint}
          /\ pc["main"] = "done"
          /\ UNCHANGED firstLedger
      BY <1>1, <1>6 DEF FinishPoll
    <2>2. /\ n \in Nat /\ n >= startLedger["main"]
          /\ n = startLedger["main"] \/ n = latest["main"] - Depth + 1
      BY NextLedgerBounds
    <2> HIDE DEF n
    <2>3. n > 0 /\ Bounded(n)
      BY <1>1, <2>1, <2>2 DEF WindowInv, Bounded
    <2> QED BY <1>1, <1>3, <1>4, <2>1, <2>2, <2>3 DEF WindowInv, Bounded
  <1>7. CASE ~Start /\ ~FinishPoll
    <2>1. /\ UNCHANGED <<checkpoint, firstLedger>>
          /\ startLedger'["main"] = startLedger["main"]
          /\ pc["main"] = "down" => pc'["main"] = "down"
      BY <1>7, OnlyLoopMoves
    <2> QED BY <1>1, <1>3, <1>4, <2>1 DEF WindowInv, Bounded
  <1> QED BY <1>5, <1>6, <1>7

\* Once a checkpoint is in the database, it stays behind the confirmation window
\* of the chain tip, or where it was: the buffered ledgers are always polled again.
THEOREM CheckpointIsBuffered ==
    ASSUME InitCheckpoint > 0
    PROVE  Spec => []CheckpointBehindWindow
  <1>1. Init => TypeInv /\ WindowInv
    BY InitTypeInv, ListenerAssumption DEF Init, WindowInv, Bounded, Procs
  <1>2. TypeInv /\ WindowInv /\ [Next]_vars => (TypeInv /\ WindowInv)'
    BY NextTypeInv, NextWindowInv
  <1>3. TypeInv /\ WindowInv => CheckpointBehindWindow
    BY SMTT(30) DEF WindowInv, Bounded, CheckpointBehindWindow
  <1> QED BY <1>1, <1>2, <1>3, PTL DEF Spec

-----------------------------------------------------------------------------
(***************************************************************************)
(* Refinement.  Only HandleEvent and the API's patch write a status; the   *)
(* guard in each query's WHERE clause makes the first write an edge of the *)
(* lifecycle and lets the second one start only where a default may.       *)
(***************************************************************************)
LEMMA HandlerFollowsEdge ==
    ASSUME NEW e \in Event, status \in [Invoices -> Statuses],
           HandlerResult(e) \in Statuses, HandlerResult(e) # status[e.inv]
    PROVE  <<status[e.inv], HandlerResult(e)>> \in Lifecycle!Edges
  <1> DEFINE st == status[e.inv]
  <1>1. e.kind \in AllKinds /\ st \in Statuses
    BY EventFields, ListenerAssumption
  <1> USE <1>1 DEF HandlerResult, Statuses, updateInvoice, Lifecycle!Edges,
                  ErrInvoiceNotFound, ErrInvalidInvoiceTransition
  <1>2. CASE e.kind = "Create"
    BY <1>2 DEF InsertInvoice
  <1>3. CASE e.kind = "List"
    BY <1>3 DEF UpdateInvoiceListed
  <1>4. CASE e.kind = "Fund"
    BY <1>4 DEF UpdateInvoiceFunded
  <1>5. CASE e.kind = "Ship"
    BY <1>5 DEF UpdateInvoiceShipped
  <1>6. CASE e.kind = "Confirm"
    BY <1>6 DEF UpdateInvoiceDeliveryConfirmed
  <1>7. CASE e.kind = "Repay"
    BY <1>7 DEF UpdateInvoiceRepaid
  <1>8. CASE e.kind = "Default"
    BY <1>8 DEF UpdateInvoiceStatus
  <1>9. CASE e.kind \in {"Attest", "Pool", "Register", "Unknown"}
    BY <1>9 DEF UpdateInvoiceAttestation
  <1> QED
    BY <1>1, <1>2, <1>3, <1>4, <1>5, <1>6, <1>7, <1>8, <1>9 DEF AllKinds, LifecycleKinds

LEMMA HandleEventRefines ==
    ASSUME TypeInv, NEW p \in Procs, NEW e \in pending[p], HandleEvent(p, e)
    PROVE  [Lifecycle!Next]_<<status, patched>>
  <1> DEFINE st == status[e.inv]
             res == HandlerResult(e)
  <1>1. e \in Event /\ e.inv \in Invoices
    BY EventFields DEF TypeInv, TypeOK
  <1>2. status \in [Invoices -> Statuses] /\ res \in Statuses
    BY DEF TypeInv, TypeOK, HandleEvent
  <1>3. status' = [status EXCEPT ![e.inv] = res] /\ UNCHANGED patched
    BY DEF HandleEvent
  <1>4. CASE res = st
    BY <1>1, <1>2, <1>3, <1>4
  <1>5. CASE res # st
    <2>1. <<st, res>> \in Lifecycle!Edges
      BY <1>1, <1>2, <1>5, HandlerFollowsEdge
    <2> HIDE DEF st, res
    <2>2. PICK edge \in Lifecycle!Edges : edge[1] = st /\ edge[2] = res
      BY <2>1
    <2>3. Lifecycle!Advance(e.inv)
      BY <1>3, <2>2 DEF Lifecycle!Advance, st
    <2> QED BY <1>1, <2>3 DEF Lifecycle!Next
  <1> QED BY <1>4, <1>5

LEMMA PatchRefines ==
    ASSUME TypeInv, PatchStep
    PROVE  Lifecycle!Next
  <1>1. PICK i \in Invoices, s \in PatchStatuses : PatchInvoiceStatus(i, s)
    BY DEF PatchStep
  <1>2. s \in Statuses \ {"Absent"} /\ status[i] \in Statuses
    BY ListenerAssumption DEF TypeInv, TypeOK
  <1>3. /\ status[i] \in {"Funded", "Active", "Confirmed"}
        /\ status' = [status EXCEPT ![i] = s]
        /\ patched' = patched \cup {i}
    <2>1. UpdateInvoiceStatus(status[i], s) \in Statuses
      BY <1>1 DEF PatchInvoiceStatus
    <2>2. status[i] \in {"Funded", "Active", "Confirmed"} /\ UpdateInvoiceStatus(status[i], s) = s
      BY <1>2, <2>1 DEF UpdateInvoiceStatus, updateInvoice, Statuses, ErrInvoiceNotFound,
                        ErrInvalidInvoiceTransition
    <2> QED BY <1>1, <2>2 DEF PatchInvoiceStatus
  <1>4. status[i] \in Lifecycle!Overridable
    <2>1. PICK edge \in Lifecycle!Edges : edge[1] = status[i] /\ edge[2] = "Defaulted"
      BY <1>3 DEF Lifecycle!Edges
    <2> QED BY <2>1 DEF Lifecycle!Overridable
  <1>5. PICK edge \in Lifecycle!Edges : edge[2] = s
    BY <1>2 DEF Lifecycle!Edges, Statuses
  <1>6. Lifecycle!Override(i)
    BY <1>3, <1>4, <1>5 DEF Lifecycle!Override
  <1> QED BY <1>6 DEF Lifecycle!Next

LEMMA NextRefines ==
    ASSUME TypeInv, [Next]_vars
    PROVE  [Lifecycle!Next]_<<status, patched>>
  <1> USE DEF dbVars
  <1>0. "main" \in Procs /\ "backfill" \in Procs
    BY DEF Procs
  <1>1. ASSUME NEW p \in Procs, PollStep(p)
        PROVE  [Lifecycle!Next]_<<status, patched>>
    BY <1>1, HandleEventRefines
       DEF PollStep, FetchPage, Dedup, NextPage, HandleWithoutEffect, RejectEvent
  <1>2. CASE \/ \E k \in Kinds, i \in Invoices : Emit(k, i)
             \/ CloseLedger
             \/ \E l \in Ledgers : Reorg(l)
    BY <1>2 DEF Emit, CloseLedger, Reorg
  <1>3. CASE \/ Start \/ BeginPoll \/ HaltOnReorg \/ FinishPoll \/ FinishBackfill
             \/ \E range \in BackfillRanges : BackfillRange(range)
             \/ \E p \in Procs : PollFails(p) \/ Crash(p)
    BY <1>3 DEF Start, BeginPoll, HaltOnReorg, FinishPoll, FinishBackfill, BackfillRange,
               PollFails, Crash
  <1>4. CASE UNCHANGED vars
    BY <1>4 DEF vars
  <1> QED BY <1>0, <1>1, <1>2, <1>3, <1>4, PatchRefines DEF Next, MainStep, BackfillStep

\* Whatever the order in which the listener and a backfill apply events, replays,
\* crashes and reorganisations included, every row of invoices follows the
\* documented lifecycle; PATCH /invoices/{id}/status (handlers_invoices.go) leaves
\* it, and only from Funded, Active or Confirmed.
THEOREM RefinesLifecycle == Spec => FollowsLifecycle
  <1>1. Init => Lifecycle!Init
    BY DEF Init, Lifecycle!Init
  <1>2. TypeInv /\ [Next]_vars => [Lifecycle!Next]_<<status, patched>>
    BY NextRefines
  <1> QED
    BY <1>1, <1>2, InitTypeInv, NextTypeInv, PTL DEF Spec, FollowsLifecycle, Lifecycle!Spec

-----------------------------------------------------------------------------
(***************************************************************************)
(* Completeness.  Nothing is skipped, because at every moment of a poll an *)
(* event the cursor has passed and the window has cleared is indexed or    *)
(* still pending, and a poll ends only when the cursor has passed every    *)
(* such event.                                                             *)
(***************************************************************************)

\* Events are numbered within their ledger and are of ledgers after the first.
ChainInv ==
    /\ InitTip <= tip
    /\ \A e \in chain : InitTip < e.ledger /\ e.ledger <= tip + 1
    /\ \A e \in chain : e.ledger = tip + 1 =>
                           e.pos <= Cardinality({f \in chain : f.ledger = tip + 1})
    /\ \A e, f \in chain : ID(e) = ID(f) => e = f

Reached(e) == ~Precedes(cursor["main"], ID(e))

\* The events a poll that ends now would have to have indexed.
InPoll(e) == startLedger["main"] <= e.ledger /\ e.ledger <= latest["main"] - Depth

EndInv == endLedger["main"] = 0 /\ pastEnd["main"] = FALSE

\* The cursor is of the newest ledger a page was read at, and that is still the
\* tip unless there is no window.
CursorInv ==
    /\ cursor["main"][1] <= latest["main"]
    /\ latest["main"] \in {0, tip} \/ Depth = 0

\* What the cursor has passed is indexed or pending.
Swept == \A e \in chain : Known(e) /\ InPoll(e) /\ Reached(e) => e \in eventsLog \cup pending["main"]

Held == \A e \in pending["main"] : e.ledger <= latest["main"] - Depth /\ Reached(e)

PollInv ==
    /\ pc["main"] \notin {"dedup", "apply"} => pending["main"] = {}
    /\ Polling("main") => CursorInv /\ Swept /\ Held
    /\ pc["main"] = "done" => \A e \in chain : InPoll(e) => Reached(e)

SkipInv ==
    /\ \A e \in chain : Known(e) /\ e.ledger < checkpoint => e \in eventsLog
    /\ pc["main"] # "down" =>
          \A e \in chain : Known(e) /\ e.ledger < startLedger["main"] => e \in eventsLog



(***************************************************************************)
(* The order of events.                                                    *)
(***************************************************************************)
Places == Nat \X Nat

LEMMA EventPlace ==
    ASSUME NEW e \in Event
    PROVE  /\ ID(e) \in Places /\ ID(e)[1] = e.ledger /\ ID(e)[2] = e.pos
           /\ e.ledger \in Nat /\ e.ledger >= 1 /\ e.pos \in Nat
  BY EventFields, ListenerAssumption DEF Places, ID, Ledgers

LEMMA PrecedesOrder ==
    ASSUME NEW a \in Places, NEW b \in Places, NEW c \in Places
    PROVE  /\ ~Precedes(a, a)
           /\ Precedes(a, b) => ~Precedes(b, a)
           /\ Precedes(a, b) /\ Precedes(b, c) => Precedes(a, c)
           /\ Precedes(a, b) => a[1] <= b[1]
           /\ a = b \/ Precedes(a, b) \/ Precedes(b, a)
           /\ ~Precedes(b, a) => a[1] <= b[1]
  BY DEF Precedes, Places

LEMMA LeastNatural ==
    ASSUME NEW T \in SUBSET Nat, T # {}
    PROVE  \E n \in T : \A m \in T : n <= m
  <1>1. PICK n \in T : \A m \in T : ~(<<m, n>> \in OpToRel(<, Nat))
    BY WFMin, NatLessThanWellFounded
  <1>2. \A m \in T : ~(m < n)
    BY <1>1 DEF OpToRel
  <1> QED BY <1>2

\* Of any events there is a first one.
LEMMA FirstEvent ==
    ASSUME NEW S \in SUBSET Event, S # {}
    PROVE  \E e \in S : \A f \in S : ~Precedes(ID(f), ID(e))
  <1>1. \A e \in S : e.ledger \in Nat /\ e.pos \in Nat /\ ID(e)[1] = e.ledger /\ ID(e)[2] = e.pos
    BY EventPlace
  <1>2. PICK l \in {e.ledger : e \in S} : \A m \in {e.ledger : e \in S} : l <= m
    <2>1. {e.ledger : e \in S} \in SUBSET Nat /\ {e.ledger : e \in S} # {}
      BY <1>1
    <2> QED BY <2>1, LeastNatural
  <1> DEFINE At == {e \in S : e.ledger = l}
  <1>3. PICK n \in {e.pos : e \in At} : \A m \in {e.pos : e \in At} : n <= m
    <2>1. {e.pos : e \in At} \in SUBSET Nat /\ {e.pos : e \in At} # {}
      BY <1>1, <1>2
    <2> QED BY <2>1, LeastNatural
  <1>4. PICK e \in S : e.ledger = l /\ e.pos = n
    BY <1>3
  <1>5. ASSUME NEW f \in S
        PROVE  ~Precedes(ID(f), ID(e))
    <2>1. e.ledger <= f.ledger
      BY <1>2, <1>4
    <2>2. f.ledger = e.ledger => e.pos <= f.pos
      BY <1>3, <1>4
    <2> QED BY <1>1, <2>1, <2>2 DEF Precedes
  <1> QED BY <1>5

-----------------------------------------------------------------------------
(***************************************************************************)
(* What the steps may change.                                              *)
(***************************************************************************)

\* The listener's own poll is left alone.
MainSame ==
    /\ pc'["main"] = pc["main"]
    /\ startLedger'["main"] = startLedger["main"]
    /\ endLedger'["main"] = endLedger["main"]
    /\ cursor'["main"] = cursor["main"]
    /\ latest'["main"] = latest["main"]
    /\ pending'["main"] = pending["main"]
    /\ pastEnd'["main"] = pastEnd["main"]

LEMMA BackfillApart ==
    ASSUME TypeInv,
           \/ BackfillStep \/ PollFails("backfill") \/ Crash("backfill")
           \/ \E range \in BackfillRanges : BackfillRange(range)
           \/ PatchStep
    PROVE  MainSame /\ UNCHANGED <<tip, chain, fork, checkpoint, finalized, firstLedger>>
  <1> USE DEF chainVars, dbVars, pollVars, memVars, TypeInv, TypeOK, Procs
  <1>1. CASE FetchPage("backfill")
    BY <1>1 DEF FetchPage, MainSame
  <1>2. CASE Dedup("backfill") \/ NextPage("backfill") \/ FinishBackfill
    BY <1>2 DEF Dedup, NextPage, FinishBackfill, MainSame
  <1>3. CASE \E e \in pending["backfill"] : HandleEvent("backfill", e) \/ HandleWithoutEffect("backfill", e)
    BY <1>3 DEF HandleEvent, HandleWithoutEffect, MainSame
  <1>4. CASE \/ \E e \in pending["backfill"] : RejectEvent("backfill", e)
             \/ PollFails("backfill")
    BY <1>4 DEF RejectEvent, PollFails, AbortPoll, MainSame
  <1>5. CASE Crash("backfill")
    BY <1>5 DEF Crash, MainSame
  <1>6. CASE \E range \in BackfillRanges : BackfillRange(range)
    BY <1>6 DEF BackfillRange, MainSame
  <1>7. CASE PatchStep
    BY <1>7 DEF PatchStep, PatchInvoiceStatus, MainSame
  <1> QED BY <1>1, <1>2, <1>3, <1>4, <1>5, <1>6, <1>7 DEF BackfillStep, PollStep

\* An event is indexed at most once: an event of the page with the id of an
\* indexed one is that event.
LEMMA ProcessedIsIndexed ==
    ASSUME FinalInv, ChainInv, NEW p \in Procs, NEW e \in pending[p]
    PROVE  Processed(e) <=> e \in eventsLog
  <1>1. e \in chain /\ eventsLog \subseteq chain
    BY DEF FinalInv, Confirmed
  <1> QED BY <1>1 DEF Processed, ChainInv

LEMMA LogGrows ==
    ASSUME [Next]_vars
    PROVE  eventsLog \subseteq eventsLog'
  <1>1. ASSUME NEW p \in Procs, PollStep(p) \/ PollFails(p) \/ Crash(p)
        PROVE  eventsLog \subseteq eventsLog'
    <2>1. CASE \E e \in pending[p] : HandleEvent(p, e) \/ HandleWithoutEffect(p, e)
      BY <2>1 DEF HandleEvent, HandleWithoutEffect, LogEvent
    <2>2. CASE \/ FetchPage(p) \/ Dedup(p) \/ NextPage(p) \/ PollFails(p) \/ Crash(p)
               \/ \E e \in pending[p] : RejectEvent(p, e)
      BY <2>2 DEF FetchPage, Dedup, NextPage, PollFails, Crash, RejectEvent, dbVars
    <2> QED BY <1>1, <2>1, <2>2 DEF PollStep
  <1>2. CASE \/ Start \/ BeginPoll \/ HaltOnReorg \/ FinishPoll \/ FinishBackfill
             \/ \E range \in BackfillRanges : BackfillRange(range)
             \/ PatchStep \/ UNCHANGED vars
    BY <1>2 DEF Start, BeginPoll, HaltOnReorg, FinishPoll, FinishBackfill, BackfillRange,
                PatchStep, PatchInvoiceStatus, dbVars, vars
  <1>3. CASE \/ \E k \in Kinds, i \in Invoices : Emit(k, i)
             \/ CloseLedger
             \/ \E l \in Ledgers : Reorg(l)
    BY <1>3 DEF Emit, CloseLedger, Reorg, dbVars
  <1>4. "main" \in Procs /\ "backfill" \in Procs
    BY DEF Procs
  <1> QED BY <1>1, <1>2, <1>3, <1>4 DEF Next, MainStep, BackfillStep

ChainStep ==
    \/ \E k \in Kinds, i \in Invoices : Emit(k, i)
    \/ CloseLedger
    \/ \E l \in Ledgers : Reorg(l)

\* Only the chain's own steps change it, and new events are of the open ledger.
LEMMA ChainSteps ==
    ASSUME ChainStep
    PROVE  /\ MainSame
           /\ UNCHANGED <<dbVars, checkpoint, pc, pollVars, memVars, faults>>
           /\ \A e \in chain' : e \in chain \/ e.ledger = tip + 1
           /\ tip' = tip \/ (tip' = tip + 1 /\ (StableTip => ~Polling("main")))
  <1>1. CASE \E k \in Kinds, i \in Invoices : Emit(k, i)
    BY <1>1 DEF Emit, pollVars, MainSame
  <1>2. CASE CloseLedger
    BY <1>2 DEF CloseLedger, pollVars, MainSame, Procs
  <1>3. CASE \E l \in Ledgers : Reorg(l)
    BY <1>3 DEF Reorg, pollVars, MainSame
  <1> QED BY <1>1, <1>2, <1>3 DEF ChainStep

LEMMA ChainElsewhere ==
    ASSUME [Next]_vars, ~ChainStep
    PROVE  UNCHANGED <<tip, chain, fork, reorgs>>
  <1>1. ASSUME NEW p \in Procs, PollStep(p) \/ PollFails(p) \/ Crash(p)
        PROVE  UNCHANGED <<tip, chain, fork, reorgs>>
    BY <1>1 DEF PollStep, FetchPage, Dedup, NextPage, HandleEvent, HandleWithoutEffect, RejectEvent,
                PollFails, Crash, chainVars
  <1>2. CASE \/ Start \/ BeginPoll \/ HaltOnReorg \/ FinishPoll \/ FinishBackfill
             \/ \E range \in BackfillRanges : BackfillRange(range)
             \/ PatchStep \/ UNCHANGED vars
    BY <1>2 DEF Start, BeginPoll, HaltOnReorg, FinishPoll, FinishBackfill, BackfillRange,
               PatchStep, PatchInvoiceStatus, chainVars, vars
  <1>3. "main" \in Procs /\ "backfill" \in Procs
    BY DEF Procs
  <1> QED BY <1>1, <1>2, <1>3 DEF Next, MainStep, BackfillStep, ChainStep

LEMMA NextChainInv ==
    ASSUME TypeInv, ChainInv, [Next]_vars
    PROVE  ChainInv'
  <1>0. tip \in Nat /\ InitTip \in Nat /\ chain \subseteq Event /\ IsFiniteSet(chain)
    BY ListenerAssumption DEF TypeInv, TypeOK, Ledgers
  <1>1. ASSUME NEW k \in Kinds, NEW i \in Invoices, Emit(k, i)
        PROVE  ChainInv'
    <2> DEFINE open == {e \in chain : e.ledger = tip + 1}
               new == [ledger |-> tip + 1, pos |-> Cardinality(open) + 1, kind |-> k, inv |-> i]
    <2>1. IsFiniteSet(open) /\ Cardinality(open) \in Nat
      BY <1>0, FS_Subset, FS_CardinalityType
    <2>2. chain' = chain \cup {new} /\ tip' = tip
      BY <1>1 DEF Emit
    <2>3. new.ledger = tip + 1 /\ new.pos = Cardinality(open) + 1
      OBVIOUS
    <2>4. \A e \in open : e.pos <= Cardinality(open) /\ e.pos \in Nat
      BY <1>0, EventPlace DEF ChainInv
    <2> HIDE DEF new
    <2>5. new \notin open
      BY <2>1, <2>3, <2>4
    <2>6. {f \in chain' : f.ledger = tip + 1} = open \cup {new}
      BY <2>2, <2>3
    <2>7. Cardinality(open \cup {new}) = Cardinality(open) + 1
      BY <2>1, <2>5, FS_AddElement
    <2> HIDE DEF open
    <2>8. \A e \in chain' : e.ledger = tip + 1 => e.pos <= Cardinality(open) + 1
      <3>1. \A e \in chain' : e.ledger = tip + 1 => e \in open \cup {new}
        BY <2>6
      <3> QED BY <2>1, <2>3, <2>4, <3>1
    <2>9. \A e \in chain' : InitTip < e.ledger /\ e.ledger <= tip + 1
      BY <1>0, <2>2, <2>3 DEF ChainInv
    <2>10. ASSUME NEW e \in chain, ID(e) = ID(new)
           PROVE  FALSE
      <3>1. e.ledger = tip + 1 /\ e.pos = Cardinality(open) + 1
        BY <2>3, <2>10 DEF ID
      <3>2. e \in open
        BY <3>1 DEF open
      <3> QED BY <2>1, <2>4, <3>1, <3>2
    <2>11. \A e, f \in chain' : ID(e) = ID(f) => e = f
      BY <2>2, <2>10 DEF ChainInv
    <2>12. \A e \in chain' : e.ledger = tip + 1 => e.pos <= Cardinality({f \in chain' : f.ledger = tip + 1})
      BY <2>6, <2>7, <2>8
    <2> QED BY <2>2, <2>9, <2>11, <2>12 DEF ChainInv
  <1>2. CASE CloseLedger
    <2>1. chain' = chain /\ tip' = tip + 1
      BY <1>2 DEF CloseLedger
    <2>2. \A e \in chain : e.ledger \in Nat
      BY <1>0, EventPlace
    <2> QED BY <1>0, <2>1, <2>2 DEF ChainInv
  <1>3. ASSUME NEW l \in Ledgers, Reorg(l)
        PROVE  ChainInv'
    <2>1. chain' = {e \in chain : e.ledger < l} /\ tip' = tip /\ l <= tip /\ l \in Nat
      BY <1>3 DEF Reorg, Ledgers
    <2>2. \A e \in chain' : e.ledger # tip + 1
      BY <1>0, <2>1, EventPlace
    <2> QED BY <1>0, <2>1, <2>2 DEF ChainInv
  <1>4. CASE ~ChainStep
    BY <1>4, ChainElsewhere DEF ChainInv
  <1> QED BY <1>1, <1>2, <1>3, <1>4 DEF ChainStep

-----------------------------------------------------------------------------
(***************************************************************************)
(* A poll.                                                                 *)
(***************************************************************************)

LEMMA NextEndInv ==
    ASSUME TypeInv, EndInv, [Next]_vars
    PROVE  EndInv'
  <1> USE DEF chainVars, dbVars, pollVars, memVars
  <1>0. /\ "main" \in Procs /\ "main" # "backfill"
        /\ endLedger \in [Procs -> 0..MaxLedger] /\ pastEnd \in [Procs -> BOOLEAN]
    BY DEF TypeInv, TypeOK, Procs
  <1>1. ASSUME UNCHANGED <<endLedger, pastEnd>>
        PROVE  EndInv'
    BY <1>1 DEF EndInv
  <1>2. ASSUME NEW p \in Procs, FetchPage(p)
        PROVE  EndInv'
    <2>1. endLedger' = endLedger
      BY <1>2 DEF FetchPage
    <2>2. CASE p # "main" \/ UNCHANGED pastEnd
      <3>1. UNCHANGED pastEnd \/ \E x : pastEnd' = [pastEnd EXCEPT ![p] = x]
        BY <1>2 DEF FetchPage
      <3>2. pastEnd'["main"] = pastEnd["main"]
        BY <1>0, <2>2, <3>1
      <3> QED BY <2>1, <3>2 DEF EndInv
    <2>3. CASE p = "main" /\ pastEnd' = [pastEnd EXCEPT ![p] = \E e \in Page(p) : ~WithinEnd(p, e)]
      <3>1. (\E e \in Page(p) : ~WithinEnd(p, e)) = FALSE
        BY <2>3 DEF WithinEnd, EndInv
      <3>2. pastEnd' = [pastEnd EXCEPT !["main"] = FALSE]
        BY <2>3, <3>1
      <3>3. pastEnd'["main"] = FALSE
        BY <1>0, <3>2
      <3> QED BY <2>1, <3>3 DEF EndInv
    <2> QED BY <1>2, <2>2, <2>3 DEF FetchPage
  <1>3. CASE \E range \in BackfillRanges : BackfillRange(range)
    <2>1. pastEnd' = pastEnd /\ \E x : endLedger' = [endLedger EXCEPT !["backfill"] = x]
      BY <1>3 DEF BackfillRange
    <2>2. endLedger'["main"] = endLedger["main"]
      BY <1>0, <2>1
    <2> QED BY <2>1, <2>2 DEF EndInv
  <1>4. ASSUME NEW p \in Procs, (PollStep(p) /\ ~FetchPage(p)) \/ PollFails(p) \/ Crash(p)
        PROVE  UNCHANGED <<endLedger, pastEnd>>
    BY <1>4 DEF PollStep, Dedup, NextPage, HandleEvent, HandleWithoutEffect, RejectEvent,
                PollFails, AbortPoll, Crash
  <1>5. CASE \/ Start \/ BeginPoll \/ HaltOnReorg \/ FinishPoll \/ FinishBackfill
             \/ PatchStep \/ UNCHANGED vars \/ ChainStep
    <2>1. UNCHANGED <<endLedger, pastEnd>>
      BY <1>5 DEF Start, BeginPoll, HaltOnReorg, FinishPoll, FinishBackfill, vars,
                  PatchStep, PatchInvoiceStatus, ChainStep, Emit, CloseLedger, Reorg
    <2> QED BY <1>1, <2>1
  <1>6. "backfill" \in Procs
    BY DEF Procs
  <1> QED
    BY <1>0, <1>1, <1>2, <1>3, <1>4, <1>5, <1>6 DEF Next, MainStep, BackfillStep, ChainStep

\* The typing facts about the listener's poll.
LEMMA MainTypes ==
    ASSUME TypeInv
    PROVE  /\ "main" \in Procs /\ cursor["main"] \in Places
           /\ latest["main"] \in Nat /\ startLedger["main"] \in Nat /\ tip \in Nat
           /\ Depth \in Nat /\ checkpoint \in Nat
           /\ pending["main"] \subseteq Event /\ chain \subseteq Event /\ eventsLog \subseteq Event
  BY ListenerAssumption, SMTT(30) DEF TypeInv, TypeOK, Procs, Ledgers, Places

\* Every confirmed event after the cursor and up to the end of the page is on it.
LEMMA PageIsPrefix ==
    ASSUME TypeInv, ChainInv, NEW e \in Available("main"), NEW l \in Page("main"),
           ~Precedes(ID(l), ID(e))
    PROVE  e \in Page("main")
  <1> DEFINE Below(x) == {f \in Available("main") : Precedes(ID(f), ID(x))}
  <1>1. l \in Available("main") /\ Available("main") \subseteq chain /\ chain \subseteq Event
    BY MainTypes DEF Page, Available
  <1>2. \A f \in Available("main") : ID(f) \in Places
    BY <1>1, EventPlace
  <1>3. Below(e) \subseteq Below(l)
    <2> SUFFICES ASSUME NEW f \in Available("main"), Precedes(ID(f), ID(e))
                 PROVE  Precedes(ID(f), ID(l))
      OBVIOUS
    <2>1. ID(e) = ID(l) \/ Precedes(ID(e), ID(l))
      BY <1>1, <1>2, PrecedesOrder
    <2> QED BY <1>1, <1>2, <2>1, PrecedesOrder
  <1>4. IsFiniteSet(Below(l)) /\ IsFiniteSet(Below(e))
    BY <1>1, FS_Subset DEF TypeInv
  <1>5. Cardinality(Below(e)) <= Cardinality(Below(l))
    BY <1>3, <1>4, FS_Subset
  <1>6. Cardinality(Below(l)) < PageSize
    BY DEF Page
  <1>7. Cardinality(Below(l)) \in Nat /\ Cardinality(Below(e)) \in Nat /\ PageSize \in Nat
    BY <1>4, FS_CardinalityType, ListenerAssumption
  <1>8. Cardinality(Below(e)) < PageSize
    BY <1>5, <1>6, <1>7
  <1> QED BY <1>8 DEF Page

\* A page without confirmed events means no confirmed event is left.
LEMMA EmptyPage ==
    ASSUME TypeInv, ChainInv, EndInv, NEW e \in Available("main"), ~Deferred(e)
    PROVE  \E f \in Page("main") : WithinEnd("main", f) /\ ~Deferred(f)
  <1>1. Available("main") \subseteq chain /\ chain \subseteq Event
    BY MainTypes DEF Available
  <1>2. PICK f \in Available("main") : \A g \in Available("main") : ~Precedes(ID(g), ID(f))
    BY <1>1, FirstEvent
  <1>3. {g \in Available("main") : Precedes(ID(g), ID(f))} = {}
    BY <1>2
  <1>4. f \in Page("main")
    BY <1>3, FS_EmptySet, ListenerAssumption DEF Page
  <1>5. /\ ID(f) \in Places /\ ID(e) \in Places /\ ID(f)[1] = f.ledger /\ ID(e)[1] = e.ledger
        /\ e.ledger \in Nat /\ f.ledger \in Nat
    BY <1>1, EventPlace
  <1>6. f.ledger <= e.ledger
    BY <1>2, <1>5, PrecedesOrder
  <1>7. ~Deferred(f)
    BY <1>5, <1>6, MainTypes DEF Deferred
  <1> QED BY <1>4, <1>7 DEF WithinEnd, EndInv

LEMMA FetchPollInv ==
    ASSUME TypeInv, WindowInv, ChainInv, EndInv, PollInv, FetchPage("main")
    PROVE  PollInv'
  <1> DEFINE page == Page("main")
             confirmed == {e \in page : WithinEnd("main", e) /\ ~Deferred(e)}
  <1>1. /\ UNCHANGED <<tip, chain, startLedger, eventsLog>>
        /\ pc["main"] = "fetch"
        /\ latest'["main"] = tip
    BY MainTypes DEF FetchPage, chainVars, dbVars, TypeInv, TypeOK
  <1>2. pending["main"] = {} /\ CursorInv /\ Swept
    BY <1>1 DEF PollInv, Polling
  <1>3. \A e \in chain : /\ ID(e) \in Places /\ ID(e)[1] = e.ledger
                         /\ e.ledger \in Nat /\ e.ledger >= 1
    BY MainTypes, EventPlace
  <1>4. ASSUME NEW e \in chain, Known(e), startLedger["main"] <= e.ledger, e.ledger <= tip - Depth,
               Reached(e)
        PROVE  e \in eventsLog
    <2>1. e.ledger <= cursor["main"][1]
      BY <1>3, <1>4, MainTypes, PrecedesOrder DEF Reached
    <2>2. cursor["main"][1] \in Nat
      BY MainTypes DEF Places
    <2>3. latest["main"] # 0
      BY <1>2, <1>3, <2>1, <2>2, MainTypes DEF CursorInv
    <2>4. e.ledger <= latest["main"] - Depth
      BY <1>2, <1>3, <1>4, <2>1, <2>2, <2>3, MainTypes DEF CursorInv
    <2> QED BY <1>2, <1>4, <2>4 DEF Swept, InPoll
  <1>5. \A e \in chain : startLedger["main"] <= e.ledger /\ e.ledger <= tip - Depth /\ ~Reached(e)
           => e \in Available("main") /\ ~Deferred(e)
    <2>1. \A e \in chain : e.ledger <= tip - Depth => e.ledger <= tip /\ ~(e.ledger > tip - Depth)
      BY <1>3, MainTypes
    <2> QED BY <2>1 DEF Reached, Available, Deferred
  <1>6. CASE confirmed = {} /\ pc' = [pc EXCEPT !["main"] = "done"] /\ UNCHANGED <<cursor, pending>>
    <2>1. pc'["main"] = "done"
      BY <1>6, MainTypes DEF TypeInv, TypeOK
    <2>2. ASSUME NEW e \in chain, startLedger["main"] <= e.ledger, e.ledger <= tip - Depth
          PROVE  Reached(e)
      BY <1>5, <1>6, <2>2, EmptyPage
    <2>3. \A e \in chain : InPoll(e)' => Reached(e)'
      BY <1>1, <1>6, <2>2 DEF InPoll, Reached
    <2>4. Swept'
      <3> SUFFICES ASSUME NEW e \in chain', Known(e), InPoll(e)', Reached(e)'
                   PROVE  e \in eventsLog
        BY <1>1 DEF Swept, Known
      <3>1. startLedger["main"] <= e.ledger /\ e.ledger <= tip - Depth
        BY <1>1 DEF InPoll
      <3>2. Reached(e)
        BY <1>6 DEF Reached
      <3> QED BY <1>1, <1>4, <3>1, <3>2
    <2>5. CursorInv'
      <3>1. cursor["main"][1] <= tip
        <4>1. cursor["main"][1] \in Nat
          BY MainTypes DEF Places
        <4>2. latest["main"] <= tip
          BY DEF WindowInv
        <4> QED BY <1>2, <4>1, <4>2, MainTypes DEF CursorInv
      <3> QED BY <1>1, <1>6, <3>1 DEF CursorInv
    <2>6. Held' /\ pending'["main"] = {}
      BY <1>2, <1>6 DEF Held
    <2> QED BY <1>1, <2>1, <2>3, <2>4, <2>5, <2>6 DEF PollInv, Polling
  <1>7. CASE /\ pc' = [pc EXCEPT !["main"] = "dedup"]
             /\ pending' = [pending EXCEPT !["main"] = confirmed]
             /\ \E e \in page : IsLast(e, page) /\ cursor' = [cursor EXCEPT !["main"] = ID(e)]
    <2>1. pc'["main"] = "dedup" /\ pending'["main"] = confirmed
      BY <1>7, MainTypes DEF TypeInv, TypeOK
    <2>2. PICK l \in page : IsLast(l, page) /\ cursor'["main"] = ID(l)
      BY <1>7, MainTypes DEF TypeInv, TypeOK
    <2>3. l \in chain /\ l.ledger <= tip
      BY MainTypes, PageInChain
    <2>4. CursorInv'
      BY <1>1, <1>3, <2>2, <2>3 DEF CursorInv
    <2>5. ASSUME NEW e \in chain, Known(e), startLedger["main"] <= e.ledger, e.ledger <= tip - Depth,
                 ~Precedes(ID(l), ID(e))
          PROVE  e \in eventsLog \cup confirmed
      <3>1. CASE Reached(e)
        BY <1>4, <2>5, <3>1
      <3>2. CASE ~Reached(e)
        <4>1. e \in Available("main") /\ ~Deferred(e)
          BY <1>5, <2>5, <3>2
        <4>2. e \in page
          BY <2>5, <4>1, PageIsPrefix
        <4> QED BY <4>1, <4>2 DEF WithinEnd, EndInv
      <3> QED BY <3>1, <3>2
    <2>6. Swept'
      <3> SUFFICES ASSUME NEW e \in chain', Known(e), InPoll(e)', Reached(e)'
                   PROVE  e \in eventsLog \cup confirmed
        BY <1>1, <2>1 DEF Swept, Known
      <3>1. startLedger["main"] <= e.ledger /\ e.ledger <= tip - Depth
        BY <1>1 DEF InPoll
      <3>2. ~Precedes(ID(l), ID(e))
        BY <2>2 DEF Reached
      <3> QED BY <1>1, <2>5, <3>1, <3>2
    <2>7. Held'
      <3> SUFFICES ASSUME NEW e \in confirmed
                   PROVE  e.ledger <= tip - Depth /\ ~Precedes(ID(l), ID(e))
        BY <1>1, <2>1, <2>2 DEF Held, Reached
      <3>1. e \in chain
        BY MainTypes, PageInChain
      <3>2. e = l \/ Precedes(ID(e), ID(l))
        BY <2>2 DEF IsLast
      <3>3. e.ledger <= tip - Depth
        BY <1>3, <3>1, MainTypes DEF Deferred
      <3> QED BY <1>3, <2>3, <3>1, <3>2, <3>3, PrecedesOrder
    <2> QED BY <2>1, <2>4, <2>6, <2>7 DEF PollInv
  <1> QED BY <1>6, <1>7 DEF FetchPage

\* Dedup, NextPage and the handlers: an event leaves the page only when it is
\* indexed, or if no handler knows it.
LEMMA ApplyPollInv ==
    ASSUME TypeInv, FinalInv, ChainInv, EndInv, PollInv,
           \/ Dedup("main") \/ NextPage("main")
           \/ \E e \in pending["main"] : HandleEvent("main", e) \/ HandleWithoutEffect("main", e)
    PROVE  PollInv'
  <1>1. ASSUME pc["main"] \in {"dedup", "apply"}, pc'["main"] \in {"apply", "fetch"},
               UNCHANGED <<tip, chain, startLedger, cursor, latest>>,
               eventsLog \subseteq eventsLog',
               pending'["main"] \subseteq pending["main"],
               pc'["main"] = "fetch" => pending'["main"] = {},
               \A e \in pending["main"] : Known(e) => e \in eventsLog' \cup pending'["main"]
        PROVE  PollInv'
    <2>1. CursorInv /\ Swept /\ Held
      BY <1>1 DEF PollInv, Polling
    <2>2. CursorInv' /\ Held'
      BY <1>1, <2>1 DEF CursorInv, Held, Reached
    <2>3. Swept'
      BY <1>1, <2>1 DEF Swept, InPoll, Reached, Known
    <2> QED BY <1>1, <2>2, <2>3 DEF PollInv
  <1>2. /\ pc \in [Procs -> {"down", "idle", "fetch", "dedup", "apply", "done", "halted"}]
        /\ pending \in [Procs -> SUBSET Event] /\ "main" \in Procs
    BY DEF TypeInv, TypeOK, Procs
  <1>3. \A e \in pending["main"] : Processed(e) <=> e \in eventsLog
    BY <1>2, ProcessedIsIndexed
  <1>4. CASE Dedup("main")
    <2>1. /\ pc["main"] = "dedup" /\ pc'["main"] = "apply"
          /\ UNCHANGED <<tip, chain, startLedger, cursor, latest, eventsLog>>
          /\ pending'["main"] = {e \in pending["main"] : ~Processed(e)}
      BY <1>2, <1>4 DEF Dedup, chainVars, dbVars
    <2> QED BY <1>1, <1>3, <2>1
  <1>5. CASE NextPage("main")
    <2>1. /\ pc["main"] = "apply" /\ pending["main"] = {}
          /\ UNCHANGED <<tip, chain, startLedger, cursor, latest, eventsLog, pending>>
      BY <1>5 DEF NextPage, chainVars, dbVars, pollVars
    <2>2. pc'["main"] = "fetch"
      BY <1>2, <1>5 DEF NextPage, EndInv
    <2> QED BY <1>1, <2>1, <2>2
  <1>6. ASSUME NEW e \in pending["main"], HandleEvent("main", e) \/ HandleWithoutEffect("main", e)
        PROVE  PollInv'
    <2>1. /\ pc["main"] = "apply"
          /\ UNCHANGED <<tip, chain, startLedger, cursor, latest, pc>>
          /\ pending'["main"] = pending["main"] \ {e}
      BY <1>2, <1>6 DEF HandleEvent, HandleWithoutEffect, Applying, chainVars
    <2>2. eventsLog \subseteq eventsLog' /\ (Known(e) => e \in eventsLog')
      BY <1>3, <1>6 DEF HandleEvent, HandleWithoutEffect, LogEvent, Known
    <2> QED BY <1>1, <2>1, <2>2
  <1> QED BY <1>4, <1>5, <1>6

LEMMA NextPollInv ==
    ASSUME StableTip \/ Depth = 0, TypeInv, WindowInv, FinalInv, ChainInv, EndInv, PollInv,
           [Next]_vars
    PROVE  PollInv'
  <1>0. /\ pc \in [Procs -> {"down", "idle", "fetch", "dedup", "apply", "done", "halted"}]
        /\ pending \in [Procs -> SUBSET Event] /\ "main" \in Procs
        /\ latest \in [Procs -> 0..MaxLedger] /\ cursor \in [Procs -> (0..MaxLedger) \X (0..PerLedger)]
    BY DEF TypeInv, TypeOK, Procs
  <1>1. CASE ChainStep
    <2>1. /\ MainSame /\ UNCHANGED eventsLog
          /\ \A e \in chain' : e \in chain \/ e.ledger = tip + 1
          /\ tip' = tip \/ (tip' = tip + 1 /\ (StableTip => ~Polling("main")))
      BY <1>1, ChainSteps DEF dbVars
    <2>2. \A e \in chain' : InPoll(e)' => e \in chain /\ InPoll(e)
      <3>1. \A e \in chain' : InPoll(e)' => InPoll(e)
        BY <2>1 DEF InPoll, MainSame
      <3>2. latest["main"] <= tip
        BY DEF WindowInv
      <3>3. \A e \in chain' : e.ledger = tip + 1 => ~InPoll(e)
        BY <3>2, MainTypes DEF InPoll
      <3> QED BY <2>1, <3>1, <3>3
    <2>3. \A e : Reached(e)' <=> Reached(e)
      BY <2>1 DEF Reached, MainSame
    <2>4. Swept => Swept'
      BY <2>1, <2>2, <2>3 DEF Swept, MainSame, Known
    <2>5. Held => Held'
      BY <2>1, <2>3 DEF Held, MainSame
    <2>6. Polling("main") /\ CursorInv => CursorInv'
      BY <2>1 DEF CursorInv, MainSame
    <2> QED BY <2>1, <2>2, <2>3, <2>4, <2>5, <2>6 DEF PollInv, Polling, MainSame
  <1>2. CASE \/ BackfillStep \/ PollFails("backfill") \/ Crash("backfill")
             \/ \E range \in BackfillRanges : BackfillRange(range)
             \/ PatchStep \/ UNCHANGED vars
    <2>1. MainSame /\ UNCHANGED <<tip, chain>>
      BY <1>2, BackfillApart DEF vars, chainVars, pollVars, MainSame
    <2>2. eventsLog \subseteq eventsLog'
      BY LogGrows
    <2>3. \A e : (Reached(e)' <=> Reached(e)) /\ (InPoll(e)' <=> InPoll(e))
      BY <2>1 DEF Reached, InPoll, MainSame
    <2>4. Swept => Swept'
      BY <2>1, <2>2, <2>3 DEF Swept, MainSame, Known
    <2>5. Held => Held'
      BY <2>1, <2>3 DEF Held, MainSame
    <2>6. CursorInv => CursorInv'
      BY <2>1 DEF CursorInv, MainSame
    <2> QED BY <2>1, <2>3, <2>4, <2>5, <2>6 DEF PollInv, Polling, MainSame
  <1>3. ASSUME pc'["main"] \in {"down", "idle", "halted"}, pending'["main"] = {}
        PROVE  PollInv'
    BY <1>3 DEF PollInv, Polling
  <1>4. CASE \/ \E e \in pending["main"] : RejectEvent("main", e)
             \/ PollFails("main") \/ Crash("main")
    <2>1. pc'["main"] \in {"down", "idle", "halted"} /\ pending'["main"] = {}
      BY <1>0, <1>4 DEF RejectEvent, PollFails, AbortPoll, Crash
    <2> QED BY <1>3, <2>1
  <1>5. CASE Start \/ HaltOnReorg \/ FinishPoll
    <2>1. pc["main"] \in {"down", "idle", "done"} /\ pc'["main"] \in {"idle", "halted"}
      BY <1>0, <1>5 DEF Start, HaltOnReorg, FinishPoll
    <2>2. pending'["main"] = pending["main"]
      BY <1>5 DEF Start, HaltOnReorg, FinishPoll, pollVars
    <2> QED BY <1>3, <2>1, <2>2 DEF PollInv
  <1>6. CASE BeginPoll
    <2>1. /\ pc["main"] = "idle" /\ pc'["main"] = "fetch"
          /\ cursor'["main"] = <<0, 0>> /\ latest'["main"] = 0
          /\ UNCHANGED <<chain, pending>>
      BY <1>0, <1>6 DEF BeginPoll, chainVars
    <2>2. pending'["main"] = {}
      BY <2>1 DEF PollInv
    <2>3. CursorInv' /\ Held'
      BY <2>1, <2>2 DEF CursorInv, Held
    <2>4. Swept'
      <3>1. \A e \in chain' : ~InPoll(e)'
        <4>1. \A e \in chain : e.ledger \in Nat /\ e.ledger >= 1
          BY MainTypes, EventPlace
        <4> QED BY <2>1, <4>1, MainTypes DEF InPoll
      <3> QED BY <3>1 DEF Swept
    <2> QED BY <2>1, <2>2, <2>3, <2>4 DEF PollInv
  <1> QED
    BY <1>1, <1>2, <1>4, <1>5, <1>6, FetchPollInv, ApplyPollInv
       DEF Next, MainStep, PollStep, Procs, ChainStep

LEMMA NextSkipInv ==
    ASSUME InitCheckpoint > 0, TypeInv, WindowInv, ChainInv, ResumeInv, PollInv, SkipInv,
           [Next]_vars
    PROVE  SkipInv'
  <1>0. /\ \A e \in chain : e.ledger \in Nat
        /\ startLedger \in [Procs -> 0..MaxLedger + 1] /\ "main" \in Procs
    BY MainTypes, EventPlace DEF TypeInv, TypeOK
  <1>1. eventsLog \subseteq eventsLog'
    BY LogGrows
  <1>2. CASE Start
    <2>1. PICK l \in 1..MaxLedger + 1 :
             ResumesAt(l) /\ startLedger' = [startLedger EXCEPT !["main"] = l]
      BY <1>2 DEF Start
    <2>2. l = checkpoint
      BY <2>1 DEF ResumesAt, WindowInv
    <2>3. UNCHANGED <<checkpoint, chain, eventsLog>> /\ startLedger'["main"] = checkpoint
      BY <1>0, <1>2, <2>1, <2>2 DEF Start, chainVars, dbVars
    <2> QED BY <2>3 DEF SkipInv, Known
  <1>3. CASE FinishPoll
    <2> DEFINE n == NextLedger("main")
    <2>1. /\ startLedger'["main"] = n
          /\ checkpoint' \in {n, checkpoint}
          /\ pc["main"] = "done"
          /\ UNCHANGED <<chain, eventsLog>>
      BY <1>0, <1>3 DEF FinishPoll, chainVars, dbVars
    <2>2. /\ n \in Nat /\ n >= startLedger["main"]
          /\ n = startLedger["main"] \/ n = latest["main"] - Depth + 1
      BY NextLedgerBounds
    <2> HIDE DEF n
    <2>3. ASSUME NEW e \in chain, Known(e), e.ledger < n
          PROVE  e \in eventsLog
      <3>1. CASE e.ledger < startLedger["main"]
        BY <2>1, <2>3, <3>1 DEF SkipInv
      <3>2. CASE startLedger["main"] <= e.ledger
        <4>1. InPoll(e)
          BY <1>0, <2>2, <2>3, <3>2, MainTypes DEF InPoll
        <4>2. Reached(e) /\ Swept /\ pending["main"] = {}
          BY <2>1, <4>1 DEF PollInv, Polling
        <4> QED BY <2>3, <4>1, <4>2 DEF Swept
      <3> QED BY <1>0, <3>1, <3>2, MainTypes
    <2> QED BY <2>1, <2>3 DEF SkipInv, Known
  <1>4. CASE ~Start /\ ~FinishPoll
    <2>1. /\ UNCHANGED checkpoint
          /\ startLedger'["main"] = startLedger["main"]
          /\ pc["main"] = "down" => pc'["main"] = "down"
      BY <1>4, OnlyLoopMoves
    <2>2. \A e \in chain' : e \in chain \/ e.ledger = tip + 1
      BY ChainSteps, ChainElsewhere
    <2>3. checkpoint <= tip + 1 /\ startLedger["main"] <= tip + 1
      BY MainTypes, ListenerAssumption DEF WindowInv, Bounded, ChainInv
    <2>4. \A e \in chain' : e.ledger < checkpoint \/ e.ledger < startLedger["main"] => e \in chain
      BY <2>2, <2>3, MainTypes
    <2> QED BY <1>1, <2>1, <2>4 DEF SkipInv, Known
  <1> QED BY <1>2, <1>3, <1>4

\* The listener's own invariant.
ListenInv == TypeInv /\ WindowInv /\ ResumeInv /\ FinalInv /\ ChainInv /\ EndInv /\ PollInv /\ SkipInv

LEMMA InitListenInv ==
    ASSUME InitCheckpoint > 0, Init
    PROVE  ListenInv
  <1>1. TypeInv
    BY InitTypeInv
  <1>2. WindowInv /\ ResumeInv
    BY ListenerAssumption DEF Init, WindowInv, ResumeInv, Bounded, Procs
  <1>3. FinalInv /\ ChainInv
    BY ListenerAssumption DEF Init, FinalInv, Confirmed, ChainInv
  <1>4. EndInv
    BY DEF Init, EndInv, Procs
  <1>5. PollInv /\ SkipInv
    BY DEF Init, PollInv, SkipInv, Polling, Procs
  <1> QED BY <1>1, <1>2, <1>3, <1>4, <1>5 DEF ListenInv

LEMMA NextListenInv ==
    ASSUME InitCheckpoint > 0, ReorgDepth <= Depth, StableTip \/ Depth = 0, ListenInv, [Next]_vars
    PROVE  ListenInv'
  BY NextTypeInv, NextWindowInv, NextResumeInv, NextFinalInv, NextChainInv, NextEndInv, NextPollInv,
     NextSkipInv DEF ListenInv

\* Once a checkpoint is in the database, and if the tip is steady during a poll or
\* no confirmation buffer is configured, the listener never moves past a known
\* event it has not indexed: not its checkpoint, not its next poll, whatever page
\* boundaries, crashes, failed statements, backfills and reorganisations inside
\* the window come in between (pollEventsRange and Start, listener.go).
THEOREM NothingIsSkipped ==
    ASSUME InitCheckpoint > 0, ReorgDepth <= Depth, StableTip \/ Depth = 0
    PROVE  Spec => []NothingSkipped
  <1>1. Init => ListenInv
    BY InitListenInv
  <1>2. ListenInv /\ [Next]_vars => ListenInv'
    BY NextListenInv
  <1>3. ListenInv => NothingSkipped
    BY DEF ListenInv, SkipInv, NothingSkipped
  <1> QED BY <1>1, <1>2, <1>3, PTL DEF Spec

-----------------------------------------------------------------------------
(***************************************************************************)
(* Order.  The listener applies a page in the order of the chain, and by   *)
(* the invariant of the poll nothing before the page is missing.  This     *)
(* needs the listener to be alone: a backfill indexes later ledgers first. *)
(***************************************************************************)

\* The log is an initial part of the chain's known events, the page being
\* applied has nothing of it, and no second process writes it.
OrderInv ==
    /\ pc["backfill"] = "down"
    /\ pc["main"] = "apply" => pending["main"] \cap eventsLog = {}
    /\ \A e \in eventsLog, f \in chain : Known(f) /\ Precedes(ID(f), ID(e)) => f \in eventsLog

\* Without an operator there is no second process.
LEMMA NoBackfillSteps ==
    ASSUME BackfillRanges = {}, pc["backfill"] = "down"
    PROVE  /\ ~BackfillStep /\ ~PollFails("backfill") /\ ~Crash("backfill")
           /\ ~\E range \in BackfillRanges : BackfillRange(range)
  BY DEF BackfillStep, PollStep, FetchPage, Dedup, NextPage, HandleEvent, HandleWithoutEffect,
         RejectEvent, FinishBackfill, PollFails, Crash, Applying

\* When the listener comes to an event, exactly the events before it are indexed.
LEMMA AppliedInOrder ==
    ASSUME ListenInv, OrderInv, NEW e \in pending["main"], Applying("main", e)
    PROVE  /\ e \in chain /\ e \notin eventsLog /\ ~Processed(e)
           /\ \A f \in chain : Known(f) /\ Precedes(ID(f), ID(e)) => f \in eventsLog
           /\ Known(e) => \A g \in eventsLog : Precedes(ID(g), ID(e))
  <1> USE DEF ListenInv
  <1>1. pc["main"] = "apply" /\ \A f \in pending["main"] \ {e} : Precedes(ID(e), ID(f))
    BY DEF Applying, IsFirst
  <1>2. e \in chain /\ e \notin eventsLog /\ eventsLog \subseteq chain
    BY <1>1, MainTypes DEF FinalInv, Confirmed, OrderInv
  <1>3. ~Processed(e)
    BY <1>2, MainTypes, ProcessedIsIndexed
  <1>4. CursorInv /\ Swept /\ Held
    BY <1>1 DEF PollInv, Polling
  <1>5. \A f \in chain : ID(f) \in Places /\ ID(f)[1] = f.ledger /\ f.ledger \in Nat
    BY MainTypes, EventPlace
  <1>6. ASSUME Known(e)
        PROVE  \A g \in eventsLog : Precedes(ID(g), ID(e))
    <2> SUFFICES ASSUME NEW g \in eventsLog
                 PROVE  Precedes(ID(g), ID(e))
      OBVIOUS
    <2>1. ID(g) # ID(e)
      BY <1>2 DEF ChainInv
    <2>2. ~Precedes(ID(e), ID(g))
      BY <1>2, <1>6 DEF OrderInv
    <2> QED BY <1>2, <1>5, <2>1, <2>2, PrecedesOrder
  <1>7. ASSUME NEW f \in chain, Known(f), Precedes(ID(f), ID(e))
        PROVE  f \in eventsLog
    <2>1. f.ledger <= e.ledger
      BY <1>2, <1>5, <1>7, PrecedesOrder
    <2>2. CASE f.ledger < startLedger["main"]
      BY <1>1, <1>7, <2>2 DEF SkipInv
    <2>3. CASE startLedger["main"] <= f.ledger
      <3>1. e.ledger <= latest["main"] - Depth /\ Reached(e)
        BY <1>4 DEF Held
      <3>2. InPoll(f)
        BY <1>2, <1>5, <2>1, <2>3, <3>1, MainTypes DEF InPoll
      <3>3. Reached(f)
        BY <1>2, <1>5, <1>7, <3>1, MainTypes, PrecedesOrder DEF Reached
      <3>4. f \in eventsLog \cup pending["main"]
        BY <1>4, <1>7, <3>2, <3>3 DEF Swept
      <3>5. f \notin pending["main"]
        BY <1>1, <1>2, <1>5, <1>7, PrecedesOrder
      <3> QED BY <3>4, <3>5
    <2> QED BY <1>5, <2>2, <2>3, MainTypes
  <1> QED BY <1>2, <1>3, <1>6, <1>7

\* A handler: its event is indexed, or is one no handler knows.
LEMMA HandledEffect ==
    ASSUME ListenInv, OrderInv, NEW e \in pending["main"],
           HandleEvent("main", e) \/ HandleWithoutEffect("main", e)
    PROVE  /\ UNCHANGED <<tip, chain, pc>>
           /\ pending'["main"] = pending["main"] \ {e}
           /\ (Known(e) /\ eventsLog' = eventsLog \cup {e}) \/ (~Known(e) /\ eventsLog' = eventsLog)
  <1>1. Applying("main", e) /\ UNCHANGED <<tip, chain, pc>> /\ pending' = [pending EXCEPT !["main"] = @ \ {e}]
    BY DEF HandleEvent, HandleWithoutEffect, chainVars
  <1>2. ~Processed(e)
    BY <1>1, AppliedInOrder
  <1>3. pending'["main"] = pending["main"] \ {e}
    BY <1>1 DEF ListenInv, TypeInv, TypeOK, Procs
  <1>4. (Known(e) /\ eventsLog' = eventsLog \cup {e}) \/ (~Known(e) /\ eventsLog' = eventsLog)
    <2>1. CASE HandleEvent("main", e)
      BY <1>2, <2>1 DEF HandleEvent, LogEvent, Known
    <2>2. CASE HandleWithoutEffect("main", e)
      <3>1. CASE e.kind = "Unknown" /\ UNCHANGED eventsLog
        BY <3>1 DEF Known
      <3>2. CASE e.kind = "Register" /\ LogEvent(e)
        BY <1>2, <3>2 DEF LogEvent, Known
      <3>3. CASE HandlerResult(e) = ErrInvalidInvoiceTransition /\ LogEvent(e)
        <4>1. e.kind # "Unknown"
          <5>1. status[e.inv] \in Statuses
            <6>1. e.inv \in Invoices
              BY MainTypes, EventFields DEF ListenInv
            <6> QED BY <6>1 DEF ListenInv, TypeInv, TypeOK
          <5>2. ErrInvalidInvoiceTransition \notin Statuses
            BY DEF ErrInvalidInvoiceTransition, Statuses
          <5>3. e.kind = "Unknown" => HandlerResult(e) = status[e.inv]
            BY Zenon DEF HandlerResult
          <5> QED BY <3>3, <5>1, <5>2, <5>3
        <4> QED BY <1>2, <3>3, <4>1 DEF LogEvent, Known
      <3> QED BY <2>2, <3>1, <3>2, <3>3 DEF HandleWithoutEffect
    <2> QED BY <2>1, <2>2
  <1> QED BY <1>1, <1>3, <1>4

\* Steps of the listener and the chain that index nothing.
LEMMA OnlyHandlersIndex ==
    ASSUME BackfillRanges = {}, TypeInv, pc["backfill"] = "down", [Next]_vars,
           ~\E e \in pending["main"] : HandleEvent("main", e) \/ HandleWithoutEffect("main", e)
    PROVE  /\ UNCHANGED <<eventsLog, deliveries>>
           /\ PatchStep \/ UNCHANGED <<status, patched>>
           /\ pc'["backfill"] = "down"
           /\ \/ Dedup("main")
              \/ pc'["main"] # "apply"
              \/ pc'["main"] = pc["main"] /\ pending'["main"] = pending["main"]
  <1> USE DEF dbVars, pollVars
  <1>0. /\ pc \in [Procs -> {"down", "idle", "fetch", "dedup", "apply", "done", "halted"}]
        /\ "main" \in Procs /\ "backfill" \in Procs
    BY DEF TypeInv, TypeOK, Procs
  <1>1. CASE FetchPage("main") \/ NextPage("main") \/ BeginPoll \/ HaltOnReorg \/ FinishPoll \/ Start
    BY <1>0, <1>1 DEF FetchPage, NextPage, BeginPoll, HaltOnReorg, FinishPoll, Start
  <1>2. CASE Dedup("main")
    BY <1>0, <1>2 DEF Dedup
  <1>3. CASE \/ \E e \in pending["main"] : RejectEvent("main", e)
             \/ PollFails("main") \/ Crash("main")
    BY <1>0, <1>3 DEF RejectEvent, PollFails, AbortPoll, Crash
  <1>4. CASE ChainStep
    BY <1>4, ChainSteps DEF MainSame
  <1>5. CASE UNCHANGED vars
    BY <1>5 DEF vars
  <1>6. CASE PatchStep
    BY <1>6 DEF PatchStep, PatchInvoiceStatus
  <1> QED
    BY <1>1, <1>2, <1>3, <1>4, <1>5, <1>6, NoBackfillSteps DEF Next, MainStep, PollStep, Procs, ChainStep

LEMMA NextOrderInv ==
    ASSUME BackfillRanges = {}, ListenInv, OrderInv, [Next]_vars
    PROVE  OrderInv'
  <1> USE DEF ListenInv
  <1>0. \A f \in chain : ID(f) \in Places /\ ID(f)[1] = f.ledger /\ f.ledger \in Nat
    BY MainTypes, EventPlace
  <1>1. ASSUME NEW e \in pending["main"], HandleEvent("main", e) \/ HandleWithoutEffect("main", e)
        PROVE  OrderInv'
    <2>1. /\ UNCHANGED <<tip, chain, pc>>
          /\ pending'["main"] = pending["main"] \ {e}
          /\ eventsLog' \in {eventsLog, eventsLog \cup {e}}
      BY <1>1, HandledEffect
    <2>2. Applying("main", e) /\ pc["main"] = "apply"
      BY <1>1 DEF HandleEvent, HandleWithoutEffect, Applying
    <2>3. \A f \in chain : Known(f) /\ Precedes(ID(f), ID(e)) => f \in eventsLog
      BY <2>2, AppliedInOrder
    <2>4. pending'["main"] \cap eventsLog' = {}
      BY <2>1, <2>2 DEF OrderInv
    <2>5. \A g \in eventsLog', f \in chain' : Known(f) /\ Precedes(ID(f), ID(g)) => f \in eventsLog'
      BY <2>1, <2>3 DEF OrderInv
    <2> QED BY <2>1, <2>4, <2>5 DEF OrderInv, Known
  <1>2. CASE ~\E e \in pending["main"] : HandleEvent("main", e) \/ HandleWithoutEffect("main", e)
    <2>1. /\ UNCHANGED eventsLog
          /\ pc'["backfill"] = "down"
          /\ \/ Dedup("main")
             \/ pc'["main"] # "apply"
             \/ pc'["main"] = pc["main"] /\ pending'["main"] = pending["main"]
      BY <1>2, OnlyHandlersIndex DEF OrderInv
    <2>2. pc'["main"] = "apply" => pending'["main"] \cap eventsLog' = {}
      <3>1. CASE Dedup("main")
        <4>1. pending'["main"] = {e \in pending["main"] : ~Processed(e)}
          BY <3>1 DEF Dedup, TypeInv, TypeOK, Procs
        <4>2. \A e \in pending["main"] : Processed(e) <=> e \in eventsLog
          BY MainTypes, ProcessedIsIndexed
        <4> QED BY <2>1, <4>1, <4>2
      <3>2. CASE ~Dedup("main")
        BY <2>1, <3>2 DEF OrderInv
      <3> QED BY <3>1, <3>2
    <2>3. ASSUME NEW e \in eventsLog, NEW f \in chain', Known(f), Precedes(ID(f), ID(e))
          PROVE  f \in eventsLog
      <3>1. e \in chain /\ e.ledger <= tip - Depth
        BY DEF FinalInv, Confirmed
      <3>2. f \in chain \/ f.ledger = tip + 1
        BY ChainSteps, ChainElsewhere
      <3>3. f.ledger # tip + 1
        <4>1. f \in Event
          <5>1. TypeInv'
            BY NextTypeInv
          <5> QED BY <5>1 DEF TypeInv, TypeOK
        <4>2. f.ledger <= e.ledger
          BY <1>0, <2>3, <3>1, <4>1, EventPlace, PrecedesOrder
        <4> QED BY <1>0, <3>1, <4>2, MainTypes
      <3> QED BY <2>3, <3>2, <3>3 DEF OrderInv
    <2> QED BY <2>1, <2>2, <2>3 DEF OrderInv, Known
  <1> QED BY <1>1, <1>2

\* Under the same conditions and without a backfill, an event is indexed only after
\* every earlier one of its invoice (pollEventsRange, listener.go).
THEOREM IndexedInOrder ==
    ASSUME InitCheckpoint > 0, ReorgDepth <= Depth, StableTip \/ Depth = 0, BackfillRanges = {}
    PROVE  Spec => []InOrder
  <1>1. Init => ListenInv /\ OrderInv
    <2>1. Init => OrderInv
      BY DEF Init, OrderInv, Procs
    <2> QED BY <2>1, InitListenInv
  <1>2. ListenInv /\ OrderInv /\ [Next]_vars => (ListenInv /\ OrderInv)'
    BY NextListenInv, NextOrderInv
  <1>3. OrderInv => InOrder
    BY DEF OrderInv, InOrder
  <1> QED BY <1>1, <1>2, <1>3, PTL DEF Spec

-----------------------------------------------------------------------------
(***************************************************************************)
(* The mirror.  The log being an initial part of the chain, a row is in    *)
(* the status its next event was emitted in, so the guard of the query     *)
(* never refuses it: no event of the lifecycle is ever ignored as stale,   *)
(* and each one logged is dispatched, unless the API has patched the row.  *)
(***************************************************************************)

\* The lifecycle events of invoice i in S, and those before e on the chain.
History(S, i) == {e \in S : e.inv = i /\ e.kind \in LifecycleKinds}
Before(e) == {f \in chain : /\ f.inv = e.inv /\ f.kind \in LifecycleKinds
                            /\ Precedes(ID(f), ID(e))}

\* The statuses an event may find, and the one it leads to.
From(k) == IF k = "Create" THEN {"Absent"} ELSE
           IF k = "List" THEN {"Created"} ELSE
           IF k = "Fund" THEN {"Listed"} ELSE
           IF k = "Ship" THEN {"Funded"} ELSE
           IF k = "Confirm" THEN {"Active"} ELSE
           IF k = "Repay" THEN {"Confirmed"} ELSE {"Funded", "Active", "Confirmed"}

\* The contract emits an event only in a status it may find.
LifecycleInv ==
    \A e \in chain : e.kind \in LifecycleKinds => StatusAfter(Before(e)) \in From(e.kind)

\* Rows and deliveries are what the log says.
MirrorInv ==
    /\ \A i \in Invoices \ patched : status[i] = StatusAfter(History(eventsLog, i))
    /\ LoggedWithDeliveries

Leads(k) == IF k = "Create" THEN "Created" ELSE
            IF k = "List" THEN "Listed" ELSE
            IF k = "Fund" THEN "Funded" ELSE
            IF k = "Ship" THEN "Active" ELSE
            IF k = "Confirm" THEN "Confirmed" ELSE
            IF k = "Repay" THEN "Repaid" ELSE "Defaulted"

\* The last event of a history decides the status.
LEMMA LastDecides ==
    ASSUME NEW h \in SUBSET Event, NEW e \in h, IsLast(e, h), e.kind \in LifecycleKinds
    PROVE  StatusAfter(h) = Leads(e.kind)
  <1> DEFINE x == CHOOSE y \in h : IsLast(y, h)
  <1>1. x \in h /\ IsLast(x, h)
    OBVIOUS
  <1>2. x = e
    <2>1. ID(x) \in Places /\ ID(e) \in Places
      BY <1>1, EventPlace
    <2>2. x # e => Precedes(ID(x), ID(e)) /\ Precedes(ID(e), ID(x))
      BY <1>1 DEF IsLast
    <2> QED BY <2>1, <2>2, PrecedesOrder
  <1>3. h # {}
    OBVIOUS
  <1>4. CASE e.kind = "Create"
    BY <1>2, <1>3, <1>4, Zenon DEF StatusAfter, Leads
  <1>5. CASE e.kind = "List"
    BY <1>2, <1>3, <1>5, Zenon DEF StatusAfter, Leads
  <1>6. CASE e.kind = "Fund"
    BY <1>2, <1>3, <1>6, Zenon DEF StatusAfter, Leads
  <1>7. CASE e.kind = "Ship"
    BY <1>2, <1>3, <1>7, Zenon DEF StatusAfter, Leads
  <1>8. CASE e.kind = "Confirm"
    BY <1>2, <1>3, <1>8, Zenon DEF StatusAfter, Leads
  <1>9. CASE e.kind = "Repay"
    BY <1>2, <1>3, <1>9, Zenon DEF StatusAfter, Leads
  <1>10. CASE e.kind = "Default"
    BY <1>2, <1>3, <1>10, Zenon DEF StatusAfter, Leads
  <1> QED BY <1>4, <1>5, <1>6, <1>7, <1>8, <1>9, <1>10 DEF LifecycleKinds

\* A query that finds the status its event expects writes the one it leads to;
\* one for an event outside the lifecycle never reports a stale transition.
LEMMA HandlerOnTime ==
    ASSUME NEW e \in Event, status[e.inv] \in Statuses
    PROVE  /\ e.kind \in LifecycleKinds /\ status[e.inv] \in From(e.kind)
                 => HandlerResult(e) = Leads(e.kind)
           /\ e.kind \in {"Attest", "Pool", "Register", "Unknown"}
                 => HandlerResult(e) \in {status[e.inv], ErrInvoiceNotFound}
  <1> DEFINE st == status[e.inv]
  <1> USE DEF HandlerResult, updateInvoice, From, Leads
  <1>1. CASE e.kind = "Create"
    BY <1>1 DEF InsertInvoice
  <1>2. CASE e.kind = "List"
    BY <1>2 DEF UpdateInvoiceListed
  <1>3. CASE e.kind = "Fund"
    BY <1>3 DEF UpdateInvoiceFunded
  <1>4. CASE e.kind = "Ship"
    BY <1>4 DEF UpdateInvoiceShipped
  <1>5. CASE e.kind = "Confirm"
    BY <1>5 DEF UpdateInvoiceDeliveryConfirmed
  <1>6. CASE e.kind = "Repay"
    BY <1>6 DEF UpdateInvoiceRepaid
  <1>7. CASE e.kind = "Default"
    BY <1>7 DEF UpdateInvoiceStatus
  <1>8. CASE e.kind \in {"Attest", "Pool", "Register", "Unknown"}
    BY <1>8 DEF UpdateInvoiceAttestation, LifecycleKinds
  <1>9. e.kind \in LifecycleKinds \cup {"Attest", "Pool", "Register", "Unknown"}
    BY EventFields, ListenerAssumption DEF AllKinds
  <1> QED
    BY <1>1, <1>2, <1>3, <1>4, <1>5, <1>6, <1>7, <1>8, <1>9 DEF LifecycleKinds

\* The contract emits an event of the lifecycle only in a status it expects.
LEMMA NextLifecycleInv ==
    ASSUME TypeInv, ChainInv, LifecycleInv, [Next]_vars
    PROVE  LifecycleInv'
  <1>0. /\ \A f \in chain : /\ ID(f) \in Places /\ ID(f)[1] = f.ledger /\ ID(f)[2] = f.pos
                             /\ f.ledger \in Nat /\ f.pos \in Nat
        /\ tip \in Nat
    BY MainTypes, EventPlace
  <1>1. ASSUME NEW k \in Kinds, NEW i \in Invoices, Emit(k, i)
        PROVE  LifecycleInv'
    <2> DEFINE open == {e \in chain : e.ledger = tip + 1}
    <2>1. Cardinality(open) \in Nat
      BY FS_Subset, FS_CardinalityType DEF TypeInv
    <2>2. PICK new :
             /\ new = [ledger |-> tip + 1, pos |-> Cardinality(open) + 1, kind |-> k, inv |-> i]
             /\ chain' = chain \cup {new}
             /\ ContractEmits(k, i)
      BY <1>1 DEF Emit
    <2>3. /\ new.kind = k /\ new.inv = i
          /\ ID(new) = <<tip + 1, Cardinality(open) + 1>>
      BY <2>2 DEF ID
    <2>4. ID(new) \in Places
      BY <1>0, <2>1, <2>3 DEF Places
    <2>5. \A f \in chain : Precedes(ID(f), ID(new))
      <3> SUFFICES ASSUME NEW f \in chain
                   PROVE  Precedes(ID(f), ID(new))
        OBVIOUS
      <3>1. f.ledger <= tip + 1 /\ (f.ledger = tip + 1 => f.pos <= Cardinality(open))
        BY DEF ChainInv
      <3>2. f.ledger < tip + 1 \/ (f.ledger = tip + 1 /\ f.pos < Cardinality(open) + 1)
        BY <1>0, <2>1, <3>1
      <3> QED BY <1>0, <2>3, <3>2 DEF Precedes
    <2>6. \A e \in chain : Before(e)' = Before(e)
      <3>1. \A e \in chain : ~Precedes(ID(new), ID(e))
        BY <1>0, <2>4, <2>5, PrecedesOrder
      <3> QED BY <2>2, <3>1 DEF Before
    <2>7. k \in LifecycleKinds => StatusAfter(Before(new)') \in From(k)
      <3>1. ~Precedes(ID(new), ID(new))
        BY <2>4, PrecedesOrder
      <3>2. Before(new)' = {e \in chain : e.inv = i /\ e.kind \in LifecycleKinds}
        BY <2>2, <2>3, <2>5, <3>1 DEF Before
      <3>3. StatusAfter(Before(new)') = ContractStatus(i)
        BY <3>2 DEF ContractStatus
      <3>4. k \in LifecycleKinds => ContractStatus(i) \in From(k)
        BY <2>2 DEF ContractEmits, From, LifecycleKinds
      <3> QED BY <3>3, <3>4
    <2>8. ASSUME NEW e \in chain', e.kind \in LifecycleKinds
          PROVE  StatusAfter(Before(e)') \in From(e.kind)
      <3>1. CASE e \in chain
        BY <2>6, <2>8, <3>1 DEF LifecycleInv
      <3>2. CASE e = new
        BY <2>3, <2>7, <2>8, <3>2
      <3> QED BY <2>2, <3>1, <3>2
    <2> QED BY <2>8 DEF LifecycleInv
  <1>2. ASSUME chain' \subseteq chain,
               \A e \in chain', f \in chain : Precedes(ID(f), ID(e)) => f \in chain'
        PROVE  LifecycleInv'
    <2>1. \A e \in chain' : Before(e)' = Before(e)
      BY <1>2 DEF Before
    <2>2. \A e \in chain' : e.kind \in LifecycleKinds => StatusAfter(Before(e)') \in From(e.kind)
      BY <1>2, <2>1 DEF LifecycleInv
    <2> QED BY <2>2 DEF LifecycleInv
  <1>3. ASSUME NEW l \in Ledgers, Reorg(l)
        PROVE  LifecycleInv'
    <2>1. chain' = {e \in chain : e.ledger < l} /\ l \in Nat
      BY <1>3 DEF Reorg, Ledgers
    <2>2. \A e \in chain', f \in chain : Precedes(ID(f), ID(e)) => f \in chain'
      <3> SUFFICES ASSUME NEW e \in chain', NEW f \in chain, Precedes(ID(f), ID(e))
                   PROVE  f.ledger < l
        BY <2>1
      <3>1. f.ledger <= e.ledger
        BY <1>0, <2>1, PrecedesOrder
      <3> QED BY <1>0, <2>1, <3>1
    <2> QED BY <1>2, <2>1, <2>2
  <1>4. CASE CloseLedger \/ ~ChainStep
    <2>1. UNCHANGED chain
      BY <1>4, ChainElsewhere DEF CloseLedger
    <2> QED BY <1>2, <2>1
  <1> QED BY <1>1, <1>3, <1>4 DEF ChainStep

\* When the listener comes to an event of the lifecycle, the row is in the status
\* the event expects.
LEMMA AppliedOnTime ==
    ASSUME ListenInv, OrderInv, LifecycleInv, MirrorInv, NEW e \in pending["main"],
           Applying("main", e), e.kind \in LifecycleKinds, e.inv \notin patched
    PROVE  /\ HandlerResult(e) = Leads(e.kind)
           /\ StatusAfter(History(eventsLog \cup {e}, e.inv)) = Leads(e.kind)
  <1>1. e \in Event /\ e.inv \in Invoices /\ eventsLog \subseteq Event /\ Known(e)
    BY MainTypes, EventFields DEF ListenInv, LifecycleKinds, Known
  <1>2. /\ e \in chain /\ eventsLog \subseteq chain
        /\ \A f \in chain : Known(f) /\ Precedes(ID(f), ID(e)) => f \in eventsLog
        /\ \A g \in eventsLog : Precedes(ID(g), ID(e))
    BY <1>1, AppliedInOrder DEF ListenInv, FinalInv, Confirmed
  <1>3. History(eventsLog, e.inv) = Before(e)
    <2>1. \A f \in Before(e) : Known(f)
      BY DEF Before, Known, LifecycleKinds
    <2> QED BY <1>2, <2>1 DEF History, Before
  <1>4. status[e.inv] \in From(e.kind)
    BY <1>1, <1>2, <1>3 DEF MirrorInv, LifecycleInv
  <1>5. HandlerResult(e) = Leads(e.kind)
    <2>1. status[e.inv] \in Statuses
      BY <1>1 DEF ListenInv, TypeInv, TypeOK
    <2> QED BY <1>1, <1>4, <2>1, HandlerOnTime
  <1>6. StatusAfter(History(eventsLog \cup {e}, e.inv)) = Leads(e.kind)
    <2> DEFINE h == History(eventsLog \cup {e}, e.inv)
    <2>1. h \in SUBSET Event /\ e \in h
      BY <1>1 DEF History
    <2>2. IsLast(e, h)
      BY <1>2, <2>1 DEF IsLast, History
    <2> HIDE DEF h
    <2>3. StatusAfter(h) = Leads(e.kind)
      BY <2>1, <2>2, LastDecides
    <2> QED BY <2>3 DEF h
  <1> QED BY <1>5, <1>6

\* So no event of the lifecycle of an unpatched invoice is ever ignored.
LEMMA NoneIgnored ==
    ASSUME ListenInv, OrderInv, LifecycleInv, MirrorInv, NEW e \in pending["main"],
           HandleWithoutEffect("main", e), e.inv \notin patched
    PROVE  e.kind \in {"Register", "Unknown"}
  <1>1. e \in Event /\ e.inv \in Invoices /\ Applying("main", e) /\ status[e.inv] \in Statuses
    BY MainTypes, EventFields DEF ListenInv, TypeInv, TypeOK, HandleWithoutEffect
  <1>2. e.kind \in LifecycleKinds \cup {"Attest", "Pool", "Register", "Unknown"}
    BY <1>1, EventFields, ListenerAssumption DEF AllKinds
  <1>3. ASSUME e.kind \in LifecycleKinds
        PROVE  FALSE
    <2>1. HandlerResult(e) = Leads(e.kind)
      BY <1>1, <1>3, AppliedOnTime
    <2>2. HandlerResult(e) # ErrInvalidInvoiceTransition
      BY <2>1 DEF Leads, ErrInvalidInvoiceTransition
    <2> QED BY <1>3, <2>2 DEF HandleWithoutEffect, LifecycleKinds
  <1>4. ASSUME e.kind \in {"Attest", "Pool"}
        PROVE  FALSE
    <2>1. HandlerResult(e) \in {status[e.inv], ErrInvoiceNotFound}
      BY <1>1, <1>4, HandlerOnTime
    <2>2. HandlerResult(e) # ErrInvalidInvoiceTransition
      BY <1>1, <2>1 DEF ErrInvalidInvoiceTransition, ErrInvoiceNotFound, Statuses
    <2> QED BY <1>4, <2>2 DEF HandleWithoutEffect
  <1> QED BY <1>2, <1>3, <1>4

LEMMA NextMirrorInv ==
    ASSUME BackfillRanges = {}, ListenInv, OrderInv, LifecycleInv, MirrorInv, [Next]_vars
    PROVE  MirrorInv'
  <1>0. status \in [Invoices -> Statuses]
    BY DEF ListenInv, TypeInv, TypeOK
  <1>1. ASSUME NEW e \in pending["main"], HandleEvent("main", e)
        PROVE  MirrorInv'
    <2>1. /\ Applying("main", e) /\ e.kind \notin {"Register", "Unknown"} /\ e.kind # "Attest"
          /\ HandlerResult(e) \in Statuses
          /\ status' = [status EXCEPT ![e.inv] = HandlerResult(e)]
          /\ deliveries' = deliveries \cup {e} /\ UNCHANGED patched
      BY <1>1 DEF HandleEvent, HasDispatcher, Dispatchable
    <2>2. eventsLog' = eventsLog \cup {e}
      BY <1>1, <2>1, HandledEffect DEF Known
    <2>3. e \in Event /\ e.inv \in Invoices
      BY MainTypes, EventFields DEF ListenInv
    <2>4. LoggedWithDeliveries'
      BY <2>1, <2>2 DEF MirrorInv, LoggedWithDeliveries
    <2>5. ASSUME NEW i \in Invoices \ patched
          PROVE  status'[i] = StatusAfter(History(eventsLog', i))
      <3>1. CASE i # e.inv
        <4>1. History(eventsLog', i) = History(eventsLog, i)
          BY <2>2, <3>1 DEF History
        <4>2. status'[i] = status[i]
          BY <1>0, <2>1, <3>1
        <4> QED BY <4>1, <4>2 DEF MirrorInv
      <3>2. CASE i = e.inv /\ e.kind \in LifecycleKinds
        <4>1. StatusAfter(History(eventsLog \cup {e}, e.inv)) = HandlerResult(e)
          BY <2>1, <3>2, AppliedOnTime
        <4>2. status'[i] = HandlerResult(e)
          BY <1>0, <2>1, <2>3, <3>2
        <4> QED BY <2>2, <3>2, <4>1, <4>2
      <3>3. CASE i = e.inv /\ e.kind \notin LifecycleKinds
        <4>1. History(eventsLog', i) = History(eventsLog, i)
          BY <2>2, <3>3 DEF History
        <4>2. e.kind = "Pool"
          BY <2>1, <2>3, <3>3, EventFields, ListenerAssumption DEF AllKinds
        <4>3. HandlerResult(e) \in {status[e.inv], ErrInvoiceNotFound}
          BY <1>0, <2>3, <4>2, HandlerOnTime
        <4>4. HandlerResult(e) = status[e.inv]
          BY <2>1, <4>3 DEF ErrInvoiceNotFound, Statuses
        <4>5. status'[i] = status[i]
          BY <1>0, <2>1, <2>3, <3>3, <4>4
        <4> QED BY <4>1, <4>5 DEF MirrorInv
      <3> QED BY <3>1, <3>2, <3>3
    <2> QED BY <2>1, <2>4, <2>5 DEF MirrorInv
  <1>2. ASSUME NEW e \in pending["main"], HandleWithoutEffect("main", e)
        PROVE  MirrorInv'
    <2>1. UNCHANGED <<status, deliveries, patched>> /\ eventsLog' \in {eventsLog, eventsLog \cup {e}}
      BY <1>2, HandledEffect DEF HandleWithoutEffect
    <2>2. CASE e.inv \in patched
      <3>1. \A i \in Invoices \ patched : History(eventsLog', i) = History(eventsLog, i)
        BY <2>1, <2>2 DEF History
      <3> QED BY <2>1, <2>2, <3>1 DEF MirrorInv, LoggedWithDeliveries
    <2>3. CASE e.inv \notin patched
      <3>1. e.kind \in {"Register", "Unknown"}
        BY <1>2, <2>3, NoneIgnored
      <3>2. eventsLog' = eventsLog \/ (eventsLog' = eventsLog \cup {e} /\ e.kind = "Register")
        BY <1>2, <3>1, HandledEffect DEF Known
      <3>3. \A i : History(eventsLog', i) = History(eventsLog, i)
        BY <3>2 DEF History, LifecycleKinds
      <3> QED BY <2>1, <3>2, <3>3 DEF MirrorInv, LoggedWithDeliveries
    <2> QED BY <2>2, <2>3
  <1>3. CASE /\ ~\E e \in pending["main"] : HandleEvent("main", e) \/ HandleWithoutEffect("main", e)
             /\ ~PatchStep
    <2>1. UNCHANGED <<eventsLog, deliveries, status, patched>>
      BY <1>3, OnlyHandlersIndex DEF ListenInv, OrderInv
    <2> QED BY <2>1 DEF MirrorInv, History, LoggedWithDeliveries
  <1>4. CASE PatchStep
    <2>1. PICK i \in Invoices, s \in PatchStatuses : PatchInvoiceStatus(i, s)
      BY <1>4 DEF PatchStep
    <2>2. /\ UNCHANGED <<eventsLog, deliveries>> /\ patched' = patched \cup {i}
          /\ \A j \in Invoices \ {i} : status'[j] = status[j]
      BY <1>0, <2>1 DEF PatchInvoiceStatus
    <2> QED BY <2>2 DEF MirrorInv, History, LoggedWithDeliveries
  <1> QED BY <1>1, <1>2, <1>3, <1>4

IndexInv == ListenInv /\ OrderInv /\ LifecycleInv /\ MirrorInv

LEMMA InitIndexInv ==
    ASSUME InitCheckpoint > 0, Init
    PROVE  IndexInv
  <1>1. ListenInv
    BY InitListenInv
  <1>2. OrderInv /\ LifecycleInv
    BY DEF Init, OrderInv, LifecycleInv, Procs
  <1>3. MirrorInv
    <2>1. \A i \in Invoices : History(eventsLog, i) = {} /\ status[i] = "Absent"
      BY DEF Init, History
    <2>2. StatusAfter({}) = "Absent"
      BY Zenon DEF StatusAfter
    <2>3. LoggedWithDeliveries
      BY DEF Init, LoggedWithDeliveries
    <2> QED BY <2>1, <2>2, <2>3 DEF MirrorInv
  <1> QED BY <1>1, <1>2, <1>3 DEF IndexInv

LEMMA NextIndexInv ==
    ASSUME InitCheckpoint > 0, ReorgDepth <= Depth, StableTip \/ Depth = 0, BackfillRanges = {},
           IndexInv, [Next]_vars
    PROVE  IndexInv'
  BY NextListenInv, NextOrderInv, NextLifecycleInv, NextMirrorInv DEF IndexInv, ListenInv

\* Under the same conditions the status of every row that the API has not patched
\* (handlers_invoices.go) is where its indexed events lead: the status guards of the
\* update queries (queries.go), which drop an event they take for stale, never drop
\* one that is not.
THEOREM MirrorIsExact ==
    ASSUME InitCheckpoint > 0, ReorgDepth <= Depth, StableTip \/ Depth = 0, BackfillRanges = {}
    PROVE  Spec => []OnlyReplaysIgnored
  <1>1. Init => IndexInv
    BY InitIndexInv
  <1>2. IndexInv /\ [Next]_vars => IndexInv'
    BY NextIndexInv
  <1>3. IndexInv => OnlyReplaysIgnored
    BY DEF IndexInv, MirrorInv, OnlyReplaysIgnored, History
  <1> QED BY <1>1, <1>2, <1>3, PTL DEF Spec

\* Under the same conditions an event of an unpatched invoice is logged with its
\* webhook rows (handleEvent logs and dispatches in one transaction, listener.go).
THEOREM LoggedIsDelivered ==
    ASSUME InitCheckpoint > 0, ReorgDepth <= Depth, StableTip \/ Depth = 0, BackfillRanges = {}
    PROVE  Spec => []LoggedWithDeliveries
  <1>1. Init => IndexInv
    BY InitIndexInv
  <1>2. IndexInv /\ [Next]_vars => IndexInv'
    BY NextIndexInv
  <1>3. IndexInv => LoggedWithDeliveries
    BY DEF IndexInv, MirrorInv, LoggedWithDeliveries
  <1> QED BY <1>1, <1>2, <1>3, PTL DEF Spec

-----------------------------------------------------------------------------
(***************************************************************************)
(* The halt.  The recorded hash is that of a ledger the window has passed, *)
(* because the ledger before a poll's first one has.                       *)
(***************************************************************************)

HashInv ==
    /\ finalized.ledger <= tip - Depth \/ finalized.ledger = 0
    /\ finalized.ledger > 0 => finalized.hash = fork[finalized.ledger]

\* Steps other than Start and FinishPoll leave the recorded hash alone, and only
\* HaltOnReorg halts the listener.
LEMMA OnlyLoopRecords ==
    ASSUME TypeInv, [Next]_vars, ~Start, ~FinishPoll
    PROVE  /\ UNCHANGED finalized
           /\ pc["main"] # "halted" /\ ~HaltOnReorg => pc'["main"] # "halted"
  <1> USE DEF memVars
  <1>0. /\ pc \in [Procs -> {"down", "idle", "fetch", "dedup", "apply", "done", "halted"}]
        /\ "main" \in Procs
    BY DEF TypeInv, TypeOK, Procs
  <1>1. CASE FetchPage("main") \/ Dedup("main") \/ NextPage("main") \/ BeginPoll
    BY <1>0, <1>1 DEF FetchPage, Dedup, NextPage, BeginPoll
  <1>2. CASE \E e \in pending["main"] : HandleEvent("main", e) \/ HandleWithoutEffect("main", e)
    BY <1>2 DEF HandleEvent, HandleWithoutEffect
  <1>3. CASE \/ \E e \in pending["main"] : RejectEvent("main", e)
             \/ PollFails("main") \/ Crash("main")
    BY <1>0, <1>3 DEF RejectEvent, PollFails, AbortPoll, Crash
  <1>4. CASE \/ BackfillStep \/ PollFails("backfill") \/ Crash("backfill")
             \/ \E range \in BackfillRanges : BackfillRange(range)
             \/ PatchStep
    BY <1>4, BackfillApart DEF MainSame
  <1>5. CASE ChainStep
    BY <1>5, ChainSteps DEF MainSame
  <1>6. CASE HaltOnReorg
    BY <1>6 DEF HaltOnReorg
  <1>7. CASE UNCHANGED vars
    BY <1>7 DEF vars
  <1> QED
    BY <1>1, <1>2, <1>3, <1>4, <1>5, <1>6, <1>7 DEF Next, MainStep, PollStep, Procs, ChainStep

LEMMA NextHashInv ==
    ASSUME InitCheckpoint > 0, InitCheckpoint <= InitTip - Depth + 1, ReorgDepth <= Depth,
           TypeInv, WindowInv, ChainInv, HashInv, NeverHaltsInWindow, [Next]_vars
    PROVE  HashInv' /\ NeverHaltsInWindow'
  <1>0. /\ tip \in Nat /\ Depth \in Nat /\ finalized.ledger \in 0..MaxLedger
        /\ fork \in [Ledgers -> 0..MaxReorgs] /\ InitTip \in Nat /\ ReorgDepth \in Nat
        /\ pc \in [Procs -> {"down", "idle", "fetch", "dedup", "apply", "done", "halted"}]
        /\ "main" \in Procs /\ InitCheckpoint \in Nat /\ InitTip <= tip
        /\ startLedger \in [Procs -> 0..MaxLedger + 1] /\ MaxLedger \in Nat
    BY ListenerAssumption, SMTT(30) DEF TypeInv, TypeOK, Ledgers, Procs, ChainInv
  <1>1. ~HaltOnReorg
    BY <1>0 DEF HaltOnReorg, Rewritten, HashInv
  <1>2. CASE Start
    <2>1. finalized' = NoHash /\ pc'["main"] = "idle"
      BY <1>0, <1>2 DEF Start
    <2> QED BY <2>1 DEF HashInv, NoHash, NeverHaltsInWindow
  <1>3. CASE FinishPoll
    <2> DEFINE n == NextLedger("main")
    <2>1. /\ pc'["main"] = "idle" /\ startLedger'["main"] = n
          /\ UNCHANGED <<tip, fork>>
          /\ \/ finalized' = finalized
             \/ n - 1 > finalized.ledger /\ finalized' = [ledger |-> n - 1, hash |-> fork[n - 1]]
      BY <1>0, <1>3 DEF FinishPoll, chainVars
    <2>2. n \in Nat
      BY NextLedgerBounds
    <2> HIDE DEF n
    <2>3. Bounded(n)
      <3>1. WindowInv'
        BY NextWindowInv
      <3> QED BY <2>1, <3>1 DEF WindowInv, Bounded
    <2>4. n - 1 <= tip - Depth
      BY <1>0, <2>2, <2>3 DEF Bounded
    <2>5. HashInv'
      BY <2>1, <2>4 DEF HashInv
    <2> QED BY <2>1, <2>5 DEF NeverHaltsInWindow
  <1>4. CASE ~Start /\ ~FinishPoll
    <2>1. UNCHANGED finalized /\ pc'["main"] # "halted"
      BY <1>1, <1>4, OnlyLoopRecords DEF NeverHaltsInWindow
    <2>2. CASE ~\E l \in Ledgers : Reorg(l)
      <3>1. UNCHANGED fork /\ tip' \in {tip, tip + 1}
        BY <2>2, ChainElsewhere DEF ChainStep, Emit, CloseLedger
      <3> QED BY <1>0, <2>1, <3>1 DEF HashInv, NeverHaltsInWindow
    <2>3. ASSUME NEW l \in Ledgers, Reorg(l)
          PROVE  HashInv'
      <3>1. /\ tip' = tip /\ tip - ReorgDepth < l /\ l \in Nat
            /\ fork' = [m \in Ledgers |-> IF m >= l THEN reorgs + 1 ELSE fork[m]]
        BY <2>3 DEF Reorg, Ledgers
      <3>2. finalized.ledger > 0 => finalized.ledger \in Ledgers /\ ~(finalized.ledger >= l)
        BY <1>0, <3>1 DEF HashInv, Ledgers
      <3>3. finalized.ledger > 0 => fork'[finalized.ledger] = fork[finalized.ledger]
        BY <3>1, <3>2
      <3> QED BY <2>1, <3>1, <3>3 DEF HashInv
    <2> QED BY <2>1, <2>2, <2>3 DEF NeverHaltsInWindow
  <1> QED BY <1>2, <1>3, <1>4

\* With a checkpoint that has cleared the window, a reorganisation no deeper than
\* the confirmation depth never halts the listener (verifyFinalizedLedger).
THEOREM WindowNeverHalts ==
    ASSUME InitCheckpoint > 0, InitCheckpoint <= InitTip - Depth + 1, ReorgDepth <= Depth
    PROVE  Spec => []NeverHaltsInWindow
  <1> DEFINE I == TypeInv /\ WindowInv /\ ChainInv /\ HashInv /\ NeverHaltsInWindow
  <1>1. Init => I
    <2>1. Init => TypeInv /\ WindowInv /\ ChainInv
      BY InitListenInv DEF ListenInv
    <2>2. Init => HashInv /\ NeverHaltsInWindow
      BY DEF Init, HashInv, NeverHaltsInWindow, NoHash, Procs
    <2> QED BY <2>1, <2>2
  <1>2. I /\ [Next]_vars => I'
    BY NextTypeInv, NextWindowInv, NextChainInv, NextHashInv
  <1>3. I => NeverHaltsInWindow
    OBVIOUS
  <1> QED BY <1>1, <1>2, <1>3, PTL DEF Spec
=============================================================================
