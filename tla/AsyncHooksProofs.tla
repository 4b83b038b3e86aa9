-------------------------- MODULE AsyncHooksProofs --------------------------
(***************************************************************************)
(* What useAsyncQuery and useAsyncMutation keep true for every hook built  *)
(* on them, whichever inputs change, however many runs and calls overlap   *)
(* and in whatever order they are answered.                                *)
(***************************************************************************)
EXTENDS AsyncHooks, FiniteSetTheorems, TLAPS

\* The runs that were started.
Started == {g \in 1 .. MaxGeneration : asked[g] # NotAsked}

\* The counter is never behind a run, and leaves room for the runs to come.
CounterInv ==
    /\ \A g \in 1 .. MaxGeneration : asked[g] # NotAsked => g <= generation
    /\ data <= generation
    /\ flying \subseteq Started
    /\ \A g \in held : g <= generation
    /\ mounted => IF generation = 0 THEN Runs = 0
                  ELSE asked[generation] # NotAsked /\ generation < 2 * Runs
    /\ generation <= 2 * Runs /\ Runs <= MaxRuns
    /\ dirty => Runs < MaxRuns
    /\ installed => generation # 0

\* A mounted component whose effect has run is at the run for its inputs.
CurrentInv ==
    /\ mounted /\ ~dirty => /\ generation # 0
                            /\ \A i \in QueryHook[hook].deps : asked[generation][i] = inputs[i]
    /\ mounted /\ ~isLoading /\ ~error => generation # 0 /\ data = generation
    /\ mounted => (generation = 0 => dirty)
    /\ ~mounted => generation \notin flying \ held

MutationInv ==
    /\ inFlight = Cardinality(mutations)
    /\ isPending <=> mutations # {}

Inv == TypeOK /\ CounterInv /\ CurrentInv /\ MutationInv

-----------------------------------------------------------------------------
(* The hooks.                                                              *)

\* The effect of a hook depends on all that its query reads.
Complete(q) == q.uses \subseteq q.deps /\ q.uses \subseteq Inputs

LEMMA QueryComplete ==
  ASSUME NEW m, NEW u \in SUBSET Inputs
  PROVE  Complete(Query(m, u, u))
  BY DEF Complete, Query

LEMMA GroupsComplete ==
  ASSUME NEW p \in {InvoiceQueries, PoolQueries, RegistryQueries, EscrowQueries,
                    TokenQueries, AgentQueries},
         NEW h \in DOMAIN p
  PROVE  Complete(p[h])
<1>1. /\ Base \in SUBSET Inputs
      /\ (Base \cup {"key"}) \in SUBSET Inputs
      /\ Inputs \in SUBSET Inputs
  BY DEF Base, Inputs
<1>2. \A m : /\ Complete(Query(m, Base, Base))
             /\ Complete(Query(m, Base \cup {"key"}, Base \cup {"key"}))
             /\ Complete(Query(m, Inputs, Inputs))
  BY <1>1, QueryComplete
<1>3. CASE p = InvoiceQueries
  BY <1>2, <1>3 DEF InvoiceQueries, useInvoiceList
<1>4. CASE p = PoolQueries
  BY <1>2, <1>4 DEF PoolQueries
<1>5. CASE p = RegistryQueries
  BY <1>2, <1>5 DEF RegistryQueries
<1>6. CASE p \in {EscrowQueries, TokenQueries, AgentQueries}
  BY <1>2, <1>6 DEF EscrowQueries, TokenQueries, AgentQueries
<1> QED
  BY <1>3, <1>4, <1>5, <1>6

LEMMA HooksComplete ==
  ASSUME NEW h \in DOMAIN QueryHook
  PROVE  Complete(QueryHook[h])
<1> DEFINE Groups == {InvoiceQueries, PoolQueries, RegistryQueries, EscrowQueries,
                      TokenQueries, AgentQueries}
           q == CHOOSE p \in Groups : h \in DOMAIN p
<1>1. \E p \in Groups : h \in DOMAIN p
  BY DEF QueryHook, Merge
<1>2. QueryHook[h] = q[h]
  BY <1>1 DEF QueryHook, Merge
<1> HIDE DEF Groups
<1>3. q \in Groups /\ h \in DOMAIN q
  BY <1>1
<1> QED
  BY <1>2, <1>3, GroupsComplete DEF Groups

-----------------------------------------------------------------------------
(* Counting the runs.                                                      *)

LEMMA NotAskedNotASnapshot == NotAsked \notin Snapshots
  BY DEF NotAsked, Snapshots, Inputs

LEMMA StartedFinite == IsFiniteSet(Started) /\ Runs = Cardinality(Started) /\ Runs \in Nat
<1>1. IsFiniteSet(1 .. MaxGeneration)
  BY BoundsPositive, FS_Interval DEF MaxGeneration
<1>2. IsFiniteSet(Started)
  BY <1>1, FS_Subset DEF Started
<1> QED
  BY <1>2, FS_CardinalityType DEF Runs, Started

LEMMA NoRuns == Runs = 0 <=> Started = {}
  BY StartedFinite, FS_EmptySet

LEMMA SameRuns ==
  ASSUME UNCHANGED asked
  PROVE  Runs' = Runs /\ Started' = Started
  BY DEF Runs, Started

\* A run takes a generation no run had.
LEMMA NewRun ==
  ASSUME TypeOK, CounterInv, NEW g \in 1 .. MaxGeneration, generation < g,
         asked' = [asked EXCEPT ![g] = inputs]
  PROVE  /\ Started' = Started \cup {g}
         /\ Runs' = Runs + 1
<1>1. asked[g] = NotAsked
  BY DEF CounterInv, TypeOK
<1>2. inputs # NotAsked
  BY NotAskedNotASnapshot DEF TypeOK
<1>3. Started' = Started \cup {g}
  BY <1>2 DEF Started, TypeOK
<1>4. g \notin Started
  BY <1>1 DEF Started
<1>5. Runs' = Cardinality(Started')
  BY DEF Runs, Started
<1> QED
  BY <1>3, <1>4, <1>5, StartedFinite, FS_AddElement

-----------------------------------------------------------------------------
(* The inductive invariant.                                                *)

\* Types, with the flags apart: the provers treat truth values and numbers
\* separately.
QueryFlags == mounted \in BOOLEAN /\ dirty \in BOOLEAN /\ installed \in BOOLEAN
              /\ isLoading \in BOOLEAN /\ error \in BOOLEAN

QueryData ==
    /\ hook \in DOMAIN QueryHook
    /\ inputs \in Snapshots
    /\ generation \in 0 .. MaxGeneration
    /\ asked \in [1 .. MaxGeneration -> Snapshots \cup {NotAsked}]
    /\ flying \subseteq Started
    /\ held \subseteq 1 .. MaxGeneration
    /\ data \in 0 .. MaxGeneration

QueryType == QueryFlags /\ QueryData

MutationFlags == isPending \in BOOLEAN /\ mutationError \in BOOLEAN

MutationData ==
    /\ calls \in 0 .. MaxMutations /\ mutations \subseteq 1 .. calls
    /\ inFlight \in 0 .. MaxMutations

MutationType == MutationFlags /\ MutationData

\* The two hooks share no state.
QueryInv == QueryType /\ CounterInv /\ CurrentInv
MutateInv == MutationType /\ MutationInv

LEMMA InvSplits == Inv <=> QueryInv /\ MutateInv
  BY DEF Inv, QueryInv, MutateInv, TypeOK, QueryType, QueryFlags, QueryData,
         MutationType, MutationFlags, MutationData, Started

LEMMA QueryKept ==
  ASSUME QueryInv, UNCHANGED query
  PROVE  QueryInv'
  BY SameRuns DEF QueryInv, QueryType, QueryFlags, QueryData, CounterInv, CurrentInv,
                  query, Started, Runs

LEMMA MutateKept ==
  ASSUME MutateInv, UNCHANGED mutation
  PROVE  MutateInv'
  BY DEF MutateInv, MutationType, MutationFlags, MutationData, MutationInv, mutation

LEMMA InitInv == Init => QueryInv /\ MutateInv
<1> SUFFICES ASSUME Init PROVE QueryInv /\ MutateInv
  OBVIOUS
<1>1. Started = {} /\ Runs = 0
  <2>1. Started = {}
    BY DEF Init, Started
  <2> QED
    BY <2>1, NoRuns
<1>2. QueryType
  <2>1. asked \in [1 .. MaxGeneration -> Snapshots \cup {NotAsked}]
    BY DEF Init
  <2>2. QueryData
    BY <1>1, <2>1, BoundsPositive DEF Init, QueryData, MaxGeneration, Snapshots
  <2> QED
    BY <2>2 DEF Init, QueryType, QueryFlags
<1>3. CounterInv /\ CurrentInv
  BY <1>1, BoundsPositive DEF Init, CounterInv, CurrentInv, MaxGeneration
<1>4. MutationType
  <2>1. MutationData
    BY BoundsPositive DEF Init, MutationData
  <2> QED
    BY <2>1 DEF Init, MutationType, MutationFlags
<1>5. MutationInv
  BY FS_EmptySet DEF Init, MutationInv
<1> QED
  BY <1>2, <1>3, <1>4, <1>5 DEF QueryInv, MutateInv

\* run, from the effect or from refetch.
LEMMA RunInv ==
  ASSUME Inv, NEW g \in Nat, generation < g, g <= 2 * (Runs + 1), Runs < MaxRuns,
         mounted => g < 2 * (Runs + 1),
         run(g), dirty' \in BOOLEAN, dirty' => Runs + 1 < MaxRuns, installed' \in BOOLEAN,
         held' = IF mounted THEN held ELSE held \cup {g},
         UNCHANGED <<hook, mounted, inputs, data>>
  PROVE  QueryInv'
<1>0. TypeOK /\ QueryType /\ CounterInv /\ CurrentInv
  BY InvSplits DEF Inv, QueryInv
<1>1. g \in 1 .. MaxGeneration
  BY <1>0, StartedFinite, BoundsPositive DEF MaxGeneration, QueryType, QueryData
<1>2. Started' = Started \cup {g} /\ Runs' = Runs + 1 /\ Runs \in Nat
  BY <1>0, <1>1, NewRun, StartedFinite DEF run
<1>3. QueryType'
  <2>1. QueryData'
    BY <1>0, <1>1, <1>2 DEF QueryType, QueryData, run
  <2>2. QueryFlags'
    BY <1>0 DEF QueryType, QueryFlags, run
  <2> QED
    BY <2>1, <2>2 DEF QueryType, QueryData
<1>4. asked'[g] = inputs /\ \A h \in 1 .. MaxGeneration : h # g => asked'[h] = asked[h]
  BY <1>0, <1>1 DEF run, QueryType, QueryData
<1>5. inputs # NotAsked
  BY <1>0, NotAskedNotASnapshot DEF QueryType, QueryData
<1>6. CounterInv'
  <2>1. \A h \in 1 .. MaxGeneration : asked'[h] # NotAsked => h <= g
    BY <1>0, <1>1, <1>4 DEF CounterInv, QueryType, QueryData
  <2>2. data <= g
    BY <1>0 DEF CounterInv, QueryType, QueryData
  <2>3. flying' \subseteq Started' /\ \A h \in held' : h <= g
    BY <1>0, <1>1, <1>2 DEF CounterInv, run, QueryType, QueryData
  <2>4. /\ g <= 2 * Runs' /\ Runs' <= MaxRuns
        /\ mounted => g < 2 * Runs'
        /\ dirty' => Runs' < MaxRuns
    BY <1>2, BoundsPositive
  <2> QED
    BY <1>1, <1>2, <1>4, <1>5, <2>1, <2>2, <2>3, <2>4 DEF CounterInv, run
<1>7. CurrentInv'
  BY <1>0, <1>1, <1>4 DEF CurrentInv, run, QueryType, QueryData
<1> QED
  BY <1>3, <1>6, <1>7 DEF QueryInv

LEMMA NextQuery ==
  ASSUME Inv, [Next]_vars
  PROVE  QueryInv'
<1>0. QueryInv /\ QueryType /\ CounterInv /\ CurrentInv
  BY InvSplits DEF QueryInv
<1>1. CASE Render
  <2>1. PICK i \in QueryHook[hook].uses \cap Varying :
           /\ inputs' = [inputs EXCEPT ![i] = 1 - @]
           /\ dirty' = (dirty \/ i \in QueryHook[hook].deps)
    BY <1>1 DEF Render
  <2>2. i \in Inputs /\ i \in QueryHook[hook].deps
    BY <1>0, HooksComplete DEF QueryType, QueryData, Complete
  <2>3. inputs' \in Snapshots /\ dirty' = TRUE
    <3>1. inputs' \in Snapshots
      BY <1>0, <2>1, <2>2 DEF QueryType, QueryData, Snapshots
    <3> QED
      BY <2>1, <2>2, <3>1
  <2>4. Runs' = Runs /\ Started' = Started /\ Runs < MaxRuns
    BY <1>1, SameRuns DEF Render
  <2>5. UNCHANGED <<hook, mounted, installed, generation, asked, flying, held, data,
                    isLoading, error>>
    BY <1>1 DEF Render
  <2>6. QueryType'
    BY <1>0, <2>3, <2>4, <2>5 DEF QueryType, QueryData, QueryFlags
  <2>7. CounterInv'
    BY <1>0, <2>4, <2>5 DEF CounterInv
  <2>8. CurrentInv'
    BY <1>0, <2>3, <2>5 DEF CurrentInv
  <2> QED
    BY <2>6, <2>7, <2>8 DEF QueryInv
<1>2. CASE Effect
  <2>1. PICK g : g = generation + (IF installed THEN 2 ELSE 1)
    OBVIOUS
  <2>2. /\ generation \in Nat /\ Runs \in Nat /\ Runs < MaxRuns
        /\ generation = 0 => Runs = 0 /\ ~installed
        /\ generation # 0 => generation < 2 * Runs
    BY <1>0, <1>2, StartedFinite DEF Effect, QueryType, QueryData, CounterInv
  <2>3. g \in Nat /\ generation < g /\ g < 2 * (Runs + 1)
    <3>1. CASE installed
      BY <2>1, <2>2, <3>1
    <3>2. CASE ~installed
      BY <2>1, <2>2, <3>2
    <3> QED
      BY <3>1, <3>2
  <2>4. /\ run(g) /\ mounted /\ dirty' = FALSE /\ installed' = TRUE
        /\ UNCHANGED <<hook, mounted, inputs, held, data>>
    BY <1>2, <2>1 DEF Effect
  <2>5. g <= 2 * (Runs + 1)
    BY <2>2, <2>3
  <2>6. held' = IF mounted THEN held ELSE held \cup {g}
    BY <2>4
  <2> QED
    BY <2>2, <2>3, <2>4, <2>5, <2>6, RunInv
<1>3. CASE Refetch
  <2>1. /\ generation \in Nat /\ Runs \in Nat /\ MaxRuns \in Nat
        /\ generation <= 2 * Runs
        /\ mounted => generation + 1 < 2 * (Runs + 1)
    BY <1>0, StartedFinite, BoundsPositive DEF QueryType, QueryData, CounterInv
  <2>2. /\ run(generation + 1)
        /\ held' = IF mounted THEN held ELSE held \cup {generation + 1}
        /\ UNCHANGED <<hook, mounted, inputs, dirty, installed, data>>
    BY <1>3 DEF Refetch
  <2>3. Runs < MaxRuns /\ (dirty => Runs + 1 < MaxRuns)
    <3>1. CASE dirty
      BY <1>3, <2>1, <3>1 DEF Refetch
    <3>2. CASE ~dirty
      BY <1>3, <2>1, <3>2 DEF Refetch
    <3> QED
      BY <3>1, <3>2
  <2>4. /\ generation + 1 \in Nat /\ generation < generation + 1
        /\ generation + 1 <= 2 * (Runs + 1)
    BY <2>1
  <2>5. dirty' \in BOOLEAN /\ installed' \in BOOLEAN /\ (dirty' => Runs + 1 < MaxRuns)
    BY <1>0, <2>2, <2>3 DEF QueryType, QueryFlags
  <2> QED
    BY <2>1, <2>2, <2>3, <2>4, <2>5, RunInv
<1>4. CASE Unmount
  <2>1. Runs' = Runs /\ Started' = Started /\ Runs \in Nat
    BY <1>4, SameRuns, StartedFinite DEF Unmount
  <2>2. Started \subseteq 1 .. generation
    BY <1>0 DEF CounterInv, Started, QueryType, QueryData
  <2>3. generation' <= 2 * Runs /\ generation' # 0
    BY <1>0, <1>4, <2>1 DEF Unmount, CounterInv, QueryType, QueryData
  <2>4. generation' \notin flying /\ generation <= generation'
    BY <1>0, <1>4, <2>2 DEF Unmount, QueryType, QueryData
  <2>5. generation' \in 0 .. MaxGeneration
    BY <1>0, <1>4, <2>1, <2>3, BoundsPositive
       DEF Unmount, CounterInv, QueryType, QueryData, MaxGeneration
  <2>6. QueryType'
    <3>1. QueryData'
      BY <1>0, <1>4, <2>1, <2>5 DEF Unmount, QueryType, QueryData
    <3> QED
      BY <1>0, <1>4, <3>1 DEF Unmount, QueryType, QueryFlags
  <2>7. CounterInv'
    BY <1>0, <1>4, <2>1, <2>3, <2>4, <2>5 DEF Unmount, CounterInv, QueryType, QueryData
  <2>8. CurrentInv'
    BY <1>4, <2>4 DEF Unmount, CurrentInv
  <2> QED
    BY <2>6, <2>7, <2>8 DEF QueryInv
<1>5. ASSUME NEW g \in 1 .. MaxGeneration, Answer(g) PROVE QueryInv'
  <2>1. Runs' = Runs /\ Started' = Started
    BY <1>5, SameRuns DEF Answer
  <2>2. QueryType'
    <3>1. QueryData'
      BY <1>0, <1>5, <2>1 DEF Answer, QueryType, QueryData
    <3>2. QueryFlags'
      BY <1>0, <1>5 DEF Answer, QueryType, QueryFlags
    <3> QED
      BY <3>1, <3>2 DEF QueryType, QueryData
  <2>3. CounterInv'
    BY <1>0, <1>5, <2>1 DEF Answer, CounterInv, isCurrent, QueryType, QueryData
  <2>4. CurrentInv'
    BY <1>0, <1>5 DEF Answer, CurrentInv, isCurrent, QueryType, QueryData
  <2> QED
    BY <2>2, <2>3, <2>4 DEF QueryInv
<1>6. CASE UNCHANGED query
  BY <1>0, <1>6, QueryKept
<1>7. CASE mutate \/ (\E m \in 1 .. MaxMutations : MutationSettles(m)) \/ UNCHANGED vars
  BY <1>6, <1>7 DEF mutate, MutationSettles, vars
<1> QED
  BY <1>1, <1>2, <1>3, <1>4, <1>5, <1>7 DEF Next

LEMMA NextMutate ==
  ASSUME Inv, [Next]_vars
  PROVE  MutateInv'
<1>0. MutateInv /\ MutationType /\ MutationInv
  BY InvSplits DEF MutateInv
<1>1. IsFiniteSet(mutations)
  <2>1. calls \in Nat /\ mutations \subseteq 1 .. calls
    BY <1>0, BoundsPositive DEF MutationType, MutationData
  <2>2. IsFiniteSet(1 .. calls)
    BY <2>1, FS_Interval
  <2> QED
    BY <2>1, <2>2, FS_Subset
<1>2. CASE mutate
  <2>1. calls + 1 \notin mutations
    BY <1>0 DEF MutationType, MutationData
  <2>2. inFlight' = Cardinality(mutations')
    BY <1>0, <1>1, <1>2, <2>1, FS_AddElement DEF mutate, MutationInv
  <2>3. mutations' \subseteq 1 .. calls' /\ IsFiniteSet(mutations')
    BY <1>0, <1>1, <1>2, FS_AddElement DEF mutate, MutationType, MutationData
  <2>4. Cardinality(mutations') <= calls'
    <3>1. Cardinality(1 .. calls') = calls' /\ IsFiniteSet(1 .. calls')
      BY <1>0, <1>2, FS_Interval DEF mutate, MutationType, MutationData
    <3> QED
      BY <2>3, <3>1, FS_Subset
  <2>5. MutationType'
    <3>1. inFlight' \in Nat /\ inFlight' <= calls'
      BY <2>2, <2>3, <2>4, FS_CardinalityType
    <3>2. MutationData'
      BY <1>0, <1>2, <2>3, <3>1, BoundsPositive DEF mutate, MutationType, MutationData
    <3> QED
      BY <1>2, <3>2 DEF mutate, MutationType, MutationFlags
  <2>6. isPending' = TRUE /\ mutations' # {}
    BY <1>2 DEF mutate
  <2> QED
    BY <2>2, <2>5, <2>6 DEF MutateInv, MutationInv
<1>3. ASSUME NEW m \in 1 .. MaxMutations, MutationSettles(m) PROVE MutateInv'
  <2>1. inFlight' = Cardinality(mutations') /\ IsFiniteSet(mutations')
    BY <1>0, <1>1, <1>3, FS_RemoveElement DEF MutationSettles, MutationInv
  <2>2. inFlight' = 0 <=> mutations' = {}
    BY <2>1, FS_EmptySet
  <2>3. inFlight' \in 0 .. MaxMutations
    <3>1. inFlight' \in Nat
      BY <2>1, FS_CardinalityType
    <3>2. inFlight' = inFlight - 1
      BY <1>3 DEF MutationSettles
    <3> QED
      BY <1>0, <3>1, <3>2, BoundsPositive DEF MutationType, MutationData
  <2>4. isPending' <=> mutations' # {}
    <3>1. isPending = TRUE
      BY <1>0, <1>3 DEF MutationSettles, MutationInv, MutationType, MutationData
    <3> QED
      BY <1>3, <2>2, <3>1 DEF MutationSettles
  <2>5. MutationType'
    <3>1. MutationData'
      BY <1>0, <1>3, <2>3 DEF MutationSettles, MutationType, MutationData
    <3>2. MutationFlags'
      BY <1>0, <1>3 DEF MutationSettles, MutationType, MutationFlags
    <3> QED
      BY <3>1, <3>2 DEF MutationType, MutationData
  <2> QED
    BY <2>1, <2>4, <2>5 DEF MutateInv, MutationInv
<1>4. CASE UNCHANGED mutation
  BY <1>0, <1>4, MutateKept
<1>5. CASE \/ Render \/ Effect \/ Refetch \/ Unmount \/ UNCHANGED vars
           \/ \E g \in 1 .. MaxGeneration : Answer(g)
  BY <1>4, <1>5 DEF Render, Effect, Refetch, Unmount, Answer, vars
<1> QED
  BY <1>2, <1>3, <1>5 DEF Next

LEMMA Invariance == Spec => []Inv
<1>1. Init => Inv
  BY InitInv, InvSplits
<1>2. Inv /\ [Next]_vars => Inv'
  <2>1. QueryInv' /\ MutateInv' => Inv'
    BY DEF Inv, QueryInv, MutateInv, TypeOK, QueryType, QueryFlags, QueryData,
           MutationType, MutationFlags, MutationData, Started
  <2> QED
    BY <2>1, NextQuery, NextMutate
<1> QED
  BY <1>1, <1>2, PTL DEF Spec

-----------------------------------------------------------------------------
(* The theorems.                                                           *)

\* Every variable keeps its type; the generation counter has room for every
\* run and every cleanup.  async.ts:27-111.
THEOREM TypeCorrect == Spec => []TypeOK
<1>1. Inv => TypeOK
  BY DEF Inv
<1> QED
  BY <1>1, Invariance, PTL

\* For every hook of the package: what is shown as settled was asked with the
\* inputs of the current render.  async.ts:20-69 and the hooks' dependency
\* lists.
THEOREM SettledForInputs == Spec => []SettledIsForInputs
<1>1. Inv => SettledIsForInputs
  <2> SUFFICES ASSUME Inv, mounted, ~dirty, ~isLoading, ~error
               PROVE  /\ data # 0
                      /\ \A i \in QueryHook[hook].uses : asked[data][i] = inputs[i]
    BY DEF SettledIsForInputs
  <2>1. /\ data = generation /\ generation # 0
        /\ \A i \in QueryHook[hook].deps : asked[generation][i] = inputs[i]
    BY DEF Inv, CurrentInv
  <2>2. QueryHook[hook].uses \subseteq QueryHook[hook].deps
    BY HooksComplete DEF Inv, TypeOK, Complete
  <2> QED
    BY <2>1, <2>2
<1> QED
  BY <1>1, Invariance, PTL

\* The mutation reads as pending exactly while a call is running.
\* async.ts:93-111.
THEOREM PendingIsRunning == Spec => []PendingWhileRunning
<1>1. Inv => PendingWhileRunning
  BY DEF Inv, MutationInv, PendingWhileRunning
<1> QED
  BY <1>1, Invariance, PTL

\* No answer replaces that of a newer run, and once the component is gone only
\* a refetch called after that writes.  async.ts:20-25, 41-78.
THEOREM LateAnswersDropped == Spec => NoLateWrite
<1> DEFINE Quiet == UNCHANGED <<data, error, isLoading>>
           Kept == /\ data' >= data
                   /\ ~mounted => \/ Quiet
                                  \/ held' # held
                                  \/ (flying \ flying') \cap held # {}
<1>1. ASSUME Inv, [Next]_vars
      PROVE  Kept \/ UNCHANGED vars
  <2>0. /\ generation \in Nat /\ data \in Nat /\ data <= generation
        /\ ~mounted => generation \notin flying \ held
        /\ held \subseteq 1 .. generation
    <3>1. /\ generation \in 0 .. MaxGeneration /\ data \in 0 .. MaxGeneration
          /\ data <= generation
      BY <1>1 DEF Inv, TypeOK, CounterInv
    <3>2. ~mounted => generation \notin flying \ held
      BY <1>1 DEF Inv, CurrentInv
    <3>3. held \subseteq 1 .. generation
      BY <1>1, <3>1 DEF Inv, TypeOK, CounterInv
    <3> QED
      BY <3>1, <3>2, <3>3
  <2>1. ASSUME NEW g \in 1 .. MaxGeneration, Answer(g)
        PROVE  Kept
    <3>1. data' \in {data, generation}
      BY <2>1 DEF Answer, isCurrent
    <3>2. data' >= data
      BY <2>0, <3>1
    <3>3. CASE g # generation
      BY <2>1, <3>2, <3>3 DEF Answer, isCurrent
    <3>4. CASE g = generation
      <4>1. flying \ flying' = {generation}
        BY <2>1, <3>4 DEF Answer
      <4>2. ~mounted => generation \in held
        BY <2>0, <2>1, <3>4 DEF Answer
      <4> QED
        BY <3>2, <4>1, <4>2
    <3> QED
      BY <3>3, <3>4
  <2>2. CASE Render \/ Unmount
    BY <2>0, <2>2 DEF Render, Unmount
  <2>3. CASE Effect
    <3>1. mounted /\ UNCHANGED data
      BY <2>3 DEF Effect
    <3> QED
      BY <2>0, <3>1
  <2>4. CASE Refetch
    <3>1. UNCHANGED data /\ (~mounted => held' = held \cup {generation + 1})
      BY <2>4 DEF Refetch
    <3>2. generation + 1 \notin held
      BY <2>0
    <3> QED
      BY <2>0, <3>1, <3>2
  <2>5. CASE mutate \/ \E m \in 1 .. MaxMutations : MutationSettles(m)
    <3>1. Quiet
      BY <2>5 DEF mutate, MutationSettles, query
    <3> QED
      BY <2>0, <3>1
  <2> QED
    BY <1>1, <2>1, <2>2, <2>3, <2>4, <2>5 DEF Next
<1> QED
  BY <1>1, Invariance, PTL DEF Spec, NoLateWrite
=============================================================================
