------------------------------ MODULE AsyncHooks ------------------------------
(***************************************************************************)
(* The React bindings of the SDK (packages/sdk-react/src): useAsyncQuery   *)
(* and useAsyncMutation of async.ts, and the hooks built on them.          *)
(*                                                                         *)
(* A mounted component renders with inputs that change (another invoice,   *)
(* another signer, another client), refetches, and is unmounted, while     *)
(* answers arrive in any order.  A render changes the inputs at once; the  *)
(* effect that starts the new query runs after it.  The refetch a hook     *)
(* returns is the bare run: whoever holds it calls it between a render and *)
(* its effect, or after the component is gone.                             *)
(***************************************************************************)
EXTENDS ContractMethods, Integers

CONSTANTS
    Varying,        \* the inputs whose value changes between renders
    MaxRuns,        \* query runs started in one life of the component
    MaxMutations    \* calls of mutate

ASSUME BoundsPositive == MaxRuns \in Nat \ {0} /\ MaxMutations \in Nat \ {0}

\* What a query function reads, and what its effect depends on.  The client
\* stands for the options' contents: the client is memoised on them.
Inputs == {"client", "key", "spender", "signer"}

ASSUME VaryingInputs == Varying \subseteq Inputs

Query(method, uses, deps) == [method |-> method, uses |-> uses, deps |-> deps]

Base == {"client", "signer"}

useInvoiceList(method) == Query(method, Base \cup {"key"}, Base \cup {"key"})

InvoiceQueries ==
    [ useInvoicesByStatus |-> useInvoiceList("get_by_status"),
      useInvoicesByIssuer |-> useInvoiceList("get_by_issuer"),
      useInvoicesByBuyer  |-> useInvoiceList("get_by_buyer"),
      useInvoice          |-> Query("get", Base \cup {"key"}, Base \cup {"key"}) ]

PoolQueries ==
    [ usePoolStats       |-> Query("get_stats", Base, Base),
      useLPPosition      |-> Query("get_lp_position", Base \cup {"key"}, Base \cup {"key"}),
      useUtilizationRate |-> Query("get_utilization_rate", Base, Base) ]

RegistryQueries ==
    [ useIsVerified |-> Query("is_verified", Base \cup {"key"}, Base \cup {"key"}),
      useProfile    |-> Query("get_profile", Base \cup {"key"}, Base \cup {"key"}) ]

EscrowQueries ==
    [useLockedAmount |-> Query("get_locked", Base \cup {"key"}, Base \cup {"key"})]

\* MUTANT: the allowance query does not run again for another spender.
TokenQueriesFewDeps ==
    [useAllowance |-> Query("allowance", Inputs, Inputs \ {"spender"})]

TokenQueries == [useAllowance |-> Query("allowance", Inputs, Inputs)]

AgentQueries ==
    [useAgent |-> Query("get_agent", Base \cup {"key"}, Base \cup {"key"})]

QueryHook == Merge({InvoiceQueries, PoolQueries, RegistryQueries, EscrowQueries,
                    TokenQueries, AgentQueries})

InvoiceMutations == {"create", "list_for_financing", "mark_shipped", "confirm_delivery",
                     "repay", "trigger_default"}
PoolMutations == {"deposit", "withdraw", "fund_invoice", "receive_repayment"}
RegistryMutations == {"register_issuer", "register_buyer", "revoke"}
EscrowMutations == {"lock", "release_to_issuer", "release_to_pool", "escrow_handle_default"}
TokenMutations == {"approve"}

MutationMethods == InvoiceMutations \cup PoolMutations \cup RegistryMutations
                     \cup EscrowMutations \cup TokenMutations

\* A hook that queries by itself, on every change, never writes; a hook that
\* waits for mutate is only there to write.
ASSUME HooksMatchClients ==
    /\ \A h \in DOMAIN QueryHook : Method[QueryHook[h].method].kind = "read"
    /\ \A m \in MutationMethods : Method[m].kind = "write"

-----------------------------------------------------------------------------
VARIABLES
    hook,       \* the hook the component uses, constant
    mounted,    \* the component is on the page
    inputs,     \* inputs of the last render
    dirty,      \* the last render changed a dependency: its effect is due
    installed,  \* an effect has run, and its cleanup is due
    generation, \* generationRef.current
    asked,      \* asked[g]: the inputs run g asked with, or NotAsked
    flying,     \* the runs that are not answered yet
    held,       \* observation: the runs a held refetch started after unmounting
    data,       \* the run the shown data came from, or 0
    isLoading,
    error,
    inFlight,   \* inFlightRef.current of the mutation
    mutations,  \* calls of mutate that have not settled
    calls,      \* calls of mutate so far
    isPending,
    mutationError

query == <<hook, mounted, inputs, dirty, installed, generation, asked, flying,
           held, data, isLoading, error>>
mutation == <<inFlight, mutations, calls, isPending, mutationError>>
vars == <<query, mutation>>

Snapshots == [Inputs -> {0, 1}]
NotAsked == [i \in Inputs |-> 2]

\* The generation counter runs ahead of the runs: a cleanup advances it too.
MaxGeneration == 2 * MaxRuns

TypeOK ==
    /\ hook \in DOMAIN QueryHook
    /\ mounted \in BOOLEAN /\ dirty \in BOOLEAN /\ installed \in BOOLEAN
    /\ inputs \in Snapshots
    /\ generation \in 0 .. MaxGeneration
    /\ asked \in [1 .. MaxGeneration -> Snapshots \cup {NotAsked}]
    /\ flying \subseteq {g \in 1 .. MaxGeneration : asked[g] # NotAsked}
    /\ held \subseteq 1 .. MaxGeneration
    /\ data \in 0 .. MaxGeneration
    /\ isLoading \in BOOLEAN /\ error \in BOOLEAN
    /\ calls \in 0 .. MaxMutations /\ mutations \subseteq 1 .. calls
    /\ inFlight \in 0 .. MaxMutations
    /\ isPending \in BOOLEAN /\ mutationError \in BOOLEAN

Init ==
    /\ hook \in DOMAIN QueryHook
    /\ mounted = TRUE
    /\ inputs = [i \in Inputs |-> 0]
    /\ dirty = TRUE /\ installed = FALSE
    /\ generation = 0
    /\ asked = [g \in 1 .. MaxGeneration |-> NotAsked]
    /\ flying = {} /\ held = {}
    /\ data = 0
    /\ isLoading = TRUE /\ error = FALSE
    /\ inFlight = 0 /\ mutations = {} /\ calls = 0
    /\ isPending = FALSE /\ mutationError = FALSE

Runs == Cardinality({g \in 1 .. MaxGeneration : asked[g] # NotAsked})

-----------------------------------------------------------------------------
(* useAsyncQuery                                                           *)

\* A render with one input changed.  queryFnRef always holds the newest
\* function; the effect is due only when a dependency changed.
Render ==
    /\ mounted
    /\ Runs < MaxRuns
    /\ \E i \in QueryHook[hook].uses \cap Varying :
          /\ inputs' = [inputs EXCEPT ![i] = 1 - @]
          /\ dirty' = (dirty \/ i \in QueryHook[hook].deps)
    /\ UNCHANGED <<hook, mounted, installed, generation, asked, flying, held, data,
                   isLoading, error, mutation>>

\* run with the generation it takes.
run(g) ==
    /\ generation' = g
    /\ asked' = [asked EXCEPT ![g] = inputs]
    /\ flying' = flying \cup {g}
    /\ isLoading' = TRUE
    /\ error' = FALSE

\* MUTANT: the old effect's cleanup runs after the new run has started.
EffectCleanupLast ==
    /\ mounted /\ dirty
    /\ dirty' = FALSE /\ installed' = TRUE
    /\ asked' = [asked EXCEPT ![generation + 1] = inputs]
    /\ flying' = flying \cup {generation + 1}
    /\ generation' = IF installed THEN generation + 2 ELSE generation + 1
    /\ isLoading' = TRUE /\ error' = FALSE
    /\ UNCHANGED <<hook, mounted, inputs, held, data, mutation>>

\* The effect: the cleanup of the installed one, if any, then run; each
\* advances the counter.
Effect ==
    /\ mounted /\ dirty
    /\ dirty' = FALSE /\ installed' = TRUE
    /\ run(generation + (IF installed THEN 2 ELSE 1))
    /\ UNCHANGED <<hook, mounted, inputs, held, data, mutation>>

\* refetch is run itself: nothing asks whether the component is there or an
\* effect is due.  The bound leaves the due effect its run.
Refetch ==
    /\ Runs < (IF dirty THEN MaxRuns - 1 ELSE MaxRuns)
    /\ run(generation + 1)
    /\ held' = IF mounted THEN held ELSE held \cup {generation + 1}
    /\ UNCHANGED <<hook, mounted, inputs, dirty, installed, data, mutation>>

\* MUTANT: every answer may write state.
isCurrentAlways(g) == TRUE

isCurrent(g) == g = generation

\* The awaited query resolves or rejects; only the newest run writes state.
Answer(g) ==
    /\ g \in flying
    /\ flying' = flying \ {g}
    /\ \/ /\ ~isCurrent(g)
          /\ UNCHANGED <<data, error, isLoading>>
       \/ /\ isCurrent(g)
          /\ data' = g
          /\ isLoading' = FALSE
          /\ UNCHANGED error
       \/ /\ isCurrent(g)
          /\ error' = TRUE
          /\ isLoading' = FALSE
          /\ UNCHANGED data
    /\ UNCHANGED <<hook, mounted, inputs, dirty, installed, generation, asked, held,
                   mutation>>

\* The installed effect's cleanup advances the counter and aborts.  A due effect
\* never runs, but React runs the one of the mount before it unmounts.
Unmount ==
    /\ mounted /\ installed
    /\ mounted' = FALSE
    /\ dirty' = FALSE /\ installed' = FALSE
    /\ generation' = generation + 1
    /\ UNCHANGED <<hook, inputs, asked, flying, held, data, isLoading, error, mutation>>

-----------------------------------------------------------------------------
(* useAsyncMutation                                                        *)

mutate ==
    /\ calls < MaxMutations
    /\ calls' = calls + 1
    /\ mutations' = mutations \cup {calls + 1}
    /\ inFlight' = inFlight + 1
    /\ isPending' = TRUE
    /\ mutationError' = FALSE
    /\ UNCHANGED query

\* MUTANT: a flag instead of a counter.
MutationSettlesFlag(m) ==
    /\ m \in mutations
    /\ mutations' = mutations \ {m}
    /\ inFlight' = inFlight - 1
    /\ isPending' = FALSE
    /\ mutationError' \in {mutationError, TRUE}
    /\ UNCHANGED <<calls, query>>

MutationSettles(m) ==
    /\ m \in mutations
    /\ mutations' = mutations \ {m}
    /\ inFlight' = inFlight - 1
    /\ isPending' = IF inFlight' = 0 THEN FALSE ELSE isPending
    /\ mutationError' \in {mutationError, TRUE}
    /\ UNCHANGED <<calls, query>>

-----------------------------------------------------------------------------
Next ==
    \/ Render \/ Effect \/ Refetch \/ Unmount
    \/ \E g \in 1 .. MaxGeneration : Answer(g)
    \/ mutate
    \/ \E m \in 1 .. MaxMutations : MutationSettles(m)

Spec == Init /\ [][Next]_vars

\* React runs the effects of a committed render, and every SDK call settles
\* (EveryCallSettles of SorobanClient).
FairSpec ==
    /\ Spec
    /\ WF_vars(Effect)
    /\ \A g \in 1 .. MaxGeneration : WF_vars(Answer(g))

-----------------------------------------------------------------------------
\* What the page shows as settled was asked with the inputs it renders for:
\* "a request that settles after its deps changed cannot write state"
\* (async.ts:20-25), for each hook's own dependency list.
SettledIsForInputs ==
    (mounted /\ ~dirty /\ ~isLoading /\ ~error)
        => /\ data # 0
           /\ \A i \in QueryHook[hook].uses : asked[data][i] = inputs[i]

\* An answer never replaces the answer of a newer run, and once the component
\* is gone, what was asked while it was there writes nothing: only a refetch
\* held and called after that does (async.ts:20-25, 41-78).
NoLateWrite ==
    [][/\ data' >= data
       /\ ~mounted => \/ UNCHANGED <<data, error, isLoading>>
                      \/ held' # held
                      \/ (flying \ flying') \cap held # {}]_vars

\* The mutation reads as pending exactly while a call is running, whichever of
\* several concurrent calls settles first (async.ts:93-111).
PendingWhileRunning == isPending <=> mutations # {}

\* The spinner ends: the newest run always may write (async.ts:40-69).
LoadingEnds == (mounted /\ isLoading) ~> (~mounted \/ ~isLoading)
=============================================================================
