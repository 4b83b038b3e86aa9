-------------------------- MODULE InvoiceRateLimiter -------------------------
(***************************************************************************)
(* The sliding-window limiter of POST /invoices                            *)
(* (indexer/middleware/invoice_rate_limiter.go).  A request looks its      *)
(* client's bucket up under the map's lock and uses it under the bucket's  *)
(* own lock; the cleanup goroutine may evict the bucket in between.        *)
(***************************************************************************)
EXTENDS Integers, FiniteSets

CONSTANTS
    Clients,          \* authenticated addresses
    Requests,         \* requests under way
    Limit,            \* rl.limit (5)
    Window,           \* rl.window, in ticks
    CleanupInterval,  \* cleanupInterval, in ticks
    MaxTime,          \* bound: last tick
    MaxRequests       \* bound: requests handled

ASSUME LimiterAssumption ==
    /\ Limit \in Nat \ {0}
    /\ Window \in Nat \ {0}
    /\ CleanupInterval \in Nat \ {0}
    /\ MaxTime \in Nat
    /\ MaxRequests \in Nat

VARIABLES
    now,       \* current tick
    cleaned,   \* tick of the last cleanup
    clients,   \* client -> its bucket in the map, 0 for none
    attempts,  \* bucket -> attempts it holds, as <<tick, serial number>>
    lastSeen,  \* bucket -> tick of its last use
    pc,        \* request -> the step of the middleware it is at
    client,    \* request -> its client
    bucket,    \* request -> the bucket it looked up
    strays,    \* observation: attempts recorded in a bucket the cleanup had evicted
    admitted,  \* observation: client -> attempts allowed, as <<tick, serial>>
    rejected,  \* observation: <<client, tick>> of the 429 answers
    served     \* observation: requests begun so far

vars == <<now, cleaned, clients, attempts, lastSeen, pc, client, bucket, strays,
          admitted, rejected, served>>

\* A request allocates at most one bucket, so this many are enough.
Buckets == 1..MaxRequests
Attempt == (0..MaxTime) \X (1..MaxRequests)

\* lastSeen of a new bucket: the zero time, before every cutoff.
ZeroTime == -(2 * CleanupInterval) - 1

TypeOK ==
    /\ now \in 0..MaxTime
    /\ cleaned \in 0..now
    /\ clients \in [Clients -> {0} \cup Buckets]
    /\ attempts \in [Buckets -> SUBSET Attempt]
    /\ \A b \in Buckets : Cardinality(attempts[b]) <= Limit
    /\ lastSeen \in [Buckets -> ZeroTime..MaxTime]
    /\ pc \in [Requests -> {"idle", "lookup", "admit"}]
    /\ client \in [Requests -> Clients]
    /\ bucket \in [Requests -> {0} \cup Buckets]
    /\ strays \subseteq Attempt
    /\ admitted \in [Clients -> SUBSET Attempt]
    /\ rejected \subseteq Clients \X (0..MaxTime)
    /\ served \in 0..MaxRequests

Init ==
    /\ now = 0
    /\ cleaned = 0
    /\ clients = [c \in Clients |-> 0]
    /\ attempts = [b \in Buckets |-> {}]
    /\ lastSeen = [b \in Buckets |-> ZeroTime]
    /\ pc = [r \in Requests |-> "idle"]
    /\ client \in [Requests -> Clients]
    /\ bucket = [r \in Requests |-> 0]
    /\ strays = {}
    /\ admitted = [c \in Clients |-> {}]
    /\ rejected = {}
    /\ served = 0

-----------------------------------------------------------------------------
\* The attempts after the cutoff.
InWindow(S) == {a \in S : now - Window < a[1]}

NoBucketYet(b) == /\ \A c \in Clients : clients[c] # b
                  /\ \A r \in Requests : bucket[r] # b
                  /\ attempts[b] = {}

\* POST /invoices of an authenticated client reaches the middleware.
Arrive(r, c) ==
    /\ pc[r] = "idle"
    /\ served < MaxRequests
    /\ served' = served + 1
    /\ pc' = [pc EXCEPT ![r] = "lookup"]
    /\ client' = [client EXCEPT ![r] = c]
    /\ UNCHANGED <<now, cleaned, clients, attempts, lastSeen, bucket, strays, admitted,
                   rejected>>

\* Allow, under the map's lock: find the client's bucket or add a new one.
LookupBucket(r) ==
    LET c == client[r]
    IN  /\ pc[r] = "lookup"
        /\ \E b \in Buckets :
              /\ IF clients[c] # 0 THEN b = clients[c] ELSE NoBucketYet(b)
              /\ \A a \in Buckets : a < b /\ clients[c] = 0 => ~NoBucketYet(a)
              /\ clients' = [clients EXCEPT ![c] = b]
              /\ bucket' = [bucket EXCEPT ![r] = b]
              /\ lastSeen' = IF clients[c] # 0 THEN lastSeen
                             ELSE [lastSeen EXCEPT ![b] = ZeroTime]
        /\ pc' = [pc EXCEPT ![r] = "admit"]
        /\ UNCHANGED <<now, cleaned, attempts, client, strays, admitted, rejected, served>>

Full(valid) == Cardinality(valid) >= Limit

\* Allow, under the bucket's lock; a refused request is answered 429.
Allow(r) ==
    LET b     == bucket[r]
        c     == client[r]
        valid == InWindow(attempts[b])
        a     == <<now, Cardinality(UNION {admitted[d] : d \in Clients}) + 1>>
    IN  /\ pc[r] = "admit"
        /\ lastSeen' = [lastSeen EXCEPT ![b] = now]
        /\ \/ /\ Full(valid)
              /\ attempts' = [attempts EXCEPT ![b] = valid]
              /\ rejected' = rejected \cup {<<c, now>>}
              /\ UNCHANGED <<admitted, strays>>
           \/ /\ ~Full(valid)
              /\ attempts' = [attempts EXCEPT ![b] = valid \cup {a}]
              /\ admitted' = [admitted EXCEPT ![c] = @ \cup {a}]
              /\ strays' = IF clients[c] = b THEN strays ELSE strays \cup {a}
              /\ UNCHANGED rejected
        /\ pc' = [pc EXCEPT ![r] = "idle"]
        /\ bucket' = [bucket EXCEPT ![r] = 0]
        /\ UNCHANGED <<now, cleaned, clients, client, served>>

\* The clients of C leave the map; a request that holds one of their buckets keeps it.
Evict(C) ==
    /\ now - cleaned >= CleanupInterval
    /\ cleaned' = now
    /\ clients' = [c \in Clients |-> IF c \in C THEN 0 ELSE clients[c]]
    /\ UNCHANGED <<now, attempts, lastSeen, pc, client, bucket, strays, admitted, rejected, served>>

\* Mutant of EvictStale: buckets unused for one interval are forgotten.
EvictStaleEarly ==
    Evict({c \in Clients : /\ clients[c] # 0
                           /\ lastSeen[clients[c]] < now - CleanupInterval})

\* The cleanup ticker fires: forget the buckets unused for two intervals.
EvictStale ==
    Evict({c \in Clients : /\ clients[c] # 0
                           /\ lastSeen[clients[c]] < now - 2 * CleanupInterval})

Tick ==
    /\ now < MaxTime
    /\ now' = now + 1
    /\ UNCHANGED <<cleaned, clients, attempts, lastSeen, pc, client, bucket, strays, admitted,
                   rejected, served>>

Next ==
    \/ \E r \in Requests : \/ \E c \in Clients : Arrive(r, c)
                           \/ LookupBucket(r)
                           \/ Allow(r)
    \/ EvictStale
    \/ Tick

Spec == Init /\ [][Next]_vars

-----------------------------------------------------------------------------
(***************************************************************************)
(* Properties                                                              *)
(***************************************************************************)

\* The attempts of client c in the window that the cleanup cannot have forgotten.
Recent(c) == {a \in InWindow(admitted[c]) : now - 2 * CleanupInterval <= a[1]}

\* No client has more than Limit invoice creations allowed in a window, or in two
\* cleanup intervals when those are shorter, however many of its requests run at
\* once; not counted are the creations of requests whose bucket the cleanup evicted
\* between their lookup and their use of it.
WithinLimit == \A c \in Clients : Cardinality(Recent(c) \ strays) <= Limit

\* No client is refused early: each refusal came when Limit of its own attempts
\* lay in the window, whatever other clients did and whatever was evicted.
NeverRefusedEarly ==
    \A j \in rejected :
        Cardinality({a \in admitted[j[1]] : j[2] - Window < a[1] /\ a[1] <= j[2]}) >= Limit

\* The limit is the configured one from both sides: concurrent requests and
\* evictions neither let a client exceed it nor have it refused early.
LimitIsExact == WithinLimit /\ NeverRefusedEarly
=============================================================================
