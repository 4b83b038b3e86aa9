---------------------- MODULE InvoiceRateLimiterProofs ----------------------
(***************************************************************************)
(* The limiter of POST /invoices for any number of clients and concurrent  *)
(* requests, any limit and any times.  No client is ever refused early,    *)
(* and none exceeds its limit in a window, as far as the cleanup lets the  *)
(* limiter remember it.                                                    *)
(***************************************************************************)
EXTENDS InvoiceRateLimiter, FiniteSetTheorems, TLAPS

Stamps == Nat \X Nat

\* Every attempt allowed so far.
All == UNION {admitted[d] : d \in Clients}

Types ==
    /\ now \in Nat
    /\ clients \in [Clients -> {0} \cup Buckets]
    /\ attempts \in [Buckets -> SUBSET Stamps]
    /\ lastSeen \in [Buckets -> Int]
    /\ pc \in [Requests -> {"idle", "lookup", "admit"}]
    /\ client \in [Requests -> Clients]
    /\ bucket \in [Requests -> {0} \cup Buckets]
    /\ admitted \in [Clients -> SUBSET Stamps]
    /\ rejected \in SUBSET (Clients \X Nat)

\* Attempts are numbered in the order they are allowed, so a new one is new.
Numbered ==
    /\ IsFiniteSet(All)
    /\ \A x \in All : x[1] <= now /\ x[2] <= Cardinality(All)
    /\ \A b \in Buckets : attempts[b] \subseteq All

\* A bucket, in the map or in a request's hands, is of one client.
Owned ==
    /\ \A r \in Requests : pc[r] = "admit" <=> bucket[r] # 0
    /\ \A c, d \in Clients : clients[c] # 0 /\ clients[c] = clients[d] => c = d
    /\ \A c \in Clients, r \in Requests :
          clients[c] # 0 /\ clients[c] = bucket[r] => client[r] = c
    /\ \A r, s \in Requests : bucket[r] # 0 /\ bucket[r] = bucket[s] => client[r] = client[s]
    /\ \A c \in Clients : clients[c] # 0 => attempts[clients[c]] \subseteq admitted[c]
    /\ \A r \in Requests : bucket[r] # 0 => attempts[bucket[r]] \subseteq admitted[client[r]]

\* A bucket holds at most Limit attempts, none after its last use.
Bounded ==
    \A b \in Buckets : /\ Cardinality(attempts[b]) <= Limit
                       /\ \A x \in attempts[b] : x[1] <= lastSeen[b]

\* The bucket of a client has every recent attempt that no request recorded in an
\* evicted bucket.
Kept ==
    \A c \in Clients :
        /\ clients[c] = 0 => Recent(c) \subseteq strays
        /\ clients[c] # 0 => Recent(c) \ strays \subseteq attempts[clients[c]]

BaseInv == Types /\ Numbered /\ Owned /\ Bounded

\* The attempt an allowed request records.
NewAttempt == <<now, Cardinality(All) + 1>>

-----------------------------------------------------------------------------
(***************************************************************************)
(* Allow, in terms of the attempts recorded so far                         *)
(***************************************************************************)

\* A request in Allow has a bucket.
LEMMA AllowHasBucket ==
    ASSUME Types, Owned, NEW r \in Requests, Allow(r)
    PROVE  bucket[r] \in Buckets /\ client[r] \in Clients
BY DEF Types, Owned, Allow

\* What a refused and an allowed request do.
LEMMA AllowCases ==
    ASSUME NEW r \in Requests, Allow(r)
    PROVE  \/ /\ Full(InWindow(attempts[bucket[r]]))
              /\ attempts' = [attempts EXCEPT ![bucket[r]] = InWindow(attempts[bucket[r]])]
              /\ rejected' = rejected \cup {<<client[r], now>>}
              /\ admitted' = admitted
           \/ /\ ~Full(InWindow(attempts[bucket[r]]))
              /\ attempts' = [attempts EXCEPT ![bucket[r]] =
                                  InWindow(attempts[bucket[r]]) \cup {NewAttempt}]
              /\ admitted' = [admitted EXCEPT ![client[r]] = @ \cup {NewAttempt}]
              /\ rejected' = rejected
BY DEF Allow, NewAttempt, All

\* The attempt recorded is a new one.
LEMMA NewAttemptIsNew ==
    ASSUME Types, Numbered
    PROVE  /\ Cardinality(All) \in Nat
           /\ NewAttempt \in Stamps
           /\ NewAttempt \notin All
           /\ NewAttempt[1] = now
           /\ NewAttempt[2] = Cardinality(All) + 1
<1>1. Cardinality(All) \in Nat
  BY FS_CardinalityType DEF Numbered
<1>2. NewAttempt \in Stamps /\ NewAttempt[1] = now /\ NewAttempt[2] = Cardinality(All) + 1
  BY <1>1 DEF NewAttempt, Stamps, Types
<1>3. NewAttempt \notin All
  BY <1>1, <1>2 DEF Numbered
<1> QED
  BY <1>1, <1>2, <1>3

\* An allowed request adds its attempt to those allowed.
LEMMA AllGrows ==
    ASSUME Types, NEW c \in Clients, NEW a,
           admitted' = [admitted EXCEPT ![c] = @ \cup {a}]
    PROVE  All' = All \cup {a}
<1>1. \A d \in Clients : admitted'[d] = IF d = c THEN admitted[d] \cup {a} ELSE admitted[d]
  BY DEF Types
<1>2. ASSUME NEW x \in All'
      PROVE  x \in All \cup {a}
  <2>1. PICK d \in Clients : x \in admitted'[d]
    BY <1>2 DEF All
  <2> QED
    BY <1>1, <2>1 DEF All
<1>3. ASSUME NEW x \in All \cup {a}
      PROVE  x \in All'
  <2>1. CASE x = a
    BY <1>1, <2>1 DEF All
  <2>2. CASE x \in All
    <3>1. PICK d \in Clients : x \in admitted[d]
      BY <2>2 DEF All
    <3> QED
      BY <1>1, <3>1 DEF All
  <2> QED
    BY <1>3, <2>1, <2>2
<1> QED
  BY <1>2, <1>3

-----------------------------------------------------------------------------
(***************************************************************************)
(* The base invariant                                                      *)
(***************************************************************************)

LEMMA InitBase == Init => BaseInv
<1> SUFFICES ASSUME Init
             PROVE  BaseInv
  OBVIOUS
<1>1. Types
  BY LimiterAssumption DEF Init, Types, Stamps, ZeroTime
<1>2. All = {}
  BY DEF Init, All
<1>3. IsFiniteSet(All) /\ \A b \in Buckets : Cardinality(attempts[b]) = 0
  BY <1>2, FS_EmptySet DEF Init
<1>4. Numbered
  BY <1>2, <1>3 DEF Init, Numbered
<1>5. Owned
  BY DEF Init, Owned
<1>6. Bounded
  BY <1>3, LimiterAssumption DEF Init, Bounded
<1> QED
  BY <1>1, <1>4, <1>5, <1>6 DEF BaseInv

LEMMA TypesStep ==
    ASSUME BaseInv, [Next]_vars
    PROVE  Types'
<1> USE DEF BaseInv
<1>1. CASE UNCHANGED vars
  BY <1>1 DEF vars, Types
<1>2. ASSUME NEW r \in Requests, NEW c \in Clients, Arrive(r, c)
      PROVE  Types'
  BY <1>2 DEF Arrive, Types
<1>3. ASSUME NEW r \in Requests, LookupBucket(r)
      PROVE  Types'
  <2>1. ZeroTime \in Int
    BY LimiterAssumption DEF ZeroTime
  <2> QED
    BY <1>3, <2>1 DEF LookupBucket, Types
<1>4. ASSUME NEW r \in Requests, Allow(r)
      PROVE  Types'
  <2>1. bucket[r] \in Buckets /\ client[r] \in Clients
    BY <1>4, AllowHasBucket
  <2>2. InWindow(attempts[bucket[r]]) \in SUBSET Stamps
    BY <2>1 DEF Types, InWindow
  <2>3. NewAttempt \in Stamps
    BY NewAttemptIsNew
  <2>4. /\ attempts' \in [Buckets -> SUBSET Stamps]
        /\ admitted' \in [Clients -> SUBSET Stamps]
        /\ rejected' \in SUBSET (Clients \X Nat)
    <3>1. attempts \in [Buckets -> SUBSET Stamps] /\ admitted \in [Clients -> SUBSET Stamps]
      BY DEF Types
    <3>2. rejected \in SUBSET (Clients \X Nat) /\ <<client[r], now>> \in Clients \X Nat
      BY <2>1 DEF Types
    <3>3. admitted[client[r]] \cup {NewAttempt} \in SUBSET Stamps
      BY <2>1, <2>3, <3>1
    <3>4. InWindow(attempts[bucket[r]]) \cup {NewAttempt} \in SUBSET Stamps
      BY <2>2, <2>3
    <3> QED
      BY <1>4, <2>1, <2>2, <3>1, <3>2, <3>3, <3>4, AllowCases
  <2>5. lastSeen' \in [Buckets -> Int]
    <3>1. lastSeen' = [lastSeen EXCEPT ![bucket[r]] = now]
      BY <1>4 DEF Allow
    <3>2. lastSeen \in [Buckets -> Int] /\ now \in Int
      BY DEF Types
    <3> QED
      BY <3>1, <3>2
  <2>6. bucket' \in [Requests -> {0} \cup Buckets] /\ pc' \in [Requests -> {"idle", "lookup", "admit"}]
    BY <1>4 DEF Allow, Types
  <2>7. now' \in Nat /\ clients' \in [Clients -> {0} \cup Buckets] /\ client' \in [Requests -> Clients]
    BY <1>4 DEF Allow, Types
  <2> QED
    BY <2>4, <2>5, <2>6, <2>7 DEF Types
<1>5. ASSUME EvictStale
      PROVE  Types'
  BY <1>5 DEF EvictStale, Evict, Types
<1>6. ASSUME Tick
      PROVE  Types'
  BY <1>6 DEF Tick, Types
<1> QED
  BY <1>1, <1>2, <1>3, <1>4, <1>5, <1>6 DEF Next

\* A step that records no attempt leaves Numbered true as time goes on.
LEMMA NumberedKept ==
    ASSUME Types, Numbered, now' \in Nat, now <= now', admitted' = admitted,
           \A b \in Buckets : attempts'[b] \subseteq attempts[b]
    PROVE  Numbered'
<1>1. All' = All /\ All \subseteq Stamps
  BY DEF All, Types
<1>2. \A x \in All : x[1] <= now'
  BY <1>1 DEF Numbered, Types, Stamps
<1> QED
  BY <1>1, <1>2 DEF Numbered

LEMMA NumberedStep ==
    ASSUME BaseInv, [Next]_vars
    PROVE  Numbered'
<1> USE DEF BaseInv
<1>1. CASE UNCHANGED vars
  BY <1>1, NumberedKept DEF vars, Types
<1>2. ASSUME NEW r \in Requests, NEW c \in Clients, Arrive(r, c)
      PROVE  Numbered'
  BY <1>2, NumberedKept DEF Arrive, Types
<1>3. ASSUME NEW r \in Requests, LookupBucket(r)
      PROVE  Numbered'
  BY <1>3, NumberedKept DEF LookupBucket, Types
<1>4. ASSUME NEW r \in Requests, Allow(r)
      PROVE  Numbered'
  <2>1. bucket[r] \in Buckets /\ client[r] \in Clients /\ now' = now /\ now \in Nat
    BY <1>4, AllowHasBucket DEF Allow, Types
  <2>2. InWindow(attempts[bucket[r]]) \subseteq attempts[bucket[r]]
    BY DEF InWindow
  <2>3. CASE admitted' = admitted /\ attempts' = [attempts EXCEPT ![bucket[r]] = InWindow(attempts[bucket[r]])]
    <3>1. \A b \in Buckets : attempts'[b] \subseteq attempts[b]
      BY <2>1, <2>2, <2>3 DEF Types
    <3> QED
      BY <2>1, <2>3, <3>1, NumberedKept
  <2>4. CASE /\ attempts' = [attempts EXCEPT ![bucket[r]] =
                                  InWindow(attempts[bucket[r]]) \cup {NewAttempt}]
             /\ admitted' = [admitted EXCEPT ![client[r]] = @ \cup {NewAttempt}]
    <3>1. All' = All \cup {NewAttempt}
      BY <2>1, <2>4, AllGrows
    <3>2. IsFiniteSet(All') /\ Cardinality(All') = Cardinality(All) + 1
      BY <3>1, NewAttemptIsNew, FS_AddElement DEF Numbered
    <3>3. \A b \in Buckets : attempts'[b] \subseteq attempts[b] \cup {NewAttempt}
      BY <2>1, <2>2, <2>4 DEF Types
    <3>4. \A b \in Buckets : attempts'[b] \subseteq All'
      BY <3>1, <3>3 DEF Numbered
    <3>5. ASSUME NEW x \in All'
          PROVE  x[1] <= now' /\ x[2] <= Cardinality(All')
      <4>1. CASE x = NewAttempt
        BY <2>1, <3>2, <4>1, NewAttemptIsNew
      <4>2. CASE x \in All
        <5>1. x \in Stamps
          BY <4>2 DEF All, Types
        <5>2. x[1] <= now /\ x[2] <= Cardinality(All) /\ x[2] \in Nat
          BY <4>2, <5>1 DEF Numbered, Stamps
        <5> QED
          BY <2>1, <3>2, <5>2, NewAttemptIsNew
      <4> QED
        BY <3>1, <3>5, <4>1, <4>2
    <3> QED
      BY <3>2, <3>4, <3>5 DEF Numbered
  <2> QED
    BY <1>4, <2>3, <2>4, AllowCases
<1>5. ASSUME EvictStale
      PROVE  Numbered'
  BY <1>5, NumberedKept DEF EvictStale, Evict, Types
<1>6. ASSUME Tick
      PROVE  Numbered'
  BY <1>6, NumberedKept DEF Tick, Types
<1> QED
  BY <1>1, <1>2, <1>3, <1>4, <1>5, <1>6 DEF Next

\* What an allowed or refused request leaves in the buckets and the record.
LEMMA AllowGrows ==
    ASSUME Types, Owned, NEW r \in Requests, Allow(r)
    PROVE  /\ \A b \in Buckets : b # bucket[r] => attempts'[b] = attempts[b]
           /\ \A d \in Clients : d # client[r] => admitted'[d] = admitted[d]
           /\ \A d \in Clients : admitted[d] \subseteq admitted'[d]
           /\ attempts'[bucket[r]] \subseteq attempts[bucket[r]] \cup admitted'[client[r]]
           /\ admitted'[client[r]] \subseteq admitted[client[r]] \cup attempts'[bucket[r]]
           /\ InWindow(attempts[bucket[r]]) \subseteq attempts'[bucket[r]]
<1>1. bucket[r] \in Buckets /\ client[r] \in Clients
  BY AllowHasBucket
<1>2. InWindow(attempts[bucket[r]]) \subseteq attempts[bucket[r]]
  BY DEF InWindow
<1>3. attempts \in [Buckets -> SUBSET Stamps] /\ admitted \in [Clients -> SUBSET Stamps]
  BY DEF Types
<1>4. CASE admitted' = admitted /\ attempts' = [attempts EXCEPT ![bucket[r]] = InWindow(attempts[bucket[r]])]
  BY <1>1, <1>2, <1>3, <1>4
<1>5. CASE /\ attempts' = [attempts EXCEPT ![bucket[r]] =
                                InWindow(attempts[bucket[r]]) \cup {NewAttempt}]
           /\ admitted' = [admitted EXCEPT ![client[r]] = @ \cup {NewAttempt}]
  <2>1. attempts'[bucket[r]] = InWindow(attempts[bucket[r]]) \cup {NewAttempt}
    BY <1>1, <1>3, <1>5
  <2>2. admitted'[client[r]] = admitted[client[r]] \cup {NewAttempt}
    BY <1>1, <1>3, <1>5
  <2> QED
    BY <1>1, <1>2, <1>3, <1>5, <2>1, <2>2
<1> QED
  BY <1>4, <1>5, AllowCases

LEMMA OwnedStep ==
    ASSUME BaseInv, [Next]_vars
    PROVE  Owned'
<1> USE DEF BaseInv
<1>1. CASE UNCHANGED vars
  BY <1>1 DEF vars, Owned
<1>2. ASSUME NEW r \in Requests, NEW c \in Clients, Arrive(r, c)
      PROVE  Owned'
  BY <1>2 DEF Arrive, Owned, Types
<1>3. ASSUME NEW r \in Requests, LookupBucket(r)
      PROVE  Owned'
  <2>1. PICK b \in Buckets :
           /\ clients[client[r]] # 0 => b = clients[client[r]]
           /\ clients[client[r]] = 0 => NoBucketYet(b)
           /\ clients' = [clients EXCEPT ![client[r]] = b]
           /\ bucket' = [bucket EXCEPT ![r] = b]
    BY <1>3 DEF LookupBucket
  <2>2. b # 0
    BY LimiterAssumption DEF Buckets
  <2>3. /\ pc' = [pc EXCEPT ![r] = "admit"]
        /\ attempts' = attempts /\ client' = client /\ admitted' = admitted
    BY <1>3 DEF LookupBucket
  <2>4. client[r] \in Clients /\ pc[r] = "lookup" /\ bucket[r] = 0
    BY <1>3 DEF LookupBucket, Types, Owned
  <2>5. /\ bucket'[r] = b /\ \A s \in Requests : s # r => bucket'[s] = bucket[s]
        /\ pc'[r] = "admit" /\ \A s \in Requests : s # r => pc'[s] = pc[s]
    <3>1. bucket \in [Requests -> {0} \cup Buckets] /\ bucket' = [bucket EXCEPT ![r] = b]
      BY <2>1 DEF Types
    <3>2. DOMAIN pc = Requests /\ pc' = [pc EXCEPT ![r] = "admit"]
      BY <2>3 DEF Types
    <3>3. bucket'[r] = b /\ \A s \in Requests : s # r => bucket'[s] = bucket[s]
      BY <3>1
    <3>4. pc'[r] = "admit" /\ \A s \in Requests : s # r => pc'[s] = pc[s]
      BY <3>2
    <3> QED
      BY <3>3, <3>4
  <2>6. \A d \in Clients : clients'[d] = IF d = client[r] THEN b ELSE clients[d]
    BY <2>1, <2>4 DEF Types
  <2>7. \A s \in Requests : pc'[s] = "admit" <=> bucket'[s] # 0
    BY <2>2, <2>5 DEF Owned
  <2>8. CASE clients[client[r]] # 0
    <3>1. b = clients[client[r]]
      BY <2>1, <2>8
    <3>2. \A c, d \in Clients : clients'[c] # 0 /\ clients'[c] = clients'[d] => c = d
      BY <2>6, <2>8, <3>1 DEF Owned
    <3>3. \A c \in Clients, s \in Requests :
             clients'[c] # 0 /\ clients'[c] = bucket'[s] => client[s] = c
      BY <2>2, <2>4, <2>5, <2>6, <2>8, <3>1 DEF Owned
    <3>4. \A t, s \in Requests : bucket'[t] # 0 /\ bucket'[t] = bucket'[s] => client[t] = client[s]
      BY <2>2, <2>4, <2>5, <2>8, <3>1 DEF Owned
    <3>5. \A c \in Clients : clients'[c] # 0 => attempts[clients'[c]] \subseteq admitted[c]
      BY <2>2, <2>4, <2>6, <2>8, <3>1 DEF Owned
    <3>6. \A s \in Requests : bucket'[s] # 0 => attempts[bucket'[s]] \subseteq admitted[client[s]]
      BY <2>2, <2>4, <2>5, <2>8, <3>1 DEF Owned
    <3> QED
      BY <2>3, <2>7, <3>2, <3>3, <3>4, <3>5, <3>6 DEF Owned
  <2>9. CASE clients[client[r]] = 0
    <3>1. /\ \A d \in Clients : clients[d] # b
          /\ \A s \in Requests : bucket[s] # b
          /\ attempts[b] = {}
      BY <2>1, <2>9 DEF NoBucketYet
    <3>2. \A c, d \in Clients : clients'[c] # 0 /\ clients'[c] = clients'[d] => c = d
      BY <2>6, <2>9, <3>1 DEF Owned
    <3>3. \A c \in Clients, s \in Requests :
             clients'[c] # 0 /\ clients'[c] = bucket'[s] => client[s] = c
      BY <2>2, <2>4, <2>5, <2>6, <2>9, <3>1 DEF Owned
    <3>4. \A t, s \in Requests : bucket'[t] # 0 /\ bucket'[t] = bucket'[s] => client[t] = client[s]
      BY <2>2, <2>4, <2>5, <2>9, <3>1 DEF Owned
    <3>5. \A c \in Clients : clients'[c] # 0 => attempts[clients'[c]] \subseteq admitted[c]
      BY <2>2, <2>4, <2>6, <2>9, <3>1 DEF Owned
    <3>6. \A s \in Requests : bucket'[s] # 0 => attempts[bucket'[s]] \subseteq admitted[client[s]]
      BY <2>2, <2>4, <2>5, <2>9, <3>1 DEF Owned
    <3> QED
      BY <2>3, <2>7, <3>2, <3>3, <3>4, <3>5, <3>6 DEF Owned
  <2> QED
    BY <2>8, <2>9
<1>4. ASSUME NEW r \in Requests, Allow(r)
      PROVE  Owned'
  <2>1. bucket[r] \in Buckets /\ client[r] \in Clients /\ bucket[r] # 0
    BY <1>4, AllowHasBucket DEF Owned, Allow
  <2>2. /\ bucket'[r] = 0 /\ \A s \in Requests : s # r => bucket'[s] = bucket[s]
        /\ pc'[r] = "idle" /\ \A s \in Requests : s # r => pc'[s] = pc[s]
    <3>1. DOMAIN bucket = Requests /\ bucket' = [bucket EXCEPT ![r] = 0]
      BY <1>4 DEF Allow, Types
    <3>2. DOMAIN pc = Requests /\ pc' = [pc EXCEPT ![r] = "idle"]
      BY <1>4 DEF Allow, Types
    <3> QED
      BY <3>1, <3>2
  <2>3. clients' = clients /\ client' = client
    BY <1>4 DEF Allow
  <2>4. attempts'[bucket[r]] \subseteq admitted'[client[r]]
    BY <1>4, <2>1, AllowGrows DEF Owned
  <2>5. ASSUME NEW d \in Clients, clients[d] # 0
        PROVE  attempts'[clients[d]] \subseteq admitted'[d]
    <3>1. clients[d] \in Buckets
      BY <2>5 DEF Types
    <3>2. CASE clients[d] = bucket[r]
      BY <2>1, <2>4, <2>5, <3>2 DEF Owned
    <3>3. CASE clients[d] # bucket[r]
      BY <1>4, <2>5, <3>1, <3>3, AllowGrows DEF Owned
    <3> QED
      BY <3>2, <3>3
  <2>6. ASSUME NEW s \in Requests, bucket[s] # 0
        PROVE  attempts'[bucket[s]] \subseteq admitted'[client[s]]
    <3>1. bucket[s] \in Buckets /\ client[s] \in Clients
      BY <2>6 DEF Types
    <3>2. CASE bucket[s] = bucket[r]
      BY <2>1, <2>4, <2>6, <3>2 DEF Owned
    <3>3. CASE bucket[s] # bucket[r]
      BY <1>4, <2>6, <3>1, <3>3, AllowGrows DEF Owned
    <3> QED
      BY <3>2, <3>3
  <2>7. \A s \in Requests : pc'[s] = "admit" <=> bucket'[s] # 0
    BY <2>2 DEF Owned
  <2>8. /\ \A c \in Clients, s \in Requests :
             clients[c] # 0 /\ clients[c] = bucket'[s] => client[s] = c
        /\ \A t, s \in Requests : bucket'[t] # 0 /\ bucket'[t] = bucket'[s] => client[t] = client[s]
    BY <2>2 DEF Owned
  <2>9. \A s \in Requests : bucket'[s] # 0 => attempts'[bucket'[s]] \subseteq admitted'[client[s]]
    BY <2>2, <2>6
  <2> QED
    BY <2>3, <2>5, <2>7, <2>8, <2>9 DEF Owned
<1>5. ASSUME EvictStale
      PROVE  Owned'
  BY <1>5 DEF EvictStale, Evict, Owned
<1>6. ASSUME Tick
      PROVE  Owned'
  BY <1>6 DEF Tick, Owned
<1> QED
  BY <1>1, <1>2, <1>3, <1>4, <1>5, <1>6 DEF Next

\* A bucket's attempts are finite in number.
LEMMA BucketFinite ==
    ASSUME Numbered, NEW b \in Buckets
    PROVE  /\ IsFiniteSet(attempts[b])
           /\ IsFiniteSet(InWindow(attempts[b]))
           /\ Cardinality(InWindow(attempts[b])) \in Nat
           /\ Cardinality(InWindow(attempts[b])) <= Cardinality(attempts[b])
<1>1. IsFiniteSet(attempts[b])
  BY FS_Subset DEF Numbered
<1>2. InWindow(attempts[b]) \subseteq attempts[b]
  BY DEF InWindow
<1> QED
  BY <1>1, <1>2, FS_Subset, FS_CardinalityType

LEMMA BoundedStep ==
    ASSUME BaseInv, Numbered', [Next]_vars
    PROVE  Bounded'
<1> USE DEF BaseInv
<1>1. CASE UNCHANGED vars
  BY <1>1 DEF vars, Bounded
<1>2. ASSUME NEW r \in Requests, NEW c \in Clients, Arrive(r, c)
      PROVE  Bounded'
  BY <1>2 DEF Arrive, Bounded
<1>3. ASSUME NEW r \in Requests, LookupBucket(r)
      PROVE  Bounded'
  <2>1. attempts' = attempts
    BY <1>3 DEF LookupBucket
  <2>2. PICK b \in Buckets :
           /\ clients[client[r]] = 0 => NoBucketYet(b)
           /\ lastSeen' = IF clients[client[r]] # 0 THEN lastSeen
                          ELSE [lastSeen EXCEPT ![b] = ZeroTime]
    BY <1>3 DEF LookupBucket
  <2>3. CASE clients[client[r]] # 0
    BY <2>1, <2>2, <2>3 DEF Bounded
  <2>4. CASE clients[client[r]] = 0
    <3>1. attempts[b] = {}
      BY <2>2, <2>4 DEF NoBucketYet
    <3>2. \A d \in Buckets : d # b => lastSeen'[d] = lastSeen[d]
      BY <2>2, <2>4 DEF Types
    <3> QED
      BY <2>1, <3>1, <3>2 DEF Bounded
  <2> QED
    BY <2>3, <2>4
<1>4. ASSUME NEW r \in Requests, Allow(r)
      PROVE  Bounded'
  <2>1. bucket[r] \in Buckets /\ client[r] \in Clients /\ now' = now
    BY <1>4, AllowHasBucket DEF Allow
  <2>2. lastSeen' = [lastSeen EXCEPT ![bucket[r]] = now]
    BY <1>4 DEF Allow
  <2>3. /\ lastSeen'[bucket[r]] = now
        /\ \A d \in Buckets : d # bucket[r] => lastSeen'[d] = lastSeen[d]
    BY <2>1, <2>2 DEF Types
  <2>4. \A x \in attempts'[bucket[r]] : x[1] <= now
    BY <2>1 DEF Numbered
  <2>5. Cardinality(attempts'[bucket[r]]) <= Limit
    <3> DEFINE v == InWindow(attempts[bucket[r]])
    <3>1. IsFiniteSet(v) /\ Cardinality(v) \in Nat /\ Cardinality(v) <= Cardinality(attempts[bucket[r]])
      BY <2>1, BucketFinite
    <3>2. Cardinality(attempts[bucket[r]]) <= Limit /\ Cardinality(attempts[bucket[r]]) \in Nat
      BY <2>1, BucketFinite, FS_CardinalityType DEF Bounded
    <3>3. CASE attempts' = [attempts EXCEPT ![bucket[r]] = v]
      <4>1. attempts'[bucket[r]] = v
        BY <2>1, <3>3 DEF Types
      <4> QED
        BY <3>1, <3>2, <4>1, LimiterAssumption
    <3>4. CASE ~Full(v) /\ attempts' = [attempts EXCEPT ![bucket[r]] = v \cup {NewAttempt}]
      <4>1. attempts'[bucket[r]] = v \cup {NewAttempt}
        BY <2>1, <3>4 DEF Types
      <4>2. NewAttempt \notin v
        BY <2>1, NewAttemptIsNew DEF InWindow, Numbered
      <4>3. Cardinality(v \cup {NewAttempt}) = Cardinality(v) + 1
        BY <3>1, <4>2, FS_AddElement
      <4>4. Cardinality(v) + 1 <= Limit
        <5>1. ~(Cardinality(v) >= Limit)
          BY <3>4 DEF Full
        <5>2. Cardinality(v) \in Nat /\ Limit \in Nat
          BY <3>1, LimiterAssumption
        <5> QED
          BY <5>1, <5>2
      <4> QED
        BY <4>1, <4>3, <4>4
    <3> QED
      BY <1>4, <3>3, <3>4, AllowCases
  <2>6. \A d \in Buckets : d # bucket[r] => attempts'[d] = attempts[d]
    BY <1>4, AllowGrows
  <2> QED
    BY <2>3, <2>4, <2>5, <2>6 DEF Bounded
<1>5. ASSUME EvictStale
      PROVE  Bounded'
  BY <1>5 DEF EvictStale, Evict, Bounded
<1>6. ASSUME Tick
      PROVE  Bounded'
  BY <1>6 DEF Tick, Bounded
<1> QED
  BY <1>1, <1>2, <1>3, <1>4, <1>5, <1>6 DEF Next

LEMMA BaseStep ==
    ASSUME BaseInv, [Next]_vars
    PROVE  BaseInv'
BY TypesStep, NumberedStep, OwnedStep, BoundedStep DEF BaseInv

-----------------------------------------------------------------------------
(***************************************************************************)
(* No client is refused early                                              *)
(***************************************************************************)

\* The attempts of client c that lay in the window at tick t.
CountedAt(c, t) == {a \in admitted[c] : t - Window < a[1] /\ a[1] <= t}

LEMMA CountedFinite ==
    ASSUME Types, Numbered, NEW c \in Clients, NEW t
    PROVE  IsFiniteSet(CountedAt(c, t)) /\ Cardinality(CountedAt(c, t)) \in Nat
<1>1. CountedAt(c, t) \subseteq All
  BY DEF CountedAt, All
<1> QED
  BY <1>1, FS_Subset, FS_CardinalityType DEF Numbered

\* As attempts are only added to the record, an earlier refusal stays justified.
LEMMA RefusalsStay ==
    ASSUME Types, Numbered, Types', Numbered', NeverRefusedEarly,
           \A d \in Clients : admitted[d] \subseteq admitted'[d],
           NEW j \in rejected
    PROVE  Cardinality(CountedAt(j[1], j[2])') >= Limit
<1>1. j[1] \in Clients
  BY DEF Types
<1>2. CountedAt(j[1], j[2]) \subseteq CountedAt(j[1], j[2])'
  BY <1>1 DEF CountedAt
<1>3. /\ IsFiniteSet(CountedAt(j[1], j[2])')
      /\ Cardinality(CountedAt(j[1], j[2])') \in Nat
  <2>1. CountedAt(j[1], j[2])' \subseteq All'
    BY <1>1 DEF CountedAt, All
  <2> QED
    BY <2>1, FS_Subset, FS_CardinalityType DEF Numbered
<1>4. Cardinality(CountedAt(j[1], j[2])) <= Cardinality(CountedAt(j[1], j[2])')
  BY <1>2, <1>3, FS_Subset
<1>5. Cardinality(CountedAt(j[1], j[2])) \in Nat
  BY <1>1, CountedFinite
<1>6. Cardinality(CountedAt(j[1], j[2])) >= Limit
  BY DEF NeverRefusedEarly, CountedAt
<1> QED
  BY <1>3, <1>4, <1>5, <1>6, LimiterAssumption

LEMMA RefusedStep ==
    ASSUME BaseInv, BaseInv', NeverRefusedEarly, [Next]_vars
    PROVE  NeverRefusedEarly'
<1> USE DEF BaseInv
<1>1. ASSUME admitted' = admitted, rejected' = rejected
      PROVE  NeverRefusedEarly'
  BY <1>1 DEF NeverRefusedEarly
<1>2. ASSUME NEW r \in Requests, Allow(r)
      PROVE  NeverRefusedEarly'
  <2>1. bucket[r] \in Buckets /\ client[r] \in Clients /\ bucket[r] # 0 /\ now \in Nat
    BY <1>2, AllowHasBucket DEF Allow, Owned, Types
  <2>2. \A d \in Clients : admitted[d] \subseteq admitted'[d]
    BY <1>2, AllowGrows
  <2>3. \A j \in rejected : Cardinality(CountedAt(j[1], j[2])') >= Limit
    BY <2>2, RefusalsStay
  <2>4. CASE rejected' = rejected
    BY <2>3, <2>4 DEF NeverRefusedEarly, CountedAt
  <2>5. CASE /\ Full(InWindow(attempts[bucket[r]]))
             /\ rejected' = rejected \cup {<<client[r], now>>}
             /\ admitted' = admitted
    <3> DEFINE v == InWindow(attempts[bucket[r]])
    <3>1. v \subseteq CountedAt(client[r], now)
      <4>1. attempts[bucket[r]] \subseteq admitted[client[r]]
        BY <2>1 DEF Owned
      <4>2. \A x \in attempts[bucket[r]] : x[1] <= now
        BY <2>1 DEF Numbered
      <4> QED
        BY <4>1, <4>2 DEF CountedAt, InWindow
    <3>2. IsFiniteSet(CountedAt(client[r], now)) /\ Cardinality(CountedAt(client[r], now)) \in Nat
      BY <2>1, CountedFinite
    <3>3. Cardinality(v) <= Cardinality(CountedAt(client[r], now)) /\ Cardinality(v) \in Nat
      BY <3>1, <3>2, FS_Subset, FS_CardinalityType
    <3>4. Cardinality(v) >= Limit
      BY <2>5 DEF Full
    <3>5. Cardinality(CountedAt(client[r], now)) >= Limit
      BY <3>2, <3>3, <3>4, LimiterAssumption
    <3>6. \A j \in rejected' : Cardinality(CountedAt(j[1], j[2])) >= Limit
      BY <2>5, <3>5 DEF NeverRefusedEarly, CountedAt
    <3> QED
      BY <2>5, <3>6 DEF NeverRefusedEarly, CountedAt
  <2> QED
    BY <1>2, <2>4, <2>5, AllowCases
<1>3. CASE UNCHANGED vars
  BY <1>1, <1>3 DEF vars
<1>4. ASSUME NEW r \in Requests, NEW c \in Clients, Arrive(r, c)
      PROVE  NeverRefusedEarly'
  BY <1>1, <1>4 DEF Arrive
<1>5. ASSUME NEW r \in Requests, LookupBucket(r)
      PROVE  NeverRefusedEarly'
  BY <1>1, <1>5 DEF LookupBucket
<1>6. ASSUME EvictStale
      PROVE  NeverRefusedEarly'
  BY <1>1, <1>6 DEF EvictStale, Evict
<1>7. ASSUME Tick
      PROVE  NeverRefusedEarly'
  BY <1>1, <1>7 DEF Tick
<1> QED
  BY <1>2, <1>3, <1>4, <1>5, <1>6, <1>7 DEF Next

\* Whatever the limit, the window and the cleanup interval, however many of a
\* client's requests are in the limiter at once and whatever the cleanup evicts,
\* a 429 is answered only to a client with Limit invoices of its own allowed in
\* the window (Allow, invoice_rate_limiter.go:78-108).
THEOREM NotRefusedEarly == Spec => []NeverRefusedEarly
<1>1. Init => BaseInv /\ NeverRefusedEarly
  <2>1. Init => NeverRefusedEarly
    BY DEF Init, NeverRefusedEarly
  <2> QED
    BY <2>1, InitBase
<1>2. BaseInv /\ NeverRefusedEarly /\ [Next]_vars => (BaseInv /\ NeverRefusedEarly)'
  BY BaseStep, RefusedStep
<1> QED
  BY <1>1, <1>2, PTL DEF Spec

-----------------------------------------------------------------------------
(***************************************************************************)
(* No client exceeds its limit                                             *)
(***************************************************************************)

LEMMA KeptStep ==
    ASSUME BaseInv, BaseInv', Kept, [Next]_vars
    PROVE  Kept'
<1> USE DEF BaseInv
<1>0. ASSUME UNCHANGED <<now, admitted>>
      PROVE  \A c \in Clients : Recent(c)' = Recent(c)
  BY <1>0 DEF Recent, InWindow
<1>1. ASSUME UNCHANGED <<now, admitted, strays, clients, attempts>>
      PROVE  Kept'
  BY <1>0, <1>1 DEF Kept
<1>2. ASSUME NEW r \in Requests, NEW c \in Clients, Arrive(r, c)
      PROVE  Kept'
  BY <1>1, <1>2 DEF Arrive
<1>3. ASSUME NEW r \in Requests, LookupBucket(r)
      PROVE  Kept'
  <2>1. PICK b \in Buckets :
           /\ clients[client[r]] # 0 => b = clients[client[r]]
           /\ clients' = [clients EXCEPT ![client[r]] = b]
    BY <1>3 DEF LookupBucket
  <2>2. UNCHANGED <<now, admitted, strays, attempts>>
    BY <1>3 DEF LookupBucket
  <2>3. client[r] \in Clients /\ b # 0
    BY LimiterAssumption DEF Types, Buckets
  <2>4. clients'[client[r]] = b /\ \A d \in Clients : d # client[r] => clients'[d] = clients[d]
    BY <2>1, <2>3 DEF Types
  <2>5. ASSUME NEW d \in Clients
        PROVE  /\ clients'[d] = 0 => Recent(d) \subseteq strays
               /\ clients'[d] # 0 => Recent(d) \ strays \subseteq attempts[clients'[d]]
    <3>1. CASE d = client[r] /\ clients[d] = 0
      BY <2>3, <2>4, <3>1 DEF Kept
    <3>2. CASE d # client[r] \/ clients[d] # 0
      <4>1. clients'[d] = clients[d]
        BY <2>1, <2>4, <3>2
      <4> QED
        BY <4>1 DEF Kept
    <3> QED
      BY <3>1, <3>2
  <2> QED
    BY <1>0, <2>2, <2>5 DEF Kept
<1>4. ASSUME NEW r \in Requests, Allow(r)
      PROVE  Kept'
  <2>0. PICK b \in Buckets, c \in Clients : b = bucket[r] /\ c = client[r]
    BY <1>4, AllowHasBucket
  <2>1. b \in Buckets /\ c \in Clients /\ b # 0
    BY <1>4, <2>0 DEF Owned, Allow
  <2>2. clients' = clients /\ now' = now /\ now \in Nat
    BY <1>4 DEF Allow, Types
  <2>3. strays \subseteq strays'
    BY <1>4 DEF Allow
  <2>4. InWindow(attempts[b]) \subseteq attempts'[b]
    BY <1>4, <2>0, AllowGrows
  <2>5. \/ admitted'[c] = admitted[c]
        \/ /\ admitted'[c] = admitted[c] \cup {NewAttempt}
           /\ NewAttempt \in attempts'[b]
           /\ clients[c] # b => NewAttempt \in strays'
    <3>1. CASE admitted' = admitted
      BY <3>1
    <3>2. CASE /\ attempts' = [attempts EXCEPT ![b] = InWindow(attempts[b]) \cup {NewAttempt}]
               /\ admitted' = [admitted EXCEPT ![c] = @ \cup {NewAttempt}]
               /\ strays' = IF clients[c] = b THEN strays ELSE strays \cup {NewAttempt}
      BY <2>1, <3>2 DEF Types
    <3> QED
      BY <1>4, <2>0, <3>1, <3>2 DEF Allow, NewAttempt, All
  <2>6. ASSUME NEW d \in Clients
        PROVE  /\ clients'[d] = 0 => Recent(d)' \subseteq strays'
               /\ clients'[d] # 0 => Recent(d)' \ strays' \subseteq attempts'[clients'[d]]
    <3>1. CASE d # c
      <4>1. Recent(d)' = Recent(d)
        <5>1. admitted'[d] = admitted[d]
          BY <1>4, <3>1, <2>0, AllowGrows
        <5> QED
          BY <2>2, <5>1 DEF Recent, InWindow
      <4>2. clients[d] # 0 => clients[d] \in Buckets /\ clients[d] # b
        BY <2>0, <2>1, <3>1 DEF Owned, Types
      <4>3. clients[d] # 0 => attempts'[clients[d]] = attempts[clients[d]]
        BY <1>4, <4>2, <2>0, AllowGrows
      <4> QED
        BY <2>2, <2>3, <4>1, <4>3 DEF Kept
    <3>2. CASE d = c
      <4>1. Recent(c)' \subseteq Recent(c) \cup (admitted'[c] \ admitted[c])
        BY <2>2 DEF Recent, InWindow
      <4>2. \A x \in Recent(c) : x \in InWindow(admitted[c])
        BY DEF Recent
      <4>3. CASE clients[c] = b
        <5>1. Recent(c) \ strays \subseteq InWindow(attempts[b])
          BY <2>1, <4>2, <4>3 DEF Kept, InWindow
        <5> QED
          BY <2>1, <2>2, <2>3, <2>4, <2>5, <3>2, <4>1, <4>3, <5>1
      <4>4. CASE clients[c] # b
        <5>1. Recent(c)' \ strays' \subseteq Recent(c) \ strays
          BY <2>3, <2>5, <4>1, <4>4
        <5>2. clients[c] # 0 => attempts'[clients[c]] = attempts[clients[c]]
          <6>1. clients[c] # 0 => clients[c] \in Buckets
            BY <2>1 DEF Types
          <6> QED
            BY <1>4, <4>4, <6>1, <2>0, AllowGrows
        <5> QED
          BY <2>1, <2>2, <3>2, <5>1, <5>2 DEF Kept
      <4> QED
        BY <4>3, <4>4
    <3> QED
      BY <3>1, <3>2
  <2> QED
    BY <2>6 DEF Kept
<1>5. ASSUME EvictStale
      PROVE  Kept'
  <2> DEFINE C == {c \in Clients : /\ clients[c] # 0
                                   /\ lastSeen[clients[c]] < now - 2 * CleanupInterval}
  <2>1. /\ clients' = [c \in Clients |-> IF c \in C THEN 0 ELSE clients[c]]
        /\ UNCHANGED <<now, admitted, strays, attempts>>
    BY <1>5 DEF EvictStale, Evict
  <2>2. ASSUME NEW c \in C
        PROVE  Recent(c) \subseteq strays
    <3>1. c \in Clients /\ clients[c] \in Buckets /\ clients[c] # 0
      BY DEF Types
    <3>2. ASSUME NEW x \in Recent(c), x \notin strays
          PROVE  FALSE
      <4>1. x \in attempts[clients[c]] /\ now - 2 * CleanupInterval <= x[1]
        BY <3>1, <3>2 DEF Kept, Recent
      <4>2. x[1] <= lastSeen[clients[c]] /\ x \in Stamps
        BY <3>1, <4>1 DEF Bounded, Types
      <4>3. x[1] \in Nat /\ lastSeen[clients[c]] \in Int /\ now \in Nat
        BY <3>1, <4>2 DEF Types, Stamps
      <4>4. lastSeen[clients[c]] < now - 2 * CleanupInterval
        OBVIOUS
      <4> QED
        BY <4>1, <4>2, <4>3, <4>4, LimiterAssumption
    <3> QED
      BY <3>2
  <2>3. ASSUME NEW c \in Clients
        PROVE  /\ clients'[c] = 0 => Recent(c) \subseteq strays
               /\ clients'[c] # 0 => Recent(c) \ strays \subseteq attempts[clients'[c]]
    <3>1. CASE c \in C
      BY <2>1, <2>2, <3>1
    <3>2. CASE c \notin C
      <4>1. clients'[c] = clients[c]
        BY <2>1, <3>2
      <4> QED
        BY <4>1 DEF Kept
    <3> QED
      BY <3>1, <3>2
  <2> HIDE DEF C
  <2> QED
    BY <1>0, <2>1, <2>3 DEF Kept
<1>6. ASSUME Tick
      PROVE  Kept'
  <2>1. UNCHANGED <<clients, attempts, admitted, strays>>
    BY <1>6 DEF Tick
  <2>2. ASSUME NEW c \in Clients
        PROVE  Recent(c)' \subseteq Recent(c)
    <3>1. admitted[c] \subseteq Stamps /\ now \in Nat /\ now' = now + 1
      BY <1>6 DEF Tick, Types
    <3>2. ASSUME NEW x \in Recent(c)'
          PROVE  x \in Recent(c)
      <4>1. x \in admitted[c] /\ now' - Window < x[1] /\ now' - 2 * CleanupInterval <= x[1]
        BY <2>1 DEF Recent, InWindow
      <4>2. x[1] \in Nat
        BY <3>1, <4>1 DEF Stamps
      <4>3. now - Window < x[1] /\ now - 2 * CleanupInterval <= x[1]
        BY <3>1, <4>1, <4>2, LimiterAssumption
      <4> QED
        BY <4>1, <4>3 DEF Recent, InWindow
    <3> QED
      BY <3>2
  <2> QED
    BY <2>1, <2>2 DEF Kept
<1>7. CASE UNCHANGED vars
  BY <1>1, <1>7 DEF vars
<1> QED
  BY <1>2, <1>3, <1>4, <1>5, <1>6, <1>7 DEF Next

LEMMA InitKept == Init => Kept
BY DEF Init, Kept, Recent, InWindow

\* What the bucket of a client holds bounds what it was allowed.
LEMMA KeptWithinLimit ==
    ASSUME BaseInv, Kept
    PROVE  WithinLimit
<1> SUFFICES ASSUME NEW c \in Clients
             PROVE  Cardinality(Recent(c) \ strays) <= Limit
  BY DEF WithinLimit
<1>1. CASE clients[c] = 0
  <2>1. Recent(c) \ strays = {}
    BY <1>1 DEF Kept
  <2> QED
    BY <2>1, FS_EmptySet, LimiterAssumption
<1>2. CASE clients[c] # 0
  <2>1. clients[c] \in Buckets /\ Recent(c) \ strays \subseteq attempts[clients[c]]
    BY <1>2 DEF BaseInv, Types, Kept
  <2>2. IsFiniteSet(attempts[clients[c]])
    BY <2>1, BucketFinite DEF BaseInv
  <2>3. /\ Cardinality(Recent(c) \ strays) <= Cardinality(attempts[clients[c]])
        /\ Cardinality(Recent(c) \ strays) \in Nat
        /\ Cardinality(attempts[clients[c]]) \in Nat
    BY <2>1, <2>2, FS_Subset, FS_CardinalityType
  <2>4. Cardinality(attempts[clients[c]]) <= Limit
    BY <2>1 DEF BaseInv, Bounded
  <2> QED
    BY <2>3, <2>4, LimiterAssumption
<1> QED
  BY <1>1, <1>2

\* Whatever the limit, the window and the cleanup interval, the limit holds from both
\* sides, in a window or in two cleanup intervals when those are shorter, but for the
\* creations of requests whose bucket was evicted in their hands (Allow and evictStale,
\* invoice_rate_limiter.go:78-109 and 163-174).
THEOREM LimitExact == Spec => []LimitIsExact
<1>1. Init => BaseInv /\ Kept
  BY InitBase, InitKept
<1>2. BaseInv /\ Kept /\ [Next]_vars => (BaseInv /\ Kept)'
  BY BaseStep, KeptStep
<1>3. BaseInv /\ Kept => WithinLimit
  BY KeptWithinLimit
<1>4. Spec => []WithinLimit
  BY <1>1, <1>2, <1>3, PTL DEF Spec
<1>5. WithinLimit /\ NeverRefusedEarly => LimitIsExact
  BY DEF LimitIsExact
<1> QED
  BY <1>4, <1>5, NotRefusedEarly, PTL
=============================================================================
