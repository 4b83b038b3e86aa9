---------------------------- MODULE AuthChallenge ----------------------------
(***************************************************************************)
(* SEP-10 login (indexer/auth, GET and POST /auth): the server signs a     *)
(* challenge with a fresh nonce, the client signs it and redeems it once   *)
(* for a JWT.  Requests run concurrently; the nonce store is in memory.    *)
(*                                                                         *)
(* The timebounds of a challenge are whole seconds and its nonce expires   *)
(* at an instant, so time is counted in ticks, Second ticks to a second.   *)
(***************************************************************************)
EXTENDS Integers, FiniteSets

CONSTANTS
    Clients,      \* Stellar addresses
    Nonces,       \* nonces rand.Read returns, each at most once
    Requests,     \* POST /auth requests under way
    TTL,          \* challengeTTL, in ticks
    Second,       \* ticks per second
    MaxTime,      \* bound: last tick
    MaxRestarts   \* bound: restarts of the indexer

ASSUME AuthAssumption ==
    /\ TTL \in Nat \ {0}
    /\ Second \in Nat \ {0}
    /\ MaxTime \in Nat
    /\ MaxRestarts \in Nat

None == [nonce |-> "none"]

\* A submitted transaction: its nonce, the source account of its operation, and
\* whether the server and that account signed it.
Submission == [nonce : Nonces, addr : Clients, server : BOOLEAN, client : BOOLEAN]

VARIABLES
    now,       \* current tick
    issued,    \* nonces of the challenges issued so far
    owner,     \* nonce -> address its challenge was issued to
    issuedAt,  \* nonce -> tick of issue
    expires,   \* challengeNonces: the nonces the store remembers
    pc,        \* request -> "idle", "verified" or "consumed"
    sub,       \* request -> the submission it handles
    tokens,    \* observation: nonce -> JWTs issued for it
    spent,     \* observation: nonce -> tick at which it was redeemed, -1 before
    restarts   \* observation: restarts so far

vars == <<now, issued, owner, issuedAt, expires, pc, sub, tokens, spent, restarts>>

TypeOK ==
    /\ now \in 0..MaxTime
    /\ issued \subseteq Nonces
    /\ owner \in [Nonces -> Clients]
    /\ issuedAt \in [Nonces -> 0..MaxTime]
    /\ expires \subseteq issued
    /\ pc \in [Requests -> {"idle", "verified", "consumed"}]
    /\ \A r \in Requests : pc[r] # "idle" => sub[r] \in Submission
    /\ tokens \in [Nonces -> Nat]
    /\ spent \in [Nonces -> -1..MaxTime]
    /\ restarts \in 0..MaxRestarts

Init ==
    /\ now = 0
    /\ issued = {}
    /\ owner \in [Nonces -> Clients]
    /\ issuedAt = [n \in Nonces |-> 0]
    /\ expires = {}
    /\ pc = [r \in Requests |-> "idle"]
    /\ sub = [r \in Requests |-> None]
    /\ tokens = [n \in Nonces |-> 0]
    /\ spent = [n \in Nonces |-> -1]
    /\ restarts = 0

Unix(t) == t \div Second
ExpiresAt(n) == issuedAt[n] + TTL

-----------------------------------------------------------------------------
\* put prunes the expired nonces and records the new one.
put(n) == {m \in expires : now < ExpiresAt(m)} \cup {n}

\* GET /auth: sign a challenge for the nonce's owner, then remember the nonce.
GenerateChallenge(n) ==
    /\ n \in Nonces \ issued
    /\ issued' = issued \cup {n}
    /\ issuedAt' = [issuedAt EXCEPT ![n] = now]
    /\ expires' = put(n)
    /\ UNCHANGED <<now, owner, pc, sub, tokens, spent, restarts>>

\* Only the server makes its signature, over the challenge it issued (external).
Possible(s) == s.server => s.nonce \in issued /\ s.addr = owner[s.nonce]

\* Without the server's signature the timebounds are whatever the sender wrote.
InTimebounds(s) ==
    s.server => /\ Unix(issuedAt[s.nonce]) <= Unix(now)
                /\ Unix(now) <= Unix(ExpiresAt(s.nonce))

Accepted(s) == InTimebounds(s) /\ s.server /\ s.client

\* Mutant of VerifyChallenge: the nonce is consumed before the signatures are checked.
VerifyChallengeConsumesFirst(r, s) ==
    /\ pc[r] = "idle"
    /\ Possible(s) /\ InTimebounds(s)
    /\ s.nonce \in expires /\ expires' = expires \ {s.nonce}
    /\ UNCHANGED <<now, issued, owner, issuedAt, pc, sub, tokens, spent, restarts>>

\* POST /auth up to the nonce: a refused submission is answered 401.
VerifyChallenge(r, s) ==
    /\ pc[r] = "idle"
    /\ Possible(s)
    /\ Accepted(s)
    /\ pc' = [pc EXCEPT ![r] = "verified"]
    /\ sub' = [sub EXCEPT ![r] = s]
    /\ UNCHANGED <<now, issued, owner, issuedAt, expires, tokens, spent, restarts>>

\* Mutants of consume: the nonce is not deleted; its expiry is not looked at.
consumeKeeps(r, n) ==
    /\ n \in expires /\ now < ExpiresAt(n)
    /\ pc' = [pc EXCEPT ![r] = "consumed"]
    /\ spent' = [spent EXCEPT ![n] = now]
    /\ UNCHANGED expires
consumeLate(r, n) ==
    /\ n \in expires
    /\ expires' = expires \ {n}
    /\ pc' = [pc EXCEPT ![r] = "consumed"]
    /\ spent' = [spent EXCEPT ![n] = now]

\* Look up and delete under one lock; an unknown or expired nonce is a 401.
consume(r, n) ==
    LET valid == n \in expires /\ now < ExpiresAt(n)
    IN  /\ expires' = expires \ {n}
        /\ pc' = [pc EXCEPT ![r] = IF valid THEN "consumed" ELSE "idle"]
        /\ spent' = IF valid THEN [spent EXCEPT ![n] = now] ELSE spent

ConsumeNonce(r) ==
    /\ pc[r] = "verified"
    /\ consume(r, sub[r].nonce)
    /\ UNCHANGED <<now, issued, owner, issuedAt, sub, tokens, restarts>>

\* The answer: a JWT for the address, or a 500 when signing it fails.
GenerateJWT(r) ==
    /\ pc[r] = "consumed"
    /\ pc' = [pc EXCEPT ![r] = "idle"]
    /\ \/ tokens' = [tokens EXCEPT ![sub[r].nonce] = @ + 1]
       \/ UNCHANGED tokens
    /\ UNCHANGED <<now, issued, owner, issuedAt, expires, sub, spent, restarts>>

\* The indexer restarts: the store and the requests are lost.
Restart ==
    /\ restarts < MaxRestarts
    /\ restarts' = restarts + 1
    /\ expires' = {}
    /\ pc' = [r \in Requests |-> "idle"]
    /\ UNCHANGED <<now, issued, owner, issuedAt, sub, tokens, spent>>

Tick ==
    /\ now < MaxTime
    /\ now' = now + 1
    /\ UNCHANGED <<issued, owner, issuedAt, expires, pc, sub, tokens, spent, restarts>>

Next ==
    \/ \E n \in Nonces : GenerateChallenge(n)
    \/ \E r \in Requests : \/ \E s \in Submission : VerifyChallenge(r, s)
                           \/ ConsumeNonce(r)
                           \/ GenerateJWT(r)
    \/ Restart
    \/ Tick

Spec == Init /\ [][Next]_vars

-----------------------------------------------------------------------------
(***************************************************************************)
(* Properties                                                              *)
(***************************************************************************)

\* A challenge is single-use: however many requests replay it, before or after a
\* restart, it yields at most one token (issue 1079).
OneTokenPerChallenge == \A n \in Nonces : tokens[n] <= 1

\* Whoever gets a token holds the address the challenge was issued to and redeemed
\* it before it expired, although a request may wait between the two checks.
RedeemedByOwnerInTime ==
    \A r \in Requests :
        pc[r] = "consumed" => LET n == sub[r].nonce
                              IN  /\ sub[r].addr = owner[n]
                                  /\ sub[r].client
                                  /\ spent[n] < ExpiresAt(n)

\* A valid challenge stays redeemable: no refused submission and no pruning burns
\* the nonce of an unexpired challenge; only its redemption or a restart does.
ValidChallengeKept ==
    restarts = 0 =>
        \A n \in issued : now < ExpiresAt(n) /\ spent[n] = -1 => n \in expires
=============================================================================
