------------------------- MODULE AuthChallengeProofs -------------------------
(***************************************************************************)
(* A challenge is single-use, for any number of clients, nonces, requests  *)
(* and restarts, and whatever the durations.                               *)
(***************************************************************************)
EXTENDS AuthChallenge, TLAPS

\* The type facts the argument needs.
Types ==
    /\ expires \subseteq issued
    /\ issued \subseteq Nonces
    /\ now \in Nat
    /\ issuedAt \in [Nonces -> Nat]
    /\ pc \in [Requests -> {"idle", "verified", "consumed"}]
    /\ sub \in [Requests -> Submission \cup {None}]
    /\ \A r \in Requests : pc[r] # "idle" => sub[r] \in Submission
    /\ tokens \in [Nonces -> Nat]
    /\ spent \in [Nonces -> Int]
    /\ restarts \in Nat

\* A request past consume took its nonce out of the store for good.
Taken ==
    \A r \in Requests :
        pc[r] = "consumed" => /\ sub[r].nonce \in issued \ expires
                              /\ tokens[sub[r].nonce] = 0

\* Two requests never hold the same nonce: consume is one step.
Apart ==
    \A r, q \in Requests :
        pc[r] = "consumed" /\ pc[q] = "consumed" /\ r # q => sub[r].nonce # sub[q].nonce

\* A nonce that is remembered, or not issued yet, has no token.
Unredeemed == \A n \in Nonces : n \in expires \/ n \notin issued => tokens[n] = 0

NonceInv == Types /\ Taken /\ Apart /\ Unredeemed /\ OneTokenPerChallenge

LEMMA NonceInvInit == Init => NonceInv
  BY AuthAssumption
  DEF Init, NonceInv, Types, Taken, Apart, Unredeemed, OneTokenPerChallenge, None, Submission

LEMMA NonceInvGenerate ==
    ASSUME NonceInv, NEW n \in Nonces, GenerateChallenge(n)
    PROVE  NonceInv'
  <1>1. Types'
    BY DEF NonceInv, Types, GenerateChallenge, put, ExpiresAt
  <1>2. Taken' /\ Apart'
    BY DEF NonceInv, Types, Taken, Apart, GenerateChallenge, put, ExpiresAt
  <1>3. Unredeemed' /\ OneTokenPerChallenge'
    BY DEF NonceInv, Types, Unredeemed, OneTokenPerChallenge, GenerateChallenge, put, ExpiresAt
  <1> QED BY <1>1, <1>2, <1>3 DEF NonceInv

LEMMA NonceInvVerify ==
    ASSUME NonceInv, NEW r \in Requests, NEW s \in Submission, VerifyChallenge(r, s)
    PROVE  NonceInv'
  <1>1. Types'
    BY DEF NonceInv, Types, VerifyChallenge
  <1>2. Taken' /\ Apart'
    BY DEF NonceInv, Types, Taken, Apart, VerifyChallenge
  <1>3. Unredeemed' /\ OneTokenPerChallenge'
    BY DEF NonceInv, Unredeemed, OneTokenPerChallenge, VerifyChallenge
  <1> QED BY <1>1, <1>2, <1>3 DEF NonceInv

LEMMA NonceInvConsume ==
    ASSUME NonceInv, NEW r \in Requests, ConsumeNonce(r)
    PROVE  NonceInv'
  <1> DEFINE n == sub[r].nonce
  <1>1. n \in Nonces
    BY DEF NonceInv, Types, ConsumeNonce, Submission
  <1>2. expires' = expires \ {n}
    BY DEF ConsumeNonce, consume
  <1>3. pc' \in [Requests -> {"idle", "verified", "consumed"}]
    BY DEF NonceInv, Types, ConsumeNonce, consume
  <1>4. \A q \in Requests : pc'[q] = "consumed" => pc[q] = "consumed" \/ (q = r /\ n \in expires)
    BY DEF NonceInv, Types, ConsumeNonce, consume
  <1>5. Types'
    <2>1. spent' \in [Nonces -> Int]
      BY <1>1 DEF NonceInv, Types, ConsumeNonce, consume
    <2>2. \A q \in Requests : pc'[q] # "idle" => sub'[q] \in Submission
      BY DEF NonceInv, Types, ConsumeNonce, consume
    <2> QED BY <1>2, <1>3, <2>1, <2>2 DEF NonceInv, Types, ConsumeNonce
  <1>6. Taken'
    BY <1>1, <1>2, <1>4 DEF NonceInv, Types, Taken, Unredeemed, ConsumeNonce
  <1>7. Apart'
    BY <1>4 DEF NonceInv, Taken, Apart, ConsumeNonce
  <1>8. Unredeemed' /\ OneTokenPerChallenge'
    BY <1>2 DEF NonceInv, Unredeemed, OneTokenPerChallenge, ConsumeNonce
  <1> QED BY <1>5, <1>6, <1>7, <1>8 DEF NonceInv

LEMMA NonceInvToken ==
    ASSUME NonceInv, NEW r \in Requests, GenerateJWT(r)
    PROVE  NonceInv'
  <1> DEFINE n == sub[r].nonce
  <1>1. n \in issued \ expires /\ n \in Nonces /\ tokens[n] = 0
    BY DEF NonceInv, Types, Taken, GenerateJWT
  <1>2. /\ tokens' \in [Nonces -> Nat]
        /\ tokens'[n] <= 1
        /\ \A m \in Nonces \ {n} : tokens'[m] = tokens[m]
    BY <1>1 DEF NonceInv, Types, GenerateJWT
  <1>3. \A q \in Requests : pc'[q] = "consumed" => pc[q] = "consumed" /\ q # r
    BY DEF NonceInv, Types, GenerateJWT
  <1>4. Types'
    BY <1>2 DEF NonceInv, Types, GenerateJWT
  <1>5. Taken'
    <2> SUFFICES ASSUME NEW q \in Requests, pc'[q] = "consumed"
                 PROVE  /\ sub[q].nonce \in issued \ expires
                        /\ tokens'[sub[q].nonce] = 0
      BY DEF Taken, GenerateJWT
    <2>1. sub[q].nonce # n
      BY <1>3 DEF NonceInv, Apart, GenerateJWT
    <2> QED BY <1>2, <1>3, <2>1 DEF NonceInv, Types, Taken
  <1>6. Apart'
    BY <1>3 DEF NonceInv, Apart, GenerateJWT
  <1>7. Unredeemed'
    BY <1>1, <1>2 DEF NonceInv, Unredeemed, GenerateJWT
  <1>8. OneTokenPerChallenge'
    BY <1>2 DEF NonceInv, OneTokenPerChallenge
  <1> QED BY <1>4, <1>5, <1>6, <1>7, <1>8 DEF NonceInv

LEMMA NonceInvNext == NonceInv /\ [Next]_vars => NonceInv'
  <1> SUFFICES ASSUME NonceInv, [Next]_vars PROVE NonceInv'
    OBVIOUS
  <1>1. CASE Restart
    BY <1>1 DEF NonceInv, Types, Taken, Apart, Unredeemed, OneTokenPerChallenge, Restart
  <1>2. CASE Tick
    BY <1>2 DEF NonceInv, Types, Taken, Apart, Unredeemed, OneTokenPerChallenge, Tick
  <1>3. CASE UNCHANGED vars
    BY <1>3 DEF NonceInv, Types, Taken, Apart, Unredeemed, OneTokenPerChallenge, vars
  <1> QED BY <1>1, <1>2, <1>3, NonceInvGenerate, NonceInvVerify, NonceInvConsume, NonceInvToken
          DEF Next

\* However many requests race for a challenge, replay it or retry it across a
\* restart, VerifyChallenge lets at most one of them have a token.
THEOREM SingleUse == Spec => []OneTokenPerChallenge
  <1>1. NonceInv => OneTokenPerChallenge
    BY DEF NonceInv
  <1> QED BY <1>1, NonceInvInit, NonceInvNext, PTL DEF Spec

-----------------------------------------------------------------------------
\* A request past the signature checks is the owner's, for an issued challenge.
Vouched ==
    \A r \in Requests :
        pc[r] # "idle" => /\ sub[r].nonce \in issued
                          /\ sub[r].addr = owner[sub[r].nonce]
                          /\ sub[r].client

\* Both remaining invariants, with what makes them inductive.
RedeemInv == NonceInv /\ Vouched /\ RedeemedByOwnerInTime /\ ValidChallengeKept

LEMMA RedeemInvInit == Init => RedeemInv
  BY NonceInvInit DEF Init, RedeemInv, Vouched, RedeemedByOwnerInTime, ValidChallengeKept

LEMMA RedeemInvGenerate ==
    ASSUME RedeemInv, NEW n \in Nonces, GenerateChallenge(n)
    PROVE  Vouched' /\ RedeemedByOwnerInTime' /\ ValidChallengeKept'
  <1> USE AuthAssumption
  <1>1. \A m \in issued : issuedAt'[m] = issuedAt[m]
    BY DEF RedeemInv, NonceInv, Types, GenerateChallenge
  <1>2. Vouched'
    BY DEF RedeemInv, Vouched, GenerateChallenge
  <1>3. RedeemedByOwnerInTime'
    BY <1>1 DEF RedeemInv, Vouched, RedeemedByOwnerInTime, GenerateChallenge, ExpiresAt
  <1>4. ValidChallengeKept'
    BY <1>1 DEF RedeemInv, ValidChallengeKept, GenerateChallenge, ExpiresAt, put
  <1> QED BY <1>2, <1>3, <1>4

LEMMA RedeemInvVerify ==
    ASSUME RedeemInv, NEW r \in Requests, NEW s \in Submission, VerifyChallenge(r, s)
    PROVE  Vouched' /\ RedeemedByOwnerInTime' /\ ValidChallengeKept'
  <1>1. \A q \in Requests \ {r} : pc'[q] = pc[q] /\ sub'[q] = sub[q]
    BY DEF RedeemInv, NonceInv, Types, VerifyChallenge
  <1>2. pc'[r] = "verified" /\ sub'[r] = s
    BY DEF RedeemInv, NonceInv, Types, VerifyChallenge
  <1>3. s.nonce \in issued /\ s.addr = owner[s.nonce] /\ s.client
    BY DEF VerifyChallenge, Possible, Accepted, Submission
  <1>4. Vouched'
    BY <1>1, <1>2, <1>3 DEF RedeemInv, Vouched, VerifyChallenge
  <1>5. RedeemedByOwnerInTime'
    BY <1>1, <1>2 DEF RedeemInv, RedeemedByOwnerInTime, VerifyChallenge, ExpiresAt
  <1>6. ValidChallengeKept'
    BY DEF RedeemInv, ValidChallengeKept, VerifyChallenge, ExpiresAt
  <1> QED BY <1>4, <1>5, <1>6

LEMMA RedeemInvConsume ==
    ASSUME RedeemInv, NEW r \in Requests, ConsumeNonce(r)
    PROVE  Vouched' /\ RedeemedByOwnerInTime' /\ ValidChallengeKept'
  <1> USE AuthAssumption
  <1> DEFINE n == sub[r].nonce
             valid == n \in expires /\ now < ExpiresAt(n)
  <1>1. n \in Nonces /\ now \in Nat
    BY DEF RedeemInv, NonceInv, Types, ConsumeNonce, Submission
  <1>2. /\ pc[r] = "verified"
        /\ expires' = expires \ {n}
        /\ pc' = [pc EXCEPT ![r] = IF valid THEN "consumed" ELSE "idle"]
        /\ spent' = IF valid THEN [spent EXCEPT ![n] = now] ELSE spent
        /\ UNCHANGED <<now, issued, owner, issuedAt, sub, restarts>>
    BY DEF ConsumeNonce, consume
  <1>3. /\ \A q \in Requests \ {r} : pc'[q] = pc[q]
        /\ pc'[r] = "consumed" => valid
    BY <1>2 DEF RedeemInv, NonceInv, Types
  <1>4. /\ \A m \in Nonces \ {n} : spent'[m] = spent[m]
        /\ valid => spent'[n] = now
        /\ ~valid => spent' = spent
    BY <1>1, <1>2 DEF RedeemInv, NonceInv, Types
  <1>5. Vouched'
    BY <1>2, <1>3 DEF RedeemInv, Vouched
  <1>6. RedeemedByOwnerInTime'
    <2> SUFFICES ASSUME NEW q \in Requests, pc'[q] = "consumed"
                 PROVE  /\ sub[q].addr = owner[sub[q].nonce]
                        /\ sub[q].client
                        /\ spent'[sub[q].nonce] < ExpiresAt(sub[q].nonce)
      BY <1>2 DEF RedeemedByOwnerInTime, ExpiresAt
    <2>1. CASE q = r
      BY <1>2, <1>3, <1>4, <2>1 DEF RedeemInv, Vouched
    <2>2. CASE q # r /\ sub[q].nonce # n
      BY <1>3, <1>4, <2>2 DEF RedeemInv, NonceInv, Types, Taken, RedeemedByOwnerInTime
    <2>3. CASE q # r /\ sub[q].nonce = n
      <3>1. ~valid
        BY <1>3, <2>3 DEF RedeemInv, NonceInv, Taken
      <3> QED BY <1>3, <1>4, <2>3, <3>1 DEF RedeemInv, RedeemedByOwnerInTime
    <2> QED BY <2>1, <2>2, <2>3
  <1>7. ValidChallengeKept'
    <2> SUFFICES ASSUME restarts = 0, NEW m \in issued, now < ExpiresAt(m), spent'[m] = -1
                 PROVE  m \in expires'
      BY <1>2 DEF ValidChallengeKept, ExpiresAt
    <2>1. m \in Nonces
      BY DEF RedeemInv, NonceInv, Types
    <2>2. m \in expires
      BY <1>1, <1>4, <2>1 DEF RedeemInv, ValidChallengeKept
    <2>3. m # n
      BY <1>1, <1>4, <2>2
    <2> QED BY <1>2, <2>2, <2>3
  <1> QED BY <1>5, <1>6, <1>7

LEMMA RedeemInvNext == RedeemInv /\ [Next]_vars => RedeemInv'
  <1> SUFFICES ASSUME RedeemInv, [Next]_vars
               PROVE  Vouched' /\ RedeemedByOwnerInTime' /\ ValidChallengeKept'
    BY NonceInvNext DEF RedeemInv
  <1> USE AuthAssumption
  <1>1. ASSUME NEW r \in Requests, GenerateJWT(r)
        PROVE  Vouched' /\ RedeemedByOwnerInTime' /\ ValidChallengeKept'
    BY <1>1 DEF RedeemInv, NonceInv, Types, Vouched, RedeemedByOwnerInTime, ValidChallengeKept,
                GenerateJWT, ExpiresAt
  <1>2. CASE Restart
    BY <1>2 DEF RedeemInv, NonceInv, Types, Vouched, RedeemedByOwnerInTime, ValidChallengeKept,
                Restart, ExpiresAt
  <1>3. CASE Tick
    BY <1>3 DEF RedeemInv, NonceInv, Types, Vouched, RedeemedByOwnerInTime, ValidChallengeKept,
                Tick, ExpiresAt
  <1>4. CASE UNCHANGED vars
    BY <1>4 DEF RedeemInv, Vouched, RedeemedByOwnerInTime, ValidChallengeKept, vars, ExpiresAt
  <1> QED BY <1>1, <1>2, <1>3, <1>4, RedeemInvGenerate, RedeemInvVerify, RedeemInvConsume
          DEF Next

\* A token goes to the address the challenge was issued to, with that address's
\* signature, and only before the nonce expires (POST /auth).
THEOREM OwnerInTime == Spec => []RedeemedByOwnerInTime
  <1>1. RedeemInv => RedeemedByOwnerInTime
    BY DEF RedeemInv
  <1> QED BY <1>1, RedeemInvInit, RedeemInvNext, PTL DEF Spec

\* Neither refused submissions nor the pruning of put burn the nonce of a
\* challenge that is still valid, as long as the indexer does not restart.
THEOREM ChallengeKept == Spec => []ValidChallengeKept
  <1>1. RedeemInv => ValidChallengeKept
    BY DEF RedeemInv
  <1> QED BY <1>1, RedeemInvInit, RedeemInvNext, PTL DEF Spec
=============================================================================
