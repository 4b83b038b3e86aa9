------------------------------ MODULE WebProofs ------------------------------
(***************************************************************************)
(* Proofs about the web app's components, for every value of their         *)
(* constants: the pages on which invoices are picked and acted on          *)
(* (InvoiceDesk), the reads that take several requests (PagedReads) and    *)
(* the wallet session (WalletSession).                                     *)
(*                                                                         *)
(* The pages are the module extended here; the two others are instances    *)
(* with names of their own, and each theorem is about one of the three.  A *)
(* constant or a variable that two components name alike is declared once  *)
(* and means in each what its module says.  The assumptions of the         *)
(* instances are hypotheses of their theorems.                             *)
(***************************************************************************)
EXTENDS InvoiceDesk, FiniteSetTheorems, SequenceTheorems, TLAPS

\* Of the reads that take several requests.
CONSTANTS Ours, MaxTx, TxLimit, MaxInvoices, PageSize, MaxPages

VARIABLES top, cursors, resetDue, fetch, ops, walk, stats

Reads == INSTANCE PagedReads

\* Of the wallet session.
CONSTANTS NoAccount, Panels, NavPanel, MaxChanges

VARIABLES freighter, changes, store, token, mounted, stage, offered, previous,
          poll, banner, login

Wallet == INSTANCE WalletSession WITH None <- NoAccount

-----------------------------------------------------------------------------
(* The wallet session.                                                     *)

\* One step keeps the types of the wallet session.
LEMMA WalletTypeStep ==
    ASSUME Wallet!NavPanelIsPanel, Wallet!MaxChangesIsNat,
           Wallet!TypeOK, [Wallet!Next]_Wallet!vars
    PROVE  Wallet!TypeOK'
<1> USE DEF Wallet!TypeOK, Wallet!Snapshot, Wallet!Idle, Wallet!Networks,
            Wallet!NavPanelIsPanel, Wallet!MaxChangesIsNat
<1>1. CASE Wallet!FreighterChanges
  BY <1>1 DEF Wallet!FreighterChanges, Wallet!panels
<1>2. CASE Wallet!Reload
  BY <1>2 DEF Wallet!Reload, Wallet!Disconnected
<1>3. CASE Wallet!disconnectWallet \/ Wallet!logout
  BY <1>3 DEF Wallet!disconnectWallet, Wallet!logout, Wallet!disconnect,
              Wallet!Disconnected, Wallet!panels
<1>4. CASE Wallet!LoginStarts \/ Wallet!LoginSucceeds \/ Wallet!LoginFails
  BY <1>4 DEF Wallet!LoginStarts, Wallet!LoginSucceeds, Wallet!LoginFails, Wallet!panels
<1>5. ASSUME NEW p \in Panels, Wallet!Mount(p) \/ Wallet!Unmount(p)
      PROVE  Wallet!TypeOK'
  BY <1>5 DEF Wallet!Mount, Wallet!Unmount
<1>6. ASSUME NEW p \in Panels,
             \/ Wallet!connectWallet(p) \/ Wallet!connectFreighter(p)
             \/ Wallet!handleSwitchToTestnet(p) \/ Wallet!SwitchAnswered(p)
      PROVE  Wallet!TypeOK'
  BY <1>6 DEF Wallet!connectWallet, Wallet!connectFreighter,
              Wallet!handleSwitchToTestnet, Wallet!SwitchAnswered, Wallet!Show,
              Wallet!Expected
<1>7. ASSUME NEW p \in Panels, Wallet!ConnectSucceeds(p) \/ Wallet!ConnectFails(p)
      PROVE  Wallet!TypeOK'
  BY <1>7 DEF Wallet!ConnectSucceeds, Wallet!ConnectFails, Wallet!Show,
              Wallet!disconnect, Wallet!Disconnected, Wallet!Expected
<1>8. ASSUME NEW p \in Panels,
             Wallet!Watch(p) \/ Wallet!PollReads(p) \/ Wallet!PollFails(p)
      PROVE  Wallet!TypeOK'
  BY <1>8 DEF Wallet!Watch, Wallet!PollReads, Wallet!PollFails, Wallet!Baseline
<1>9. ASSUME NEW p \in Panels, Wallet!PollReports(p)
      PROVE  Wallet!TypeOK'
  <2>1. poll[p] \in Wallet!Snapshot
    BY <1>9 DEF Wallet!PollReports
  <2>2. /\ store' \in Wallet!Snapshot
        /\ token' \in Accounts \cup {NoAccount}
        /\ banner' \in [Panels -> {"none", "wrong_network", "other"}]
    BY <1>9, <2>1 DEF Wallet!PollReports, Wallet!onChange, Wallet!disconnect,
                      Wallet!Disconnected, Wallet!Show
  <2>3. previous' \in [Panels -> Wallet!Snapshot \cup {Wallet!Idle}]
    BY <1>9, <2>1 DEF Wallet!PollReports
  <2>4. poll' \in [Panels -> Wallet!Snapshot \cup {Wallet!Idle}]
    BY <1>9 DEF Wallet!PollReports
  <2> QED
    BY <1>9, <2>2, <2>3, <2>4 DEF Wallet!PollReports
<1>10. CASE UNCHANGED Wallet!vars
  BY <1>10 DEF Wallet!vars, Wallet!panels
<1> QED
  BY <1>1, <1>2, <1>3, <1>4, <1>5, <1>6, <1>7, <1>8, <1>9, <1>10 DEF Wallet!Next

\* Every reachable state of the wallet session is well typed, whatever polls,
\* connects and logins overlap (store/wallet.ts, useWallet.ts, useAuth.ts).
THEOREM WalletTypes ==
    ASSUME Wallet!NavPanelIsPanel, Wallet!MaxChangesIsNat
    PROVE  Wallet!Spec => []Wallet!TypeOK
<1>1. Wallet!Init => Wallet!TypeOK
  BY DEF Wallet!Init, Wallet!TypeOK, Wallet!Snapshot, Wallet!Idle, Wallet!Networks,
         Wallet!Disconnected, Wallet!NavPanelIsPanel, Wallet!MaxChangesIsNat
<1>2. Wallet!TypeOK /\ [Wallet!Next]_Wallet!vars => Wallet!TypeOK'
  BY WalletTypeStep
<1> QED
  BY <1>1, <1>2, PTL DEF Wallet!Spec

\* A step that opens a session ends a connectWallet.
LEMMA OpeningStep ==
    ASSUME Wallet!TypeOK, Wallet!Next, ~Wallet!connected, (Wallet!connected)'
    PROVE  \E p \in Panels : stage[p] = "network" /\ stage'[p] = "idle"
<1>1. store # store'
  BY DEF Wallet!connected
<1>2. store' # Wallet!Disconnected
  BY DEF Wallet!connected, Wallet!Disconnected
<1>3. PICK p \in Panels : Wallet!ConnectSucceeds(p) \/ Wallet!PollReports(p)
  BY <1>1, <1>2 DEF Wallet!Next, Wallet!FreighterChanges, Wallet!Reload,
     Wallet!disconnectWallet, Wallet!disconnect, Wallet!LoginStarts, Wallet!LoginSucceeds,
     Wallet!LoginFails, Wallet!logout, Wallet!Mount, Wallet!Unmount, Wallet!connectWallet,
     Wallet!connectFreighter, Wallet!ConnectFails, Wallet!handleSwitchToTestnet,
     Wallet!SwitchAnswered, Wallet!Watch, Wallet!PollReads, Wallet!PollFails
<1>4. ~Wallet!PollReports(p)
  BY <1>1 DEF Wallet!PollReports, Wallet!onChange
<1> QED
  BY <1>3, <1>4 DEF Wallet!ConnectSucceeds, Wallet!TypeOK

\* Only a connectWallet that finishes opens a session: not a poll of a watcher
\* that a disconnect, a logout or a reload is stopping, whatever the panel
\* (useWallet.ts:129, freighter.ts:274-281).
THEOREM SessionOpensByConnect ==
    ASSUME Wallet!NavPanelIsPanel, Wallet!MaxChangesIsNat
    PROVE  Wallet!Spec => Wallet!OnlyConnectOpensSession
<1>1. /\ Wallet!TypeOK /\ [Wallet!Next]_Wallet!vars
      => [ (~Wallet!connected /\ (Wallet!connected)')
              => \E p \in Panels : stage[p] = "network" /\ stage'[p] = "idle" ]_Wallet!vars
  BY OpeningStep
<1> QED
  BY <1>1, WalletTypes, PTL DEF Wallet!Spec, Wallet!OnlyConnectOpensSession

-----------------------------------------------------------------------------
(* The transaction history.                                                *)

\* The instance counts as the library does.
LEMMA SameCardinality ==
    ASSUME NEW S
    PROVE  Reads!Cardinality(S) = Cardinality(S)
BY DEF Reads!Cardinality, Cardinality

\* The newest TxLimit transactions up to u.
Window(u) == {n \in 1 .. u : u - n < TxLimit}
Windows == {Window(u) : u \in 0 .. MaxTx}

\* What Horizon answers is a window that ends at the newest transaction below
\* the cursor.
LEMMA RecordsAreWindow ==
    ASSUME Reads!BoundsAreNat, Reads!PagesHoldSomething,
           top \in [Accounts -> 0 .. MaxTx], NEW k \in Reads!Keys
    PROVE  \E u \in 0 .. MaxTx : Reads!Records(k) = Window(u)
<1> DEFINE below == {n \in 1 .. top[k[1]] : n < k[2]}
<1>1. /\ top[k[1]] \in 0 .. MaxTx /\ k[2] \in 1 .. MaxTx + 1
      /\ MaxTx \in Nat /\ TxLimit \in Nat \ {0}
  BY DEF Reads!Keys, Reads!Cursors, Reads!First, Reads!BoundsAreNat, Reads!PagesHoldSomething
<1>2. PICK u \in 0 .. MaxTx : below = 1 .. u
  <2>1. CASE top[k[1]] < k[2]
    BY <1>1, <2>1
  <2>2. CASE ~(top[k[1]] < k[2])
    <3>1. below = 1 .. (k[2] - 1)
      BY <1>1, <2>2
    <3> QED
      BY <1>1, <3>1
  <2> QED
    BY <2>1, <2>2
<1> HIDE DEF below
<1>3. ASSUME NEW n \in below
      PROVE  Cardinality({m \in below : m > n}) < TxLimit <=> u - n < TxLimit
  <2>1. {m \in below : m > n} = (n + 1) .. u
    BY <1>2, <1>3
  <2>2. Cardinality((n + 1) .. u) = u - n
    BY <1>2, <1>3, FS_Interval
  <2> QED
    BY <2>1, <2>2
<1>4. Reads!Records(k) = {n \in below : Cardinality({m \in below : m > n}) < TxLimit}
  BY SameCardinality DEF Reads!Records, below
<1>5. Reads!Records(k) = Window(u)
  BY <1>2, <1>3, <1>4 DEF Window
<1> QED
  BY <1>5

\* The page of a window: where it begins, where it ends, and all between.
LEMMA PageOfWindow ==
    ASSUME Reads!BoundsAreNat, Reads!PagesHoldSomething, Reads!OursAreTransactions,
           NEW k \in Reads!Keys, NEW u \in 0 .. MaxTx
    PROVE  LET p == Reads!Page(k, Window(u), Window(u))
           IN /\ p \in Reads!Data
              /\ p.items = {n \in Ours[k[1]] : p.next <= n /\ n <= p.newest}
<1> DEFINE R == Window(u)
           p == Reads!Page(k, R, R)
           next == Reads!nextCursor(k, R)
           newest == IF R = {} THEN 0 ELSE Reads!Max(R)
<1>1. /\ MaxTx \in Nat /\ TxLimit \in Nat \ {0} /\ u \in Nat /\ u <= MaxTx
      /\ Ours[k[1]] \subseteq 1 .. MaxTx
  BY DEF Reads!BoundsAreNat, Reads!PagesHoldSomething, Reads!OursAreTransactions, Reads!Keys
<1>2. newest = u
  <2>1. CASE u = 0
    BY <1>1, <2>1 DEF Window
  <2>2. CASE u > 0
    <3>1. u \in R /\ \A n \in R : u >= n
      BY <1>1, <2>2 DEF Window
    <3>2. \A m \in R : (\A n \in R : m >= n) => m = u
      BY <1>1, <3>1 DEF Window
    <3>3. Reads!Max(R) = u
      BY <3>1, <3>2 DEF Reads!Max
    <3> QED
      BY <3>1, <3>3
  <2> QED
    BY <1>1, <2>1, <2>2
<1>3. next = IF u < TxLimit THEN 0 ELSE u - TxLimit + 1
  <2>1. CASE u < TxLimit
    <3>1. R = 1 .. u
      BY <1>1, <2>1 DEF Window
    <3>2. Cardinality(R) = u
      BY <1>1, <3>1, FS_Interval
    <3> QED
      BY <1>1, <2>1, <3>2, SameCardinality DEF Reads!nextCursor
  <2>2. CASE ~(u < TxLimit)
    <3> DEFINE lo == u - TxLimit + 1
    <3>1. R = lo .. u /\ lo \in Int
      BY <1>1, <2>2 DEF Window
    <3>2. Cardinality(R) = TxLimit
      <4> HIDE DEF R
      <4>1. Cardinality(lo .. u) = IF lo > u THEN 0 ELSE u - lo + 1
        BY <1>1, <3>1, FS_Interval
      <4> QED
        BY <1>1, <3>1, <4>1
    <3>3. lo \in R /\ \A n \in R : lo <= n
      BY <1>1, <2>2, <3>1
    <3>4. \A m \in R : (\A n \in R : m <= n) => m = lo
      BY <1>1, <3>1, <3>3
    <3>5. Reads!Min(R) = lo
      BY <3>3, <3>4 DEF Reads!Min
    <3> QED
      BY <2>2, <3>2, <3>5, SameCardinality DEF Reads!nextCursor
  <2> QED
    BY <2>1, <2>2
<1>4. p = [items |-> R \cap Ours[k[1]], next |-> next, newest |-> newest, loaded |-> TRUE]
  BY DEF Reads!Page
<1> HIDE DEF p, next, newest
<1>5. R \cap Ours[k[1]] = {n \in Ours[k[1]] : next <= n /\ n <= newest}
  BY <1>1, <1>2, <1>3 DEF Window
<1>6. next \in 0 .. MaxTx /\ newest \in 0 .. MaxTx
  BY <1>1, <1>2, <1>3
<1>7. R \cap Ours[k[1]] \in SUBSET (1 .. MaxTx)
  BY <1>1
<1>8. p \in Reads!Data
  BY <1>4, <1>6, <1>7 DEF Reads!Data
<1> QED
  BY <1>4, <1>5, <1>8 DEF p

\* The inductive invariant of the history: a fetch under way has a window of
\* the transactions of its key, so that the page made of it is whole.
HistoryInv ==
    /\ top \in [Accounts -> 0 .. MaxTx] /\ address \in Accounts
    /\ cursors \in Seq(Reads!Cursors) /\ page \in Nat /\ page < Len(cursors)
    /\ data \in [Reads!Keys -> Reads!Data]
    /\ \/ fetch = Reads!NoFetch
       \/ fetch \in [key : Reads!Keys, records : Windows, tries : 1 .. 3]
    /\ Reads!PageIsWhole

LEMMA HistoryInit ==
    ASSUME Reads!BoundsAreNat, Reads!Init
    PROVE  HistoryInv
<1>1. Reads!First \in Reads!Cursors
  BY DEF Reads!BoundsAreNat, Reads!Cursors, Reads!First
<1>2. cursors \in Seq(Reads!Cursors) /\ Len(cursors) = 1
  BY <1>1 DEF Reads!Init
<1>3. Reads!NoData \in Reads!Data /\ ~Reads!NoData.loaded
  BY DEF Reads!BoundsAreNat, Reads!NoData, Reads!Data
<1>4. data \in [Reads!Keys -> Reads!Data] /\ Reads!PageIsWhole
  BY <1>3 DEF Reads!Init, Reads!PageIsWhole
<1> QED
  BY <1>2, <1>4 DEF HistoryInv, Reads!Init, Reads!BoundsAreNat

\* The query key of a render is a key.
LEMMA KeyIsKey ==
    ASSUME HistoryInv
    PROVE  Reads!Key \in Reads!Keys
BY DEF HistoryInv, Reads!Key, Reads!Keys

\* A page that is read anew is whole, and the others are left alone.
LEMMA OpsSettledWhole ==
    ASSUME Reads!BoundsAreNat, Reads!PagesHoldSomething, Reads!OursAreTransactions,
           HistoryInv, NEW failed, Reads!OpsSettled(failed)
    PROVE  HistoryInv'
<1>0. fetch \in [key : Reads!Keys, records : Windows, tries : 1 .. 3]
  BY DEF HistoryInv, Reads!OpsSettled
<1>1. PICK k \in Reads!Keys, u \in 0 .. MaxTx : fetch.key = k /\ fetch.records = Window(u)
  BY <1>0 DEF Windows
<1>2. UNCHANGED <<top, address, cursors, page>>
  BY DEF Reads!OpsSettled
<1>3. CASE failed = {} /\ data' = [data EXCEPT ![fetch.key] =
                                     Reads!Page(fetch.key, fetch.records, fetch.records)]
           /\ fetch' = Reads!NoFetch
  <2> DEFINE p == Reads!Page(k, Window(u), Window(u))
  <2>1. p \in Reads!Data /\ p.items = {n \in Ours[k[1]] : p.next <= n /\ n <= p.newest}
    BY PageOfWindow
  <2>2. data' = [data EXCEPT ![k] = p]
    BY <1>1, <1>3
  <2> HIDE DEF p
  <2>3. data' \in [Reads!Keys -> Reads!Data]
    BY <2>1, <2>2 DEF HistoryInv
  <2>4. Reads!PageIsWhole'
    <3> SUFFICES ASSUME NEW j \in Reads!Keys, data'[j].loaded
                 PROVE  data'[j].items = {n \in Ours[j[1]] :
                                            data'[j].next <= n /\ n <= data'[j].newest}
      BY DEF Reads!PageIsWhole
    <3>1. CASE j = k
      BY <2>1, <2>2, <3>1 DEF HistoryInv
    <3>2. CASE j # k
      <4>1. data'[j] = data[j]
        BY <2>2, <3>2 DEF HistoryInv
      <4> QED
        BY <4>1 DEF HistoryInv, Reads!PageIsWhole
    <3> QED
      BY <3>1, <3>2
  <2> QED
    BY <1>2, <1>3, <2>3, <2>4 DEF HistoryInv
<1>4. CASE fetch.tries < 3 /\ UNCHANGED data
           /\ fetch' = [fetch EXCEPT !.records = Reads!Records(fetch.key), !.tries = @ + 1]
  <2>1. PICK v \in 0 .. MaxTx : Reads!Records(k) = Window(v)
    BY RecordsAreWindow DEF HistoryInv
  <2>2. fetch' \in [key : Reads!Keys, records : Windows, tries : 1 .. 3]
    <3>1. Window(v) \in Windows /\ fetch.tries + 1 \in 1 .. 3
      BY <1>0, <1>4 DEF Windows
    <3>2. fetch' = [fetch EXCEPT !.records = Window(v), !.tries = fetch.tries + 1]
      BY <1>1, <1>4, <2>1
    <3> QED
      BY <1>0, <3>1, <3>2
  <2>3. Reads!PageIsWhole'
    BY <1>4 DEF HistoryInv, Reads!PageIsWhole
  <2> QED
    BY <1>2, <1>4, <2>2, <2>3 DEF HistoryInv
<1>5. CASE UNCHANGED data /\ fetch' = Reads!NoFetch
  BY <1>2, <1>5 DEF HistoryInv, Reads!PageIsWhole
<1> QED
  BY <1>3, <1>4, <1>5 DEF Reads!OpsSettled

\* Steps of the history that leave data and fetch alone.
LEMMA BrowsingStep ==
    ASSUME Reads!BoundsAreNat, HistoryInv,
           \/ \E a \in Accounts : Reads!TransactionCloses(a) \/ Reads!SwitchAccount(a)
           \/ Reads!goNext \/ Reads!goPrev \/ Reads!ResetEffect
    PROVE  HistoryInv'
<1>1. UNCHANGED <<data, fetch>>
  BY DEF Reads!TransactionCloses, Reads!SwitchAccount, Reads!goNext, Reads!goPrev,
         Reads!ResetEffect
<1>2. Reads!PageIsWhole'
  BY <1>1 DEF HistoryInv, Reads!PageIsWhole
<1> DEFINE Typed == /\ top \in [Accounts -> 0 .. MaxTx] /\ address \in Accounts
                    /\ cursors \in Seq(Reads!Cursors) /\ page \in Nat /\ page < Len(cursors)
<1>3. Typed'
  <2>1. ASSUME NEW a \in Accounts, Reads!TransactionCloses(a)
        PROVE  Typed'
    BY <2>1 DEF HistoryInv, Reads!TransactionCloses, Reads!BoundsAreNat
  <2>2. ASSUME NEW a \in Accounts, Reads!SwitchAccount(a)
        PROVE  Typed'
    BY <2>2 DEF HistoryInv, Reads!SwitchAccount
  <2>3. CASE Reads!goNext
    <3>1. data[Reads!Key] \in Reads!Data
      BY KeyIsKey DEF HistoryInv
    <3>2. data[Reads!Key].next \in Reads!Cursors
      BY <2>3, <3>1 DEF Reads!goNext, Reads!Shown, Reads!Data, Reads!Cursors, Reads!First,
                        Reads!BoundsAreNat
    <3>3. cursors' = Append(cursors, data[Reads!Key].next)
      BY <2>3 DEF Reads!goNext, Reads!Shown
    <3>4. cursors' \in Seq(Reads!Cursors) /\ Len(cursors') = Len(cursors) + 1
      BY <3>2, <3>3 DEF HistoryInv
    <3> QED
      BY <2>3, <3>4 DEF HistoryInv, Reads!goNext
  <2>4. CASE Reads!goPrev
    BY <2>4 DEF HistoryInv, Reads!goPrev
  <2>5. CASE Reads!ResetEffect
    <3>1. Reads!First \in Reads!Cursors
      BY DEF Reads!BoundsAreNat, Reads!Cursors, Reads!First
    <3> QED
      BY <2>5, <3>1 DEF HistoryInv, Reads!ResetEffect
  <2> QED
    BY <2>1, <2>2, <2>3, <2>4, <2>5
<1> QED
  BY <1>1, <1>2, <1>3 DEF HistoryInv

\* One step keeps the invariant of the history.
LEMMA HistoryStep ==
    ASSUME Reads!BoundsAreNat, Reads!PagesHoldSomething, Reads!OursAreTransactions,
           HistoryInv, [Reads!Next]_Reads!vars
    PROVE  HistoryInv'
<1>1. CASE Reads!FetchTransactions
  <2>1. PICK u \in 0 .. MaxTx : Reads!Records(Reads!Key) = Window(u)
    BY KeyIsKey, RecordsAreWindow DEF HistoryInv
  <2>2. fetch' \in [key : Reads!Keys, records : Windows, tries : 1 .. 3]
    BY <1>1, <2>1, KeyIsKey DEF Reads!FetchTransactions, Windows
  <2>3. UNCHANGED <<top, address, cursors, page, data>>
    BY <1>1 DEF Reads!FetchTransactions
  <2>4. Reads!PageIsWhole'
    BY <2>3 DEF HistoryInv, Reads!PageIsWhole
  <2> QED
    BY <2>2, <2>3, <2>4 DEF HistoryInv
<1>2. CASE Reads!FetchFails
  BY <1>2 DEF HistoryInv, Reads!FetchFails, Reads!PageIsWhole
<1>3. ASSUME NEW a, NEW n, Reads!OpsForgotten(a, n)
      PROVE  HistoryInv'
  BY <1>3 DEF HistoryInv, Reads!OpsForgotten, Reads!PageIsWhole
<1>4. CASE Reads!WalkNext
  BY <1>4 DEF HistoryInv, Reads!PageIsWhole, Reads!WalkNext, Reads!historyVars,
              Reads!InvoiceCreated, Reads!StartWalk, Reads!CountInvoices, Reads!WalkPage,
              Reads!WalkFails, Reads!InvoiceFunded
<1>5. CASE UNCHANGED Reads!vars
  BY <1>5 DEF HistoryInv, Reads!PageIsWhole, Reads!vars, Reads!historyVars
<1> QED
  BY <1>1, <1>2, <1>3, <1>4, <1>5, OpsSettledWhole, BrowsingStep
  DEF Reads!Next, Reads!HistoryNext

\* Every page of the transaction history is whole: it has every transaction
\* of ours from the newest it read down to where the next page begins, for any
\* page size, whatever lookups fail, are retried, cached or forgotten
\* (useTxHistory.ts:285-316).
THEOREM HistoryPagesWhole ==
    ASSUME Reads!BoundsAreNat, Reads!PagesHoldSomething, Reads!OursAreTransactions
    PROVE  Reads!Spec => []Reads!PageIsWhole
<1>1. Reads!Init => HistoryInv
  BY HistoryInit
<1>2. HistoryInv /\ [Reads!Next]_Reads!vars => HistoryInv'
  BY HistoryStep
<1>3. HistoryInv => Reads!PageIsWhole
  BY DEF HistoryInv
<1> QED
  BY <1>1, <1>2, <1>3, PTL DEF Reads!Spec

-----------------------------------------------------------------------------
(* The walk over an issuer's invoices.                                     *)

\* What a walk may have of the first n invoices.
Found(n) == UNION {[D -> Reads!Statuses] : D \in SUBSET (1 .. n)}
Walks(n) == [page : Nat, totalPages : Nat, byId : Found(n), counted : BOOLEAN,
             total : 0 .. n, grown : 0 .. n, atStart : 0 .. n]

\* All that was there at the start but the oldest ones, which the invoices
\* created during the last request may have moved to a page it did not know of.
Complete(w) == (w.grown + 1) .. w.atStart \subseteq DOMAIN w.byId

\* After page - 1 requests a walk has every invoice that was there at its
\* start and is by now on one of those pages: new invoices move it to later
\* pages only.
Covered(w) ==
    \A i \in 1 .. w.atStart :
        Len(rows) - i < (w.page - 1) * PageSize => i \in DOMAIN w.byId

\* The inductive invariant of the walk.
WalkInv ==
    /\ rows \in Seq(Reads!Statuses)
    /\ \/ walk = Reads!NoWalk
       \/ walk \in Walks(Len(rows)) /\ walk.page \in 1 .. MaxPages /\ Covered(walk)
    /\ \/ stats = Reads!NoWalk
       \/ /\ stats \in Walks(Len(rows))
          /\ stats.page > MaxPages \/ Complete(stats)

\* The place of an invoice and the page it is on.
LEMMA PageOfPlace ==
    ASSUME NEW x \in Nat, NEW q \in Nat, NEW P \in Nat \ {0},
           q * P <= x, x < (q + 1) * P
    PROVE  x \div P = q
OBVIOUS

\* Pages up to the last one hold everything.
LEMMA LastPage ==
    ASSUME NEW x \in Nat, NEW p \in Nat, NEW P \in Nat \ {0}, (x + P - 1) \div P <= p
    PROVE  x <= p * P
OBVIOUS

LEMMA WalksGrow ==
    ASSUME NEW m \in Nat, NEW n \in Nat, m <= n
    PROVE  Walks(m) \subseteq Walks(n)
<1>1. 1 .. m \subseteq 1 .. n /\ 0 .. m \subseteq 0 .. n
  OBVIOUS
<1>2. Found(m) \subseteq Found(n)
  BY <1>1 DEF Found
<1> QED
  BY <1>1, <1>2 DEF Walks

\* The counts by status add up to the invoices of the walk.
LEMMA CountsAddUp ==
    ASSUME NEW n \in Nat, NEW w \in Walks(n), Complete(w)
    PROVE  LET total == Reads!computeInvoiceStats(w)
               counted == total["Listed"] + total["Funded"]
           IN w.atStart <= counted + w.grown /\ counted <= n
<1> DEFINE D == DOMAIN w.byId
           Of(t) == {i \in D : w.byId[i] = t}
<1>1. D \subseteq 1 .. n /\ \A i \in D : w.byId[i] \in {"Listed", "Funded"}
  <2>1. w.byId \in Found(n)
    BY DEF Walks
  <2> QED
    BY <2>1 DEF Found, Reads!Statuses
<1>2. w.atStart \in Nat /\ w.grown \in Nat
  BY DEF Walks
<1>3. Of("Listed") \cup Of("Funded") = D /\ Of("Listed") \cap Of("Funded") = {}
  BY <1>1
<1>4. IsFiniteSet(1 .. n) /\ Cardinality(1 .. n) = n
  BY FS_Interval
<1>5. IsFiniteSet(D) /\ Cardinality(D) \in Nat /\ Cardinality(D) <= n
  BY <1>1, <1>4, FS_Subset, FS_CardinalityType
<1>6. PICK a \in Nat, g \in Nat : a = w.atStart /\ g = w.grown
  BY <1>2
<1>7. a <= Cardinality(D) + g
  <2>1. (g + 1) .. a \subseteq D
    BY <1>6 DEF Complete
  <2>2. /\ Cardinality((g + 1) .. a) = IF g + 1 > a THEN 0 ELSE a - (g + 1) + 1
        /\ g + 1 \in Int
    BY FS_Interval
  <2>3. Cardinality((g + 1) .. a) <= Cardinality(D)
    BY <1>5, <2>1, FS_Subset
  <2> HIDE DEF D
  <2> QED
    BY <1>5, <2>2, <2>3
<1>8. \A t : IsFiniteSet(Of(t)) /\ Cardinality(Of(t)) \in Nat
  BY <1>5, FS_Subset, FS_CardinalityType
<1>9. Cardinality(D) = Cardinality(Of("Listed")) + Cardinality(Of("Funded"))
  <2>1. Cardinality(Of("Listed") \cup Of("Funded"))
          = Cardinality(Of("Listed")) + Cardinality(Of("Funded"))
              - Cardinality(Of("Listed") \cap Of("Funded"))
    <3>1. IsFiniteSet(Of("Listed")) /\ IsFiniteSet(Of("Funded"))
      BY <1>8
    <3> HIDE DEF Of, D
    <3> QED
      BY <3>1, FS_Union
  <2>2. Cardinality(Of("Listed") \cap Of("Funded")) = 0
    BY <1>3, FS_EmptySet
  <2>3. Cardinality(Of("Listed") \cup Of("Funded")) = Cardinality(D)
    BY <1>3
  <2>4. Cardinality(Of("Listed")) \in Nat /\ Cardinality(Of("Funded")) \in Nat
    BY <1>8
  <2> HIDE DEF Of, D
  <2> QED
    BY <2>1, <2>2, <2>3, <2>4
<1>10. /\ Reads!computeInvoiceStats(w)["Listed"] = Cardinality(Of("Listed"))
       /\ Reads!computeInvoiceStats(w)["Funded"] = Cardinality(Of("Funded"))
  BY SameCardinality DEF Reads!computeInvoiceStats, Reads!Statuses
<1> HIDE DEF D, Of
<1> QED
  BY <1>5, <1>6, <1>7, <1>8, <1>9, <1>10

\* What the totals on screen come from has it all.
LEMMA WalkInvSuffices ==
    ASSUME WalkInv
    PROVE  Reads!TotalsAreComplete
<1> SUFFICES ASSUME stats # Reads!NoWalk, ~(stats.page > MaxPages)
             PROVE  /\ Complete(stats)
                    /\ LET total == Reads!computeInvoiceStats(stats)
                           counted == total["Listed"] + total["Funded"]
                       IN stats.atStart <= counted + stats.grown /\ counted <= Len(rows)
  BY DEF Reads!TotalsAreComplete, Complete
<1>1. stats \in Walks(Len(rows)) /\ Complete(stats) /\ Len(rows) \in Nat
  BY DEF WalkInv
<1> QED
  BY <1>1, CountsAddUp

\* Rows are added and change their status; none goes away.
LEMMA RowsStep ==
    ASSUME WalkInv,
           Reads!InvoiceCreated \/ \E i \in DOMAIN rows : Reads!InvoiceFunded(i)
    PROVE  WalkInv'
<1> DEFINE Grown == /\ rows' \in Seq(Reads!Statuses)
                    /\ Len(rows) \in Nat /\ Len(rows') \in Nat /\ Len(rows) <= Len(rows')
<1>1. Grown
  <2>1. CASE Reads!InvoiceCreated
    BY <2>1 DEF WalkInv, Reads!InvoiceCreated, Reads!Statuses
  <2>2. ASSUME NEW i \in DOMAIN rows, Reads!InvoiceFunded(i)
        PROVE  Grown
    BY <2>2 DEF WalkInv, Reads!InvoiceFunded, Reads!Statuses
  <2> QED
    BY <2>1, <2>2
<1>2. UNCHANGED <<walk, stats>>
  BY DEF Reads!InvoiceCreated, Reads!InvoiceFunded
<1>3. Walks(Len(rows)) \subseteq Walks(Len(rows'))
  BY <1>1, WalksGrow
<1>4. ASSUME walk \in Walks(Len(rows)), walk.page \in 1 .. MaxPages, Covered(walk)
      PROVE  Covered(walk)'
  <2> SUFFICES ASSUME NEW i \in 1 .. walk.atStart,
                      Len(rows') - i < (walk.page - 1) * PageSize
               PROVE  i \in DOMAIN walk.byId
    BY <1>2 DEF Covered
  <2>1. i \in Int
    BY <1>4 DEF Walks
  <2>2. PICK b : b = (walk.page - 1) * PageSize
    OBVIOUS
  <2>3. Len(rows) - i < b
    BY <1>1, <2>1, <2>2
  <2> QED
    BY <1>4, <2>2, <2>3 DEF Covered
<1> QED
  BY <1>1, <1>2, <1>3, <1>4 DEF WalkInv, Complete

\* The COUNT of a request.
LEMMA CountStep ==
    ASSUME WalkInv, Reads!CountInvoices
    PROVE  WalkInv'
<1>1. walk \in Walks(Len(rows)) /\ walk.page \in 1 .. MaxPages /\ Covered(walk)
  BY DEF WalkInv, Reads!CountInvoices, Reads!NoWalk
<1>2. Len(rows) \in 0 .. Len(rows)
  BY DEF WalkInv
<1>3. /\ walk' = [walk EXCEPT !.counted = TRUE, !.total = Len(rows)]
      /\ UNCHANGED <<rows, stats>>
  BY DEF Reads!CountInvoices
<1>4. /\ walk' \in Walks(Len(rows)) /\ walk'.page = walk.page
      /\ walk'.byId = walk.byId /\ walk'.atStart = walk.atStart
  BY <1>1, <1>2, <1>3 DEF Walks
<1>5. Covered(walk)'
  BY <1>1, <1>3, <1>4 DEF Covered
<1> QED
  BY <1>1, <1>3, <1>4, <1>5 DEF WalkInv, Complete

\* One request of the walk: what it has afterwards, and when it may stop.
LEMMA WalkPageStep ==
    ASSUME Reads!PagesHoldSomething, WalkInv, Reads!WalkPage
    PROVE  WalkInv'
<1> DEFINE p == walk.page
           n == Len(rows)
           got == Reads!getInvoices(p)
           seen == [i \in got \cup DOMAIN walk.byId |->
                       IF i \in got THEN rows[i] ELSE walk.byId[i]]
           known == Reads!pagesKnown(walk)
           next == [walk EXCEPT !.page = @ + 1, !.totalPages = known, !.byId = seen,
                                !.counted = FALSE, !.grown = Len(rows) - walk.total]
<1>1. /\ walk \in Walks(n) /\ p \in 1 .. MaxPages /\ Covered(walk)
      /\ n \in Nat /\ rows \in Seq(Reads!Statuses)
      /\ PageSize \in Nat \ {0} /\ MaxPages \in Nat
  BY DEF WalkInv, Reads!WalkPage, Reads!NoWalk, Reads!PagesHoldSomething
<1>2. UNCHANGED rows
  BY DEF Reads!WalkPage
<1>3. got \subseteq 1 .. n
  BY DEF Reads!getInvoices
<1>4. seen \in Found(n)
  <2>1. DOMAIN walk.byId \subseteq 1 .. n
        /\ \A i \in DOMAIN walk.byId : walk.byId[i] \in Reads!Statuses
    BY <1>1 DEF Walks, Found
  <2>2. \A i \in 1 .. n : rows[i] \in Reads!Statuses
    BY <1>1
  <2>3. seen \in [got \cup DOMAIN walk.byId -> Reads!Statuses]
    BY <1>3, <2>1, <2>2
  <2> QED
    BY <1>3, <2>1, <2>3 DEF Found
<1>0. walk.total \in 0 .. n
  BY <1>1 DEF Walks
<1>5. known \in Nat
  BY <1>0, <1>1 DEF Reads!pagesKnown, Reads!TotalPages
<1>6. /\ next \in Walks(n)
      /\ next.page = p + 1 /\ next.totalPages = known /\ next.atStart = walk.atStart
      /\ next.grown = n - walk.total
      /\ DOMAIN next.byId = got \cup DOMAIN walk.byId
  <2> HIDE DEF got, known
  <2>1. DOMAIN seen = got \cup DOMAIN walk.byId
    OBVIOUS
  <2> HIDE DEF seen
  <2>2. p + 1 \in Nat
    BY <1>1
  <2>6. n - walk.total \in 0 .. n
    BY <1>0, <1>1
  <2>3. PICK a \in Nat, b \in Nat, c \in Found(n), d \in 0 .. n :
           a = p + 1 /\ b = known /\ c = seen /\ d = n - walk.total
    BY <1>4, <1>5, <2>2, <2>6
  <2> DEFINE x == [walk EXCEPT !.page = a, !.totalPages = b, !.byId = c,
                               !.counted = FALSE, !.grown = d]
  <2>4. x \in Walks(n) /\ x.page = a /\ x.totalPages = b /\ x.byId = c
        /\ x.atStart = walk.atStart /\ x.grown = d
    <3> HIDE DEF n
    <3>1. walk \in Walks(n)
      BY <1>1
    <3> QED
      BY <3>1 DEF Walks
  <2>5. next = x
    BY <2>3, Zenon
  <2> HIDE DEF next, x
  <2> QED
    BY <2>1, <2>3, <2>4, <2>5
<1>7. walk.atStart \in 0 .. n
  BY <1>1 DEF Walks
<1>8. ASSUME NEW i \in 1 .. walk.atStart, n - i < p * PageSize
      PROVE  i \in DOMAIN next.byId
  <2>1. i \in 1 .. n /\ n - i \in Nat
    BY <1>1, <1>7
  <2>2. CASE n - i < (p - 1) * PageSize
    BY <1>1, <1>6, <2>2 DEF Covered
  <2>3. CASE ~(n - i < (p - 1) * PageSize)
    <3>1. /\ p - 1 \in Nat /\ (p - 1) * PageSize \in Nat
          /\ (p - 1) + 1 = p
      BY <1>1
    <3>2. (n - i) \div PageSize = p - 1
      BY <1>1, <1>8, <2>1, <2>3, <3>1, PageOfPlace, SMTT(30)
    <3> QED
      BY <1>6, <2>1, <3>2 DEF Reads!getInvoices
  <2> QED
    BY <2>2, <2>3
<1>9. Covered(next)
  BY <1>1, <1>6, <1>8 DEF Covered
<1> HIDE DEF next
<1>10. CASE got # {} /\ next.page <= next.totalPages /\ next.page <= MaxPages
  <2>1. walk' = next /\ UNCHANGED stats
    BY <1>10 DEF Reads!WalkPage, next
  <2>2. next.page \in 1 .. MaxPages
    BY <1>1, <1>6, <1>10
  <2>3. Covered(walk)'
    BY <1>2, <1>9, <2>1 DEF Covered
  <2> QED
    BY <1>1, <1>2, <1>6, <2>1, <2>2, <2>3 DEF WalkInv, Complete
<1>11. CASE ~(got # {} /\ next.page <= next.totalPages /\ next.page <= MaxPages)
  <2>1. walk' = Reads!NoWalk /\ stats' = next
    BY <1>11 DEF Reads!WalkPage, next
  <2>2. CASE next.page > MaxPages
    BY <1>1, <1>2, <1>6, <2>1, <2>2 DEF WalkInv
  <2>3. CASE got = {}
    <3>1. n <= (p - 1) * PageSize
      <4> SUFFICES ASSUME n > (p - 1) * PageSize
                   PROVE  FALSE
        BY <1>1
      <4>1. PICK b : b = (p - 1) * PageSize
        OBVIOUS
      <4>2. b \in Nat /\ b < n /\ p - 1 \in Nat /\ b < ((p - 1) + 1) * PageSize
        BY <1>1, <4>1
      <4>3. n - b \in 1 .. n /\ n - (n - b) = b
        BY <1>1, <4>2
      <4>4. b \div PageSize = p - 1
        BY <1>1, <4>1, <4>2, PageOfPlace
      <4>5. n - b \in got
        BY <4>3, <4>4 DEF Reads!getInvoices
      <4> QED
        BY <2>3, <4>5
    <3>2. \A i \in 1 .. walk.atStart : n - i < (p - 1) * PageSize
      BY <1>1, <1>7, <3>1
    <3>3. 1 .. walk.atStart \subseteq DOMAIN next.byId
      BY <1>1, <1>6, <3>2 DEF Covered
    <3>4. Complete(next)
      BY <1>0, <1>1, <1>6, <1>7, <3>3 DEF Complete
    <3>5. Complete(stats)'
      BY <2>1, <3>4 DEF Complete
    <3> QED
      BY <1>1, <1>2, <1>6, <2>1, <3>5 DEF WalkInv
  <2>4. CASE next.page > next.totalPages
    <3>1. (walk.total + PageSize - 1) \div PageSize <= p
      BY <1>0, <1>1, <1>6, <2>4 DEF Reads!pagesKnown, Reads!TotalPages
    <3>2. PICK b : b = p * PageSize
      OBVIOUS
    <3>3. walk.total <= b /\ b \in Nat
      <4>1. walk.total \in Nat /\ p \in Nat
        BY <1>0, <1>1
      <4>2. walk.total <= p * PageSize
        BY <1>1, <3>1, <4>1, LastPage
      <4>3. p * PageSize \in Nat
        BY <1>1, <4>1
      <4> QED
        BY <3>2, <4>2, <4>3
    <3>4. ASSUME NEW i \in (next.grown + 1) .. walk.atStart
          PROVE  i \in 1 .. walk.atStart /\ n - i < b
      <4>1. PICK t \in 0 .. n, a \in 0 .. n : t = walk.total /\ a = walk.atStart
        BY <1>0, <1>7
      <4>2. i \in (n - t + 1) .. a /\ t <= b
        BY <1>6, <3>3, <3>4, <4>1
      <4> HIDE DEF n
      <4> QED
        BY <1>1, <3>3, <4>1, <4>2
    <3>5. Complete(next)
      BY <1>6, <1>8, <3>2, <3>4 DEF Complete
    <3>6. Complete(stats)'
      BY <2>1, <3>5 DEF Complete
    <3> QED
      BY <1>1, <1>2, <1>6, <2>1, <3>6 DEF WalkInv
  <2> QED
    BY <1>1, <1>6, <1>5, <1>11, <2>2, <2>3, <2>4
<1> QED
  BY <1>10, <1>11

\* One step keeps the invariant of the walk.
LEMMA WalkStep ==
    ASSUME Reads!PagesHoldSomething, WalkInv, [Reads!Next]_Reads!vars
    PROVE  WalkInv'
<1>1. CASE Reads!StartWalk
  <2> DEFINE w == [page |-> 1, totalPages |-> 1, byId |-> <<>>, counted |-> FALSE,
                   total |-> 0, grown |-> 0, atStart |-> Len(rows)]
  <2>1. walk' = w /\ UNCHANGED <<rows, stats>>
    BY <1>1 DEF Reads!StartWalk, Reads!NoWalk
  <2>2. Len(rows) \in Nat /\ MaxPages \in Nat \ {0} /\ PageSize \in Nat
    BY DEF WalkInv, Reads!PagesHoldSomething
  <2>3. <<>> \in Found(Len(rows))
    <3>1. <<>> \in [{} -> Reads!Statuses] /\ {} \in SUBSET (1 .. Len(rows))
      OBVIOUS
    <3> QED
      BY <3>1 DEF Found
  <2>4. w \in Walks(Len(rows)) /\ w.page = 1 /\ w.page \in 1 .. MaxPages
    BY <2>2, <2>3 DEF Walks
  <2>5. (1 - 1) * PageSize = 0
    BY <2>2
  <2>6. Covered(w)
    BY <2>2, <2>5 DEF Covered
  <2>7. Covered(walk)'
    BY <2>1, <2>6 DEF Covered
  <2> QED
    BY <2>1, <2>4, <2>7 DEF WalkInv, Complete
<1>2. CASE Reads!WalkFails
  BY <1>2 DEF WalkInv, Reads!WalkFails, Complete
<1>3. CASE Reads!HistoryNext \/ UNCHANGED Reads!vars
  <2>1. UNCHANGED <<rows, walk, stats>>
    BY <1>3 DEF Reads!HistoryNext, Reads!TransactionCloses, Reads!SwitchAccount,
       Reads!OpsForgotten, Reads!OpsSettled, Reads!FetchTransactions, Reads!FetchFails,
       Reads!goNext, Reads!goPrev, Reads!ResetEffect, Reads!walkVars, Reads!vars
  <2> QED
    BY <2>1 DEF WalkInv, Covered, Complete
<1> QED
  BY <1>1, <1>2, <1>3, RowsStep, CountStep, WalkPageStep DEF Reads!Next, Reads!WalkNext

\* The dashboard's totals count every invoice that was there when the walk
\* began, once, but at most the oldest ones, as many as were created between the
\* COUNT and the SELECT of its last request, and unless the walk was cut at its
\* page limit: for any page size and whatever is created and funded meanwhile
\* (api.ts:445-490, queries.go:272-332).
THEOREM WalkTotalsComplete ==
    ASSUME Reads!PagesHoldSomething
    PROVE  Reads!Spec => []Reads!TotalsAreComplete
<1>1. Reads!Init => WalkInv
  BY DEF Reads!Init, WalkInv
<1>2. WalkInv /\ [Reads!Next]_Reads!vars => WalkInv'
  BY WalkStep
<1>3. WalkInv => Reads!TotalsAreComplete
  BY WalkInvSuffices
<1> QED
  BY <1>1, <1>2, <1>3, PTL DEF Reads!Spec

\* The parts of the types that the two invariants leave out.
ReadsRest ==
    /\ screen \in {"profile", "dashboard"} /\ resetDue \in BOOLEAN
    /\ ops \subseteq Accounts \X (1 .. MaxTx)
    /\ turns \in 0 .. MaxTurns
    /\ Len(rows) <= MaxInvoices
    /\ stats.page \in 0 .. MaxPages + 1

LEMMA ReadsRestStep ==
    ASSUME Reads!BoundsAreNat, Reads!PagesHoldSomething, HistoryInv, WalkInv, ReadsRest,
           [Reads!Next]_Reads!vars
    PROVE  ReadsRest'
<1> USE DEF Reads!BoundsAreNat, Reads!PagesHoldSomething, ReadsRest
<1>1. CASE UNCHANGED Reads!vars
  BY <1>1 DEF Reads!vars, Reads!historyVars, Reads!walkVars
<1>2. CASE UNCHANGED screen /\ Reads!HistoryNext
  <2>1. UNCHANGED <<rows, stats>>
    BY <1>2 DEF Reads!HistoryNext, Reads!TransactionCloses, Reads!SwitchAccount,
       Reads!OpsForgotten, Reads!OpsSettled, Reads!FetchTransactions, Reads!FetchFails,
       Reads!goNext, Reads!goPrev, Reads!ResetEffect, Reads!walkVars
  <2>2. UNCHANGED turns \/ (turns < MaxTurns /\ turns' = turns + 1)
    BY <1>2 DEF Reads!HistoryNext, Reads!TransactionCloses, Reads!SwitchAccount,
       Reads!OpsForgotten, Reads!OpsSettled, Reads!FetchTransactions, Reads!FetchFails,
       Reads!goNext, Reads!goPrev, Reads!ResetEffect, Reads!Turn
  <2>3. resetDue' \in BOOLEAN
    BY <1>2 DEF Reads!HistoryNext, Reads!TransactionCloses, Reads!SwitchAccount,
       Reads!OpsForgotten, Reads!OpsSettled, Reads!FetchTransactions, Reads!FetchFails,
       Reads!goNext, Reads!goPrev, Reads!ResetEffect
  <2>4. ops' \subseteq Accounts \X (1 .. MaxTx)
    <3>1. ASSUME NEW failed, Reads!OpsSettled(failed)
          PROVE  ops' \subseteq Accounts \X (1 .. MaxTx)
      <4>1. fetch \in [key : Reads!Keys, records : Windows, tries : 1 .. 3]
        BY <3>1 DEF HistoryInv, Reads!OpsSettled
      <4>2. fetch.key[1] \in Accounts /\ fetch.records \subseteq 1 .. MaxTx
        BY <4>1 DEF Reads!Keys, Windows, Window
      <4> QED
        BY <3>1, <4>2 DEF Reads!OpsSettled
    <3>2. CASE \/ \E a \in Accounts : Reads!TransactionCloses(a) \/ Reads!SwitchAccount(a)
               \/ \E a \in Accounts, n \in 1 .. MaxTx : Reads!OpsForgotten(a, n)
               \/ Reads!FetchTransactions \/ Reads!FetchFails
               \/ Reads!goNext \/ Reads!goPrev \/ Reads!ResetEffect
      BY <3>2 DEF Reads!TransactionCloses, Reads!SwitchAccount, Reads!OpsForgotten,
         Reads!FetchTransactions, Reads!FetchFails, Reads!goNext, Reads!goPrev,
         Reads!ResetEffect
    <3> QED
      BY <1>2, <3>1, <3>2 DEF Reads!HistoryNext
  <2>5. turns' \in 0 .. MaxTurns
    BY <2>2
  <2> QED
    BY <1>2, <2>1, <2>3, <2>4, <2>5
<1>3. CASE UNCHANGED screen /\ Reads!WalkNext
  <2>1. UNCHANGED <<resetDue, ops, turns>>
    BY <1>3 DEF Reads!WalkNext, Reads!InvoiceCreated, Reads!StartWalk, Reads!CountInvoices,
       Reads!WalkPage, Reads!WalkFails, Reads!InvoiceFunded, Reads!historyVars
  <2>2. Len(rows') <= MaxInvoices
    <3>1. CASE Reads!InvoiceCreated
      BY <3>1 DEF Reads!InvoiceCreated, WalkInv
    <3>2. ASSUME NEW i \in DOMAIN rows, Reads!InvoiceFunded(i)
          PROVE  Len(rows') = Len(rows)
      BY <3>2 DEF Reads!InvoiceFunded, WalkInv
    <3>3. CASE Reads!StartWalk \/ Reads!CountInvoices \/ Reads!WalkPage \/ Reads!WalkFails
      BY <3>3 DEF Reads!StartWalk, Reads!CountInvoices, Reads!WalkPage, Reads!WalkFails
    <3> QED
      BY <1>3, <3>1, <3>2, <3>3 DEF Reads!WalkNext
  <2>3. stats'.page \in 0 .. MaxPages + 1
    <3>1. CASE Reads!WalkPage
      <4>1. walk \in Walks(Len(rows)) /\ walk.page \in 1 .. MaxPages
        BY <3>1 DEF WalkInv, Reads!WalkPage, Reads!NoWalk
      <4>2. UNCHANGED stats \/ stats'.page = walk.page + 1
        BY <3>1, <4>1 DEF Reads!WalkPage, Walks
      <4> QED
        BY <4>1, <4>2
    <3>2. CASE ~Reads!WalkPage
      BY <1>3, <3>2 DEF Reads!WalkNext, Reads!InvoiceCreated, Reads!StartWalk,
         Reads!CountInvoices, Reads!WalkFails, Reads!InvoiceFunded
    <3> QED
      BY <3>1, <3>2
  <2> QED
    BY <1>3, <2>1, <2>2, <2>3
<1> QED
  BY <1>1, <1>2, <1>3 DEF Reads!Next

\* Every reachable state of the two reads is well typed: a cursor is always
\* there for the page on screen, and a walk never asks beyond its limit
\* (useTxHistory.ts:376-416, api.ts:448-490).
THEOREM ReadsTypes ==
    ASSUME Reads!BoundsAreNat, Reads!PagesHoldSomething, Reads!OursAreTransactions
    PROVE  Reads!Spec => []Reads!TypeOK
<1> DEFINE Inv == HistoryInv /\ WalkInv /\ ReadsRest
<1>1. Reads!Init => Inv
  <2> SUFFICES ASSUME Reads!Init
               PROVE  Inv
    OBVIOUS
  <2>1. WalkInv
    BY DEF Reads!Init, WalkInv
  <2>2. ReadsRest
    <3>1. stats.page = 0 /\ Len(rows) = 0 /\ turns = 0
      BY DEF Reads!Init, Reads!NoWalk
    <3>2. screen \in {"profile", "dashboard"} /\ resetDue \in BOOLEAN /\ ops = {}
      BY DEF Reads!Init
    <3>3. stats.page \in 0 .. MaxPages + 1 /\ Len(rows) <= MaxInvoices /\ turns \in 0 .. MaxTurns
      BY <3>1 DEF Reads!BoundsAreNat, Reads!PagesHoldSomething
    <3> QED
      BY <3>2, <3>3 DEF ReadsRest
  <2> QED
    BY <2>1, <2>2, HistoryInit
<1>2. Inv /\ [Reads!Next]_Reads!vars => Inv'
  BY HistoryStep, WalkStep, ReadsRestStep
<1>3. Inv => Reads!TypeOK
  <2> SUFFICES ASSUME Inv
               PROVE  Reads!TypeOK
    OBVIOUS
  <2>1. fetch.tries \in 0 .. 3 /\ fetch.records \subseteq 1 .. MaxTx
    <3>1. CASE fetch = Reads!NoFetch
      BY <3>1 DEF Reads!NoFetch
    <3>2. CASE fetch \in [key : Reads!Keys, records : Windows, tries : 1 .. 3]
      BY <3>2 DEF Windows, Window, Reads!BoundsAreNat
    <3> QED
      BY <3>1, <3>2 DEF HistoryInv
  <2>2. walk.page \in 0 .. MaxPages + 1
    BY DEF WalkInv, Reads!NoWalk, Reads!PagesHoldSomething
  <2> QED
    BY <2>1, <2>2 DEF Reads!TypeOK, HistoryInv, WalkInv, ReadsRest
<1> HIDE DEF Inv
<1> QED
  BY <1>1, <1>2, <1>3, PTL DEF Reads!Spec

-----------------------------------------------------------------------------
(* The console of the marketplace and of the dashboard.                    *)

\* Rows are cached under the key of the view they were asked for, and match it
\* whatever became of the invoices since.
RowFits(k, r) ==
    /\ k.screen = "marketplace" => k.of \in {"ALL", r.status}
    /\ k.screen = "dashboard" => Issuer[r.id] = k.of

CacheFitsKeys == \A k \in DOMAIN data : \A r \in data[k].rows : RowFits(k, r)

\* The inductive invariant of the console.
ConsoleInv == CacheFitsKeys /\ ConsoleFitsView

\* The indexer's answer fits its key.
LEMMA AnswerFits ==
    ASSUME NEW k, NEW r \in getInvoices(k).rows
    PROVE  RowFits(k, r)
<1>1. PICK i \in Invoices : Matches(k, i) /\ r = [id |-> i, status |-> rows[i]]
  BY DEF getInvoices
<1> QED
  BY <1>1 DEF Matches, RowFits

LEMMA FetchKeepsFit ==
    ASSUME ConsoleInv, FetchList
    PROVE  ConsoleInv'
<1>1. data' = Cached(Key, getInvoices(Key)) /\ UNCHANGED <<selected, screen, filter, address>>
  BY DEF FetchList, pickVars, viewVars
<1>2. ASSUME NEW k \in DOMAIN data', NEW r \in data'[k].rows
      PROVE  RowFits(k, r)
  <2>1. CASE k = Key
    <3>1. data'[k] = getInvoices(k)
      BY <1>1, <2>1 DEF Cached
    <3> QED
      BY <1>2, <3>1, AnswerFits
  <2>2. CASE k # Key
    <3>1. k \in DOMAIN data /\ data'[k] = data[k]
      BY <1>1, <1>2, <2>2 DEF Cached
    <3> QED
      BY <1>2, <3>1 DEF ConsoleInv, CacheFitsKeys
  <2> QED
    BY <2>1, <2>2
<1>3. CacheFitsKeys'
  BY <1>2 DEF CacheFitsKeys, RowFits
<1>4. ConsoleFitsView'
  BY <1>1 DEF ConsoleInv, ConsoleFitsView, Fits
<1> QED
  BY <1>3, <1>4 DEF ConsoleInv

\* What the table shows fits the view, and so does a row that is picked.
LEMMA SelectFits ==
    ASSUME CacheFitsKeys, NEW r \in Shown, selected' = r,
           UNCHANGED <<screen, filter, address>>
    PROVE  ConsoleFitsView'
<1>1. /\ HasTable /\ Key \in DOMAIN data /\ r \in data[Key].rows
      /\ screen = "marketplace" => Face[r.id] >= filter.min
  BY DEF Shown, Loaded
<1>2. RowFits(Key, r)
  BY <1>1 DEF CacheFitsKeys
<1>3. screen = "marketplace" => filter.status \in {"ALL", r.status}
  BY <1>2 DEF RowFits, Key
<1>4. screen = "dashboard" => Issuer[r.id] = address
  BY <1>2 DEF RowFits, Key
<1> QED
  BY <1>1, <1>3, <1>4 DEF ConsoleFitsView, Fits

\* Steps after which the console is as it was, or empty, or not there.
LEMMA ConsoleKept ==
    ASSUME ConsoleFitsView,
           \/ selected' = None
           \/ screen' \notin {"marketplace", "dashboard"}
           \/ UNCHANGED <<selected, screen, filter, address>>
           \/ UNCHANGED <<selected, screen, filter>> /\ screen # "dashboard"
    PROVE  ConsoleFitsView'
BY DEF ConsoleFitsView, Fits, None

\* A user's step.
LEMMA UserKeepsFit ==
    ASSUME ConsoleInv, UserNext
    PROVE  ConsoleFitsView'
<1>1. ASSUME NEW r \in Shown, handleSelectInvoice(r)
      PROVE  ConsoleFitsView'
  BY <1>1, SelectFits DEF ConsoleInv, handleSelectInvoice, viewVars
<1>2. CASE \/ \E f \in Filters : SetFilter(f)
           \/ \E p \in page - 1 .. page + 1 : handlePageChange(p)
           \/ \E l \in Limits : handleLimitChange(l)
           \/ \E s \in Screens : Navigate(s)
           \/ ClearConsole \/ emptyStateAction
  <2>1. selected' = None
    BY <1>2 DEF SetFilter, ResetView, handlePageChange, handleLimitChange, Navigate,
                ClearConsole, emptyStateAction, Forget
  <2> QED
    BY <2>1, ConsoleKept DEF ConsoleInv
<1>3. ASSUME NEW a \in Accounts, SwitchAccount(a)
      PROVE  ConsoleFitsView'
  BY <1>3, ConsoleKept DEF ConsoleInv, SwitchAccount, Forget
<1>4. ASSUME NEW i \in Invoices, OpenInvoice(i)
      PROVE  ConsoleFitsView'
  BY <1>4, ConsoleKept DEF ConsoleInv, OpenInvoice
<1>5. CASE \/ \E i \in Invoices : toggleRowSelection(i)
           \/ \E r \in Requests : Click(r)
           \/ toggleAllOnPage \/ clearSelection \/ cancelDialog \/ handleConfirm \/ CloseForm
             \/ openListForm \/ cancelListForm
  <2>1. UNCHANGED <<selected, screen, filter, address>>
    BY <1>5 DEF toggleRowSelection, toggleAllOnPage, clearSelection, handleSelectionChange,
                Click, cancelDialog, handleConfirm, CloseForm, openListForm,
                cancelListForm, viewVars, pickVars
  <2> QED
    BY <2>1, ConsoleKept DEF ConsoleInv
<1> QED
  BY <1>1, <1>2, <1>3, <1>4, <1>5 DEF UserNext

\* A step of a write: an answer changes what an invoice's own page shows, and
\* the form empties the console.
LEMMA WriteKeepsFit ==
    ASSUME ConsoleInv, NEW n \in DOMAIN writes, WriteNext(n)
    PROVE  ConsoleFitsView'
<1>1. UNCHANGED viewVars
  BY DEF WriteNext, ReadAllowance, Fails, Refused, LoseAnswer,
     NeverLands, SimulateListing, ListCreated,
         cancelCreatedInvoice, Approve, Takes, createInvoice, AfterCreate
<1>2. UNCHANGED <<screen, filter, address>>
  BY <1>1 DEF viewVars
<1>3. UNCHANGED selected \/ selected' = None \/ screen = "detail"
  BY DEF WriteNext, ReadAllowance, Fails, Refused, LoseAnswer,
     NeverLands, SimulateListing, ListCreated,
         cancelCreatedInvoice, Approve, Takes, createInvoice, AfterCreate,
         Succeed, FormSucceeds, pickVars
<1> QED
  BY <1>2, <1>3, ConsoleKept DEF ConsoleInv

\* The cache of the lists changes only when a list is read.
LEMMA DataKept ==
    ASSUME Next, ~FetchList
    PROVE  UNCHANGED data
<1>1. CASE UserNext
  BY <1>1 DEF UserNext, handleSelectInvoice, SetFilter, handlePageChange, handleLimitChange,
     SwitchAccount, Navigate, OpenInvoice, toggleRowSelection, Click, ClearConsole,
     emptyStateAction, toggleAllOnPage, clearSelection, handleSelectionChange, cancelDialog,
     handleConfirm, CloseForm, openListForm,
     cancelListForm
<1>2. ASSUME NEW n \in DOMAIN writes, WriteNext(n)
      PROVE  UNCHANGED data
  BY <1>2 DEF WriteNext, ReadAllowance, Fails, Refused, LoseAnswer,
     NeverLands, SimulateListing, ListCreated,
         cancelCreatedInvoice, Approve, Takes, createInvoice, AfterCreate
<1>3. ASSUME NEW i \in Invoices, Index(i) \/ Attest(i)
      PROVE  UNCHANGED data
  BY <1>3 DEF Index, Attest
<1> QED
  BY <1>1, <1>2, <1>3 DEF Next

\* One step keeps the invariant of the console.
LEMMA ConsoleStep ==
    ASSUME ConsoleInv, [Next]_vars
    PROVE  ConsoleInv'
<1>1. CASE FetchList
  BY <1>1, FetchKeepsFit
<1>2. CASE Next /\ ~FetchList
  <2>1. CacheFitsKeys'
    BY <1>2, DataKept DEF ConsoleInv, CacheFitsKeys, RowFits
  <2>2. ASSUME NEW i \in Invoices, Index(i) \/ Attest(i)
        PROVE  ConsoleFitsView'
    BY <2>2, ConsoleKept DEF ConsoleInv, Index, Attest, viewVars, pickVars
  <2> QED
    BY <1>2, <2>1, <2>2, UserKeepsFit, WriteKeepsFit DEF Next, ConsoleInv
<1>3. CASE UNCHANGED vars
  BY <1>3, ConsoleKept DEF ConsoleInv, CacheFitsKeys, RowFits, vars, viewVars, pickVars
<1> QED
  BY <1>1, <1>2, <1>3

\* What the console shows fits the view, for any invoices, wallets, page sizes
\* and number of steps: on the marketplace it passes the filters in force, on
\* the dashboard the connected wallet issued it, although the snapshot it keeps
\* and the cache it was taken from are older than both
\* (marketplace/page.tsx:183-186, dashboard/page.tsx:83-85).
THEOREM ConsoleFits == FairSpec => []ConsoleFitsView
<1>1. Init => ConsoleInv
  BY DEF Init, ConsoleInv, CacheFitsKeys, ConsoleFitsView
<1>2. ConsoleInv /\ [Next]_vars => ConsoleInv'
  BY ConsoleStep
<1>3. ConsoleInv => ConsoleFitsView
  BY DEF ConsoleInv
<1> QED
  BY <1>1, <1>2, <1>3, PTL DEF FairSpec

-----------------------------------------------------------------------------
(* The allowance of a repayment or a deposit.                              *)

Ids == Invoices \cup {0}
Kinds == {"none", "create", "deposit", "withdraw", "list_for_financing", "fund_invoice",
          "mark_shipped", "confirm_delivery", "trigger_default", "repay"}
Stages == {"allowance", "approve", "approveLate", "create", "created", "simulate", "list",
           "cancel", "send", "sendLate", "done"}
RequestRecords == [kind : Kinds, id : Ids, amount : Nat]
WriteRecords ==
    [kind : Kinds, id : Ids, amount : Nat, stage : Stages, rival : BOOLEAN,
     result : {"none", "ok", "error", "allowance"}]

\* What is picked, asked for and confirmed has an invoice's amount.
RequestsTyped ==
    /\ \A k \in DOMAIN data : \A r \in data[k].rows : r.id \in Invoices
    /\ selected.id \in Invoices \/ (selected = None /\ screen # "detail")
    /\ dialog \in RequestRecords

\* A write that has passed its check, and that no other of its kind came after,
\* has the allowance it needs.
WriteCovered(w, granted) ==
    /\ w.stage \in {"allowance", "approve", "approveLate"} => w.kind \in Spending
    /\ (w.stage = "send" /\ w.kind \in Spending /\ ~w.rival)
          => granted[Spender(w.kind)] >= w.amount
    /\ w.result = "allowance" => w.rival

WritesCovered ==
    /\ writes \in Seq(WriteRecords)
    /\ \A n \in DOMAIN writes : WriteCovered(writes[n], allowance)

\* The inductive invariant of the allowance.
AllowanceInv ==
    /\ allowance \in [{"invoice", "pool"} -> Int]
    /\ RequestsTyped
    /\ WritesCovered

\* A record for every write makes a sequence of them.
LEMMA WritesFromFunction ==
    ASSUME writes \in Seq(WriteRecords), NEW f \in [DOMAIN writes -> WriteRecords]
    PROVE  f \in Seq(WriteRecords) /\ DOMAIN f = DOMAIN writes
<1>1. DOMAIN writes = 1 .. Len(writes) /\ Len(writes) \in Nat
  OBVIOUS
<1>2. f \in [1 .. Len(writes) -> WriteRecords]
  BY <1>1
<1> QED
  BY <1>1, <1>2, SeqDef

\* One write is replaced by one that is covered.
LEMMA ReplaceCovered ==
    ASSUME WritesCovered, NEW n \in DOMAIN writes, NEW w \in WriteRecords,
           WriteCovered(w, allowance), UNCHANGED allowance,
           writes' = [writes EXCEPT ![n] = w]
    PROVE  WritesCovered'
<1>1. writes' \in [DOMAIN writes -> WriteRecords]
  BY DEF WritesCovered
<1>2. writes' \in Seq(WriteRecords) /\ DOMAIN writes' = DOMAIN writes
  BY <1>1, WritesFromFunction DEF WritesCovered
<1>3. ASSUME NEW m \in DOMAIN writes'
      PROVE  WriteCovered(writes'[m], allowance)
  <2>1. CASE m = n
    <3>1. writes'[m] = w
      BY <1>2, <2>1 DEF WritesCovered
    <3> QED
      BY <3>1
  <2>2. CASE m # n
    <3>1. writes'[m] = writes[m] /\ m \in DOMAIN writes
      BY <1>2, <1>3, <2>2 DEF WritesCovered
    <3> QED
      BY <3>1 DEF WritesCovered
  <2> QED
    BY <2>1, <2>2
<1> QED
  BY <1>2, <1>3 DEF WritesCovered

\* A write that is over needs no allowance, whatever is granted.
LEMMA OverCovered ==
    ASSUME WritesCovered, NEW n \in DOMAIN writes, NEW granted,
           NEW result \in {"ok", "error", "allowance"},
           result = "allowance" => writes[n].rival
    PROVE  Over(n, result) \in WriteRecords /\ WriteCovered(Over(n, result), granted)
<1>1. writes[n].rival \in BOOLEAN
  <2>1. writes[n] \in WriteRecords
    BY DEF WritesCovered
  <2> QED
    BY <2>1 DEF WriteRecords
<1>2. 0 \in Ids /\ 0 \in Nat
  BY DEF Ids
<1>3. Over(n, result) \in WriteRecords
  BY <1>1, <1>2 DEF Over, WriteRecords, Kinds, Stages
<1> QED
  BY <1>3 DEF Over, WriteCovered

LEMMA SettleCovered ==
    ASSUME WritesCovered, NEW n \in DOMAIN writes, UNCHANGED allowance,
           NEW result \in {"ok", "error", "allowance"},
           result = "allowance" => writes[n].rival,
           writes' = [writes EXCEPT ![n] = Over(n, result)]
    PROVE  WritesCovered'
BY OverCovered, ReplaceCovered

\* A write moves to a stage that needs no allowance, or that it is covered for.
LEMMA MoveCovered ==
    ASSUME WritesCovered, NEW n \in DOMAIN writes, NEW s \in Stages, UNCHANGED allowance,
           s \in {"allowance", "approve", "approveLate"} => writes[n].kind \in Spending,
           s = "send" => allowance[Spender(writes[n].kind)] >= writes[n].amount,
           Move(n, s)
    PROVE  WritesCovered'
<1> DEFINE w == [writes[n] EXCEPT !.stage = s]
<1>1. writes[n] \in WriteRecords /\ WriteCovered(writes[n], allowance)
  BY DEF WritesCovered
<1>2. /\ w \in WriteRecords /\ w.stage = s
      /\ w.kind = writes[n].kind /\ w.amount = writes[n].amount
      /\ w.rival = writes[n].rival /\ w.result = writes[n].result
  BY <1>1 DEF WriteRecords
<1>3. writes' = [writes EXCEPT ![n] = w]
  BY DEF Move
<1> HIDE DEF w
<1>4. WriteCovered(w, allowance)
  BY <1>1, <1>2 DEF WriteCovered
<1> QED
  BY <1>2, <1>3, <1>4, ReplaceCovered

\* A write begins at its first stage.
LEMMA BeginCovered ==
    ASSUME WritesCovered, NEW r \in RequestRecords, Begin(r), UNCHANGED allowance
    PROVE  WritesCovered'
<1> DEFINE w == [kind |-> r.kind, id |-> r.id, amount |-> r.amount,
                 stage |-> FirstStage(r.kind), rival |-> FALSE, result |-> "none"]
<1>1. writes' = Append(writes, w)
  BY DEF Begin
<1>2. FirstStage(r.kind) \in Stages
  BY DEF FirstStage, Stages
<1>3. w \in WriteRecords
  BY <1>2 DEF RequestRecords, WriteRecords
<1>4. WriteCovered(w, allowance)
  BY DEF WriteCovered, FirstStage
<1> HIDE DEF w
<1>5. writes' \in Seq(WriteRecords)
  BY <1>1, <1>3 DEF WritesCovered
<1>6. ASSUME NEW m \in DOMAIN writes'
      PROVE  WriteCovered(writes'[m], allowance)
  <2>1. writes'[m] = w \/ (m \in DOMAIN writes /\ writes'[m] = writes[m])
    BY <1>1, <1>3, <1>6 DEF WritesCovered
  <2> QED
    BY <1>4, <2>1 DEF WritesCovered
<1> QED
  BY <1>5, <1>6 DEF WritesCovered

\* What Outdate changes: the writes of the same kind that have passed their
\* check now have a rival.
LEMMA OutdateWrite ==
    ASSUME WritesCovered, NEW n \in DOMAIN writes, NEW m \in DOMAIN writes
    PROVE  /\ Outdate(n)[m] \in WriteRecords
           /\ Outdate(n)[m].kind = writes[m].kind /\ Outdate(n)[m].stage = writes[m].stage
           /\ Outdate(n)[m].amount = writes[m].amount
           /\ Outdate(n)[m].result = writes[m].result
           /\ writes[m].rival => Outdate(n)[m].rival
           /\ (m # n /\ writes[m].kind = writes[n].kind /\ writes[m].stage = "send")
                 => Outdate(n)[m].rival
<1> DEFINE b == writes[m].rival
                  \/ (m # n /\ writes[m].kind = writes[n].kind /\ writes[m].stage = "send")
<1>1. PICK c \in BOOLEAN : c = b
  <2>1. writes[m] \in WriteRecords
    BY DEF WritesCovered
  <2>2. writes[m].rival \in BOOLEAN
    BY <2>1 DEF WriteRecords
  <2> QED
    BY <2>2
<1>2. Outdate(n)[m] = [writes[m] EXCEPT !.rival = c]
  BY <1>1, Zenon DEF Outdate
<1>3. writes[m] \in WriteRecords
  BY DEF WritesCovered
<1>4. /\ Outdate(n)[m] \in WriteRecords
      /\ Outdate(n)[m].kind = writes[m].kind /\ Outdate(n)[m].stage = writes[m].stage
      /\ Outdate(n)[m].amount = writes[m].amount
      /\ Outdate(n)[m].result = writes[m].result
      /\ Outdate(n)[m].rival = c
  BY <1>2, <1>3 DEF WriteRecords
<1> QED
  BY <1>1, <1>4

\* The allowance of one spender changes by a write of its kind: the others of
\* that kind have a rival now, and those of the other kind another spender.
LEMMA SpendCovered ==
    ASSUME AllowanceInv, NEW n \in DOMAIN writes, NEW w \in WriteRecords,
           WriteCovered(w, allowance'),
           \/ UNCHANGED allowance
           \/ /\ writes[n].kind \in Spending
              /\ \E a \in Int : allowance' = [allowance EXCEPT ![Spender(writes[n].kind)] = a],
           writes' = [Outdate(n) EXCEPT ![n] = w]
    PROVE  WritesCovered'
<1>1. WritesCovered /\ allowance \in [{"invoice", "pool"} -> Int]
  BY DEF AllowanceInv
<1>2. DOMAIN Outdate(n) = DOMAIN writes
  BY DEF Outdate
<1>3. Outdate(n) \in [DOMAIN writes -> WriteRecords]
  BY <1>1, OutdateWrite DEF Outdate
<1> HIDE DEF Outdate
<1>4. writes' \in [DOMAIN writes -> WriteRecords]
  BY <1>3
<1>5. writes' \in Seq(WriteRecords) /\ DOMAIN writes' = DOMAIN writes
  BY <1>1, <1>4, WritesFromFunction DEF WritesCovered
<1>6. ASSUME NEW m \in DOMAIN writes
      PROVE  WriteCovered(writes'[m], allowance')
  <2>1. CASE m = n
    BY <1>3, <2>1
  <2>2. CASE m # n
    <3> DEFINE o == Outdate(n)[m]
    <3>1. writes'[m] = o
      BY <1>3, <2>2
    <3>2. WriteCovered(writes[m], allowance)
      BY <1>1 DEF WritesCovered
    <3>3. /\ o.kind = writes[m].kind /\ o.stage = writes[m].stage
          /\ o.amount = writes[m].amount /\ o.result = writes[m].result
      BY <1>1, OutdateWrite
    <3>4. /\ writes[m].rival => o.rival
          /\ (writes[m].kind = writes[n].kind /\ writes[m].stage = "send") => o.rival
      BY <1>1, <2>2, OutdateWrite
    <3> HIDE DEF o
    <3>5. o.stage \in {"allowance", "approve", "approveLate"} => o.kind \in Spending
      BY <3>2, <3>3 DEF WriteCovered
    <3>6. o.result = "allowance" => o.rival
      BY <3>2, <3>3, <3>4 DEF WriteCovered
    <3>7. ASSUME o.stage = "send", o.kind \in Spending, ~o.rival
          PROVE  allowance'[Spender(o.kind)] >= o.amount
      <4>1. ~writes[m].rival /\ writes[m].kind # writes[n].kind
        BY <3>3, <3>4, <3>7
      <4>2. allowance[Spender(o.kind)] >= o.amount
        BY <3>2, <3>3, <3>7, <4>1 DEF WriteCovered
      <4>3. writes[n].kind \in Spending => Spender(o.kind) # Spender(writes[n].kind)
        BY <3>3, <3>7, <4>1 DEF Spending, Spender
      <4>4. Spender(o.kind) \in {"invoice", "pool"}
        BY DEF Spender
      <4>5. allowance'[Spender(o.kind)] = allowance[Spender(o.kind)]
        BY <1>1, <4>3, <4>4
      <4> QED
        BY <4>2, <4>5
    <3> QED
      BY <3>1, <3>5, <3>6, <3>7 DEF WriteCovered
  <2> QED
    BY <2>1, <2>2
<1> QED
  BY <1>5, <1>6 DEF WritesCovered

\* approve sets the allowance to the amount of its own write.
LEMMA ApproveCovers ==
    ASSUME AllowanceInv, NEW n \in DOMAIN writes, NEW answered \in BOOLEAN,
           Approve(n, answered)
    PROVE  WritesCovered' /\ allowance' \in [{"invoice", "pool"} -> Int]
<1> DEFINE sent == [writes[n] EXCEPT !.stage = "send"]
<1>1. /\ allowance \in [{"invoice", "pool"} -> Int] /\ WritesCovered
      /\ writes[n] \in WriteRecords /\ WriteCovered(writes[n], allowance)
  BY DEF AllowanceInv, WritesCovered
<1>2. writes[n].kind \in Spending /\ writes[n].amount \in Int
  BY <1>1 DEF Approve, Stage, WriteCovered, WriteRecords
<1>3. Spender(writes[n].kind) \in {"invoice", "pool"}
  BY DEF Spender
<1>4. allowance' = [allowance EXCEPT ![Spender(writes[n].kind)] = writes[n].amount]
  BY DEF Approve
<1>5. allowance' \in [{"invoice", "pool"} -> Int]
  BY <1>1, <1>2, <1>4
<1>6. CASE answered
  <2>1. /\ sent \in WriteRecords /\ sent.kind = writes[n].kind
        /\ sent.amount = writes[n].amount
    BY <1>1 DEF WriteRecords, Stages
  <2>2. sent.result = writes[n].result /\ sent.rival = writes[n].rival /\ sent.stage = "send"
    BY <1>1 DEF WriteRecords
  <2>3. writes' = [Outdate(n) EXCEPT ![n] = sent]
    BY <1>6 DEF Approve
  <2> HIDE DEF sent
  <2>4. allowance'[Spender(sent.kind)] >= sent.amount
    BY <1>1, <1>2, <1>3, <1>4, <2>1
  <2>5. WriteCovered(sent, allowance')
    BY <1>1, <2>2, <2>4 DEF WriteCovered
  <2> QED
    BY <1>2, <1>4, <1>5, <2>1, <2>3, <2>5, SpendCovered
<1>7. CASE ~answered
  <2>1. Over(n, "error") \in WriteRecords /\ WriteCovered(Over(n, "error"), allowance')
    BY <1>1, OverCovered
  <2>2. writes' = [Outdate(n) EXCEPT ![n] = Over(n, "error")]
    BY <1>7 DEF Approve
  <2> QED
    BY <1>2, <1>4, <1>5, <2>1, <2>2, SpendCovered
<1> QED
  BY <1>6, <1>7

\* A transfer uses up what it takes.
LEMMA TakesCovers ==
    ASSUME AllowanceInv, NEW n \in DOMAIN writes, NEW answered \in BOOLEAN,
           Takes(n, answered)
    PROVE  WritesCovered' /\ allowance' \in [{"invoice", "pool"} -> Int]
<1> DEFINE result == IF answered THEN "ok" ELSE "error"
           sp == Spender(writes[n].kind)
<1>1. /\ allowance \in [{"invoice", "pool"} -> Int] /\ WritesCovered
      /\ writes[n] \in WriteRecords
  BY DEF AllowanceInv, WritesCovered
<1>2. sp \in {"invoice", "pool"} /\ writes[n].amount \in Int
  BY <1>1 DEF Spender, WriteRecords
<1>3. \/ UNCHANGED allowance
      \/ /\ writes[n].kind \in Spending
         /\ allowance' = [allowance EXCEPT ![sp] = allowance[sp] - writes[n].amount]
  BY DEF Takes
<1>4. allowance[sp] - writes[n].amount \in Int
  BY <1>1, <1>2
<1>5. allowance' \in [{"invoice", "pool"} -> Int]
  BY <1>1, <1>2, <1>3, <1>4
<1>6. result \in {"ok", "error", "allowance"} /\ result # "allowance"
  OBVIOUS
<1>7. writes' = [Outdate(n) EXCEPT ![n] = Over(n, result)]
  BY DEF Takes
<1> HIDE DEF result
<1>8. Over(n, result) \in WriteRecords /\ WriteCovered(Over(n, result), allowance')
  BY <1>1, <1>6, OverCovered
<1>9. WritesCovered'
  BY <1>3, <1>4, <1>7, <1>8, SpendCovered
<1> QED
  BY <1>5, <1>9

\* The contract refuses for want of an allowance only what has a rival.
LEMMA RefusedCovers ==
    ASSUME AllowanceInv, NEW n \in DOMAIN writes, Refused(n)
    PROVE  WritesCovered'
<1> DEFINE result == IF CanSpend(n) THEN "error" ELSE "allowance"
<1>1. WritesCovered /\ WriteCovered(writes[n], allowance)
  BY DEF AllowanceInv, WritesCovered
<1>2. writes' = [writes EXCEPT ![n] = Over(n, result)] /\ UNCHANGED allowance
  BY DEF Refused, Settle, chainVars
<1>3. result = "allowance" => writes[n].rival
  BY <1>1 DEF Refused, Stage, CanSpend, WriteCovered
<1>4. result \in {"ok", "error", "allowance"}
  OBVIOUS
<1> HIDE DEF result
<1> QED
  BY <1>1, <1>2, <1>3, <1>4, SettleCovered

\* The steps of a write that leave the allowance alone.
LEMMA OtherWriteCovers ==
    ASSUME AllowanceInv, NEW n \in DOMAIN writes,
           \/ ReadAllowance(n) \/ Fails(n) \/ SimulateListing(n) \/ ListCreated(n)
           \/ cancelCreatedInvoice(n) \/ LoseAnswer(n) \/ NeverLands(n)
           \/ \E b \in BOOLEAN : createInvoice(n, b) \/ AfterCreate(n, b)
    PROVE  WritesCovered' /\ UNCHANGED allowance
<1>1. WritesCovered /\ WriteCovered(writes[n], allowance)
  BY DEF AllowanceInv, WritesCovered
<1>2. UNCHANGED allowance
  BY DEF ReadAllowance, Fails, SimulateListing, ListCreated, cancelCreatedInvoice,
         createInvoice, AfterCreate, LoseAnswer, NeverLands, chainVars
<1>3. CASE ReadAllowance(n)
  <2> DEFINE s == IF enough(n) THEN "send" ELSE "approve"
  <2>1. Move(n, s) /\ writes[n].kind \in Spending
    BY <1>1, <1>3 DEF ReadAllowance, Stage, WriteCovered
  <2>2. s \in Stages
    BY DEF Stages
  <2>3. s = "send" => allowance[Spender(writes[n].kind)] >= writes[n].amount
    BY DEF enough
  <2> HIDE DEF s
  <2> QED
    BY <1>1, <1>2, <2>1, <2>2, <2>3, MoveCovered
<1>4. ASSUME NEW s \in {"created", "simulate", "list", "cancel"}, Move(n, s)
      PROVE  WritesCovered'
  BY <1>1, <1>2, <1>4, MoveCovered DEF Stages
<1>5. ASSUME NEW result \in {"ok", "error"},
             writes' = [writes EXCEPT ![n] = Over(n, result)]
      PROVE  WritesCovered'
  BY <1>1, <1>2, <1>5, SettleCovered
<1>7. CASE LoseAnswer(n)
  <2> DEFINE w == [writes[n] EXCEPT !.result = "error",
                      !.stage = IF @ = "approve" THEN "approveLate" ELSE "sendLate"]
  <2>1. writes[n] \in WriteRecords
    BY <1>1 DEF WritesCovered
  <2>2. /\ w \in WriteRecords /\ w.result = "error" /\ w.kind = writes[n].kind
        /\ w.stage = IF writes[n].stage = "approve" THEN "approveLate" ELSE "sendLate"
    BY <2>1 DEF WriteRecords, Stages
  <2>3. writes' = [writes EXCEPT ![n] = w]
    BY <1>7 DEF LoseAnswer
  <2> HIDE DEF w
  <2>4. WriteCovered(w, allowance)
    BY <1>1, <2>2 DEF WriteCovered
  <2> QED
    BY <1>1, <1>2, <2>2, <2>3, <2>4, ReplaceCovered
<1>6. CASE \/ Fails(n) \/ SimulateListing(n) \/ ListCreated(n) \/ cancelCreatedInvoice(n)
           \/ NeverLands(n)
           \/ \E b \in BOOLEAN : createInvoice(n, b) \/ AfterCreate(n, b)
  <2>1. \/ \E s \in {"created", "simulate", "list", "cancel"} : Move(n, s)
        \/ \E result \in {"ok", "error"} : writes' = [writes EXCEPT ![n] = Over(n, result)]
    BY <1>6 DEF Fails, SimulateListing, ListCreated, cancelCreatedInvoice, createInvoice,
                AfterCreate, NeverLands, Settle, FormSucceeds
  <2>2. CASE \E s \in {"created", "simulate", "list", "cancel"} : Move(n, s)
    BY <1>2, <1>4, <2>2
  <2>3. CASE \E result \in {"ok", "error"} : writes' = [writes EXCEPT ![n] = Over(n, result)]
    BY <1>2, <1>5, <2>3
  <2> QED
    BY <2>1, <2>2, <2>3
<1> QED
  BY <1>2, <1>3, <1>6, <1>7

\* The buttons of an invoice ask for something the contracts have.
LEMMA OffersAreKinds ==
    /\ DetailOffers("None") = {}
    /\ \A s : DetailOffers(s) \subseteq Kinds /\ \A form : CardOffers(s, form) \subseteq Kinds
<1>1. DetailOffers("None") = {}
  BY DEF DetailOffers
<1>2. ASSUME NEW s, NEW form
      PROVE  CardOffers(s, form) \subseteq Kinds
  BY DEF CardOffers, Kinds
<1>3. ASSUME NEW s
      PROVE  DetailOffers(s) \subseteq Kinds
  BY DEF DetailOffers, Kinds
<1> QED
  BY <1>1, <1>2, <1>3

\* Every request has the amount of an invoice or of a deposit.
LEMMA RequestsAreTyped ==
    ASSUME RequestsTyped
    PROVE  Requests \subseteq RequestRecords
<1> SUFFICES ASSUME NEW r \in Requests
             PROVE  r \in RequestRecords
  OBVIOUS
<1>1. ASSUME NEW m \in Kinds, selected.id \in Invoices,
             r = [kind |-> m, id |-> selected.id,
                  amount |-> IF m = "repay" THEN Face[selected.id] ELSE 0]
      PROVE  r \in RequestRecords
  <2>1. Face[selected.id] \in Nat
    BY <1>1, AmountsAreNat
  <2> QED
    BY <1>1, <2>1 DEF RequestRecords, Ids
<1>2. CASE r \in CardRequests \/ r \in DetailRequests
  <2>1. PICK m \in CardOffers(selected.status, listForm) \cup DetailOffers(selected.status) :
           r = [kind |-> m, id |-> selected.id,
                amount |-> IF m = "repay" THEN Face[selected.id] ELSE 0]
    BY <1>2 DEF CardRequests, DetailRequests
  <2>2. m \in Kinds
    BY <2>1, OffersAreKinds
  <2>3. selected # None
    <3>1. CASE r \in CardRequests
      BY <3>1 DEF CardRequests
    <3>2. CASE r \in DetailRequests
      BY <3>2, OffersAreKinds DEF DetailRequests, None
    <3> QED
      BY <1>2, <3>1, <3>2
  <2>4. selected.id \in Invoices
    BY <2>3 DEF RequestsTyped
  <2> QED
    BY <1>1, <2>1, <2>2, <2>4
<1>3. CASE r \in PoolRequests
  <2>1. \/ \E a \in Deposits : r = [kind |-> "deposit", id |-> 0, amount |-> a]
        \/ r = [kind |-> "withdraw", id |-> 0, amount |-> 0]
    BY <1>3 DEF PoolRequests
  <2> QED
    BY <2>1, AmountsAreNat DEF RequestRecords, Ids, Kinds
<1>4. CASE r \in FormRequests
  <2>1. PICK i \in Invoices : r = [kind |-> "create", id |-> i, amount |-> 0]
    BY <1>4 DEF FormRequests
  <2> QED
    BY <2>1 DEF RequestRecords, Ids, Kinds
<1> QED
  BY <1>2, <1>3, <1>4 DEF Requests

\* A user's step leaves the allowance alone, and a write begins with an amount.
LEMMA UserCovers ==
    ASSUME AllowanceInv, UserNext
    PROVE  WritesCovered' /\ UNCHANGED allowance
<1>1. WritesCovered /\ RequestsTyped /\ dialog \in RequestRecords
  BY DEF AllowanceInv, RequestsTyped
<1>2. UNCHANGED allowance
  BY DEF UserNext, handleSelectInvoice, SetFilter, handlePageChange, handleLimitChange,
     SwitchAccount, Navigate, OpenInvoice, toggleRowSelection, Click, ClearConsole,
     emptyStateAction, toggleAllOnPage, clearSelection, handleSelectionChange, cancelDialog,
     handleConfirm, CloseForm, openListForm,
     cancelListForm, chainVars
<1>3. ASSUME NEW r \in RequestRecords, Begin(r)
      PROVE  WritesCovered'
  BY <1>1, <1>2, <1>3, BeginCovered
<1>4. \/ UNCHANGED writes
      \/ \E r \in RequestRecords : Begin(r)
  <2>1. ASSUME NEW r \in Requests, Click(r)
        PROVE  UNCHANGED writes \/ Begin(r)
    BY <2>1 DEF Click
  <2>2. CASE handleConfirm
    BY <1>1, <2>2 DEF handleConfirm
  <2>3. CASE UserNext /\ ~handleConfirm /\ ~\E r \in Requests : Click(r)
    BY <2>3 DEF UserNext, handleSelectInvoice, SetFilter, handlePageChange,
       handleLimitChange, SwitchAccount, Navigate, OpenInvoice, toggleRowSelection,
       ClearConsole, emptyStateAction, toggleAllOnPage, clearSelection,
       handleSelectionChange, cancelDialog, CloseForm, openListForm,
       cancelListForm
  <2> QED
    BY <1>1, <2>1, <2>2, <2>3, RequestsAreTyped
<1>5. CASE UNCHANGED writes
  BY <1>1, <1>2, <1>5 DEF WritesCovered
<1> QED
  BY <1>2, <1>3, <1>4, <1>5

\* What is picked or asked for stays typed.
LEMMA RequestsStep ==
    ASSUME RequestsTyped, Next
    PROVE  RequestsTyped'
<1>1. \A k \in DOMAIN data' : \A r \in data'[k].rows : r.id \in Invoices
  <2>1. CASE FetchList
    <3> SUFFICES ASSUME NEW k \in DOMAIN data', NEW r \in data'[k].rows
                 PROVE  r.id \in Invoices
      OBVIOUS
    <3>1. data' = Cached(Key, getInvoices(Key))
      BY <2>1 DEF FetchList
    <3>2. data'[k] = getInvoices(Key) \/ (k \in DOMAIN data /\ data'[k] = data[k])
      BY <3>1 DEF Cached
    <3>3. ASSUME NEW q \in getInvoices(Key).rows
          PROVE  q.id \in Invoices
      <4>1. PICK i \in Invoices : q = [id |-> i, status |-> rows[i]]
        BY DEF getInvoices
      <4> QED
        BY <4>1
    <3> QED
      BY <3>2, <3>3 DEF RequestsTyped
  <2>2. CASE ~FetchList
    BY <2>2, DataKept DEF RequestsTyped
  <2> QED
    BY <2>1, <2>2
<1>2. selected'.id \in Invoices \/ (selected' = None /\ screen' # "detail")
  <2> DEFINE Ok == selected.id \in Invoices \/ (selected = None /\ screen # "detail")
  <2>0. Ok
    BY DEF RequestsTyped
  <2>1. ASSUME NEW r \in Shown, handleSelectInvoice(r)
        PROVE  Ok'
    BY <2>1 DEF handleSelectInvoice, Shown, Loaded, RequestsTyped
  <2>2. CASE \/ \E f \in Filters : SetFilter(f)
             \/ \E p \in page - 1 .. page + 1 : handlePageChange(p)
             \/ \E l \in Limits : handleLimitChange(l)
             \/ ClearConsole \/ emptyStateAction
    <3>1. selected' = None /\ UNCHANGED screen /\ screen # "detail"
      BY <2>2 DEF SetFilter, ResetView, handlePageChange, handleLimitChange, ClearConsole,
                  emptyStateAction, Forget, Shown, Loaded, HasTable, viewVars
    <3> QED
      BY <3>1
  <2>3. ASSUME NEW s \in Screens, Navigate(s)
        PROVE  Ok'
    BY <2>3 DEF Navigate
  <2>4. ASSUME NEW a \in Accounts, SwitchAccount(a)
        PROVE  Ok'
    BY <2>0, <2>4 DEF SwitchAccount, Forget
  <2>5. ASSUME NEW i \in Invoices, OpenInvoice(i)
        PROVE  Ok'
    BY <2>5 DEF OpenInvoice, getInvoiceByID
  <2>6. CASE \/ FetchList
             \/ \E i \in Invoices : toggleRowSelection(i) \/ Index(i) \/ Attest(i)
             \/ \E r \in Requests : Click(r)
             \/ toggleAllOnPage \/ clearSelection \/ cancelDialog \/ handleConfirm \/ CloseForm
             \/ openListForm \/ cancelListForm
    <3>1. UNCHANGED <<selected, screen>>
      BY <2>6 DEF FetchList, toggleRowSelection, toggleAllOnPage, clearSelection,
         handleSelectionChange, Click, cancelDialog, handleConfirm, CloseForm, openListForm,
         cancelListForm, Index, Attest,
         viewVars, pickVars
    <3> QED
      BY <2>0, <3>1
  <2>7. ASSUME NEW n \in DOMAIN writes, WriteNext(n)
        PROVE  Ok'
    <3>1. UNCHANGED screen
      BY <2>7 DEF WriteNext, ReadAllowance, Fails, Refused, LoseAnswer,
         NeverLands, SimulateListing, ListCreated,
         cancelCreatedInvoice, Approve, Takes, createInvoice, AfterCreate, viewVars
    <3>2. \/ UNCHANGED selected
          \/ selected' = None /\ screen = "dashboard"
          \/ selected' = getInvoiceByID(selected.id) /\ screen = "detail"
      BY <2>7 DEF WriteNext, ReadAllowance, Fails, Refused, LoseAnswer,
         NeverLands, SimulateListing, ListCreated,
         cancelCreatedInvoice, Approve, Takes, createInvoice, AfterCreate,
         Succeed, FormSucceeds, pickVars
    <3> QED
      BY <2>0, <3>1, <3>2 DEF getInvoiceByID
  <2> QED
    BY <2>1, <2>2, <2>3, <2>4, <2>5, <2>6, <2>7 DEF Next, UserNext
<1>3. dialog' \in RequestRecords
  <2>1. NoRequest \in RequestRecords
    BY DEF NoRequest, RequestRecords, Kinds, Ids
  <2>2. \/ UNCHANGED dialog
        \/ dialog' = NoRequest
        \/ \E r \in Requests : dialog' = r
    <3>1. CASE UserNext
      BY <3>1 DEF UserNext, handleSelectInvoice, SetFilter, handlePageChange,
         handleLimitChange, SwitchAccount, Navigate, OpenInvoice, toggleRowSelection, Click,
         ClearConsole, emptyStateAction, toggleAllOnPage, clearSelection,
         handleSelectionChange, cancelDialog, handleConfirm, CloseForm, openListForm,
         cancelListForm, panels
    <3>2. ASSUME NEW n \in DOMAIN writes, WriteNext(n)
          PROVE  UNCHANGED dialog
      BY <3>2 DEF WriteNext, ReadAllowance, Fails, Refused, LoseAnswer,
         NeverLands, SimulateListing, ListCreated,
         cancelCreatedInvoice, Approve, Takes, createInvoice, AfterCreate, panels
    <3>3. CASE FetchList \/ \E i \in Invoices : Index(i) \/ Attest(i)
      BY <3>3 DEF FetchList, Index, Attest, panels
    <3> QED
      BY <3>1, <3>2, <3>3 DEF Next
  <2> QED
    BY <2>1, <2>2, RequestsAreTyped DEF RequestsTyped
<1> QED
  BY <1>1, <1>2, <1>3 DEF RequestsTyped

\* One step keeps the invariant of the allowance.
LEMMA AllowanceStep ==
    ASSUME AllowanceInv, [Next]_vars
    PROVE  AllowanceInv'
<1> DEFINE Granted == allowance \in [{"invoice", "pool"} -> Int]
<1>1. Granted /\ WritesCovered /\ RequestsTyped
  BY DEF AllowanceInv
<1>2. CASE UNCHANGED vars
  BY <1>2 DEF AllowanceInv, RequestsTyped, WritesCovered, vars, chainVars, viewVars, pickVars, panels
<1>3. CASE Next
  <2>1. Granted' /\ WritesCovered'
    <3>1. CASE UserNext
      BY <1>1, <3>1, UserCovers
    <3>2. ASSUME NEW n \in DOMAIN writes, WriteNext(n)
          PROVE  Granted' /\ WritesCovered'
      <4>1. ASSUME NEW b \in BOOLEAN, Approve(n, b) \/ Takes(n, b)
            PROVE  Granted' /\ WritesCovered'
        BY <4>1, ApproveCovers, TakesCovers
      <4>2. CASE Refused(n)
        <5>1. UNCHANGED allowance
          BY <4>2 DEF Refused, chainVars
        <5> QED
          BY <1>1, <4>2, <5>1, RefusedCovers
      <4> QED
        BY <1>1, <3>2, <4>1, <4>2, OtherWriteCovers DEF WriteNext
    <3>3. CASE FetchList \/ \E i \in Invoices : Index(i) \/ Attest(i)
      <4>1. UNCHANGED <<allowance, writes>>
        BY <3>3 DEF FetchList, Index, Attest, chainVars
      <4> QED
        BY <1>1, <4>1 DEF WritesCovered
    <3> QED
      BY <1>3, <3>1, <3>2, <3>3 DEF Next
  <2> QED
    BY <1>1, <1>3, <2>1, RequestsStep DEF AllowanceInv
<1> QED
  BY <1>2, <1>3

\* A repayment or a deposit is refused for want of an allowance only when
\* another one of its kind came between its check and its transfer, for any
\* amounts, any number of writes under way and any approval whose answer is
\* lost (useTokenAllowance.ts:41-79).
THEOREM AllowanceEnough == FairSpec => []AllowanceCovers
<1>1. Init => AllowanceInv
  <2> SUFFICES ASSUME Init
               PROVE  AllowanceInv
    OBVIOUS
  <2>1. RequestsTyped
    BY DEF Init, RequestsTyped, NoRequest, RequestRecords, Kinds, Ids
  <2>2. WritesCovered
    BY DEF Init, WritesCovered
  <2> QED
    BY <2>1, <2>2 DEF Init, AllowanceInv
<1>2. AllowanceInv /\ [Next]_vars => AllowanceInv'
  BY AllowanceStep
<1>3. AllowanceInv => AllowanceCovers
  BY DEF AllowanceInv, WritesCovered, WriteCovered, AllowanceCovers
<1> QED
  BY <1>1, <1>2, <1>3, PTL DEF FairSpec
=============================================================================
