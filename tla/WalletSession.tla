---------------------------- MODULE WalletSession ----------------------------
(***************************************************************************)
(* The wallet session of the web app: the zustand store (store/wallet.ts), *)
(* connecting through Freighter and watching it for changes                *)
(* (hooks/useWallet.ts, lib/freighter.ts, components/shared/WalletConnect),*)
(* and the SEP-10 login (hooks/useAuth.ts).                                *)
(*                                                                         *)
(* The store is one per page.  The hook has one instance per WalletConnect *)
(* panel on the page (the navigation bar's, which is always there, the     *)
(* mobile menu's, a page's own), each with its own connecting guard, its   *)
(* own watcher and its own error banner.  Freighter (external) changes     *)
(* account and network when its user likes.                                *)
(***************************************************************************)
EXTENDS Naturals

CONSTANTS
    Accounts,     \* accounts Freighter holds
    None,         \* no account: locked, access revoked, or not connected
    Panels,       \* places a WalletConnect panel may be mounted
    NavPanel,     \* the navigation bar's panel
    MaxChanges    \* bound on Freighter's account and network changes

ASSUME NoneIsNoAccount == None \notin Accounts
ASSUME NavPanelIsPanel == NavPanel \in Panels
ASSUME MaxChangesIsNat == MaxChanges \in Nat

Networks == {"testnet", "public"}
Expected == "testnet"

Snapshot == [address : Accounts \cup {None}, network : Networks \cup {"none"}]
Disconnected == [address |-> None, network |-> "none"]
Idle == [address |-> None, network |-> "idle"]

VARIABLES
    freighter,   \* what Freighter would report now
    changes,     \* changes of freighter so far
    store,       \* address and network of the store; connected iff address # None
    token,       \* the account the stored SEP-10 token is for, or None
    mounted,     \* the panels on the page
    stage,       \* stage[p]: where p's connectWallet is
    offered,     \* offered[p]: the address requestAccess gave p
    previous,    \* previous[p]: p's watcher's last snapshot; Idle: no watcher
    poll,        \* poll[p]: what p's running poll read; Idle: none running
    banner,      \* banner[p]: the error p shows
    login        \* the account a login runs for, or None

panels == <<mounted, stage, offered, previous, poll, banner>>
vars == <<freighter, changes, store, token, panels, login>>

TypeOK ==
    /\ freighter \in [address : Accounts \cup {None}, network : Networks]
    /\ changes \in 0 .. MaxChanges
    /\ store \in Snapshot /\ token \in Accounts \cup {None}
    /\ mounted \subseteq Panels /\ NavPanel \in mounted
    /\ stage \in [Panels -> {"idle", "switch", "access", "network"}]
    /\ offered \in [Panels -> Accounts \cup {None}]
    /\ previous \in [Panels -> Snapshot \cup {Idle}]
    /\ poll \in [Panels -> Snapshot \cup {Idle}]
    /\ banner \in [Panels -> {"none", "wrong_network", "other"}]
    /\ login \in Accounts \cup {None}

Init ==
    /\ freighter \in [address : Accounts \cup {None}, network : Networks]
    /\ changes = 0
    /\ store = Disconnected /\ token = None
    /\ mounted = {NavPanel}
    /\ stage = [p \in Panels |-> "idle"]
    /\ offered = [p \in Panels |-> None]
    /\ previous = [p \in Panels |-> Idle]
    /\ poll = [p \in Panels |-> Idle]
    /\ banner = [p \in Panels |-> "none"]
    /\ login = None

connected == store.address # None

-----------------------------------------------------------------------------
(* Freighter and the page.                                                 *)

FreighterChanges ==
    /\ changes < MaxChanges
    /\ changes' = changes + 1
    /\ freighter' \in [address : Accounts \cup {None}, network : Networks] \ {freighter}
    /\ UNCHANGED <<store, token, panels, login>>

Mount(p) ==
    /\ p \notin mounted
    /\ mounted' = mounted \cup {p}
    /\ UNCHANGED <<freighter, changes, store, token, stage, offered, previous, poll,
                   banner, login>>

\* The effect's cleanup stops the watcher and silences its poll; the panel's
\* error is forgotten; a running connectWallet goes on.
Unmount(p) ==
    /\ p \in mounted \ {NavPanel}
    /\ mounted' = mounted \ {p}
    /\ previous' = [previous EXCEPT ![p] = Idle]
    /\ poll' = [poll EXCEPT ![p] = Idle]
    /\ banner' = [banner EXCEPT ![p] = "none"]
    /\ UNCHANGED <<freighter, changes, store, token, stage, offered, login>>

\* merge of the persisted store: a reload restores preferences only.
Reload ==
    /\ store' = Disconnected
    /\ token' = None
    /\ mounted' = {NavPanel}
    /\ stage' = [p \in Panels |-> "idle"]
    /\ offered' = [p \in Panels |-> None]
    /\ previous' = [p \in Panels |-> Idle]
    /\ poll' = [p \in Panels |-> Idle]
    /\ banner' = [p \in Panels |-> "none"]
    /\ login' = None
    /\ UNCHANGED <<freighter, changes>>

-----------------------------------------------------------------------------
(* connectWallet                                                           *)

\* disconnect of the store.
disconnect == store' = Disconnected /\ token' = None

\* setError of a panel that is still there.
Show(p, b) ==
    banner' = IF p \in mounted THEN [banner EXCEPT ![p] = b] ELSE banner

\* The button is there while the store is disconnected; connectingRef refuses
\* a second attempt of this panel, not of another one.
\* It also refuses the attempt of a switch that is answered in the meantime;
\* one answered after this attempt has ended is not modelled.
connectWallet(p) ==
    /\ p \in mounted /\ ~connected
    /\ stage[p] \in {"idle", "switch"}
    /\ stage' = [stage EXCEPT ![p] = "access"]
    /\ Show(p, "none")
    /\ UNCHANGED <<freighter, changes, store, token, mounted, offered, previous, poll,
                   login>>

\* "Switch to Testnet", there while the session is on another network.
handleSwitchToTestnet(p) ==
    /\ p \in mounted /\ stage[p] = "idle"
    /\ connected /\ store.network # Expected
    /\ stage' = [stage EXCEPT ![p] = "switch"]
    /\ UNCHANGED <<freighter, changes, store, token, mounted, offered, previous, poll,
                   banner, login>>

\* Freighter switches and connectWallet starts, whatever became of the session;
\* or it refuses.
SwitchAnswered(p) ==
    /\ stage[p] = "switch"
    /\ \/ /\ freighter' = [freighter EXCEPT !.network = Expected]
          /\ stage' = [stage EXCEPT ![p] = "access"]
          /\ Show(p, "none")
       \/ /\ stage' = [stage EXCEPT ![p] = "idle"]
          /\ UNCHANGED <<freighter, banner>>
    /\ UNCHANGED <<changes, store, token, mounted, offered, previous, poll, login>>

\* isFreighterInstalled and requestAccess resolve with the account selected
\* now.
connectFreighter(p) ==
    /\ stage[p] = "access"
    /\ freighter.address # None
    /\ stage' = [stage EXCEPT ![p] = "network"]
    /\ offered' = [offered EXCEPT ![p] = freighter.address]
    /\ UNCHANGED <<freighter, changes, store, token, mounted, previous, poll, banner,
                   login>>

\* validateFreighterNetwork passes and the offered address is stored.  The
\* token is left as it is.
ConnectSucceeds(p) ==
    /\ stage[p] = "network"
    /\ freighter.network = Expected
    /\ store' = [address |-> offered[p], network |-> Expected]
    /\ stage' = [stage EXCEPT ![p] = "idle"]
    /\ offered' = [offered EXCEPT ![p] = None]
    /\ UNCHANGED <<freighter, changes, token, mounted, previous, poll, banner, login>>

\* Not installed, rejected, failed, or on the wrong network: the error is
\* shown and the store disconnected, whoever had connected it.
ConnectFails(p) ==
    /\ stage[p] \in {"access", "network"}
    /\ \/ Show(p, "other")
       \/ /\ stage[p] = "network" /\ freighter.network # Expected
          /\ Show(p, "wrong_network")
    /\ disconnect
    /\ stage' = [stage EXCEPT ![p] = "idle"]
    /\ offered' = [offered EXCEPT ![p] = None]
    /\ UNCHANGED <<freighter, changes, mounted, previous, poll, login>>

disconnectWallet ==
    /\ connected
    /\ disconnect
    /\ UNCHANGED <<freighter, changes, panels, login>>

-----------------------------------------------------------------------------
(* watchFreighterChanges                                                   *)

\* What the effect of panel p wants to watch from.
Baseline == IF connected THEN store ELSE Idle

\* MUTANT: the effect depends on the connection only, and starts from what
\* Freighter reports.
WatchOnce(p) ==
    /\ p \in mounted
    /\ (previous[p] = Idle) # ~connected
    /\ previous' = [previous EXCEPT ![p] = IF connected THEN freighter ELSE Idle]
    /\ poll' = [poll EXCEPT ![p] = Idle]
    /\ UNCHANGED <<freighter, changes, store, token, mounted, stage, offered, banner,
                   login>>

\* The effect runs again after connected, address or network changed: the old
\* watcher is stopped with its poll and a new one starts from the store.  Each
\* such change leaves the store off the watcher's snapshot, except the one the
\* watcher itself reported: the effect then only drops a poll, as PollFails
\* does.
Watch(p) ==
    /\ p \in mounted
    /\ previous[p] # Baseline
    /\ previous' = [previous EXCEPT ![p] = Baseline]
    /\ poll' = [poll EXCEPT ![p] = Idle]
    /\ UNCHANGED <<freighter, changes, store, token, mounted, stage, offered, banner,
                   login>>

\* getPublicKey and getNetworkDetails; one poll of a watcher at a time.
PollReads(p) ==
    /\ previous[p] # Idle /\ poll[p] = Idle
    /\ poll' = [poll EXCEPT ![p] = freighter]
    /\ UNCHANGED <<freighter, changes, store, token, mounted, stage, offered, previous,
                   banner, login>>

PollFails(p) ==
    /\ poll[p] # Idle
    /\ poll' = [poll EXCEPT ![p] = Idle]
    /\ UNCHANGED <<freighter, changes, store, token, mounted, stage, offered, previous,
                   banner, login>>

\* The selected account is gone.
disconnectedChange(p) == poll[p].address = None /\ previous[p].address # None

addressChange(p) == poll[p].address # None /\ poll[p].address # previous[p].address
networkChange(p) == poll[p].network # previous[p].network

\* MUTANT: the callback does not look whether the session has ended.
onChangeUnguarded(p) ==
    /\ store' = [address |-> IF addressChange(p) THEN poll[p].address ELSE store.address,
                 network |-> IF networkChange(p) THEN poll[p].network ELSE store.network]
    /\ token' = IF addressChange(p) THEN None ELSE token
    /\ UNCHANGED banner

\* The callback of useWallet, on the store as it is now.
onChange(p) ==
    \/ /\ ~connected
       /\ UNCHANGED <<store, token, banner>>
    \/ /\ connected /\ disconnectedChange(p)
       /\ disconnect
       /\ UNCHANGED banner
    \/ /\ connected /\ ~disconnectedChange(p)
       /\ LET moved == addressChange(p) /\ poll[p].address # store.address
              switched == networkChange(p) /\ poll[p].network # store.network
          IN /\ store' = [address |-> IF moved THEN poll[p].address ELSE store.address,
                          network |-> IF switched THEN poll[p].network ELSE store.network]
             /\ token' = IF moved THEN None ELSE token
             /\ IF ~switched THEN UNCHANGED banner
                ELSE IF poll[p].network # Expected THEN Show(p, "wrong_network")
                ELSE IF banner[p] = "wrong_network" THEN Show(p, "none")
                ELSE UNCHANGED banner

\* The poll settles: a difference from the watcher's last snapshot is reported.
PollReports(p) ==
    /\ poll[p] # Idle
    /\ poll' = [poll EXCEPT ![p] = Idle]
    /\ IF disconnectedChange(p) \/ addressChange(p) \/ networkChange(p)
       THEN /\ previous' = [previous EXCEPT ![p] = poll[p]]
            /\ onChange(p)
       ELSE UNCHANGED <<previous, store, token, banner>>
    /\ UNCHANGED <<freighter, changes, mounted, stage, offered, login>>

-----------------------------------------------------------------------------
(* useAuth; one login at a time.                                           *)

LoginStarts ==
    /\ connected /\ login = None
    /\ login' = store.address
    /\ UNCHANGED <<freighter, changes, store, token, panels>>

\* Challenge fetched, signed and verified: the token of the account the login
\* started for is stored, whatever the store's account is by now.
LoginSucceeds ==
    /\ login # None
    /\ token' = login
    /\ login' = None
    /\ UNCHANGED <<freighter, changes, store, panels>>

LoginFails ==
    /\ login # None
    /\ token' = None
    /\ login' = None
    /\ UNCHANGED <<freighter, changes, store, panels>>

logout ==
    /\ disconnect
    /\ UNCHANGED <<freighter, changes, panels, login>>

-----------------------------------------------------------------------------
Next ==
    \/ FreighterChanges \/ Reload \/ disconnectWallet
    \/ LoginStarts \/ LoginSucceeds \/ LoginFails \/ logout
    \/ \E p \in Panels :
          \/ Mount(p) \/ Unmount(p)
          \/ connectWallet(p) \/ connectFreighter(p) \/ ConnectSucceeds(p) \/ ConnectFails(p)
          \/ handleSwitchToTestnet(p) \/ SwitchAnswered(p)
          \/ Watch(p) \/ PollReads(p) \/ PollFails(p) \/ PollReports(p)

Spec == Init /\ [][Next]_vars

\* React runs due effects, the interval timer polls, and polls do not fail for
\* ever; all for the panel that is always mounted.  Nothing is assumed of the
\* user.
FairSpec ==
    /\ Spec
    /\ SF_vars(Watch(NavPanel))
    /\ SF_vars(PollReads(NavPanel))
    /\ SF_vars(PollReports(NavPanel))

-----------------------------------------------------------------------------
\* The app "never keeps a stale address or a stale 'Testnet' badge": once
\* Freighter settles, an open session is for what it reports, through
\* overlapping watchers, late connects and failing polls
\* (freighter.ts:257-320, useWallet.ts:121-179).
SessionFollowsFreighter ==
    (connected /\ store # freighter) ~> (~connected \/ store = freighter)

\* Only a connectWallet that finishes opens a session: no poll of a watcher
\* that is being stopped reopens the one a disconnect or a logout closed
\* (useWallet.ts:129, freighter.ts:274-281).
OnlyConnectOpensSession ==
    [][(~connected /\ connected') => \E p \in Panels : stage[p] = "network" /\ stage'[p] = "idle"]_vars
=============================================================================
