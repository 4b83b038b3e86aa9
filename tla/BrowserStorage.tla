--------------------------- MODULE BrowserStorage ---------------------------
(***************************************************************************)
(* What the web app keeps in localStorage for a wallet: the notification   *)
(* history (hooks/useNotifications.ts), the muted categories               *)
(* (NotificationPreferences of the settings and profile pages) and the     *)
(* saved searches (app/marketplace/page.tsx).                              *)
(*                                                                         *)
(* Several tabs share the storage; each has its own wallet session and its *)
(* own copies in memory, and none listens to the others' writes.  A script *)
(* runs to its end before another one of the origin touches the storage.   *)
(* React runs the due effects of a commit in their order, and before the   *)
(* next click is handled: pending[t] are the effects tab t still has to    *)
(* run.  A saved search and a muted category are represented by the        *)
(* account they were entered for, to tell whose they are.                  *)
(***************************************************************************)
EXTENDS Naturals, Sequences, SequencesExt

CONSTANTS
    Accounts,     \* wallet accounts
    None,         \* no account connected
    Tabs,         \* open tabs
    Concerns,     \* Concerns[n]: the accounts event n is relevant to
    FeedSize,     \* recent events a tab fetches (100 in the code)
    MaxPresets    \* saved searches per account (10 in the code)

ASSUME NoneIsNoAccount == None \notin Accounts
ASSUME ConcernsAccounts == Concerns \in Seq(SUBSET Accounts)
ASSUME BoundsAreNat == FeedSize \in Nat /\ MaxPresets \in Nat

Events == DOMAIN Concerns
Owner == Accounts \cup {None}
Pages == {"market", "preferences"}
Effects == {"notify", "load", "save", "reread"}

\* A damaged entry does not parse to a list of notifications (a cut write, an
\* older format, another script of the origin).
History == [state : {"absent", "damaged", "ok"}, ids : SUBSET Events, read : SUBSET Events]
Absent == [state |-> "absent", ids |-> {}, read |-> {}]
Damaged == [Absent EXCEPT !.state = "damaged"]

VARIABLES
    emitted,   \* events indexed so far
    history,   \* trusttrove_notifs_<account>
    prefs,     \* trusttrove_prefs_<account>: who muted something there
    saved,     \* trusttrove:marketplace:presets[_<account>], None: no account
    address,   \* address[t]: the wallet account of tab t
    feed,      \* feed[t]: the recent events tab t has fetched
    page,      \* page[t]: the page tab t is on
    presets,   \* presets[t]: the marketplace page's copy of the saved searches
    loadedFor, \* loadedFor[t]: loadedPresetAddress
    toggles,   \* toggles[t]: the preference page's copy of prefs
    pending    \* pending[t]: effects due

stored == <<history, prefs, saved>>
tab == <<address, feed, page, presets, loadedFor, toggles, pending>>
vars == <<emitted, stored, tab>>

TypeOK ==
    /\ emitted \in 0 .. Len(Concerns)
    /\ history \in [Accounts -> History]
    /\ prefs \in [Accounts -> SUBSET Accounts]
    /\ saved \in [Owner -> SeqOf(Owner, MaxPresets)]
    /\ address \in [Tabs -> Owner] /\ loadedFor \in [Tabs -> Owner]
    /\ feed \in [Tabs -> SUBSET Events]
    /\ page \in [Tabs -> Pages]
    /\ presets \in [Tabs -> SeqOf(Owner, MaxPresets)]
    /\ toggles \in [Tabs -> SUBSET Accounts]
    /\ pending \in [Tabs -> SUBSET Effects]

Init ==
    /\ emitted = 0
    /\ history \in [Accounts -> {Absent, Damaged}]
    /\ prefs = [a \in Accounts |-> {}]
    /\ saved = [o \in Owner |-> <<>>]
    /\ address = [t \in Tabs |-> None]
    /\ feed = [t \in Tabs |-> {}]
    /\ page = [t \in Tabs |-> "preferences"]
    /\ presets = [t \in Tabs |-> <<>>]
    /\ loadedFor = [t \in Tabs |-> None]
    /\ toggles = [t \in Tabs |-> {}]
    /\ pending = [t \in Tabs |-> {}]

-----------------------------------------------------------------------------
(* The outside.                                                            *)

EventIndexed ==
    /\ emitted < Len(Concerns)
    /\ emitted' = emitted + 1
    /\ UNCHANGED <<stored, tab>>

\* The effects a change of the account makes due in tab t.
AddressEffects(t) ==
    {"notify"} \cup (IF page[t] = "market" THEN {"load", "save"} ELSE {"reread"})

\* connect, disconnect or the watcher's setAddress.  Without an account the
\* queries are disabled and the preference toggles are not there.
AccountChanges(t, o) ==
    /\ pending[t] = {} /\ o # address[t]
    /\ address' = [address EXCEPT ![t] = o]
    /\ pending' = [pending EXCEPT ![t] = AddressEffects(t)]
    /\ UNCHANGED <<emitted, stored, feed, page, presets, loadedFor,
                   toggles>>

\* Nothing is muted by default; without an account there are no toggles.
readStoredPrefs(o) == IF o = None THEN {} ELSE prefs[o]

\* Opening a page mounts it: its copies are read, and its effects run.
OpenPage(t) ==
    /\ pending[t] = {}
    /\ IF page[t] = "market"
       THEN /\ page' = [page EXCEPT ![t] = "preferences"]
            /\ toggles' = [toggles EXCEPT ![t] = readStoredPrefs(address[t])]
            /\ presets' = [presets EXCEPT ![t] = <<>>]
            /\ pending' = [pending EXCEPT ![t] = {"reread"}]
            /\ UNCHANGED loadedFor
       ELSE /\ page' = [page EXCEPT ![t] = "market"]
            /\ toggles' = [toggles EXCEPT ![t] = {}]
            /\ presets' = [presets EXCEPT ![t] = saved[address[t]]]
            /\ loadedFor' = [loadedFor EXCEPT ![t] = address[t]]
            /\ pending' = [pending EXCEPT ![t] = {"load", "save"}]
    /\ UNCHANGED <<emitted, stored, address, feed>>

-----------------------------------------------------------------------------
(* useNotifications                                                        *)

\* The events query answers (every 15 s, with an account): the newest events.
FetchEvents(t) ==
    /\ address[t] # None /\ pending[t] = {}
    /\ LET recent == {n \in 1 .. emitted : n + FeedSize > emitted}
       IN /\ feed[t] # recent
          /\ feed' = [feed EXCEPT ![t] = recent]
    /\ pending' = [pending EXCEPT ![t] = {"notify"}]
    /\ UNCHANGED <<emitted, stored, address, page, presets, loadedFor,
                   toggles>>

\* The events about the account's invoices (for a liquidity provider: about
\* the financing of any).
relevantEvents(t) == {n \in feed[t] : address[t] \in Concerns[n]}

\* MUTANT: what cannot be read is taken for an empty history.
canPersistAlways(h) == TRUE

\* readStoredNotifications: an absent value may be written, a damaged one not.
canPersist(h) == h.state # "damaged"

\* MUTANT: an event that is fetched again replaces the stored notification.
mergeFresh(h, fresh) == [ids |-> h.ids \cup fresh, read |-> h.read \ fresh]

\* A known notification keeps its read flag, a new one is unread.
merge(h, fresh) == [ids |-> h.ids \cup fresh, read |-> h.read]

\* The effect: merge, show what is not muted, and write back the whole history.
NotifyEffect(t) ==
    LET a == address[t]
        all == merge(history[a], relevantEvents(t))
    IN history' = IF "notify" \in pending[t] /\ a # None /\ canPersist(history[a])
                  THEN [history EXCEPT ![a] = [state |-> "ok", ids |-> all.ids, read |-> all.read]]
                  ELSE history

\* The bell is opened.
toggleOpen(t) == pending[t] = {}

\* What the bell shows, and everything stored, is marked as read.
markAllAsRead(t) ==
    /\ toggleOpen(t) /\ address[t] # None
    /\ history[address[t]].state = "ok"
    /\ history' = [history EXCEPT ![address[t]].read = history[address[t]].ids]
    /\ UNCHANGED <<emitted, prefs, saved, tab>>

-----------------------------------------------------------------------------
(* NotificationPreferences                                                 *)

\* The storage key changed: read the other account's preferences.
RereadEffect(t) ==
    toggles' = IF "reread" \in pending[t]
               THEN [toggles EXCEPT ![t] = readStoredPrefs(address[t])]
               ELSE toggles

\* The copy on screen, with one more category muted or one no longer, is
\* written whole under the connected account's key.
toggleCategory(t) ==
    /\ pending[t] = {} /\ page[t] = "preferences" /\ address[t] # None
    /\ \E next \in {toggles[t] \cup {address[t]}} \cup {toggles[t] \ {b} : b \in toggles[t]} :
          /\ toggles' = [toggles EXCEPT ![t] = next]
          /\ prefs' = [prefs EXCEPT ![address[t]] = next]
    /\ UNCHANGED <<emitted, history, saved, address, feed, page, presets,
                   loadedFor, pending>>

-----------------------------------------------------------------------------
(* Saved searches of the marketplace page.                                 *)

LoadEffect(t) ==
    IF "load" \in pending[t]
    THEN /\ presets' = [presets EXCEPT ![t] = saved[address[t]]]
         /\ loadedFor' = [loadedFor EXCEPT ![t] = address[t]]
    ELSE UNCHANGED <<presets, loadedFor>>

\* MUTANT: the copy is written whichever account it was loaded for.
mayPersistAny(t) == TRUE

\* The gate on writes: the copy was loaded for the account of this render.
mayPersist(t) == loadedFor[t] = address[t]

\* Sees the copy of the render it belongs to, not what LoadEffect just read.
SaveEffect(t) ==
    saved' = IF "save" \in pending[t] /\ mayPersist(t)
             THEN [saved EXCEPT ![address[t]] = presets[t]]
             ELSE saved

\* The effects of one commit; loading sets state, so the writer runs again.
RunEffects(t) ==
    /\ pending[t] # {}
    /\ NotifyEffect(t)
    /\ RereadEffect(t)
    /\ LoadEffect(t)
    /\ SaveEffect(t)
    /\ pending' = [pending EXCEPT ![t] = IF "load" \in pending[t] THEN {"save"} ELSE {}]
    /\ UNCHANGED <<emitted, prefs, address, feed, page>>

\* setPresets of a click on the marketplace page.
SetPresets(t, next) ==
    /\ presets' = [presets EXCEPT ![t] = next]
    /\ pending' = [pending EXCEPT ![t] = {"save"}]
    /\ UNCHANGED <<emitted, stored, address, feed, page, loadedFor, toggles>>

\* The menu of saved searches is open.
PresetMenu(t) == pending[t] = {} /\ page[t] = "market"

savePreset(t) ==
    /\ PresetMenu(t)
    /\ Len(presets[t]) < MaxPresets
    /\ SetPresets(t, Append(presets[t], address[t]))

deletePreset(t, i) ==
    /\ PresetMenu(t)
    /\ SetPresets(t, RemoveAt(presets[t], i))

\* A new name; the list is written again.  (Names are not modelled.)
saveEditedPreset(t) ==
    /\ PresetMenu(t) /\ presets[t] # <<>>
    /\ SetPresets(t, presets[t])

\* The tab starts anew, without an account.
Reload(t) ==
    /\ address' = [address EXCEPT ![t] = None]
    /\ feed' = [feed EXCEPT ![t] = {}]
    /\ presets' = [presets EXCEPT ![t] = <<>>]
    /\ loadedFor' = [loadedFor EXCEPT ![t] = None]
    /\ toggles' = [toggles EXCEPT ![t] = {}]

\* "Clear All Local Data": every key of the app goes and the tab reloads; the
\* other tabs keep their copies.
clearAppStorage(t) ==
    /\ pending[t] = {} /\ page[t] = "preferences"
    /\ history' = [a \in Accounts |-> Absent]
    /\ prefs' = [a \in Accounts |-> {}]
    /\ saved' = [o \in Owner |-> <<>>]
    /\ Reload(t)
    /\ UNCHANGED <<emitted, page, pending>>

-----------------------------------------------------------------------------
Next ==
    \/ EventIndexed
    \/ \E t \in Tabs :
          \/ \E o \in Owner : AccountChanges(t, o)
          \/ OpenPage(t) \/ FetchEvents(t) \/ RunEffects(t)
          \/ markAllAsRead(t) \/ toggleCategory(t)
          \/ savePreset(t) \/ saveEditedPreset(t) \/ clearAppStorage(t)
          \/ \E i \in DOMAIN presets[t] : deletePreset(t, i)

Spec == Init /\ [][Next]_vars

-----------------------------------------------------------------------------
\* What is stored under an account's keys was entered for that account: a copy
\* that survives an account switch in memory is never written under the new
\* account's key, in the render between the switch and the re-read either
\* (marketplace/page.tsx:238-246, profile/page.tsx:40-43).
WalletScoped ==
    /\ \A o \in Owner : \A i \in DOMAIN saved[o] : saved[o][i] = o
    /\ \A a \in Accounts : prefs[a] \subseteq {a}

\* A damaged history stays as it is until the user clears the app's data: no
\* tab replaces it by what it can still show (useNotifications.ts:28-36, #1093).
DamagedIsKept ==
    [][\A a \in Accounts : history[a].state = "damaged" =>
          history'[a].state = "damaged" \/ \A b \in Accounts : history'[b] = Absent]_vars

\* No tab makes another one's progress undone: a stored notification stays, and
\* stays read once it is, also when its event is fetched again or is long out
\* of the feed (useNotifications.ts:113-150).
ReadStaysRead ==
    [][\A a \in Accounts : (history[a].state = "ok" /\ history'[a].state = "ok") =>
          /\ history[a].ids \subseteq history'[a].ids
          /\ history[a].read \subseteq history'[a].read]_vars
=============================================================================
