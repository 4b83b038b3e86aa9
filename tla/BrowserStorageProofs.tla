------------------------ MODULE BrowserStorageProofs ------------------------
(***************************************************************************)
(* What the web app's local data keeps true for any number of tabs,        *)
(* accounts, events and saved searches.                                    *)
(***************************************************************************)
EXTENDS BrowserStorage, SequenceTheorems, TLAPS

\* Every element of s was entered for o.
Own(s, o) == \A i \in DOMAIN s : s[i] = o

\* A tab's copies are of the account they were read for; while no re-read is
\* due that is the connected one.
CopiesInv ==
    \A t \in Tabs :
        /\ Own(presets[t], loadedFor[t])
        /\ page[t] = "market" /\ "load" \notin pending[t] => loadedFor[t] = address[t]
        /\ page[t] = "preferences" /\ "reread" \notin pending[t]
             => toggles[t] \subseteq {address[t]} \cap Accounts

\* Only what is stored is read.
ReadInv == \A a \in Accounts : history[a].read \subseteq history[a].ids

Inv == TypeOK /\ CopiesInv /\ WalletScoped /\ ReadInv

-----------------------------------------------------------------------------
(* Lists of saved searches.                                                *)

Presets == SeqOf(Owner, MaxPresets)

LEMMA PresetsAreSeqs ==
  ASSUME NEW s
  PROVE  s \in Presets <=> s \in Seq(Owner) /\ Len(s) <= MaxPresets
<1>1. ASSUME s \in Presets PROVE s \in Seq(Owner) /\ Len(s) <= MaxPresets
  <2> PICK m \in 0 .. MaxPresets : s \in [1 .. m -> Owner]
    BY <1>1 DEF Presets, SeqOf
  <2>1. m \in Nat /\ m <= MaxPresets
    BY BoundsAreNat
  <2>2. s \in Seq(Owner) /\ Len(s) = m
    BY <2>1, IsASeq
  <2> QED
    BY <2>1, <2>2
<1>2. ASSUME s \in Seq(Owner), Len(s) <= MaxPresets PROVE s \in Presets
  <2>1. Len(s) \in 0 .. MaxPresets /\ s \in [1 .. Len(s) -> Owner]
    BY <1>2, LenProperties, BoundsAreNat
  <2> QED
    BY <2>1 DEF Presets, SeqOf
<1> QED
  BY <1>1, <1>2

LEMMA EmptyPresets ==
  /\ <<>> \in Presets
  /\ \A o : Own(<<>>, o)
<1> DEFINE e == <<>>
<1>1. e \in Seq(Owner) /\ Len(e) = 0 /\ DOMAIN e = {}
  OBVIOUS
<1> HIDE DEF e
<1>2. e \in Presets
  <2>1. Len(e) <= MaxPresets
    BY <1>1, BoundsAreNat
  <2> QED
    BY <1>1, <2>1, PresetsAreSeqs
<1>3. \A o : Own(e, o)
  BY <1>1 DEF Own
<1> QED
  BY <1>2, <1>3 DEF e

LEMMA AppendPresets ==
  ASSUME NEW s \in Presets, NEW o \in Owner, Len(s) < MaxPresets, Own(s, o)
  PROVE  Append(s, o) \in Presets /\ Own(Append(s, o), o)
<1>1. s \in Seq(Owner) /\ Len(s) \in Nat /\ DOMAIN s = 1 .. Len(s)
  BY PresetsAreSeqs, LenProperties
<1> DEFINE a == Append(s, o)
<1>2. /\ a \in Seq(Owner)
      /\ Len(a) = Len(s) + 1
      /\ DOMAIN a = 1 .. Len(s) + 1
      /\ \A i \in 1 .. Len(s) + 1 : a[i] = IF i <= Len(s) THEN s[i] ELSE o
  BY <1>1, AppendProperties
<1> HIDE DEF a
<1>3. a \in Presets
  BY <1>1, <1>2, PresetsAreSeqs, BoundsAreNat
<1>4. Own(a, o)
  BY <1>1, <1>2 DEF Own
<1> QED
  BY <1>3, <1>4 DEF a

LEMMA RemovePresets ==
  ASSUME NEW s \in Presets, NEW o, Own(s, o), NEW i \in DOMAIN s
  PROVE  RemoveAt(s, i) \in Presets /\ Own(RemoveAt(s, i), o)
<1>1. s \in Seq(Owner) /\ Len(s) \in Nat /\ DOMAIN s = 1 .. Len(s) /\ Len(s) <= MaxPresets
  BY PresetsAreSeqs, LenProperties
<1> DEFINE u == SubSeq(s, 1, i - 1)
           v == SubSeq(s, i + 1, Len(s))
<1>2. u \in Seq(Owner) /\ Len(u) = i - 1 /\ \A j \in 1 .. i - 1 : u[j] = s[j]
  BY <1>1
<1>3. v \in Seq(Owner) /\ Len(v) = Len(s) - i /\ \A j \in 1 .. Len(s) - i : v[j] = s[i + j]
  BY <1>1
<1>4. RemoveAt(s, i) = u \o v
  BY DEF RemoveAt
<1> HIDE DEF u, v
<1> DEFINE w == u \o v
<1>5. /\ w \in Seq(Owner) /\ Len(w) = Len(u) + Len(v)
      /\ \A j \in 1 .. Len(u) + Len(v) : w[j] = IF j <= Len(u) THEN u[j] ELSE v[j - Len(u)]
  BY <1>2, <1>3, ConcatProperties
<1> HIDE DEF w
<1>6. DOMAIN w = 1 .. Len(s) - 1 /\ Len(w) = Len(s) - 1
  BY <1>1, <1>2, <1>3, <1>5, LenProperties
<1>7. w \in Presets
  BY <1>1, <1>5, <1>6, PresetsAreSeqs, BoundsAreNat
<1>8. ASSUME NEW j \in 1 .. Len(s) - 1 PROVE w[j] = o
  <2>1. CASE j <= i - 1
    <3>1. j \in 1 .. i - 1 /\ j \in DOMAIN s /\ w[j] = u[j]
      BY <1>1, <1>2, <1>3, <1>5, <2>1
    <3> QED
      BY <1>2, <3>1 DEF Own
  <2>2. CASE j > i - 1
    <3>1. j - (i - 1) \in 1 .. Len(s) - i
      BY <1>1, <2>2
    <3>a. w[j] = v[j - (i - 1)]
      BY <1>1, <1>2, <1>3, <1>5, <2>2
    <3>2. v[j - (i - 1)] = s[i + (j - (i - 1))]
      BY <1>3, <3>1
    <3> QED
      BY <1>1, <3>1, <3>a, <3>2 DEF Own
  <2> QED
    BY <1>1, <2>1, <2>2
<1>9. Own(w, o)
  BY <1>6, <1>8 DEF Own
<1>10. RemoveAt(s, i) = w
  BY <1>4 DEF w
<1> QED
  BY <1>7, <1>9, <1>10

-----------------------------------------------------------------------------
(* The inductive invariant.                                                *)

LEMMA EventsDef == Events = 1 .. Len(Concerns) /\ Len(Concerns) \in Nat
  BY ConcernsAccounts, LenProperties DEF Events

LEMMA HistoryType ==
  /\ Absent \in History /\ Absent.read = {} /\ Absent.ids = {}
  /\ Damaged \in History /\ Damaged.read = {} /\ Damaged.ids = {}
  BY DEF Absent, Damaged, History

LEMMA InitInv == Init => Inv
<1> SUFFICES ASSUME Init PROVE Inv
  OBVIOUS
<1>1. TypeOK
  <2>1. history \in [Accounts -> History]
    BY HistoryType DEF Init
  <2>2. saved \in [Owner -> Presets] /\ presets \in [Tabs -> Presets]
    BY EmptyPresets DEF Init
  <2>3. emitted \in 0 .. Len(Concerns)
    BY EventsDef DEF Init
  <2> QED
    BY <2>1, <2>2, <2>3 DEF Init, TypeOK, Presets, Owner, Pages
<1>2. CopiesInv
  BY EmptyPresets DEF Init, CopiesInv
<1>3. WalletScoped
  BY DEF Init, WalletScoped
<1>4. ReadInv
  BY HistoryType DEF Init, ReadInv
<1> QED
  BY <1>1, <1>2, <1>3, <1>4 DEF Inv

\* The parts of the invariant that are about the storage.
LEMMA StoredKept ==
  ASSUME Inv, UNCHANGED stored
  PROVE  WalletScoped' /\ ReadInv'
  BY DEF Inv, WalletScoped, ReadInv, stored

LEMMA AccountChangesInv ==
  ASSUME Inv, NEW t \in Tabs, NEW o \in Owner, AccountChanges(t, o)
  PROVE  Inv'
<1>0. TypeOK /\ CopiesInv
  BY DEF Inv
<1>1. TypeOK'
  BY <1>0 DEF TypeOK, AccountChanges, AddressEffects, stored, Effects
<1>2. CopiesInv'
  BY <1>0 DEF TypeOK, CopiesInv, AccountChanges, AddressEffects
<1> QED
  BY <1>1, <1>2, StoredKept DEF Inv, AccountChanges

LEMMA OpenPageInv ==
  ASSUME Inv, NEW t \in Tabs, OpenPage(t)
  PROVE  Inv'
<1>0. TypeOK /\ CopiesInv /\ WalletScoped
  BY DEF Inv
<1>1. readStoredPrefs(address[t]) \subseteq {address[t]} \cap Accounts
  BY <1>0 DEF readStoredPrefs, TypeOK, WalletScoped, Owner
<1>2. saved[address[t]] \in Presets /\ Own(saved[address[t]], address[t])
  BY <1>0 DEF TypeOK, WalletScoped, Own, Presets
<1>3. TypeOK'
  BY <1>0, <1>1, <1>2, EmptyPresets DEF TypeOK, OpenPage, stored, Effects, Pages, Presets
<1>4. CopiesInv'
  BY <1>0, <1>1, <1>2, EmptyPresets DEF TypeOK, CopiesInv, OpenPage
<1> QED
  BY <1>3, <1>4, StoredKept DEF Inv, OpenPage

LEMMA FetchEventsInv ==
  ASSUME Inv, NEW t \in Tabs, FetchEvents(t)
  PROVE  Inv'
<1>0. TypeOK /\ CopiesInv
  BY DEF Inv
<1>1. {n \in 1 .. emitted : n + FeedSize > emitted} \subseteq Events
  BY <1>0, EventsDef DEF TypeOK
<1>2. TypeOK'
  BY <1>0, <1>1 DEF TypeOK, FetchEvents, stored, Effects
<1>3. CopiesInv'
  BY <1>0 DEF TypeOK, CopiesInv, FetchEvents
<1> QED
  BY <1>2, <1>3, StoredKept DEF Inv, FetchEvents

\* A history after NotifyEffect has what it had.
LEMMA NotifyType ==
  ASSUME Inv, NEW t \in Tabs, NotifyEffect(t)
  PROVE  /\ history' \in [Accounts -> History]
         /\ \A a \in Accounts :
              /\ history'[a].read \subseteq history'[a].ids
              /\ history[a].state = "damaged" => history'[a] = history[a]
              /\ history[a].ids \subseteq history'[a].ids
              /\ history[a].read \subseteq history'[a].read
<1>0. TypeOK /\ ReadInv
  BY DEF Inv
<1> DEFINE a == address[t]
           new == [state |-> "ok", ids |-> history[a].ids \cup relevantEvents(t),
                   read |-> history[a].read]
<1>1. CASE history' = history
  BY <1>0, <1>1 DEF TypeOK, ReadInv
<1>2. CASE /\ a \in Accounts /\ history[a].state # "damaged"
           /\ history' = [history EXCEPT ![a] = new]
  <2>1. relevantEvents(t) \subseteq Events
    BY <1>0 DEF relevantEvents, TypeOK
  <2>2. history[a] \in History
    BY <1>0, <1>2 DEF TypeOK
  <2>3. new \in History /\ new.ids = history[a].ids \cup relevantEvents(t)
        /\ new.read = history[a].read
    BY <2>1, <2>2 DEF History
  <2> HIDE DEF new, a
  <2> QED
    BY <1>0, <1>2, <2>2, <2>3 DEF TypeOK, ReadInv
<1> QED
  BY <1>0, <1>1, <1>2 DEF NotifyEffect, canPersist, merge, TypeOK, Owner

LEMMA RunEffectsInv ==
  ASSUME Inv, NEW t \in Tabs, RunEffects(t)
  PROVE  Inv'
<1>0. TypeOK /\ CopiesInv /\ WalletScoped
  BY DEF Inv
<1>1. readStoredPrefs(address[t]) \subseteq {address[t]} \cap Accounts
  BY <1>0 DEF readStoredPrefs, TypeOK, WalletScoped, Owner
<1>2. saved[address[t]] \in Presets /\ Own(saved[address[t]], address[t])
  BY <1>0 DEF TypeOK, WalletScoped, Own, Presets
<1>3. history' \in [Accounts -> History] /\ ReadInv'
  BY NotifyType DEF RunEffects, ReadInv
<1>4. saved' \in [Owner -> Presets] /\ \A o \in Owner : Own(saved'[o], o)
  <2>1. CASE UNCHANGED saved
    BY <1>0, <2>1 DEF TypeOK, WalletScoped, Own, Presets
  <2>2. CASE mayPersist(t) /\ saved' = [saved EXCEPT ![address[t]] = presets[t]]
    BY <1>0, <2>2 DEF TypeOK, WalletScoped, CopiesInv, Own, Presets, mayPersist
  <2> QED
    BY <2>1, <2>2 DEF RunEffects, SaveEffect
<1>5. toggles' \in [Tabs -> SUBSET Accounts]
      /\ presets' \in [Tabs -> Presets] /\ loadedFor' \in [Tabs -> Owner]
  BY <1>0, <1>1, <1>2 DEF RunEffects, RereadEffect, LoadEffect, TypeOK, Presets
<1>6. TypeOK'
  BY <1>0, <1>3, <1>4, <1>5 DEF RunEffects, TypeOK, Presets, Effects
<1>7. CopiesInv'
  BY <1>0, <1>1, <1>2 DEF RunEffects, RereadEffect, LoadEffect, TypeOK, CopiesInv
<1>8. WalletScoped'
  BY <1>0, <1>4 DEF RunEffects, WalletScoped, Own
<1> QED
  BY <1>3, <1>6, <1>7, <1>8 DEF Inv

LEMMA MarkAllAsReadInv ==
  ASSUME Inv, NEW t \in Tabs, markAllAsRead(t)
  PROVE  /\ Inv'
         /\ \A a \in Accounts : /\ history[a].state = "damaged" => history'[a] = history[a]
                               /\ history[a].ids \subseteq history'[a].ids
                               /\ history[a].read \subseteq history'[a].read
<1>0. TypeOK /\ CopiesInv /\ WalletScoped /\ ReadInv
  BY DEF Inv
<1> DEFINE a == address[t]
           new == [history[a] EXCEPT !.read = history[a].ids]
<1>1. a \in Accounts /\ history[a] \in History /\ history[a].state = "ok"
  BY <1>0 DEF markAllAsRead, TypeOK, Owner
<1>2. history' = [history EXCEPT ![a] = new]
  BY DEF markAllAsRead
<1>3. new \in History /\ new.read = history[a].ids /\ new.ids = history[a].ids
  BY <1>1 DEF History
<1> HIDE DEF new, a
<1>4. history' \in [Accounts -> History] /\ ReadInv'
  BY <1>0, <1>1, <1>2, <1>3 DEF TypeOK, ReadInv
<1>5. TypeOK' /\ CopiesInv' /\ WalletScoped'
  BY <1>0, <1>4 DEF markAllAsRead, TypeOK, CopiesInv, WalletScoped, tab
<1> QED
  BY <1>0, <1>1, <1>2, <1>3, <1>4, <1>5 DEF Inv, TypeOK, ReadInv

LEMMA ToggleCategoryInv ==
  ASSUME Inv, NEW t \in Tabs, toggleCategory(t)
  PROVE  Inv'
<1>0. TypeOK /\ CopiesInv /\ WalletScoped
  BY DEF Inv
<1>1. address[t] \in Accounts /\ toggles[t] \subseteq {address[t]}
  BY <1>0 DEF toggleCategory, TypeOK, Owner, CopiesInv
<1> PICK next \in {toggles[t] \cup {address[t]}} \cup {toggles[t] \ {b} : b \in toggles[t]} :
          /\ toggles' = [toggles EXCEPT ![t] = next]
          /\ prefs' = [prefs EXCEPT ![address[t]] = next]
  BY DEF toggleCategory
<1>2. next \subseteq {address[t]}
  BY <1>1
<1>3. TypeOK'
  BY <1>0, <1>1, <1>2 DEF toggleCategory, TypeOK
<1>4. CopiesInv'
  BY <1>0, <1>1, <1>2 DEF toggleCategory, TypeOK, CopiesInv
<1>5. WalletScoped' /\ ReadInv'
  BY <1>0, <1>1, <1>2 DEF toggleCategory, TypeOK, WalletScoped, Inv, ReadInv
<1> QED
  BY <1>3, <1>4, <1>5 DEF Inv

LEMMA SetPresetsInv ==
  ASSUME Inv, NEW t \in Tabs, NEW next \in Presets, PresetMenu(t), SetPresets(t, next),
         Own(next, address[t])
  PROVE  Inv'
<1>0. TypeOK /\ CopiesInv
  BY DEF Inv
<1>1. loadedFor[t] = address[t]
  BY <1>0 DEF PresetMenu, CopiesInv
<1>2. TypeOK'
  BY <1>0 DEF SetPresets, TypeOK, stored, Effects, Presets
<1>3. CopiesInv'
  BY <1>0, <1>1 DEF SetPresets, TypeOK, CopiesInv, PresetMenu
<1> QED
  BY <1>2, <1>3, StoredKept DEF Inv, SetPresets

LEMMA PresetClickInv ==
  ASSUME Inv, NEW t \in Tabs,
         \/ savePreset(t) \/ saveEditedPreset(t)
         \/ \E i \in DOMAIN presets[t] : deletePreset(t, i)
  PROVE  Inv'
<1>0. TypeOK /\ CopiesInv
  BY DEF Inv
<1>1. PresetMenu(t)
  BY DEF savePreset, saveEditedPreset, deletePreset
<1>2. presets[t] \in Presets /\ Own(presets[t], address[t]) /\ address[t] \in Owner
  BY <1>0, <1>1 DEF TypeOK, CopiesInv, PresetMenu, Presets
<1>3. CASE savePreset(t)
  BY <1>1, <1>2, <1>3, AppendPresets, SetPresetsInv DEF savePreset
<1>4. CASE saveEditedPreset(t)
  BY <1>1, <1>2, <1>4, SetPresetsInv DEF saveEditedPreset
<1>5. ASSUME NEW i \in DOMAIN presets[t], deletePreset(t, i) PROVE Inv'
  BY <1>1, <1>2, <1>5, RemovePresets, SetPresetsInv DEF deletePreset
<1> QED
  BY <1>3, <1>4, <1>5

LEMMA ClearInv ==
  ASSUME Inv, NEW t \in Tabs, clearAppStorage(t)
  PROVE  Inv'
<1>0. TypeOK /\ CopiesInv
  BY DEF Inv
<1>1. TypeOK'
  BY <1>0, HistoryType, EmptyPresets DEF clearAppStorage, Reload, TypeOK, Presets, Owner
<1>2. CopiesInv'
  BY <1>0, EmptyPresets DEF clearAppStorage, Reload, TypeOK, CopiesInv
<1>3. WalletScoped' /\ ReadInv'
  BY HistoryType DEF clearAppStorage, WalletScoped, ReadInv
<1> QED
  BY <1>1, <1>2, <1>3 DEF Inv

LEMMA NextInv ==
  ASSUME Inv, [Next]_vars
  PROVE  Inv'
<1>1. CASE EventIndexed
  <2>1. UNCHANGED <<stored, tab>> /\ emitted' \in 0 .. Len(Concerns)
    BY <1>1, EventsDef DEF EventIndexed, Inv, TypeOK
  <2> QED
    BY <2>1, StoredKept DEF Inv, TypeOK, CopiesInv, stored, tab
<1>2. CASE UNCHANGED vars
  BY <1>2, StoredKept DEF Inv, TypeOK, CopiesInv, vars, stored, tab
<1> QED
  BY <1>1, <1>2, AccountChangesInv, OpenPageInv, FetchEventsInv, RunEffectsInv,
     MarkAllAsReadInv, ToggleCategoryInv, PresetClickInv, ClearInv DEF Next

LEMMA Invariance == Spec => []Inv
  BY InitInv, NextInv, PTL DEF Spec

-----------------------------------------------------------------------------
(* The theorems.                                                           *)

\* Every variable keeps its type: no list of saved searches outgrows its
\* bound.  marketplace/page.tsx:265-285.
THEOREM TypeCorrect == Spec => []TypeOK
<1>1. Inv => TypeOK
  BY DEF Inv
<1> QED
  BY <1>1, Invariance, PTL

\* What is stored under an account's keys was entered for that account, however
\* the accounts are switched and however many tabs write.
\* marketplace/page.tsx:238-246, profile/page.tsx:40-43.
THEOREM StorageScoped == Spec => []WalletScoped
<1>1. Inv => WalletScoped
  BY DEF Inv
<1> QED
  BY <1>1, Invariance, PTL

\* What a step does to the histories.
LEMMA HistoryStep ==
  ASSUME Inv, [Next]_vars
  PROVE  \/ \A a \in Accounts : /\ history[a].state = "damaged" => history'[a] = history[a]
                                /\ history[a].ids \subseteq history'[a].ids
                                /\ history[a].read \subseteq history'[a].read
         \/ \A a \in Accounts : history'[a] = Absent
<1>1. CASE UNCHANGED history
  BY <1>1
<1>2. ASSUME NEW t \in Tabs, RunEffects(t) \/ markAllAsRead(t) \/ clearAppStorage(t)
      PROVE  \/ \A a \in Accounts : /\ history[a].state = "damaged" => history'[a] = history[a]
                                   /\ history[a].ids \subseteq history'[a].ids
                                   /\ history[a].read \subseteq history'[a].read
             \/ \A a \in Accounts : history'[a] = Absent
  BY <1>2, NotifyType, MarkAllAsReadInv DEF RunEffects, clearAppStorage
<1>3. CASE EventIndexed \/ UNCHANGED vars
  BY <1>1, <1>3 DEF EventIndexed, vars, stored
<1>4. ASSUME NEW t \in Tabs,
             \/ \E o \in Owner : AccountChanges(t, o)
             \/ OpenPage(t) \/ FetchEvents(t) \/ toggleCategory(t)
             \/ savePreset(t) \/ saveEditedPreset(t)
             \/ \E i \in DOMAIN presets[t] : deletePreset(t, i)
      PROVE  UNCHANGED history
  BY <1>4 DEF AccountChanges, OpenPage, FetchEvents, toggleCategory, savePreset,
              saveEditedPreset, deletePreset, SetPresets, stored
<1> QED
  BY <1>1, <1>2, <1>3, <1>4 DEF Next

\* A damaged history stays as it is until the user clears the app's data.
\* useNotifications.ts:28-36.
THEOREM DamagedKept == Spec => DamagedIsKept
<1>1. ASSUME Inv, [Next]_vars
      PROVE  \A a \in Accounts : history[a].state = "damaged" =>
                history'[a].state = "damaged" \/ \A b \in Accounts : history'[b] = Absent
  BY <1>1, HistoryStep
<1> QED
  BY <1>1, Invariance, PTL DEF Spec, DamagedIsKept

\* A stored notification stays, and stays read once it is.
\* useNotifications.ts:113-150.
THEOREM ReadKept == Spec => ReadStaysRead
<1>1. ASSUME Inv, [Next]_vars
      PROVE  \A a \in Accounts : (history[a].state = "ok" /\ history'[a].state = "ok") =>
                /\ history[a].ids \subseteq history'[a].ids
                /\ history[a].read \subseteq history'[a].read
  <2>1. Absent.state # "ok"
    BY DEF Absent
  <2> QED
    BY <1>1, <2>1, HistoryStep
<1> QED
  BY <1>1, Invariance, PTL DEF Spec, ReadStaysRead
=============================================================================
