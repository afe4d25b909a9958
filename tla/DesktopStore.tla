----------------------------- MODULE DesktopStore -----------------------------
(***************************************************************************)
(* What the desktop wallet keeps: the settings (store.ts), in memory and   *)
(* in localStorage, and the private key, in localStorage alone; and the    *)
(* tabs that show and change them (App, WalletTab, SettingsTab).  A write  *)
(* to localStorage may throw, which the code swallows; the app may be      *)
(* closed and started again at any time.                                   *)
(***************************************************************************)
EXTENDS Naturals, FiniteSets

CONSTANTS Key, None,
          Garbage   \* a stored text that is not JSON

VARIABLES
  settings,   \* the module variable of store.ts
  stored,     \* LS_SETTINGS
  key,        \* LS_WALLET_PK
  tab,        \* the mounted tab
  address,    \* WalletTab: the key whose address is shown
  confirm,    \* SettingsTab: confirmDelete
  revealed,   \* SettingsTab: the key on the screen
  sentFrom    \* the last transaction: the address shown and the key used

vars == <<settings, stored, key, tab, address, confirm, revealed, sentFrom>>
ui   == <<address, confirm, revealed>>

Url == {"default", "custom", "empty"}
Settings == [network : {"mainnet", "testnet", "signet"}, rpc : Url, api : Url]   \* the theme is left out

\* What JSON.parse may yield: fields absent, or of a release that knew others.
Raw == [network : {"mainnet", "testnet", "signet", "other"},
        rpc : Url \cup {"absent"}, api : Url \cup {"absent"}]

Tabs == {"overview", "wallet", "settings", "network"}

Defaults == [network |-> "mainnet", rpc |-> "default", api |-> "default"]

\* load: what cannot be read or parsed gives the defaults, field by field.
Load(raw) ==
  IF raw \in {None, Garbage} THEN Defaults
  ELSE [network |-> IF raw.network \in {"testnet", "signet"} THEN raw.network ELSE "mainnet",
        rpc     |-> IF raw.rpc = "absent" THEN "default" ELSE raw.rpc,
        api     |-> IF raw.api \in {"absent", "empty"} THEN "default" ELSE raw.api]

TypeOK ==
  /\ settings \in Settings
  /\ stored \in {None, Garbage} \cup Raw
  /\ key \in Key \cup {None}
  /\ tab \in Tabs
  /\ {address, revealed} \subseteq Key \cup {None}
  /\ confirm \in BOOLEAN
  /\ sentFrom \in (Key \cup {None}) \X (Key \cup {None})

Init ==
  /\ stored \in {None, Garbage} \cup Raw
  /\ settings = Load(stored)
  /\ key \in {None} \cup Key
  /\ tab = "overview" /\ address = None /\ confirm = FALSE /\ revealed = None
  /\ sentFrom = <<None, None>>

-----------------------------------------------------------------------------
\* persist: the write may be refused, the settings then last for the session.
Persist == stored' \in {settings', stored}

\* NetworkTab and SettingsTab: updateSettings and setRpcUrl.
SelectNetwork(n) ==
  /\ tab = "network"
  /\ settings' = [settings EXCEPT !.network = n]
  /\ Persist
  /\ UNCHANGED <<key, tab, ui, sentFrom>>

EditSettings ==
  /\ tab = "settings"
  /\ \/ \E u \in Url : settings' = [settings EXCEPT !.api = u]
     \/ \E u \in Url : settings' = [settings EXCEPT !.rpc = u]
  /\ Persist
  /\ UNCHANGED <<key, tab, ui, sentFrom>>

\* The app is started again: the module reads the storage anew.
Restart ==
  /\ settings' = Load(stored)
  /\ tab' = "overview" /\ address' = None /\ confirm' = FALSE /\ revealed' = None
  /\ UNCHANGED <<stored, key, sentFrom>>

\* useState of the tab that is mounted; the other one's state is gone.
MountTab(t) ==
  /\ address' = IF t = "wallet" THEN key ELSE None
  /\ confirm' = FALSE /\ revealed' = None

\* App shows one tab.
OpenTab(t) ==
  /\ t # tab
  /\ tab' = t
  /\ MountTab(t)
  /\ UNCHANGED <<settings, stored, key, sentFrom>>

-----------------------------------------------------------------------------
\* WalletSetup is on the screen: createWallet, or importWallet of a valid key,
\* stores the key over the old one and the tab reads it back.
StoreWallet(k) ==
  /\ tab = "wallet" /\ address = None
  /\ key' \in {k, key}
  /\ address' = key'
  /\ UNCHANGED <<settings, stored, tab, confirm, revealed, sentFrom>>

\* `Use Different Wallet' only forgets the address.
Forget ==
  /\ tab = "wallet" /\ address # None
  /\ address' = None
  /\ UNCHANGED <<settings, stored, key, tab, confirm, revealed, sentFrom>>

\* SendCard shows the address of the tab, sendEcx reads the key.
Send ==
  /\ tab = "wallet" /\ address # None
  /\ sentFrom' = <<address, key>>
  /\ UNCHANGED <<settings, stored, key, tab, ui>>

Reveal ==
  /\ tab = "settings" /\ key # None
  /\ revealed' = key
  /\ UNCHANGED <<settings, stored, key, tab, address, confirm, sentFrom>>

AskDelete ==
  /\ tab = "settings" /\ key # None /\ ~confirm
  /\ confirm' = TRUE
  /\ UNCHANGED <<settings, stored, key, tab, address, revealed, sentFrom>>

CancelDelete ==
  /\ tab = "settings" /\ key # None /\ confirm
  /\ confirm' = FALSE
  /\ UNCHANGED <<settings, stored, key, tab, address, revealed, sentFrom>>

\* setRevealed(null).
Hide == revealed' = None

\* `Confirm Delete (no undo)': removeItem, then the state of the tab.
ConfirmDelete ==
  /\ tab = "settings" /\ key # None /\ confirm
  /\ key' \in {None, key}
  /\ confirm' = FALSE
  /\ Hide
  /\ UNCHANGED <<settings, stored, tab, address, sentFrom>>

Next ==
  \/ \E n \in {"mainnet", "testnet", "signet"} : SelectNetwork(n)
  \/ EditSettings \/ Restart
  \/ \E t \in Tabs : OpenTab(t)
  \/ \E k \in Key : StoreWallet(k)
  \/ Forget \/ Send \/ Reveal \/ AskDelete \/ CancelDelete \/ ConfirmDelete

Spec == Init /\ [][Next]_vars

-----------------------------------------------------------------------------
\* Settings that were written are the ones a restart finds; only an API URL left
\* empty comes back as the default.
WrittenIsLoaded ==
  stored = settings => Load(stored) = [settings EXCEPT !.api = IF @ = "empty" THEN "default" ELSE @]

\* The wallet tab never shows, and a transaction never comes from, another
\* address than that of the key in the storage, although the tab keeps its own
\* copy and keys are made, refused by the storage and deleted elsewhere.
ShownAddressIsTheKey ==
  /\ tab = "wallet" => address \in {None, key}
  /\ sentFrom[1] = sentFrom[2]

IInv == TypeOK /\ ShownAddressIsTheKey
=============================================================================
