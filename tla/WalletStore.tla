----------------------------- MODULE WalletStore -----------------------------
(***************************************************************************)
(* The wallet's session (apps/consumer-app/src): the recovery phrase in    *)
(* SecureStore, the accounts derived from it with the addresses cached for *)
(* each, the active account and chain, and the bootstrap that restores the *)
(* session when the app starts (stores/walletStore.ts,                     *)
(* hooks/useSessionBootstrap.ts and the onboarding and settings screens).  *)
(*                                                                         *)
(* A recovery phrase is a seed; an address is the seed and the account     *)
(* index it derives from.  The store is persisted at every change, so a    *)
(* restart finds it as it was, or empty after a wipe that nothing has      *)
(* followed.  WalletConnect sessions, which keep no recovery phrase, are   *)
(* left out.                                                               *)
(***************************************************************************)
EXTENDS Integers, Sequences, FiniteSets, FiniteSetsExt, Functions

CONSTANTS
  Seed,               \* recovery phrases
  Id, FirstId,        \* account ids; "0" is the first
  ChainType, Evm,     \* evm, svm, xlm
  Null,               \* no address, no phrase, no account
  RequiredAddresses,  \* 4: what the bootstrap takes for a full set
  MaxStores,          \* bound: recovery phrases stored
  MaxRestarts         \* bound: restarts of the app

ASSUME WalletAssumption ==
  /\ FirstId \in Id /\ Evm \in ChainType
  /\ Null \notin [seed : Seed, index : Nat]
  /\ IsFiniteSet(Id) /\ IsFiniteSet(ChainType)
  /\ {RequiredAddresses, MaxStores, MaxRestarts} \subseteq Nat

VARIABLES
  mnemonic,      \* the recovery phrase in SecureStore
  accounts,      \* Seq of [id, index, cache]
  active,        \* activeAccountId
  addresses,     \* [ChainType -> Source or Null]
  address,       \* the address shown and paid to
  chain,         \* the type of activeChain
  isConnected, isConnecting,
  switches,      \* switchAccount calls that derive: [id, index, seed]
  flow,          \* the screen flow under way
  saved,         \* SecureStore holds a copy of the store
  stores, restarts

walletVars == <<mnemonic, accounts, active, addresses, address, chain, isConnected,
                isConnecting, switches, flow, saved, stores, restarts>>

Source == [seed : Seed, index : 0 .. Cardinality(Id)]
Nowhere == [t \in ChainType |-> Null]
Derived(s, i) == [t \in ChainType |-> [seed |-> s, index |-> i]]
Known(map) == {t \in ChainType : map[t] # Null}

ScreenFlow == {"start", "onboarding", "import", "create", "connect", "home", "erased", "wipe"}
Screen(pc) == [pc |-> pc, seed |-> Null, accounts |-> <<>>, active |-> Null]

AddressMap == [ChainType -> Source \cup {Null}]
AccountRecord == [id : Id, index : 0 .. Cardinality(Id), cache : AddressMap \cup {Null}]
Ids(accs) == {accs[i].id : i \in DOMAIN accs}
Place(accs, a) == CHOOSE i \in DOMAIN accs : accs[i].id = a
Account(accs, a) == accs[Place(accs, a)]
WithCache(accs, a, map) ==
  [i \in DOMAIN accs |-> IF accs[i].id = a THEN [accs[i] EXCEPT !.cache = map] ELSE accs[i]]

\* The account connect() works for: the active one, or the first.
Connected(accs, act) == IF act \in Ids(accs) THEN Account(accs, act) ELSE accs[1]

WalletTypeOK ==
  /\ mnemonic \in Seed \cup {Null}
  /\ accounts \in Seq(AccountRecord)
  /\ IsInjective([i \in DOMAIN accounts |-> accounts[i].id])
  /\ active \in Id \cup {Null}
  /\ addresses \in AddressMap
  /\ address \in Source \cup {Null} /\ chain \in ChainType
  /\ isConnected \in BOOLEAN /\ isConnecting \in BOOLEAN
  /\ switches \subseteq [id : Id, index : 0 .. Cardinality(Id), seed : Seed \cup {Null}]
  /\ flow \in [pc : ScreenFlow, seed : Seed \cup {Null}, accounts : Seq(AccountRecord), active : Id \cup {Null}]
  /\ saved \in BOOLEAN
  /\ stores \in 0 .. MaxStores /\ restarts \in 0 .. MaxRestarts

WalletInit ==
  /\ mnemonic = Null /\ accounts = <<>> /\ active = Null
  /\ addresses = Nowhere /\ address = Null /\ chain = Evm
  /\ isConnected = FALSE /\ isConnecting = FALSE
  /\ switches = {} /\ flow = Screen("onboarding")
  /\ saved = FALSE /\ stores = 0 /\ restarts = 0

-----------------------------------------------------------------------------
(* Connecting.                                                             *)

OrFirst(accs) == IF accs = <<>> THEN <<[id |-> FirstId, index |-> 0, cache |-> Null]>> ELSE accs
OrFirstId == IF accounts = <<>> THEN FirstId ELSE active
Save == saved' = TRUE

SetConnected(accs, act, map, addr, type) ==
  /\ accounts' = accs /\ active' = act
  /\ addresses' = map /\ address' = addr /\ chain' = type
  /\ isConnected' = TRUE /\ isConnecting' = FALSE
  /\ Save

\* connect() with addresses derived already: nothing is awaited.
ConnectDerived(map, type) ==
  LET accs == OrFirst(accounts)
      mine == Connected(accs, OrFirstId)
  IN SetConnected(WithCache(accs, mine.id, map), OrFirstId, map, map[type], type)

ClearSession ==
  /\ Save
  /\ addresses' = Nowhere /\ address' = Null /\ chain' = Evm
  /\ isConnected' = FALSE
  /\ UNCHANGED <<accounts, active>>

\* The phrase is stored before the session connects.
StoreMnemonic(s, how) ==
  /\ flow.pc = "onboarding" /\ stores < MaxStores
  /\ mnemonic' = s
  /\ flow' = [Screen(how) EXCEPT !.seed = s]
  /\ stores' = stores + 1
  /\ UNCHANGED <<saved, accounts, active, addresses, address, chain, isConnected, isConnecting, switches, restarts>>

ImportWallet ==
  /\ flow.pc = "import"
  /\ ConnectDerived(Derived(flow.seed, 0), Evm)
  /\ flow' = Screen("home")
  /\ UNCHANGED <<mnemonic, switches, stores, restarts>>

\* A new wallet connects with one address; connect() reads the accounts,
\* then awaits the phrase.
CreateWallet ==
  /\ flow.pc = "create"
  /\ isConnecting' = TRUE
  /\ flow' = [flow EXCEPT !.pc = "connect", !.accounts = OrFirst(accounts), !.active = OrFirstId]
  /\ Save
  /\ UNCHANGED <<mnemonic, accounts, active, addresses, address, chain, isConnected, switches, stores, restarts>>

ConnectCreated ==
  /\ flow.pc = "connect"
  /\ LET accs == flow.accounts
         act == flow.active
         mine == Connected(accs, act)
         new == [seed |-> flow.seed, index |-> 0]
         derived == Derived(mnemonic, mine.index)
     IN \/ /\ mnemonic # Null /\ mine.cache # Null
           /\ SetConnected(accs, act, mine.cache, new, Evm)
        \/ /\ mnemonic # Null /\ mine.cache = Null
           /\ SetConnected(WithCache(accs, mine.id, derived), act, derived, new, Evm)
        \/ SetConnected(accs, act, [Nowhere EXCEPT ![Evm] = new], new, Evm)   \* derivation failed
  /\ flow' = Screen("home")
  /\ UNCHANGED <<mnemonic, switches, stores, restarts>>

\* The screens' catch: the phrase is erased again.
OnboardingFails ==
  /\ flow.pc \in {"import", "create"}
  /\ mnemonic' \in {Null, mnemonic}   \* the erasure may fail, and is ignored
  /\ flow' = Screen("onboarding")
  /\ UNCHANGED <<saved, accounts, active, addresses, address, chain, isConnected, isConnecting, switches, stores, restarts>>

-----------------------------------------------------------------------------
(* Accounts and chains.                                                    *)

AtHome == flow.pc = "home"

\* Mutant: only the address on the active chain follows.
ShowCachedAddress(a) ==
  /\ active' = a.id /\ address' = a.cache[chain]
  /\ isConnecting' = FALSE
  /\ Save
  /\ UNCHANGED <<addresses, chain, isConnected, switches>>

\* A cached account is shown at once.
ShowCached(a) ==
  /\ active' = a.id
  /\ addresses' = a.cache /\ address' = a.cache[chain]
  /\ isConnecting' = FALSE
  /\ Save
  /\ UNCHANGED <<chain, isConnected, switches>>

SwitchAccount(a) ==
  /\ AtHome /\ ~ isConnecting /\ a \in Ids(accounts) \ {active}
  /\ Account(accounts, a).cache # Null
  /\ ShowCached(Account(accounts, a))
  /\ UNCHANGED <<mnemonic, accounts, flow, stores, restarts>>

Deriving(a) == [id |-> a.id, index |-> a.index, seed |-> Null]

\* Any other is derived first, after a pause for the screen to draw.
BeginSwitch(a) ==
  /\ Save
  /\ isConnecting' = TRUE
  /\ switches' = switches \cup {Deriving(a)}
  /\ UNCHANGED <<active, addresses, address, chain, isConnected>>

SwitchUncached(a) ==
  /\ AtHome /\ ~ isConnecting /\ a \in Ids(accounts) \ {active}
  /\ Account(accounts, a).cache = Null
  /\ BeginSwitch(Account(accounts, a))
  /\ UNCHANGED <<mnemonic, accounts, flow, stores, restarts>>

NextIndex == 1 + Max({accounts[i].index : i \in DOMAIN accounts})

AddAccount(a) ==
  /\ AtHome /\ ~ isConnecting /\ accounts # <<>>
  /\ a \in Id \ (Ids(accounts) \cup {x.id : x \in switches})
  /\ NextIndex <= Cardinality(Id)   \* bound
  /\ LET new == [id |-> a, index |-> NextIndex, cache |-> Null]
     IN accounts' = Append(accounts, new) /\ BeginSwitch(new)
  /\ UNCHANGED <<mnemonic, flow, stores, restarts>>

\* Mutant: without a phrase the switch ends and the flag stays.
ReadMnemonicLeavesFlag(x) ==
  /\ x \in switches /\ x.seed = Null
  /\ \/ mnemonic # Null /\ switches' = (switches \ {x}) \cup {[x EXCEPT !.seed = mnemonic]}
     \/ switches' = switches \ {x}
  /\ UNCHANGED <<isConnecting, saved>>
  /\ UNCHANGED <<mnemonic, accounts, active, addresses, address, chain, isConnected, flow, stores, restarts>>

ReadMnemonic(x) ==
  /\ x \in switches /\ x.seed = Null
  /\ \/ /\ mnemonic # Null
        /\ switches' = (switches \ {x}) \cup {[x EXCEPT !.seed = mnemonic]}
        /\ UNCHANGED <<isConnecting, saved>>
     \/ switches' = switches \ {x} /\ isConnecting' = FALSE /\ Save   \* none stored, or the read fails
  /\ UNCHANGED <<mnemonic, accounts, active, addresses, address, chain, isConnected, flow, stores, restarts>>

\* Mutant: the addresses are cached for the account active by then.
EndSwitchCachesActive(x) ==
  /\ x \in switches /\ x.seed # Null
  /\ LET derived == Derived(x.seed, x.index)
     IN /\ accounts' = WithCache(accounts, active, derived)
        /\ active' = x.id /\ addresses' = derived /\ address' = derived[chain]
  /\ isConnecting' = FALSE
  /\ switches' = switches \ {x}
  /\ Save
  /\ UNCHANGED <<mnemonic, chain, isConnected, flow, stores, restarts>>

EndSwitch(x) ==
  /\ x \in switches /\ x.seed # Null
  /\ LET derived == Derived(x.seed, x.index)
     IN /\ accounts' = WithCache(accounts, x.id, derived)
        /\ active' = x.id /\ addresses' = derived /\ address' = derived[chain]
  /\ isConnecting' = FALSE
  /\ switches' = switches \ {x}
  /\ Save
  /\ UNCHANGED <<mnemonic, chain, isConnected, flow, stores, restarts>>

\* The ids are distinct: one account goes.
Without(a) ==
  LET i == Place(accounts, a)
  IN SubSeq(accounts, 1, i - 1) \o SubSeq(accounts, i + 1, Len(accounts))

Deletable(a) == AtHome /\ a \in Ids(accounts) /\ Len(accounts) > 1

DeleteAccount(a) ==
  /\ Deletable(a) /\ a # active
  /\ accounts' = Without(a)
  /\ Save
  /\ UNCHANGED <<mnemonic, active, addresses, address, chain, isConnected, isConnecting, switches, flow, stores, restarts>>

\* Deleting the active account switches to the first that is left.
DeleteActive(a) ==
  /\ Deletable(a) /\ a = active
  /\ Without(a)[1].cache # Null
  /\ accounts' = Without(a) /\ ShowCached(Without(a)[1])
  /\ UNCHANGED <<mnemonic, flow, stores, restarts>>

DeleteActiveUncached(a) ==
  /\ Deletable(a) /\ a = active
  /\ Without(a)[1].cache = Null
  /\ accounts' = Without(a) /\ BeginSwitch(Without(a)[1])
  /\ UNCHANGED <<mnemonic, flow, stores, restarts>>

SetActiveChain(t) ==
  /\ AtHome /\ t \in ChainType
  /\ chain' = t /\ address' = addresses[t]
  /\ Save
  /\ UNCHANGED <<mnemonic, accounts, active, addresses, isConnected, isConnecting, switches, flow, stores, restarts>>

-----------------------------------------------------------------------------
(* Leaving.                                                                *)

\* Settings erases the phrase first, to disconnect or to wipe the device.
EraseMnemonic ==
  /\ AtHome
  /\ mnemonic' = Null
  /\ flow' = Screen("erased")
  /\ UNCHANGED <<saved, accounts, active, addresses, address, chain, isConnected, isConnecting, switches, stores, restarts>>

Disconnect ==
  /\ flow.pc = "erased"
  /\ ClearSession
  /\ flow' = Screen("onboarding")
  /\ UNCHANGED <<mnemonic, isConnecting, switches, stores, restarts>>

\* The wipe clears the session the same way and goes on to the other stores.
WipeDisconnects ==
  /\ flow.pc = "erased"
  /\ ClearSession
  /\ flow' = Screen("wipe")
  /\ UNCHANGED <<mnemonic, isConnecting, switches, stores, restarts>>

\* The rest of the wipe: done, or failed at a step and back in settings.
EndWipe ==
  /\ flow.pc = "wipe"
  /\ \/ flow' = Screen("onboarding") /\ saved' = FALSE
     \/ flow' = Screen("home") /\ saved' \in {FALSE, saved}
  /\ UNCHANGED <<mnemonic, accounts, active, addresses, address, chain, isConnected, isConnecting, switches, stores, restarts>>

-----------------------------------------------------------------------------
(* The app stops at any time and starts again.                             *)

RestartApp ==
  /\ restarts < MaxRestarts /\ restarts' = restarts + 1
  /\ flow' = Screen("start")
  /\ switches' = {} /\ isConnecting' = FALSE
  /\ \/ saved /\ UNCHANGED <<accounts, active, addresses, address, chain, isConnected>>
     \/ /\ ~ saved
        /\ accounts' = <<>> /\ active' = Null
        /\ addresses' = Nowhere /\ address' = Null /\ chain' = Evm /\ isConnected' = FALSE
  /\ UNCHANGED <<mnemonic, saved, stores>>

ValidSession(n) == isConnected /\ address # Null /\ Cardinality(Known(addresses)) >= n

\* Without a phrase only a WalletConnect session may stay: it is looked up,
\* and kept when the sessions cannot be listed.
BootstrapUnlisted ==
  /\ flow.pc = "start" /\ mnemonic = Null
  /\ ValidSession(1) \/ ~ (isConnected \/ address # Null)
  /\ flow' = Screen(IF isConnected THEN "home" ELSE "onboarding")
  /\ UNCHANGED <<saved, mnemonic, accounts, active, addresses, address, chain, isConnected, isConnecting, switches, stores, restarts>>

BootstrapNoSeed ==
  /\ flow.pc = "start" /\ mnemonic = Null
  /\ isConnected \/ address # Null
  /\ ClearSession
  /\ flow' = Screen("onboarding")
  /\ UNCHANGED <<mnemonic, isConnecting, switches, stores, restarts>>

\* A session with a full set of addresses is kept; any other is derived anew,
\* from the first index.
Bootstrap ==
  /\ flow.pc = "start" /\ mnemonic # Null
  /\ IF ValidSession(RequiredAddresses)
       THEN UNCHANGED <<saved, accounts, active, addresses, address, chain, isConnected, isConnecting>>
       ELSE \E type \in {chain, Evm} :   \* a retry has forgotten the chain
              ConnectDerived(Derived(mnemonic, 0), type)
  /\ flow' = Screen("home")
  /\ UNCHANGED <<mnemonic, switches, stores, restarts>>

\* Three failed attempts: the app goes on disconnected.
BootstrapGivesUp ==
  /\ flow.pc = "start"
  /\ ClearSession
  /\ flow' = Screen("onboarding")
  /\ UNCHANGED <<mnemonic, isConnecting, switches, stores, restarts>>

WalletNext ==
  \/ \E s \in Seed, how \in {"import", "create"} : StoreMnemonic(s, how)
  \/ ImportWallet \/ CreateWallet \/ ConnectCreated \/ OnboardingFails
  \/ \E a \in Id : \/ SwitchAccount(a) \/ SwitchUncached(a) \/ AddAccount(a)
                   \/ DeleteAccount(a) \/ DeleteActive(a) \/ DeleteActiveUncached(a)
  \/ \E x \in switches : ReadMnemonic(x) \/ EndSwitch(x)
  \/ \E t \in ChainType : SetActiveChain(t)
  \/ EraseMnemonic \/ Disconnect \/ WipeDisconnects \/ EndWipe
  \/ BootstrapUnlisted \/ BootstrapNoSeed \/ Bootstrap \/ BootstrapGivesUp
  \/ RestartApp

WalletSpec == WalletInit /\ [][WalletNext]_walletVars

\* SecureStore answers or fails, and a derivation is a bounded computation.
WalletFairness ==
  /\ WF_walletVars(ConnectCreated)
  /\ WF_walletVars(\E x \in switches : ReadMnemonic(x))
  /\ WF_walletVars(\E x \in switches : EndSwitch(x))

FairWalletSpec == WalletSpec /\ WalletFairness

-----------------------------------------------------------------------------
(* Properties.                                                             *)

\* No two accounts derive from one index, and the addresses cached for an
\* account come from one seed and one index: its own, or the first when a
\* bootstrap or a second onboarding has worked for it, whatever switches,
\* additions and deletions overlap.
CacheIsOwn ==
  /\ IsInjective([i \in DOMAIN accounts |-> accounts[i].index])
  /\ \A i \in DOMAIN accounts : accounts[i].cache # Null =>
    \E s \in Seed : \/ accounts[i].cache = Derived(s, accounts[i].index)
                    \/ restarts > 0 /\ accounts[i].cache = Derived(s, 0)
                    \/ stores > 1 /\ accounts[i].cache = Derived(s, 0)

\* The addresses shown are those cached for the active account, unless it was
\* deleted under way or its connection fell back to the one address.
ActiveIsShown ==
  (isConnected /\ active \in Ids(accounts) /\ Account(accounts, active).cache # Null) =>
    addresses = Account(accounts, active).cache \/ Known(addresses) = {Evm}

\* A derivation always ends: the selector is usable again.
ConnectingEnds == isConnecting ~> ~ isConnecting

\* The bootstrap keeps a connected session as it was
\* (hooks/__tests__/useSessionBootstrap.test.ts, "fast-paths a valid
\* connected session when the wallet is initialized").
RestartKeepsAddress ==
  [][(flow.pc = "start" /\ flow'.pc = "home" /\ mnemonic # Null /\ isConnected /\ Known(addresses) = ChainType)
       => address' = address]_walletVars
=============================================================================
