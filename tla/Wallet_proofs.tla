---------------------------- MODULE Wallet_proofs ----------------------------
(***************************************************************************)
(* Proofs about the stores of the wallet.                                  *)
(*                                                                         *)
(* WalletStore: whatever derivations, deletions, onboardings and restarts  *)
(* overlap, an account has the addresses of its own index, and the active  *)
(* account is the one shown.                                               *)
(*                                                                         *)
(* WalletActivity: whatever fetches, payments, private operations,         *)
(* switches, wipes and restarts overlap, a foreign row on screen or a row  *)
(* left by a wipe was written by a late call, and a private row is lost to *)
(* the wipe or to an older fetch only.                                     *)
(***************************************************************************)
EXTENDS WalletStore, WalletActivity,
        FiniteSetTheorems, SequenceTheorems, WellFoundedInduction, TLAPS

-----------------------------------------------------------------------------
(* The session: its inductive invariant.                                   *)

\* The addresses of the first index may stand for another account's.
Again == restarts > 0 \/ stores > 1

Honest(r, again) ==
  r.cache # Null => \E s \in Seed : \/ r.cache = Derived(s, r.index)
                                    \/ again /\ r.cache = Derived(s, 0)

\* Accounts with ids and indexes of their own, and addresses that are theirs.
Sound(accs, again) ==
  /\ accs \in Seq(AccountRecord)
  /\ \A i, j \in DOMAIN accs :
       (accs[i].id = accs[j].id \/ accs[i].index = accs[j].index) => i = j
  /\ \A i \in DOMAIN accs : Honest(accs[i], again)

\* A switch derives from the index its account has, if that is still there.
Matches(accs, under) ==
  \A x \in under : \A i \in DOMAIN accs : accs[i].id = x.id => accs[i].index = x.index

AccountsInv ==
  /\ Sound(accounts, Again)
  /\ Matches(accounts, switches)
  /\ accounts = <<>> => switches = {}

\* What connect() read before it awaited the phrase is as sound.
FlowInv ==
  /\ flow.pc \in {"import", "create", "connect"} => flow.seed \in Seed
  /\ flow.pc = "connect" =>
       flow.accounts # <<>> /\ Sound(flow.accounts, Again) /\ Matches(flow.accounts, switches)

\* The first wallet of the device finds no accounts, and no bootstrap has run.
FirstUse ==
  restarts = 0 =>
    /\ flow.pc # "start"
    /\ stores = 0 => accounts = <<>> /\ flow.pc = "onboarding"
    /\ stores = 1 /\ flow.pc = "import" => accounts = <<>>

StoreInv ==
  /\ WalletTypeOK
  /\ AccountsInv
  /\ FlowInv
  /\ FirstUse
  /\ ActiveIsShown

-----------------------------------------------------------------------------
(* Accounts.                                                               *)

LEMMA SizeIs == Cardinality(Id) \in Nat
BY WalletAssumption, FS_CardinalityType

LEMMA DerivedTyped ==
  ASSUME NEW s \in Seed, NEW i \in 0 .. Cardinality(Id)
  PROVE  Derived(s, i) \in AddressMap /\ \A t \in ChainType : Derived(s, i)[t] \in Source
BY DEF Derived, AddressMap, Source

LEMMA AccountIs ==
  ASSUME NEW accs, NEW again, Sound(accs, again), NEW i \in DOMAIN accs
  PROVE  /\ Place(accs, accs[i].id) = i /\ Account(accs, accs[i].id) = accs[i]
         /\ accs[i].id \in Ids(accs) /\ accs[i] \in AccountRecord
<1>1. \A j \in DOMAIN accs : accs[j].id = accs[i].id => j = i
  BY DEF Sound
<1>2. Place(accs, accs[i].id) = i
  BY <1>1 DEF Place
<1>3. accs[i] \in AccountRecord
  BY DEF Sound
<1> QED
  BY <1>2, <1>3 DEF Account, Ids

LEMMA ListedAt ==
  ASSUME NEW accs, NEW again, Sound(accs, again), NEW a \in Ids(accs)
  PROVE  \E i \in DOMAIN accs : accs[i].id = a /\ Place(accs, a) = i /\ Account(accs, a) = accs[i]
<1>1. PICK i \in DOMAIN accs : accs[i].id = a
  BY DEF Ids
<1> QED
  BY <1>1, AccountIs

LEMMA SoundStays ==
  ASSUME NEW accs, NEW again, NEW later, Sound(accs, again), again => later
  PROVE  Sound(accs, later)
BY DEF Sound, Honest

LEMMA NoneSound ==
  ASSUME NEW again
  PROVE  Sound(<<>>, again) /\ \A under : Matches(<<>>, under)
BY DEF Sound, Matches

LEMMA OrFirstIs ==
  ASSUME NEW accs, NEW again, Sound(accs, again)
  PROVE  /\ OrFirst(accs) # <<>> /\ Sound(OrFirst(accs), again)
         /\ accs # <<>> => OrFirst(accs) = accs
         /\ accs = <<>> => \A i \in DOMAIN OrFirst(accs) : OrFirst(accs)[i].index = 0
<1>1. CASE accs # <<>>
  BY <1>1 DEF OrFirst
<1>2. CASE accs = <<>>
  <2> DEFINE first == [id |-> FirstId, index |-> 0, cache |-> Null]
  <2>1. first \in AccountRecord /\ Honest(first, again) /\ first.index = 0
    BY SizeIs, WalletAssumption DEF AccountRecord, Honest
  <2>2. OrFirst(accs) = <<first>>
    BY <1>2 DEF OrFirst
  <2> HIDE DEF first
  <2>3. DOMAIN <<first>> = {1} /\ <<first>>[1] = first /\ <<first>> \in Seq(AccountRecord)
    BY <2>1
  <2>4. <<first>> # <<>>
    OBVIOUS
  <2>5. Sound(<<first>>, again)
    BY <2>1, <2>3 DEF Sound
  <2>6. \A i \in DOMAIN <<first>> : <<first>>[i].index = 0
    BY <2>1, <2>3
  <2> QED
    BY <1>2, <2>2, <2>4, <2>5, <2>6
<1> QED
  BY <1>1, <1>2

LEMMA ConnectedIs ==
  ASSUME NEW accs, NEW again, Sound(accs, again), accs # <<>>, NEW act
  PROVE  /\ \E i \in DOMAIN accs : Connected(accs, act) = accs[i]
         /\ Connected(accs, act) \in AccountRecord
         /\ act \in Ids(accs) =>
              Connected(accs, act).id = act /\ Connected(accs, act) = Account(accs, act)
<1>1. accs \in Seq(AccountRecord)
  BY DEF Sound
<1>2. 1 \in DOMAIN accs
  BY <1>1
<1>3. CASE act \in Ids(accs)
  BY <1>1, <1>3, ListedAt, AccountIs DEF Connected
<1>4. CASE act \notin Ids(accs)
  BY <1>1, <1>2, <1>4 DEF Connected
<1> QED
  BY <1>3, <1>4

\* What the cache of an account may be given.
Fits(r, map, again) ==
  \E s \in Seed : \/ map = Derived(s, r.index)
                  \/ again /\ map = Derived(s, 0)

LEMMA CacheSet ==
  ASSUME NEW r \in AccountRecord, NEW map \in AddressMap
  PROVE  LET new == [r EXCEPT !.cache = map]
         IN new \in AccountRecord /\ new.id = r.id /\ new.index = r.index /\ new.cache = map
BY DEF AccountRecord

LEMMA WithCacheIs ==
  ASSUME NEW accs, NEW again, Sound(accs, again), NEW a, NEW map \in AddressMap,
         \A i \in DOMAIN accs : accs[i].id = a => Fits(accs[i], map, again)
  PROVE  LET new == WithCache(accs, a, map)
         IN /\ Sound(new, again) /\ DOMAIN new = DOMAIN accs /\ Ids(new) = Ids(accs)
            /\ \A i \in DOMAIN accs : new[i].id = accs[i].id /\ new[i].index = accs[i].index
            /\ a \in Ids(accs) => Account(new, a).cache = map
            /\ \A b \in Ids(accs) \ {a} : Account(new, b) = Account(accs, b)
            /\ accs # <<>> => new # <<>>
<1> DEFINE new == WithCache(accs, a, map)
<1>1. accs \in Seq(AccountRecord) /\ DOMAIN accs = 1 .. Len(accs) /\ Len(accs) \in Nat
  BY DEF Sound
<1>2. /\ DOMAIN new = DOMAIN accs
      /\ \A i \in DOMAIN accs :
           new[i] = IF accs[i].id = a THEN [accs[i] EXCEPT !.cache = map] ELSE accs[i]
  BY DEF WithCache
<1>3. \A i \in DOMAIN accs :
        /\ new[i] \in AccountRecord
        /\ new[i].id = accs[i].id /\ new[i].index = accs[i].index
        /\ accs[i].id = a => new[i].cache = map
        /\ accs[i].id # a => new[i] = accs[i]
  <2> SUFFICES ASSUME NEW i \in DOMAIN accs
               PROVE  /\ new[i] \in AccountRecord
                      /\ new[i].id = accs[i].id /\ new[i].index = accs[i].index
                      /\ accs[i].id = a => new[i].cache = map
                      /\ accs[i].id # a => new[i] = accs[i]
    OBVIOUS
  <2> HIDE DEF new
  <2>1. accs[i] \in AccountRecord
    BY <1>1
  <2>2. CASE accs[i].id = a
    <3>1. PICK r \in AccountRecord : r = accs[i]
      BY <2>1
    <3>2. new[i] = [r EXCEPT !.cache = map]
      BY <1>2, <2>2, <3>1
    <3>3. /\ [r EXCEPT !.cache = map] \in AccountRecord
          /\ [r EXCEPT !.cache = map].id = r.id /\ [r EXCEPT !.cache = map].index = r.index
          /\ [r EXCEPT !.cache = map].cache = map
      BY CacheSet
    <3> QED
      BY <2>2, <3>1, <3>2, <3>3
  <2>3. CASE accs[i].id # a
    BY <1>2, <2>1, <2>3
  <2> QED
    BY <2>2, <2>3
<1> HIDE DEF new
<1>4. new \in Seq(AccountRecord)
  <2>1. new = [i \in 1 .. Len(accs) |-> new[i]]
    BY <1>1, <1>2 DEF new, WithCache
  <2>2. [i \in 1 .. Len(accs) |-> new[i]] \in Seq(AccountRecord)
    BY <1>1, <1>3
  <2> QED
    BY <2>1, <2>2, Zenon
<1>5. \A i \in DOMAIN accs : Honest(new[i], again)
  BY <1>3 DEF Sound, Honest, Fits
<1>6. Sound(new, again)
  BY <1>2, <1>3, <1>4, <1>5 DEF Sound
<1>7. Ids(new) = Ids(accs)
  BY <1>2, <1>3 DEF Ids
<1>8. ASSUME a \in Ids(accs) PROVE Account(new, a).cache = map
  <2>1. PICK i \in DOMAIN accs : accs[i].id = a
    BY <1>8 DEF Ids
  <2> QED
    BY <1>2, <1>3, <1>6, <2>1, AccountIs
<1>9. ASSUME NEW b \in Ids(accs) \ {a} PROVE Account(new, b) = Account(accs, b)
  <2>1. PICK i \in DOMAIN accs : accs[i].id = b
    BY DEF Ids
  <2> QED
    BY <1>2, <1>3, <1>6, <2>1, AccountIs
<1>10. ASSUME accs # <<>> PROVE new # <<>>
  <2>1. 1 \in DOMAIN accs
    BY <1>1, <1>10
  <2> QED
    BY <1>2, <2>1
<1> QED
  BY <1>2, <1>3, <1>6, <1>7, <1>8, <1>9, <1>10 DEF new

LEMMA LeastNumber ==
  ASSUME NEW T, T \subseteq Nat, T # {}
  PROVE  \E x \in T : \A y \in T : x <= y
<1> DEFINE R == OpToRel(<, Nat)
<1>1. IsWellFoundedOn(R, Nat)
  BY NatLessThanWellFounded
<1>2. \A x, y \in Nat : <<x, y>> \in R <=> x < y
  BY DEF OpToRel
<1> HIDE DEF R
<1>3. PICK x \in T : \A y \in T : ~ (<<y, x>> \in R)
  BY <1>1, WFMin
<1>4. \A y \in T : ~ (y < x) /\ y \in Nat /\ x \in Nat
  BY <1>2, <1>3
<1> QED
  BY <1>3, <1>4

LEMMA MaxIs ==
  ASSUME NEW n \in Nat, NEW S, S \subseteq 0 .. n, S # {}
  PROVE  Max(S) \in S /\ \A y \in S : Max(S) >= y
<1> DEFINE T == {n - y : y \in S}
<1>1. T \subseteq Nat /\ T # {}
  <2>1. \A y \in S : n - y \in Nat
    OBVIOUS
  <2> QED
    BY <2>1
<1>2. PICK d \in T : \A z \in T : d <= z
  <2> HIDE DEF T
  <2> QED
    BY <1>1, LeastNumber
<1>3. PICK x \in S : d = n - x
  OBVIOUS
<1>4. \A y \in S : d <= n - y
  BY <1>2
<1>5. \A y \in S : x >= y
  BY <1>3, <1>4
<1> QED
  BY <1>5 DEF Max

\* An account more, with an id and an index of its own.
LEMMA AddedIs ==
  ASSUME NEW accs, NEW again, Sound(accs, again), NEW r \in AccountRecord, r.cache = Null,
         \A i \in DOMAIN accs : accs[i].id # r.id /\ accs[i].index # r.index
  PROVE  LET new == Append(accs, r)
         IN /\ Sound(new, again) /\ new # <<>>
            /\ \A i \in DOMAIN new : new[i] = r \/ \E j \in DOMAIN accs : new[i] = accs[j]
            /\ Ids(new) = Ids(accs) \cup {r.id} /\ Account(new, r.id) = r
            /\ \A b \in Ids(accs) : Account(new, b) = Account(accs, b)
<1> DEFINE new == Append(accs, r)
           n == Len(accs)
<1>1. accs \in Seq(AccountRecord) /\ DOMAIN accs = 1 .. n /\ n \in Nat
  BY DEF Sound
<1>2. /\ new \in Seq(AccountRecord) /\ DOMAIN new = 1 .. n + 1
      /\ \A i \in 1 .. n : new[i] = accs[i]
      /\ new[n + 1] = r
  BY <1>1
<1> HIDE DEF new, n
<1>3. \A i \in 1 .. n + 1 : i \in 1 .. n \/ i = n + 1
  BY <1>1
<1>4. \A i \in DOMAIN new : Honest(new[i], again)
  BY <1>1, <1>2, <1>3 DEF Sound, Honest
<1>5. \A i, j \in DOMAIN new : (new[i].id = new[j].id \/ new[i].index = new[j].index) => i = j
  BY <1>1, <1>2, <1>3 DEF Sound
<1>6. Sound(new, again)
  BY <1>2, <1>4, <1>5 DEF Sound
<1>7. n + 1 \in DOMAIN new /\ \A i \in DOMAIN accs : i \in DOMAIN new
  BY <1>1, <1>2
<1>8. Ids(new) = Ids(accs) \cup {r.id} /\ Account(new, r.id) = r
  <2>1. Ids(new) = Ids(accs) \cup {r.id}
    BY <1>1, <1>2, <1>3, <1>7 DEF Ids
  <2> QED
    BY <1>2, <1>6, <1>7, <2>1, AccountIs
<1>9. ASSUME NEW b \in Ids(accs) PROVE Account(new, b) = Account(accs, b)
  <2>1. PICK i \in DOMAIN accs : accs[i].id = b
    BY DEF Ids
  <2>2. i \in DOMAIN new /\ new[i] = accs[i]
    BY <1>1, <1>2, <1>7
  <2>3. Account(accs, b) = accs[i]
    BY <2>1, AccountIs
  <2>4. Account(new, b) = new[i]
    BY <1>6, <2>1, <2>2, AccountIs
  <2> QED
    BY <2>2, <2>3, <2>4
<1>10. new # <<>>
  BY <1>7
<1>11. \A i \in DOMAIN new : new[i] = r \/ \E j \in DOMAIN accs : new[i] = accs[j]
  BY <1>1, <1>2, <1>3
<1> QED
  BY <1>6, <1>8, <1>9, <1>10, <1>11 DEF new

\* The index of a new account is above all others.
LEMMA NextIndexIs ==
  ASSUME Sound(accounts, Again), accounts # <<>>
  PROVE  NextIndex \in Nat \ {0} /\ \A i \in DOMAIN accounts : accounts[i].index < NextIndex
<1> DEFINE S == {accounts[i].index : i \in DOMAIN accounts}
<1>1. accounts \in Seq(AccountRecord) /\ Cardinality(Id) \in Nat
  BY SizeIs DEF Sound
<1>2. S \subseteq 0 .. Cardinality(Id)
  <2>1. \A i \in DOMAIN accounts : accounts[i] \in AccountRecord
    BY <1>1
  <2>2. \A i \in DOMAIN accounts : accounts[i].index \in 0 .. Cardinality(Id)
    BY <2>1 DEF AccountRecord
  <2> QED
    BY <2>2
<1>3. S # {}
  <2>1. 1 \in DOMAIN accounts
    BY <1>1
  <2> QED
    BY <2>1
<1>5. Max(S) \in S /\ \A y \in S : Max(S) >= y
  <2> HIDE DEF S
  <2> QED
    BY <1>1, <1>2, <1>3, MaxIs
<1>6. NextIndex = 1 + Max(S)
  BY DEF NextIndex
<1>7. \A i \in DOMAIN accounts : accounts[i].index \in S
  OBVIOUS
<1> HIDE DEF S
<1>8. \A y \in S : y \in Nat
  BY <1>1, <1>2
<1>9. Max(S) \in Nat
  BY <1>5, <1>8
<1>10. \A y \in S : y < NextIndex
  BY <1>5, <1>6, <1>8, <1>9
<1> QED
  BY <1>6, <1>7, <1>9, <1>10

LEMMA PartIs ==
  ASSUME NEW S, NEW s \in Seq(S), NEW u \in Nat, NEW k \in Nat, u >= 1, u <= k + 1, k <= Len(s)
  PROVE  LET part == SubSeq(s, u, k)
         IN /\ part \in Seq(S) /\ Len(part) = k - u + 1
            /\ \A j \in 1 .. k - u + 1 : part[j] = s[u + j - 1]
OBVIOUS

\* An account less: the others stay, in their order.
LEMMA WithoutIs ==
  ASSUME Sound(accounts, Again), NEW a \in Ids(accounts), Len(accounts) > 1
  PROVE  /\ Sound(Without(a), Again) /\ Without(a) # <<>> /\ 1 \in DOMAIN Without(a)
         /\ \A j \in DOMAIN Without(a) : \E i \in DOMAIN accounts :
              Without(a)[j] = accounts[i] /\ accounts[i].id # a
         /\ a \notin Ids(Without(a))
         /\ \A b \in Ids(accounts) \ {a} :
              b \in Ids(Without(a)) /\ Account(Without(a), b) = Account(accounts, b)
<1> DEFINE n == Len(accounts)
           new == Without(a)
<1>1. accounts \in Seq(AccountRecord) /\ DOMAIN accounts = 1 .. n /\ n \in Nat /\ n > 1
  BY DEF Sound
<1>2. PICK p \in 1 .. n : accounts[p].id = a /\ Place(accounts, a) = p
  BY <1>1, ListedAt
<1> DEFINE front == SubSeq(accounts, 1, p - 1)
           back == SubSeq(accounts, p + 1, n)
<1>3. /\ front \in Seq(AccountRecord) /\ Len(front) = p - 1
      /\ \A j \in 1 .. p - 1 : front[j] = accounts[j]
  <2>1. PICK k \in Nat : k = p - 1
    BY <1>1
  <2>2. front = SubSeq(accounts, 1, k)
    BY <2>1
  <2> HIDE DEF front
  <2>3. /\ front \in Seq(AccountRecord) /\ Len(front) = k - 1 + 1
        /\ \A j \in 1 .. k - 1 + 1 : front[j] = accounts[1 + j - 1]
    BY <1>1, <2>1, <2>2, PartIs
  <2>4. \A j \in 1 .. k : j \in 1 .. k - 1 + 1 /\ 1 + j - 1 = j
    OBVIOUS
  <2> QED
    BY <2>1, <2>3, <2>4
<1>4. /\ back \in Seq(AccountRecord) /\ Len(back) = n - p
      /\ \A j \in 1 .. n - p : back[j] = accounts[p + j]
  <2>1. PICK u \in Nat : u = p + 1
    BY <1>1
  <2>2. back = SubSeq(accounts, u, n)
    BY <2>1
  <2> HIDE DEF back
  <2>3. /\ back \in Seq(AccountRecord) /\ Len(back) = n - u + 1
        /\ \A j \in 1 .. n - u + 1 : back[j] = accounts[u + j - 1]
    <3>1. n \in Nat /\ u >= 1 /\ u <= n + 1 /\ n <= Len(accounts)
      BY <1>1, <2>1
    <3> HIDE DEF n
    <3> QED
      BY <1>1, <2>2, <3>1, PartIs
  <2>4. \A j \in 1 .. n - p : j \in 1 .. n - u + 1 /\ u + j - 1 = p + j
    BY <1>1, <2>1
  <2> QED
    BY <1>1, <2>1, <2>3, <2>4
<1>5. new = front \o back
  BY <1>2 DEF Without
<1> HIDE DEF front, back, new
<1>6. new \in Seq(AccountRecord) /\ Len(new) = n - 1 /\ DOMAIN new = 1 .. n - 1
  <2>1. new \in Seq(AccountRecord) /\ Len(new) = Len(front) + Len(back)
    BY <1>3, <1>4, <1>5, ConcatProperties
  <2> QED
    BY <1>1, <1>3, <1>4, <2>1
<1>7. \A j \in 1 .. n - 1 : new[j] = IF j < p THEN accounts[j] ELSE accounts[j + 1]
  <2> SUFFICES ASSUME NEW j \in 1 .. n - 1
               PROVE  new[j] = IF j < p THEN accounts[j] ELSE accounts[j + 1]
    OBVIOUS
  <2>1. CASE j < p
    BY <1>1, <1>3, <1>4, <1>5, <2>1
  <2>2. CASE ~ (j < p)
    <3>1. j - (p - 1) \in 1 .. n - p /\ p + (j - (p - 1)) = j + 1
      BY <1>1, <2>2
    <3>2. new[j] = back[j - (p - 1)]
      BY <1>1, <1>3, <1>4, <1>5, <2>2
    <3> QED
      BY <1>4, <2>2, <3>1, <3>2
  <2> QED
    BY <2>1, <2>2
<1> DEFINE from == [j \in 1 .. n - 1 |-> IF j < p THEN j ELSE j + 1]
<1>8. /\ \A j \in 1 .. n - 1 : from[j] \in (1 .. n) \ {p} /\ new[j] = accounts[from[j]]
      /\ \A i, j \in 1 .. n - 1 : from[i] = from[j] => i = j
  BY <1>1, <1>7
<1>9. \A i \in (1 .. n) \ {p} : \E j \in 1 .. n - 1 : from[j] = i
  <2> SUFFICES ASSUME NEW i \in (1 .. n) \ {p}
               PROVE  \E j \in 1 .. n - 1 : from[j] = i
    OBVIOUS
  <2>1. CASE i < p
    BY <1>1, <2>1
  <2>2. CASE i > p
    <3>1. i - 1 \in 1 .. n - 1 /\ from[i - 1] = i
      BY <1>1, <2>2
    <3> QED
      BY <3>1
  <2> QED
    BY <1>1, <2>1, <2>2
<1> HIDE DEF from
<1>10. \A i \in (1 .. n) \ {p} : accounts[i].id # a
  BY <1>1, <1>2 DEF Sound
<1>11. Sound(new, Again)
  <2>1. \A j \in DOMAIN new : Honest(new[j], Again)
    BY <1>1, <1>6, <1>8 DEF Sound
  <2>2. \A i, j \in DOMAIN new : (new[i].id = new[j].id \/ new[i].index = new[j].index) => i = j
    <3>1. \A k, l \in 1 .. n :
            (accounts[k].id = accounts[l].id \/ accounts[k].index = accounts[l].index) => k = l
      BY <1>1 DEF Sound
    <3> SUFFICES ASSUME NEW i \in 1 .. n - 1, NEW j \in 1 .. n - 1,
                        new[i].id = new[j].id \/ new[i].index = new[j].index
                 PROVE  i = j
      BY <1>6
    <3>2. /\ from[i] \in 1 .. n /\ new[i] = accounts[from[i]]
          /\ from[j] \in 1 .. n /\ new[j] = accounts[from[j]]
      BY <1>8
    <3>3. from[i] = from[j]
      BY <3>1, <3>2
    <3> QED
      BY <1>8, <3>3
  <2> QED
    BY <1>6, <2>1, <2>2 DEF Sound
<1>12. \A j \in DOMAIN new : \E i \in DOMAIN accounts : new[j] = accounts[i] /\ accounts[i].id # a
  BY <1>1, <1>6, <1>8, <1>10
<1>13. a \notin Ids(new)
  BY <1>12 DEF Ids
<1>14. ASSUME NEW b \in Ids(accounts) \ {a}
       PROVE  b \in Ids(new) /\ Account(new, b) = Account(accounts, b)
  <2>1. PICK i \in DOMAIN accounts : accounts[i].id = b
    BY DEF Ids
  <2>2. i # p
    BY <1>2, <2>1
  <2>3. PICK j \in 1 .. n - 1 : from[j] = i
    BY <1>1, <1>9, <2>2
  <2>4. j \in DOMAIN new /\ new[j] = accounts[i]
    BY <1>6, <1>8, <2>3
  <2>5. Account(accounts, b) = accounts[i]
    BY <2>1, AccountIs
  <2>6. b \in Ids(new) /\ Account(new, b) = new[j]
    BY <1>11, <2>1, <2>4, AccountIs
  <2> QED
    BY <2>4, <2>5, <2>6
<1>15. 1 \in DOMAIN new
  BY <1>1, <1>6
<1>16. new # <<>>
  BY <1>15
<1> QED
  BY <1>11, <1>12, <1>13, <1>14, <1>15, <1>16 DEF new

-----------------------------------------------------------------------------
(* What a step leaves as it was.                                           *)

Flow == [pc : ScreenFlow, seed : Seed \cup {Null}, accounts : Seq(AccountRecord), active : Id \cup {Null}]

\* The switches under way have the types of their fields.
Switch == [id : Id, index : 0 .. Cardinality(Id), seed : Seed \cup {Null}]

LEMMA ScreenIs ==
  ASSUME NEW pc \in ScreenFlow
  PROVE  Screen(pc) \in Flow /\ Screen(pc).pc = pc
<1>1. <<>> \in Seq(AccountRecord)
  OBVIOUS
<1> QED
  BY <1>1 DEF Screen, Flow

LEMMA ScreensAre ==
  {"start", "onboarding", "import", "create", "connect", "home", "erased", "wipe"} = ScreenFlow
BY DEF ScreenFlow

\* Past the first screen a wallet has been stored.
LEMMA Stored ==
  ASSUME StoreInv, flow.pc # "onboarding"
  PROVE  restarts # 0 \/ stores # 0
BY DEF StoreInv, FirstUse

LEMMA QuietKeeps ==
  ASSUME StoreInv, UNCHANGED <<accounts, stores, restarts>>,
         Matches(accounts, switches'), accounts = <<>> => switches' = {},
         \/ /\ flow' = flow
            /\ flow.pc = "connect" => Matches(flow.accounts, switches')
         \/ /\ flow'.pc \notin {"import", "create", "connect", "start"}
            /\ flow'.pc = "onboarding" \/ flow.pc # "onboarding"
  PROVE  AccountsInv' /\ FlowInv' /\ FirstUse'
<1>1. Again' = Again
  BY DEF Again
<1>2. AccountsInv'
  BY <1>1 DEF StoreInv, AccountsInv, Sound, Matches
<1>3. FlowInv'
  BY <1>1 DEF StoreInv, FlowInv, Sound, Matches
<1>4. FirstUse'
  BY Stored DEF StoreInv, FirstUse
<1> QED
  BY <1>2, <1>3, <1>4

LEMMA ShownKept ==
  ASSUME ActiveIsShown, accounts' = accounts, ~ isConnected' \/ UNCHANGED <<isConnected, active, addresses>>
  PROVE  ActiveIsShown'
BY DEF ActiveIsShown, Ids, Account, Place, Known

LEMMA NowhereIs == Nowhere \in AddressMap
BY DEF Nowhere, AddressMap

-----------------------------------------------------------------------------
(* Connecting.                                                             *)

LEMMA InitStore == WalletInit => StoreInv
<1> SUFFICES ASSUME WalletInit PROVE StoreInv
  OBVIOUS
<1> USE DEF WalletInit
<1>1. WalletTypeOK
  <2>1. Screen("onboarding") \in Flow
    BY ScreenIs, ScreensAre
  <2>2. accounts \in Seq(AccountRecord) /\ IsInjective([i \in DOMAIN accounts |-> accounts[i].id])
    BY DEF IsInjective
  <2>3. stores \in 0 .. MaxStores /\ restarts \in 0 .. MaxRestarts
    BY WalletAssumption
  <2>4. switches \subseteq Switch
    OBVIOUS
  <2> QED
    BY <2>1, <2>2, <2>3, <2>4, NowhereIs, WalletAssumption DEF WalletTypeOK, Flow, Switch
<1>2. AccountsInv
  BY NoneSound DEF AccountsInv
<1>3. FlowInv /\ FirstUse
  BY DEF FlowInv, FirstUse, Screen
<1>4. ActiveIsShown
  BY DEF ActiveIsShown
<1> QED
  BY <1>1, <1>2, <1>3, <1>4 DEF StoreInv

\* The ids of sound accounts are distinct.
LEMMA SoundInjective ==
  ASSUME NEW accs, NEW again, Sound(accs, again)
  PROVE  /\ accs \in Seq(AccountRecord)
         /\ IsInjective([i \in DOMAIN accs |-> accs[i].id])
         /\ IsInjective([i \in DOMAIN accs |-> accs[i].index])
BY DEF Sound, IsInjective

LEMMA StoreMnemonicKeeps ==
  ASSUME StoreInv, NEW s \in Seed, NEW how \in {"import", "create"}, StoreMnemonic(s, how)
  PROVE  StoreInv'
<1> USE DEF StoreMnemonic
<1>1. flow' \in Flow /\ flow'.pc = how /\ flow'.seed = s
  BY ScreenIs, ScreensAre DEF Flow
<1>2. stores \in Nat /\ stores' = stores + 1 /\ stores' \in 0 .. MaxStores
  BY WalletAssumption DEF StoreInv, WalletTypeOK
<1>3. Again => Again'
  BY <1>2 DEF Again
<1>4. WalletTypeOK'
  BY <1>1, <1>2 DEF StoreInv, WalletTypeOK, Flow
<1>5. AccountsInv'
  BY <1>3, SoundStays DEF StoreInv, AccountsInv
<1>6. FlowInv'
  BY <1>1 DEF FlowInv
<1>7. FirstUse'
  BY <1>1, <1>2 DEF StoreInv, FirstUse
<1>8. ActiveIsShown'
  BY ShownKept DEF StoreInv
<1> QED
  BY <1>4, <1>5, <1>6, <1>7, <1>8 DEF StoreInv

\* connect() with addresses of the first index is called by a wallet with no
\* accounts yet, or after a first wallet or a restart.
LEMMA ConnectDerivedKeeps ==
  ASSUME StoreInv, NEW s \in Seed, NEW type \in ChainType, ConnectDerived(Derived(s, 0), type),
         Again \/ accounts = <<>>, flow.pc # "onboarding", flow' = Screen("home"),
         UNCHANGED <<mnemonic, switches, stores, restarts>>
  PROVE  StoreInv'
<1> DEFINE accs == OrFirst(accounts)
           mine == Connected(accs, OrFirstId)
           map == Derived(s, 0)
           new == WithCache(accs, mine.id, map)
<1>1. Sound(accounts, Again) /\ Again' = Again
  BY DEF StoreInv, AccountsInv, Again
<1>2. /\ Sound(accs, Again) /\ accs # <<>>
      /\ accounts # <<>> => accs = accounts
      /\ accounts = <<>> => \A i \in DOMAIN accs : accs[i].index = 0
  BY <1>1, OrFirstIs
<1>3. /\ mine \in AccountRecord
      /\ OrFirstId \in Ids(accs) => mine.id = OrFirstId
  BY <1>2, ConnectedIs
<1>4. map \in AddressMap /\ map[type] \in Source
  BY DerivedTyped, SizeIs
<1>5. \A i \in DOMAIN accs : accs[i].id = mine.id => Fits(accs[i], map, Again)
  BY <1>2 DEF Fits
<1>6. /\ accounts' = new /\ active' = OrFirstId
      /\ addresses' = map /\ address' = map[type] /\ chain' = type
      /\ isConnected' = TRUE /\ isConnecting' = FALSE /\ saved' = TRUE
  BY DEF ConnectDerived, SetConnected, Save
<1> HIDE DEF accs, mine, map, new
<1>7. /\ Sound(new, Again) /\ DOMAIN new = DOMAIN accs /\ Ids(new) = Ids(accs) /\ new # <<>>
      /\ \A i \in DOMAIN accs : new[i].id = accs[i].id /\ new[i].index = accs[i].index
      /\ mine.id \in Ids(accs) => Account(new, mine.id).cache = map
  BY <1>2, <1>3, <1>4, <1>5, WithCacheIs DEF new
<1>8. WalletTypeOK'
  <2>1. Screen("home") \in Flow
    BY ScreenIs, ScreensAre
  <2>2. OrFirstId \in Id \cup {Null}
    BY WalletAssumption DEF OrFirstId, StoreInv, WalletTypeOK
  <2>3. new \in Seq(AccountRecord) /\ IsInjective([i \in DOMAIN new |-> new[i].id])
    BY <1>7, SoundInjective
  <2> QED
    BY <1>4, <1>6, <2>1, <2>2, <2>3 DEF StoreInv, WalletTypeOK, Flow
<1>9. AccountsInv'
  <2>1. Matches(new, switches)
    BY <1>2, <1>7 DEF StoreInv, AccountsInv, Matches
  <2> QED
    BY <1>1, <1>6, <1>7, <2>1 DEF AccountsInv
<1>10. FlowInv'
  BY ScreenIs, ScreensAre DEF FlowInv
<1>11. FirstUse'
  BY Stored, ScreenIs, ScreensAre DEF FirstUse
<1>12. ActiveIsShown'
  BY <1>3, <1>6, <1>7 DEF ActiveIsShown
<1> QED
  BY <1>8, <1>9, <1>10, <1>11, <1>12 DEF StoreInv

LEMMA ImportWalletKeeps ==
  ASSUME StoreInv, ImportWallet
  PROVE  StoreInv'
<1>1. flow.pc = "import" /\ flow.seed \in Seed /\ ConnectDerived(Derived(flow.seed, 0), Evm)
  BY DEF ImportWallet, StoreInv, FlowInv
<1>2. Again \/ accounts = <<>>
  <2>1. stores \in Nat /\ restarts \in Nat
    BY DEF StoreInv, WalletTypeOK
  <2> QED
    BY <1>1, <2>1 DEF StoreInv, FirstUse, Again
<1> QED
  BY <1>1, <1>2, ConnectDerivedKeeps, WalletAssumption DEF ImportWallet

LEMMA CreateWalletKeeps ==
  ASSUME StoreInv, CreateWallet
  PROVE  StoreInv'
<1> USE DEF CreateWallet, Save
<1>1. Sound(accounts, Again) /\ Again' = Again
  BY DEF StoreInv, AccountsInv, Again
<1>2. /\ Sound(OrFirst(accounts), Again) /\ OrFirst(accounts) # <<>>
      /\ accounts # <<>> => OrFirst(accounts) = accounts
  BY <1>1, OrFirstIs
<1>3. OrFirstId \in Id \cup {Null}
  BY WalletAssumption DEF OrFirstId, StoreInv, WalletTypeOK
<1>4. /\ flow' \in Flow /\ flow'.pc = "connect" /\ flow'.seed = flow.seed
      /\ flow'.accounts = OrFirst(accounts)
  <2>1. flow \in Flow /\ OrFirst(accounts) \in Seq(AccountRecord)
    BY <1>2, SoundInjective DEF StoreInv, WalletTypeOK, Flow
  <2> QED
    BY <1>3, <2>1, ScreensAre DEF Flow
<1>5. WalletTypeOK'
  BY <1>4 DEF StoreInv, WalletTypeOK, Flow
<1>6. AccountsInv'
  BY <1>1 DEF StoreInv, AccountsInv
<1>7. FlowInv'
  <2>1. Matches(OrFirst(accounts), switches)
    BY <1>2 DEF StoreInv, AccountsInv, Matches
  <2> QED
    BY <1>1, <1>2, <1>4, <2>1 DEF StoreInv, FlowInv
<1>8. FirstUse'
  BY <1>4, Stored DEF FirstUse
<1>9. ActiveIsShown'
  BY ShownKept DEF StoreInv
<1> QED
  BY <1>5, <1>6, <1>7, <1>8, <1>9 DEF StoreInv

\* connect() with one address: it writes the accounts it has read, shows
\* those cached or derived for the account, or the one address.
LEMMA ConnectCreatedKeeps ==
  ASSUME StoreInv, ConnectCreated
  PROVE  StoreInv'
<1> DEFINE accs == flow.accounts
           act == flow.active
           mine == Connected(accs, act)
           new == [seed |-> flow.seed, index |-> 0]
           derived == Derived(mnemonic, mine.index)
           one == [Nowhere EXCEPT ![Evm] = new]
           with == WithCache(accs, mine.id, derived)
<1>1. /\ Sound(accs, Again) /\ accs # <<>> /\ Matches(accs, switches)
      /\ flow.pc = "connect" /\ flow.seed \in Seed /\ act \in Id \cup {Null}
  BY DEF ConnectCreated, StoreInv, FlowInv, WalletTypeOK, Flow
<1>2. /\ mine \in AccountRecord
      /\ \E i \in DOMAIN accs : mine = accs[i]
      /\ act \in Ids(accs) => mine.id = act /\ mine = Account(accs, act)
  BY <1>1, ConnectedIs
<1>3. new \in Source
  BY <1>1, SizeIs DEF Source
<1>4. one \in AddressMap /\ Known(one) = {Evm}
  <2>1. new # Null
    BY <1>1, WalletAssumption
  <2>2. Evm \in ChainType
    BY WalletAssumption
  <2> HIDE DEF new
  <2> QED
    BY <1>3, <2>1, <2>2 DEF AddressMap, Nowhere, Known
<1>5. PICK list, map :
        /\ SetConnected(list, act, map, new, Evm)
        /\ \/ mine.cache # Null /\ list = accs /\ map = mine.cache
           \/ mnemonic # Null /\ list = with /\ map = derived
           \/ list = accs /\ map = one
  BY Zenon DEF ConnectCreated
<1>6. /\ accounts' = list /\ active' = act
      /\ addresses' = map /\ address' = new /\ chain' = Evm
      /\ isConnected' = TRUE /\ isConnecting' = FALSE /\ saved' = TRUE
      /\ flow' = Screen("home")
      /\ UNCHANGED <<mnemonic, switches, stores, restarts>>
  BY <1>5 DEF ConnectCreated, SetConnected, Save
<1> HIDE DEF accs, act, mine, new, derived, one, with
<1>7. Again' = Again
  BY <1>6 DEF Again
<1>8. ASSUME mnemonic # Null
      PROVE  /\ Sound(with, Again) /\ DOMAIN with = DOMAIN accs /\ Ids(with) = Ids(accs)
             /\ \A i \in DOMAIN accs : with[i].id = accs[i].id /\ with[i].index = accs[i].index
             /\ mine.id \in Ids(accs) => Account(with, mine.id).cache = derived
             /\ with # <<>> /\ derived \in AddressMap
  <2>1. mnemonic \in Seed
    BY <1>8 DEF StoreInv, WalletTypeOK
  <2>2. derived \in AddressMap
    BY <1>2, <2>1, DerivedTyped DEF derived, AccountRecord
  <2>3. ASSUME NEW i \in DOMAIN accs, accs[i].id = mine.id PROVE Fits(accs[i], derived, Again)
    <3>1. accs[i] = mine
      BY <1>1, <1>2, <2>3 DEF Sound
    <3>2. derived = Derived(mnemonic, accs[i].index)
      BY <3>1, Zenon DEF derived
    <3> QED
      BY <2>1, <3>2, Zenon DEF Fits
  <2> QED
    BY <1>1, <2>2, <2>3, WithCacheIs DEF with
<1>9. /\ Sound(list, Again) /\ list # <<>> /\ Matches(list, switches)
      /\ Ids(list) = Ids(accs) /\ map \in AddressMap
  <2>1. CASE mine.cache # Null /\ list = accs /\ map = mine.cache
    BY <1>1, <1>2, <2>1 DEF AccountRecord
  <2>2. CASE mnemonic # Null /\ list = with /\ map = derived
    BY <1>1, <1>8, <2>2 DEF Matches
  <2>3. CASE list = accs /\ map = one
    BY <1>1, <1>4, <2>3
  <2> QED
    BY <1>5, <2>1, <2>2, <2>3
<1>10. act \in Ids(list) => map = Account(list, act).cache \/ Known(map) = {Evm}
  BY <1>2, <1>4, <1>5, <1>8, <1>9
<1>11. WalletTypeOK'
  <2>1. Screen("home") \in Flow
    BY ScreenIs, ScreensAre
  <2>2. list \in Seq(AccountRecord) /\ IsInjective([i \in DOMAIN list |-> list[i].id])
    BY <1>9, SoundInjective
  <2> QED
    BY <1>1, <1>3, <1>6, <1>9, <2>1, <2>2, WalletAssumption DEF StoreInv, WalletTypeOK, Flow
<1>12. AccountsInv'
  BY <1>6, <1>7, <1>9 DEF AccountsInv
<1>13. FlowInv'
  BY <1>6, ScreenIs, ScreensAre DEF FlowInv
<1>14. FirstUse'
  BY <1>1, <1>6, Stored, ScreenIs, ScreensAre DEF FirstUse
<1>15. ActiveIsShown'
  BY <1>6, <1>10 DEF ActiveIsShown
<1> QED
  BY <1>11, <1>12, <1>13, <1>14, <1>15 DEF StoreInv

LEMMA OnboardingFailsKeeps ==
  ASSUME StoreInv, OnboardingFails
  PROVE  StoreInv'
<1>1. flow' = Screen("onboarding") /\ flow' \in Flow /\ flow'.pc = "onboarding"
  BY ScreenIs, ScreensAre DEF OnboardingFails
<1>2. AccountsInv' /\ FlowInv' /\ FirstUse'
  BY <1>1, QuietKeeps DEF OnboardingFails, StoreInv, AccountsInv
<1>3. WalletTypeOK'
  BY <1>1 DEF OnboardingFails, StoreInv, WalletTypeOK, Flow
<1> QED
  BY <1>2, <1>3, ShownKept DEF OnboardingFails, StoreInv

-----------------------------------------------------------------------------
(* Accounts and chains.                                                    *)

LEMMA HomeKeeps ==
  ASSUME StoreInv, AtHome, UNCHANGED <<flow, stores, restarts>>,
         Sound(accounts', Again), Matches(accounts', switches'), accounts' # <<>>
  PROVE  AccountsInv' /\ FlowInv' /\ FirstUse'
<1>1. Again' = Again
  BY DEF Again
<1>2. AccountsInv'
  BY <1>1 DEF AccountsInv
<1>3. FlowInv'
  BY DEF FlowInv, AtHome
<1>4. FirstUse'
  BY Stored DEF FirstUse, AtHome
<1> QED
  BY <1>2, <1>3, <1>4

\* An account with its addresses, shown at once.
LEMMA ShowCachedIs ==
  ASSUME StoreInv, NEW a \in AccountRecord, a.cache # Null, ShowCached(a)
  PROVE  /\ active' = a.id /\ active' \in Id /\ addresses' = a.cache /\ addresses' \in AddressMap
         /\ address' \in Source \cup {Null} /\ chain' = chain /\ saved' = TRUE
         /\ isConnecting' = FALSE /\ isConnected' = isConnected /\ switches' = switches
<1>1. a.cache \in AddressMap /\ a.id \in Id
  BY DEF AccountRecord
<1>2. a.cache[chain] \in Source \cup {Null}
  BY <1>1 DEF AddressMap, StoreInv, WalletTypeOK
<1> QED
  BY <1>1, <1>2 DEF ShowCached, Save

LEMMA SwitchAccountKeeps ==
  ASSUME StoreInv, NEW a \in Id, SwitchAccount(a)
  PROVE  StoreInv'
<1> DEFINE r == Account(accounts, a)
<1>1. /\ AtHome /\ a \in Ids(accounts) /\ r.cache # Null /\ ShowCached(r)
      /\ UNCHANGED <<mnemonic, accounts, flow, stores, restarts>>
  BY DEF SwitchAccount
<1>2. Sound(accounts, Again)
  BY DEF StoreInv, AccountsInv
<1>3. r \in AccountRecord /\ r.id = a /\ accounts # <<>>
  BY <1>1, <1>2, ListedAt, AccountIs
<1> HIDE DEF r
<1>4. /\ active' = a /\ addresses' = r.cache /\ addresses' \in AddressMap
      /\ address' \in Source \cup {Null} /\ chain' = chain /\ saved' = TRUE
      /\ isConnecting' = FALSE /\ isConnected' = isConnected /\ switches' = switches
  BY <1>1, <1>3, ShowCachedIs
<1>5. WalletTypeOK'
  BY <1>1, <1>4 DEF StoreInv, WalletTypeOK
<1>6. AccountsInv' /\ FlowInv' /\ FirstUse'
  BY <1>1, <1>2, <1>3, <1>4, HomeKeeps DEF StoreInv, AccountsInv
<1>7. ActiveIsShown'
  BY <1>1, <1>4 DEF ActiveIsShown, r
<1> QED
  BY <1>5, <1>6, <1>7 DEF StoreInv

\* A switch that begins: of the account as it is listed.
LEMMA BeginSwitchIs ==
  ASSUME StoreInv, NEW r \in AccountRecord, BeginSwitch(r),
         NEW accs, NEW again, Sound(accs, again), Matches(accs, switches),
         NEW i \in DOMAIN accs, accs[i] = r
  PROVE  /\ switches' = switches \cup {Deriving(r)}
         /\ switches' \subseteq Switch /\ Matches(accs, switches')
         /\ saved' = TRUE /\ isConnecting' = TRUE
         /\ UNCHANGED <<active, addresses, address, chain, isConnected>>
<1>1. Deriving(r) \in Switch /\ Deriving(r).id = r.id /\ Deriving(r).index = r.index
  BY DEF Deriving, Switch, AccountRecord
<1>2. switches' = switches \cup {Deriving(r)}
  BY DEF BeginSwitch
<1>3. \A j \in DOMAIN accs : accs[j].id = r.id => accs[j].index = r.index
  BY DEF Sound
<1>4. Matches(accs, switches')
  BY <1>1, <1>2, <1>3 DEF Matches
<1> QED
  BY <1>1, <1>2, <1>4 DEF BeginSwitch, Save, StoreInv, WalletTypeOK, Switch

LEMMA SwitchUncachedKeeps ==
  ASSUME StoreInv, NEW a \in Id, SwitchUncached(a)
  PROVE  StoreInv'
<1> DEFINE r == Account(accounts, a)
<1>1. /\ AtHome /\ a \in Ids(accounts) /\ BeginSwitch(r)
      /\ UNCHANGED <<mnemonic, accounts, flow, stores, restarts>>
  BY DEF SwitchUncached
<1>2. Sound(accounts, Again) /\ Matches(accounts, switches)
  BY DEF StoreInv, AccountsInv
<1>3. PICK i \in DOMAIN accounts : accounts[i] = r
  BY <1>1, <1>2, ListedAt
<1>4. r \in AccountRecord /\ accounts # <<>>
  BY <1>2, <1>3, AccountIs
<1> HIDE DEF r
<1>5. /\ switches' \subseteq Switch /\ Matches(accounts, switches')
      /\ saved' = TRUE /\ isConnecting' = TRUE
      /\ UNCHANGED <<active, addresses, address, chain, isConnected>>
  BY <1>1, <1>2, <1>3, <1>4, BeginSwitchIs
<1>6. WalletTypeOK'
  BY <1>1, <1>5 DEF StoreInv, WalletTypeOK, Switch
<1>7. AccountsInv' /\ FlowInv' /\ FirstUse'
  BY <1>1, <1>2, <1>4, <1>5, HomeKeeps
<1>8. ActiveIsShown'
  BY <1>1, <1>5, ShownKept DEF StoreInv
<1> QED
  BY <1>6, <1>7, <1>8 DEF StoreInv

LEMMA AddAccountKeeps ==
  ASSUME StoreInv, NEW a \in Id, AddAccount(a)
  PROVE  StoreInv'
<1> DEFINE r == [id |-> a, index |-> NextIndex, cache |-> Null]
           new == Append(accounts, r)
<1>1. /\ AtHome /\ accounts # <<>> /\ a \notin Ids(accounts) /\ \A x \in switches : x.id # a
      /\ NextIndex <= Cardinality(Id)
      /\ accounts' = new /\ BeginSwitch(r)
      /\ UNCHANGED <<mnemonic, flow, stores, restarts>>
  BY DEF AddAccount
<1>2. Sound(accounts, Again) /\ Matches(accounts, switches)
  BY DEF StoreInv, AccountsInv
<1>3. NextIndex \in Nat \ {0} /\ \A i \in DOMAIN accounts : accounts[i].index < NextIndex
  BY <1>1, <1>2, NextIndexIs
<1>4. r \in AccountRecord /\ r.cache = Null /\ r.id = a /\ r.index = NextIndex
  BY <1>1, <1>3, SizeIs DEF AccountRecord
<1> HIDE DEF r
<1>5. \A i \in DOMAIN accounts : accounts[i].id # r.id /\ accounts[i].index # r.index
  <2> TAKE i \in DOMAIN accounts
  <2>1. accounts[i].id # a
    BY <1>1, <1>2, AccountIs
  <2>2. accounts[i].index \in Nat /\ accounts[i].index < NextIndex
    BY <1>2, <1>3, AccountIs, SizeIs DEF AccountRecord
  <2> QED
    BY <1>3, <1>4, <2>1, <2>2
<1>6. /\ Sound(new, Again) /\ new # <<>>
      /\ \A i \in DOMAIN new : new[i] = r \/ \E j \in DOMAIN accounts : new[i] = accounts[j]
      /\ Ids(new) = Ids(accounts) \cup {r.id} /\ Account(new, r.id) = r
      /\ \A b \in Ids(accounts) : Account(new, b) = Account(accounts, b)
  BY <1>2, <1>4, <1>5, AddedIs
<1> HIDE DEF new
<1>7. Matches(new, switches)
  BY <1>1, <1>2, <1>4, <1>6 DEF Matches
<1>8. \E i \in DOMAIN new : new[i] = r
  BY <1>6, ListedAt
<1>9. /\ switches' \subseteq Switch /\ Matches(new, switches')
      /\ saved' = TRUE /\ isConnecting' = TRUE
      /\ UNCHANGED <<active, addresses, address, chain, isConnected>>
  BY <1>1, <1>4, <1>6, <1>7, <1>8, BeginSwitchIs
<1>10. WalletTypeOK'
  <2>1. new \in Seq(AccountRecord) /\ IsInjective([i \in DOMAIN new |-> new[i].id])
    BY <1>6, SoundInjective
  <2> QED
    BY <1>1, <1>9, <2>1 DEF StoreInv, WalletTypeOK, Switch
<1>11. AccountsInv' /\ FlowInv' /\ FirstUse'
  BY <1>1, <1>6, <1>9, HomeKeeps
<1>12. ActiveIsShown'
  BY <1>1, <1>4, <1>6, <1>9 DEF StoreInv, ActiveIsShown
<1> QED
  BY <1>10, <1>11, <1>12 DEF StoreInv

LEMMA ReadMnemonicKeeps ==
  ASSUME StoreInv, NEW x \in switches, ReadMnemonic(x)
  PROVE  StoreInv'
<1>1. x \in Switch
  BY DEF StoreInv, WalletTypeOK, Switch
<1>2. /\ switches' \subseteq Switch
      /\ \A y \in switches' : \E z \in switches : y.id = z.id /\ y.index = z.index
  <2>1. CASE mnemonic # Null /\ switches' = (switches \ {x}) \cup {[x EXCEPT !.seed = mnemonic]}
    <3>1. mnemonic \in Seed
      BY <2>1 DEF StoreInv, WalletTypeOK
    <3>2. /\ [x EXCEPT !.seed = mnemonic] \in Switch
          /\ [x EXCEPT !.seed = mnemonic].id = x.id /\ [x EXCEPT !.seed = mnemonic].index = x.index
      BY <1>1, <3>1 DEF Switch
    <3>3. switches \subseteq Switch
      BY DEF StoreInv, WalletTypeOK, Switch
    <3>4. \A y \in switches' : y \in switches \/ y = [x EXCEPT !.seed = mnemonic]
      BY <2>1
    <3> QED
      BY <3>2, <3>3, <3>4
  <2>2. CASE switches' = switches \ {x}
    BY <2>2 DEF StoreInv, WalletTypeOK, Switch
  <2> QED
    BY <2>1, <2>2 DEF ReadMnemonic
<1>3. /\ Matches(accounts, switches')
      /\ accounts = <<>> => switches' = {}
      /\ flow.pc = "connect" => Matches(flow.accounts, switches')
  BY <1>2 DEF StoreInv, AccountsInv, FlowInv, Matches
<1>4. UNCHANGED <<mnemonic, accounts, active, addresses, address, chain, isConnected, flow, stores, restarts>>
  BY DEF ReadMnemonic
<1>5. WalletTypeOK'
  BY <1>2, <1>4 DEF ReadMnemonic, Save, StoreInv, WalletTypeOK, Switch
<1>6. AccountsInv' /\ FlowInv' /\ FirstUse'
  BY <1>3, <1>4, QuietKeeps
<1>7. ActiveIsShown'
  BY <1>4, ShownKept DEF StoreInv
<1> QED
  BY <1>5, <1>6, <1>7 DEF StoreInv

\* The derived addresses go to the account they were derived for, or nowhere.
LEMMA EndSwitchKeeps ==
  ASSUME StoreInv, NEW x \in switches, EndSwitch(x)
  PROVE  StoreInv'
<1> DEFINE derived == Derived(x.seed, x.index)
           new == WithCache(accounts, x.id, derived)
<1>1. /\ accounts' = new /\ active' = x.id /\ addresses' = derived /\ address' = derived[chain]
      /\ isConnecting' = FALSE /\ switches' = switches \ {x} /\ saved' = TRUE
      /\ UNCHANGED <<mnemonic, chain, isConnected, flow, stores, restarts>>
  BY DEF EndSwitch, Save
<1>2. Sound(accounts, Again) /\ Matches(accounts, switches) /\ accounts # <<>>
  BY DEF StoreInv, AccountsInv
<1>3. x.id \in Id /\ x.index \in 0 .. Cardinality(Id) /\ x.seed \in Seed
  BY DEF StoreInv, WalletTypeOK, EndSwitch
<1>4. derived \in AddressMap /\ derived[chain] \in Source
  BY <1>3, DerivedTyped DEF StoreInv, WalletTypeOK
<1>5. \A i \in DOMAIN accounts : accounts[i].id = x.id => Fits(accounts[i], derived, Again)
  BY <1>2, <1>3 DEF Matches, Fits
<1> HIDE DEF derived, new
<1>6. /\ Sound(new, Again) /\ DOMAIN new = DOMAIN accounts /\ Ids(new) = Ids(accounts)
      /\ \A i \in DOMAIN accounts : new[i].id = accounts[i].id /\ new[i].index = accounts[i].index
      /\ x.id \in Ids(accounts) => Account(new, x.id).cache = derived
      /\ new # <<>>
  BY <1>2, <1>4, <1>5, WithCacheIs DEF new
<1>7. WalletTypeOK'
  <2>1. new \in Seq(AccountRecord) /\ IsInjective([i \in DOMAIN new |-> new[i].id])
    BY <1>6, SoundInjective
  <2> QED
    BY <1>1, <1>3, <1>4, <2>1 DEF StoreInv, WalletTypeOK
<1>8. Again' = Again
  BY <1>1 DEF Again
<1>9. AccountsInv'
  <2>1. Matches(new, switches')
    BY <1>1, <1>2, <1>6 DEF Matches
  <2> QED
    BY <1>1, <1>6, <1>8, <2>1 DEF AccountsInv
<1>10. FlowInv'
  BY <1>1, <1>8 DEF StoreInv, FlowInv, Matches
<1>11. FirstUse'
  BY <1>1, <1>2 DEF StoreInv, FirstUse
<1>12. ActiveIsShown'
  BY <1>1, <1>6 DEF ActiveIsShown
<1> QED
  BY <1>7, <1>9, <1>10, <1>11, <1>12 DEF StoreInv

\* Deleting an account leaves the others as they are.
LEMMA RemainingIs ==
  ASSUME StoreInv, NEW a \in Id, Deletable(a)
  PROVE  /\ AtHome /\ Sound(Without(a), Again) /\ Without(a) # <<>>
         /\ Matches(Without(a), switches)
         /\ 1 \in DOMAIN Without(a) /\ Without(a)[1] \in AccountRecord
         /\ Without(a)[1].id \in Ids(Without(a))
         /\ Account(Without(a), Without(a)[1].id) = Without(a)[1]
         /\ a \notin Ids(Without(a)) /\ Ids(Without(a)) \subseteq Ids(accounts)
         /\ \A b \in Ids(Without(a)) : Account(Without(a), b) = Account(accounts, b)
<1>1. /\ AtHome /\ a \in Ids(accounts) /\ Len(accounts) > 1
      /\ Sound(accounts, Again) /\ Matches(accounts, switches)
  BY DEF Deletable, StoreInv, AccountsInv
<1>2. /\ Sound(Without(a), Again) /\ Without(a) # <<>> /\ 1 \in DOMAIN Without(a)
      /\ \A j \in DOMAIN Without(a) : \E i \in DOMAIN accounts :
           Without(a)[j] = accounts[i] /\ accounts[i].id # a
      /\ a \notin Ids(Without(a))
      /\ \A b \in Ids(accounts) \ {a} :
           b \in Ids(Without(a)) /\ Account(Without(a), b) = Account(accounts, b)
  BY <1>1, WithoutIs
<1>3. Ids(Without(a)) \subseteq Ids(accounts)
  BY <1>2 DEF Ids
<1>4. Matches(Without(a), switches)
  BY <1>1, <1>2 DEF Matches
<1>5. /\ Without(a)[1] \in AccountRecord /\ Without(a)[1].id \in Ids(Without(a))
      /\ Account(Without(a), Without(a)[1].id) = Without(a)[1]
  BY <1>2, AccountIs
<1> QED
  BY <1>1, <1>2, <1>3, <1>4, <1>5

LEMMA DeleteAccountKeeps ==
  ASSUME StoreInv, NEW a \in Id, DeleteAccount(a)
  PROVE  StoreInv'
<1> DEFINE new == Without(a)
<1>1. /\ AtHome /\ Sound(new, Again) /\ new # <<>> /\ Matches(new, switches)
      /\ Ids(new) \subseteq Ids(accounts)
      /\ \A b \in Ids(new) : Account(new, b) = Account(accounts, b)
  BY RemainingIs DEF DeleteAccount
<1>2. /\ accounts' = new /\ saved' = TRUE
      /\ UNCHANGED <<mnemonic, active, addresses, address, chain, isConnected, isConnecting, switches, flow, stores, restarts>>
  BY DEF DeleteAccount, Save
<1> HIDE DEF new
<1>3. WalletTypeOK'
  <2>1. new \in Seq(AccountRecord) /\ IsInjective([i \in DOMAIN new |-> new[i].id])
    BY <1>1, SoundInjective
  <2> QED
    BY <1>2, <2>1 DEF StoreInv, WalletTypeOK
<1>4. AccountsInv' /\ FlowInv' /\ FirstUse'
  BY <1>1, <1>2, HomeKeeps
<1>5. ActiveIsShown'
  BY <1>1, <1>2 DEF StoreInv, ActiveIsShown
<1> QED
  BY <1>3, <1>4, <1>5 DEF StoreInv

LEMMA DeleteActiveKeeps ==
  ASSUME StoreInv, NEW a \in Id, DeleteActive(a)
  PROVE  StoreInv'
<1> DEFINE new == Without(a)
           r == new[1]
<1>1. /\ AtHome /\ Sound(new, Again) /\ new # <<>> /\ Matches(new, switches)
      /\ r \in AccountRecord /\ Account(new, r.id) = r
  BY RemainingIs DEF DeleteActive
<1>2. /\ accounts' = new /\ r.cache # Null /\ ShowCached(r)
      /\ UNCHANGED <<mnemonic, flow, stores, restarts>>
  BY DEF DeleteActive
<1> HIDE DEF new, r
<1>3. /\ active' = r.id /\ active' \in Id /\ addresses' = r.cache /\ addresses' \in AddressMap
      /\ address' \in Source \cup {Null} /\ chain' = chain /\ saved' = TRUE
      /\ isConnecting' = FALSE /\ isConnected' = isConnected /\ switches' = switches
  BY <1>1, <1>2, ShowCachedIs
<1>4. WalletTypeOK'
  <2>1. new \in Seq(AccountRecord) /\ IsInjective([i \in DOMAIN new |-> new[i].id])
    BY <1>1, SoundInjective
  <2> QED
    BY <1>2, <1>3, <2>1 DEF StoreInv, WalletTypeOK
<1>5. AccountsInv' /\ FlowInv' /\ FirstUse'
  BY <1>1, <1>2, <1>3, HomeKeeps
<1>6. ActiveIsShown'
  BY <1>1, <1>2, <1>3 DEF ActiveIsShown
<1> QED
  BY <1>4, <1>5, <1>6 DEF StoreInv

LEMMA DeleteActiveUncachedKeeps ==
  ASSUME StoreInv, NEW a \in Id, DeleteActiveUncached(a)
  PROVE  StoreInv'
<1> DEFINE new == Without(a)
           r == new[1]
<1>1. /\ AtHome /\ Sound(new, Again) /\ new # <<>> /\ Matches(new, switches)
      /\ 1 \in DOMAIN new /\ r \in AccountRecord /\ a \notin Ids(new)
  BY RemainingIs DEF DeleteActiveUncached
<1>2. /\ accounts' = new /\ BeginSwitch(r) /\ a = active
      /\ UNCHANGED <<mnemonic, flow, stores, restarts>>
  BY DEF DeleteActiveUncached
<1>3. new[1] = r
  OBVIOUS
<1> HIDE DEF new, r
<1>4. /\ switches' \subseteq Switch /\ Matches(new, switches')
      /\ saved' = TRUE /\ isConnecting' = TRUE
      /\ UNCHANGED <<active, addresses, address, chain, isConnected>>
  BY <1>1, <1>2, <1>3, BeginSwitchIs
<1>5. WalletTypeOK'
  <2>1. new \in Seq(AccountRecord) /\ IsInjective([i \in DOMAIN new |-> new[i].id])
    BY <1>1, SoundInjective
  <2> QED
    BY <1>2, <1>4, <2>1 DEF StoreInv, WalletTypeOK, Switch
<1>6. AccountsInv' /\ FlowInv' /\ FirstUse'
  BY <1>1, <1>2, <1>4, HomeKeeps
<1>7. ActiveIsShown'
  BY <1>1, <1>2, <1>4 DEF ActiveIsShown
<1> QED
  BY <1>5, <1>6, <1>7 DEF StoreInv

LEMMA SetActiveChainKeeps ==
  ASSUME StoreInv, NEW t \in ChainType, SetActiveChain(t)
  PROVE  StoreInv'
<1>1. UNCHANGED <<mnemonic, accounts, active, addresses, isConnected, isConnecting, switches, flow, stores, restarts>>
  BY DEF SetActiveChain
<1>2. WalletTypeOK'
  <2>1. addresses[t] \in Source \cup {Null}
    BY DEF StoreInv, WalletTypeOK, AddressMap
  <2> QED
    BY <1>1, <2>1 DEF SetActiveChain, Save, StoreInv, WalletTypeOK
<1>3. AccountsInv' /\ FlowInv' /\ FirstUse'
  BY <1>1, QuietKeeps DEF StoreInv, AccountsInv, FlowInv
<1>4. ActiveIsShown'
  BY <1>1, ShownKept DEF StoreInv
<1> QED
  BY <1>2, <1>3, <1>4 DEF StoreInv

-----------------------------------------------------------------------------
(* Leaving and starting again.                                             *)

\* A screen follows that has read no accounts.
LEMMA ScreenKeeps ==
  ASSUME StoreInv, UNCHANGED <<accounts, switches, stores, restarts>>,
         NEW pc \in {"onboarding", "home", "erased", "wipe"}, flow' = Screen(pc),
         flow.pc # "onboarding"
  PROVE  /\ AccountsInv' /\ FlowInv' /\ FirstUse' /\ flow' \in Flow
         /\ ~ isConnected' \/ UNCHANGED <<isConnected, active, addresses>> => ActiveIsShown'
<1>1. flow' \in Flow /\ flow'.pc = pc
  BY ScreenIs, ScreensAre
<1>2. AccountsInv' /\ FlowInv' /\ FirstUse'
  BY <1>1, QuietKeeps DEF StoreInv, AccountsInv
<1> QED
  BY <1>1, <1>2, ShownKept DEF StoreInv

\* disconnect() leaves the accounts and their caches.
LEMMA ClearSessionKeeps ==
  ASSUME StoreInv, ClearSession, NEW pc \in {"onboarding", "wipe"}, flow' = Screen(pc),
         flow.pc # "onboarding", UNCHANGED <<mnemonic, isConnecting, switches, stores, restarts>>
  PROVE  StoreInv'
<1>1. /\ saved' = TRUE /\ addresses' = Nowhere /\ address' = Null /\ chain' = Evm
      /\ isConnected' = FALSE /\ UNCHANGED <<accounts, active>>
  BY DEF ClearSession, Save
<1>2. AccountsInv' /\ FlowInv' /\ FirstUse' /\ flow' \in Flow /\ ActiveIsShown'
  BY <1>1, ScreenKeeps
<1>3. WalletTypeOK'
  BY <1>1, <1>2, NowhereIs, WalletAssumption DEF StoreInv, WalletTypeOK, Flow
<1> QED
  BY <1>2, <1>3 DEF StoreInv

LEMMA LeavingKeeps ==
  ASSUME StoreInv, EraseMnemonic \/ Disconnect \/ WipeDisconnects \/ EndWipe
  PROVE  StoreInv'
<1>1. CASE EraseMnemonic
  <2>1. /\ flow.pc = "home" /\ mnemonic' = Null /\ flow' = Screen("erased")
        /\ UNCHANGED <<saved, accounts, active, addresses, address, chain, isConnected, isConnecting, switches, stores, restarts>>
    BY <1>1 DEF EraseMnemonic, AtHome
  <2>2. AccountsInv' /\ FlowInv' /\ FirstUse' /\ flow' \in Flow /\ ActiveIsShown'
    BY <2>1, ScreenKeeps
  <2> QED
    BY <2>1, <2>2 DEF StoreInv, WalletTypeOK, Flow
<1>2. CASE Disconnect
  BY <1>2, ClearSessionKeeps DEF Disconnect
<1>3. CASE WipeDisconnects
  BY <1>3, ClearSessionKeeps DEF WipeDisconnects
<1>4. CASE EndWipe
  <2>1. /\ flow.pc = "wipe" /\ saved' \in BOOLEAN
        /\ flow' = Screen("onboarding") \/ flow' = Screen("home")
        /\ UNCHANGED <<mnemonic, accounts, active, addresses, address, chain, isConnected, isConnecting, switches, stores, restarts>>
    BY <1>4 DEF EndWipe, StoreInv, WalletTypeOK
  <2>2. AccountsInv' /\ FlowInv' /\ FirstUse' /\ flow' \in Flow /\ ActiveIsShown'
    BY <2>1, ScreenKeeps
  <2> QED
    BY <2>1, <2>2 DEF StoreInv, WalletTypeOK, Flow
<1> QED
  BY <1>1, <1>2, <1>3, <1>4

LEMMA RestartAppKeeps ==
  ASSUME StoreInv, RestartApp
  PROVE  StoreInv'
<1>1. /\ restarts \in Nat /\ restarts' = restarts + 1 /\ restarts' \in 0 .. MaxRestarts
      /\ stores' = stores /\ switches' = {} /\ isConnecting' = FALSE
      /\ flow' = Screen("start") /\ UNCHANGED <<mnemonic, saved>>
  BY WalletAssumption DEF RestartApp, StoreInv, WalletTypeOK
<1>2. flow' \in Flow /\ flow'.pc = "start"
  BY <1>1, ScreenIs, ScreensAre
<1>3. Again'
  BY <1>1 DEF Again
<1>4. /\ Sound(accounts', TRUE) /\ active' \in Id \cup {Null}
      /\ addresses' \in AddressMap /\ address' \in Source \cup {Null} /\ chain' \in ChainType
      /\ isConnected' \in BOOLEAN /\ ActiveIsShown'
  <2>1. CASE saved /\ UNCHANGED <<accounts, active, addresses, address, chain, isConnected>>
    <3>1. Sound(accounts, TRUE)
      BY SoundStays DEF StoreInv, AccountsInv
    <3> QED
      BY <2>1, <3>1, ShownKept DEF StoreInv, WalletTypeOK
  <2>2. CASE /\ accounts' = <<>> /\ active' = Null
             /\ addresses' = Nowhere /\ address' = Null /\ chain' = Evm /\ isConnected' = FALSE
    BY <2>2, NoneSound, NowhereIs, WalletAssumption DEF ActiveIsShown
  <2> QED
    BY <2>1, <2>2 DEF RestartApp
<1>5. WalletTypeOK'
  <2>1. accounts' \in Seq(AccountRecord) /\ IsInjective([i \in DOMAIN accounts' |-> accounts'[i].id])
    BY <1>4, SoundInjective
  <2> QED
    BY <1>1, <1>2, <1>4, <2>1 DEF StoreInv, WalletTypeOK, Flow
<1>6. AccountsInv'
  BY <1>1, <1>3, <1>4, SoundStays DEF AccountsInv, Matches
<1>7. FlowInv' /\ FirstUse'
  BY <1>1, <1>2 DEF FlowInv, FirstUse
<1> QED
  BY <1>4, <1>5, <1>6, <1>7 DEF StoreInv

LEMMA BootstrapKeeps ==
  ASSUME StoreInv, BootstrapUnlisted \/ BootstrapNoSeed \/ Bootstrap \/ BootstrapGivesUp
  PROVE  StoreInv'
<1>1. flow.pc = "start"
  BY DEF BootstrapUnlisted, BootstrapNoSeed, Bootstrap, BootstrapGivesUp
<1>2. ASSUME NEW pc \in {"onboarding", "home"}, flow' = Screen(pc),
             UNCHANGED <<saved, mnemonic, accounts, active, addresses, address, chain, isConnected, isConnecting, switches, stores, restarts>>
      PROVE  StoreInv'
  <2>1. AccountsInv' /\ FlowInv' /\ FirstUse' /\ flow' \in Flow /\ ActiveIsShown'
    BY <1>1, <1>2, ScreenKeeps
  <2> QED
    BY <1>2, <2>1 DEF StoreInv, WalletTypeOK, Flow
<1>3. CASE BootstrapUnlisted
  <2>1. flow' = Screen("home") \/ flow' = Screen("onboarding")
    BY <1>3 DEF BootstrapUnlisted
  <2> QED
    BY <1>2, <1>3, <2>1 DEF BootstrapUnlisted
<1>4. CASE BootstrapNoSeed
  BY <1>1, <1>4, ClearSessionKeeps DEF BootstrapNoSeed
<1>5. CASE Bootstrap
  <2>1. mnemonic \in Seed /\ flow' = Screen("home") /\ UNCHANGED <<mnemonic, switches, stores, restarts>>
    BY <1>5 DEF Bootstrap, StoreInv, WalletTypeOK
  <2>2. CASE UNCHANGED <<saved, accounts, active, addresses, address, chain, isConnected, isConnecting>>
    BY <1>2, <2>1, <2>2
  <2>3. ASSUME NEW type \in {chain, Evm}, ConnectDerived(Derived(mnemonic, 0), type)
        PROVE  StoreInv'
    <3>1. type \in ChainType
      BY <2>3, WalletAssumption DEF StoreInv, WalletTypeOK
    <3>2. Again
      BY <1>1 DEF StoreInv, FirstUse, WalletTypeOK, Again
    <3> QED
      BY <1>1, <2>1, <2>3, <3>1, <3>2, ConnectDerivedKeeps
  <2> QED
    BY <1>5, <2>2, <2>3 DEF Bootstrap
<1>6. CASE BootstrapGivesUp
  BY <1>1, <1>6, ClearSessionKeeps DEF BootstrapGivesUp
<1> QED
  BY <1>3, <1>4, <1>5, <1>6

-----------------------------------------------------------------------------
LEMMA NextStore == StoreInv /\ [WalletNext]_walletVars => StoreInv'
<1> SUFFICES ASSUME StoreInv, [WalletNext]_walletVars
             PROVE  StoreInv'
  OBVIOUS
<1>1. CASE \E s \in Seed, how \in {"import", "create"} : StoreMnemonic(s, how)
  BY <1>1, StoreMnemonicKeeps
<1>2. CASE ImportWallet \/ CreateWallet \/ ConnectCreated \/ OnboardingFails
  BY <1>2, ImportWalletKeeps, CreateWalletKeeps, ConnectCreatedKeeps, OnboardingFailsKeeps
<1>3. CASE \E a \in Id : SwitchAccount(a) \/ SwitchUncached(a) \/ AddAccount(a)
  BY <1>3, SwitchAccountKeeps, SwitchUncachedKeeps, AddAccountKeeps
<1>4. CASE \E a \in Id : DeleteAccount(a) \/ DeleteActive(a) \/ DeleteActiveUncached(a)
  BY <1>4, DeleteAccountKeeps, DeleteActiveKeeps, DeleteActiveUncachedKeeps
<1>5. CASE \E x \in switches : ReadMnemonic(x) \/ EndSwitch(x)
  BY <1>5, ReadMnemonicKeeps, EndSwitchKeeps
<1>6. CASE \E t \in ChainType : SetActiveChain(t)
  BY <1>6, SetActiveChainKeeps
<1>7. CASE EraseMnemonic \/ Disconnect \/ WipeDisconnects \/ EndWipe
  BY <1>7, LeavingKeeps
<1>8. CASE BootstrapUnlisted \/ BootstrapNoSeed \/ Bootstrap \/ BootstrapGivesUp
  BY <1>8, BootstrapKeeps
<1>9. CASE RestartApp
  BY <1>9, RestartAppKeeps
<1>10. CASE UNCHANGED walletVars
  BY <1>10 DEF walletVars, StoreInv, WalletTypeOK, AccountsInv, FlowInv, FirstUse, ActiveIsShown,
               Again, Matches, Sound, Honest, Ids, Account, Place, Known
<1> QED
  BY <1>1, <1>2, <1>3, <1>4, <1>5, <1>6, <1>7, <1>8, <1>9, <1>10, Zenon DEF WalletNext

\* The session keeps its invariant, for any phrases, accounts and chains,
\* whatever switches, deletions, onboardings and restarts overlap.
THEOREM StoreInvariance == WalletSpec => []StoreInv
BY InitStore, NextStore, PTL DEF WalletSpec

\* Every variable of the session keeps its type.
THEOREM StoreTypeCorrect == WalletSpec => []WalletTypeOK
<1>1. StoreInv => WalletTypeOK
  BY DEF StoreInv
<1> QED
  BY <1>1, StoreInvariance, PTL

\* The addresses cached for an account derive from its own index, or from the
\* first one after a restart or a second onboarding, and no two accounts have
\* the same index (stores/walletStore.ts: connect, switchAccount, addAccount).
THEOREM CachesAreOwn == WalletSpec => []CacheIsOwn
<1>1. StoreInv => CacheIsOwn
  <2> SUFFICES ASSUME StoreInv PROVE CacheIsOwn
    OBVIOUS
  <2>1. Sound(accounts, Again)
    BY DEF StoreInv, AccountsInv
  <2>2. IsInjective([i \in DOMAIN accounts |-> accounts[i].index])
    BY <2>1, SoundInjective
  <2>3. \A i \in DOMAIN accounts : Honest(accounts[i], Again)
    BY <2>1 DEF Sound
  <2> QED
    BY <2>2, <2>3 DEF CacheIsOwn, Honest, Again
<1> QED
  BY <1>1, StoreInvariance, PTL

\* While connected, the addresses shown are those cached for the active
\* account, or the one address of a wallet just created.
THEOREM ActiveShown == WalletSpec => []ActiveIsShown
<1>1. StoreInv => ActiveIsShown
  BY DEF StoreInv
<1> QED
  BY <1>1, StoreInvariance, PTL

-----------------------------------------------------------------------------
(* The activity list: its inductive invariant.                             *)

\* One row per hash and lane.
Whole(R) == \A r, q \in R : SameRow(r, q) => r = q

\* Public rows are of scope s, or some late call has written them.
OwnOrLate(R, s) == \A r \in InLane(R, "public") : r.scope = s \/ Key(r) \in late

\* A private row was listed by an operation that has ended.
PrivateEnded(R) == \A r \in InLane(R, "private") : r.hash \in Op /\ ops[r.hash].pc = "done"

\* What a fetch under way will merge its page into.
FetchInv ==
  \A f \in Fetch : fetches[f].pc = "sent" =>
    /\ fetches[f].scope \in Scope
    /\ Whole(fetches[f].snapshot)
    /\ OwnOrLate(fetches[f].snapshot, fetches[f].scope)
    /\ PrivateEnded(fetches[f].snapshot)

CallInv ==
  /\ \A p \in Payment : payments[p].pc \in {"sent", "polling"} => payments[p].scope \in Scope
  /\ \A o \in Op : ops[o].pc = "proving" => ops[o].scope \in Scope

\* From the first step of a wipe nothing is shown, and after the last one
\* every row has been written late.
WipeInv ==
  /\ wiping # "no" => here = None
  /\ wiping = "done" => \A r \in rows : Key(r) \in late

ActivityInv ==
  /\ TypeOK
  /\ FetchInv
  /\ CallInv
  /\ ForeignHasCause
  /\ PrivateEnded(rows)
  /\ WipeInv

-----------------------------------------------------------------------------
(* Lists.                                                                  *)

\* The first list goes in whole; the second adds what it does not hold.
LEMMA OverHolds ==
  ASSUME NEW first, NEW second
  PROVE  /\ first \subseteq Over(first, second)
         /\ Over(first, second) \subseteq first \cup second
         /\ \A r \in second : (\A q \in first : ~ SameRow(r, q)) => r \in Over(first, second)
BY DEF Over

LEMMA OverWhole ==
  ASSUME NEW first, NEW second, Whole(first), Whole(second)
  PROVE  Whole(Over(first, second))
<1> SUFFICES ASSUME NEW r \in Over(first, second), NEW q \in Over(first, second), SameRow(r, q)
             PROVE  r = q
  BY Zenon DEF Whole
<1>1. SameRow(q, r)
  BY DEF SameRow
<1>2. CASE r \in first /\ q \in first
  BY <1>2, Zenon DEF Whole
<1>3. CASE r \in second /\ q \in second
  BY <1>3, Zenon DEF Whole
<1>4. CASE r \in first /\ q \notin first
  BY <1>1, <1>4 DEF Over
<1>5. CASE r \notin first /\ q \in first
  BY <1>5 DEF Over
<1> QED
  BY <1>2, <1>3, <1>4, <1>5 DEF Over

LEMMA RowIs ==
  ASSUME NEW h, NEW l, NEW s, NEW t
  PROVE  /\ Row(h, l, s, t).hash = h /\ Row(h, l, s, t).lane = l
         /\ Row(h, l, s, t).scope = s /\ Row(h, l, s, t).status = t
BY DEF Row

LEMMA RowTyped ==
  ASSUME NEW h \in Scope \cup Payment \cup Op, NEW l \in {"public", "private"},
         NEW s \in Scope, NEW t \in {"pending", "settled"}
  PROVE  Row(h, l, s, t) \in RowType
BY DEF Row, RowType

LEMMA KeptIsPart ==
  ASSUME NEW R, NEW K \in Kept(R)
  PROVE  K \subseteq R
BY DEF Kept

\* The history of a scope: its public rows, one a payment or the old receipt.
LEMMA HistoryIs ==
  ASSUME TypeOK, NEW s \in Scope, NEW after \in Payment \cup {None}
  PROVE  LET page == History(s, after)
         IN  /\ page \subseteq RowType /\ Whole(page)
             /\ \A r \in page : r.lane = "public" /\ r.scope = s
             /\ NextCursor(page) \in Payment \cup {None}
<1> DEFINE paid == {Row(p, "public", s, "settled") : p \in {x \in indexed : payments[x].scope = s}}
           old == {Row(s, "public", s, "settled")}
           page == History(s, after)
<1>1. page = IF after = None /\ paid # {} THEN paid ELSE old
  BY DEF History
<1>2. /\ paid \subseteq RowType /\ Whole(paid)
      /\ \A r \in paid : r.lane = "public" /\ r.scope = s /\ r.hash \in Payment
  <2>1. \A p \in indexed : p \in Payment
    BY DEF TypeOK
  <2>2. \A p \in indexed : Row(p, "public", s, "settled") \in RowType
    BY <2>1, RowTyped
  <2>3. \A p \in indexed : /\ Row(p, "public", s, "settled").hash = p
                           /\ Row(p, "public", s, "settled").lane = "public"
                           /\ Row(p, "public", s, "settled").scope = s
    BY RowIs
  <2>4. Whole(paid)
    <3> SUFFICES ASSUME NEW r \in paid, NEW q \in paid, r.hash = q.hash
                 PROVE  r = q
      BY Zenon DEF Whole, SameRow
    <3>1. PICK p \in indexed : r = Row(p, "public", s, "settled")
      OBVIOUS
    <3>2. PICK p2 \in indexed : q = Row(p2, "public", s, "settled")
      OBVIOUS
    <3>3. p = p2
      BY <2>3, <3>1, <3>2
    <3> QED
      BY <3>1, <3>2, <3>3
  <2> QED
    BY <2>1, <2>2, <2>3, <2>4
<1>3. /\ old \subseteq RowType /\ Whole(old)
      /\ \A r \in old : r.lane = "public" /\ r.scope = s /\ r.hash = s
  <2>1. Row(s, "public", s, "settled") \in RowType
    BY RowTyped
  <2>2. Whole(old)
    BY DEF Whole
  <2> QED
    BY <2>1, <2>2, RowIs
<1>4. page \subseteq RowType /\ Whole(page) /\ \A r \in page : r.lane = "public" /\ r.scope = s
  <2> HIDE DEF paid, old, page
  <2> QED
    BY <1>1, <1>2, <1>3, Zenon
<1>5. NextCursor(page) \in Payment \cup {None}
  <2>1. CASE page = old
    <3>1. Hashes(page) \subseteq Scope
      <4> HIDE DEF old
      <4> QED
        BY <1>3, <2>1 DEF Hashes
    <3> QED
      BY <3>1 DEF NextCursor
  <2>2. CASE page = paid /\ paid # {}
    <3>1. PICK r \in paid : TRUE
      BY <2>2
    <3>2. r.hash \in Hashes(page)
      BY <2>2, <3>1 DEF Hashes
    <3>3. Hashes(page) \subseteq Payment
      <4> HIDE DEF paid
      <4> QED
        BY <1>2, <2>2 DEF Hashes
    <3>4. (CHOOSE h \in Hashes(page) : TRUE) \in Payment
      BY <3>2, <3>3
    <3> QED
      BY <3>4 DEF NextCursor
  <2> QED
    BY <1>1, <2>1, <2>2
<1> QED
  BY <1>4, <1>5, Zenon

-----------------------------------------------------------------------------
(* The invariant holds.                                                    *)

\* Old rows stay allowed when more rows are late and more operations ended.
LEMMA StillAllowed ==
  ASSUME NEW R, NEW s, late \subseteq late',
         \A o \in Op : ops[o].pc = "done" => ops'[o].pc = "done"
  PROVE  /\ OwnOrLate(R, s) => \A r \in InLane(R, "public") : r.scope = s \/ Key(r) \in late'
         /\ PrivateEnded(R) =>
              \A r \in InLane(R, "private") : r.hash \in Op /\ ops'[r.hash].pc = "done"
<1>1. OwnOrLate(R, s) => \A r \in InLane(R, "public") : r.scope = s \/ Key(r) \in late'
  BY DEF OwnOrLate
<1>2. PrivateEnded(R) =>
        \A r \in InLane(R, "private") : r.hash \in Op /\ ops'[r.hash].pc = "done"
  BY DEF PrivateEnded
<1> QED
  BY <1>1, <1>2

\* Fetches that go on unchanged keep what holds of them.
LEMMA FetchesKept ==
  ASSUME FetchInv, late \subseteq late',
         \A o \in Op : ops[o].pc = "done" => ops'[o].pc = "done",
         \A f \in Fetch : fetches'[f].pc = "sent" => fetches'[f] = fetches[f]
  PROVE  FetchInv'
<1> SUFFICES ASSUME NEW f \in Fetch, fetches'[f].pc = "sent"
             PROVE  /\ fetches'[f].scope \in Scope
                    /\ Whole(fetches'[f].snapshot)
                    /\ \A r \in InLane(fetches'[f].snapshot, "public") :
                         r.scope = fetches'[f].scope \/ Key(r) \in late'
                    /\ \A r \in InLane(fetches'[f].snapshot, "private") :
                         r.hash \in Op /\ ops'[r.hash].pc = "done"
  BY Zenon DEF FetchInv, OwnOrLate, PrivateEnded, Whole, InLane, Key, SameRow
<1>1. fetches'[f] = fetches[f] /\ fetches[f].pc = "sent"
  OBVIOUS
<1>2. /\ fetches[f].scope \in Scope /\ Whole(fetches[f].snapshot)
      /\ OwnOrLate(fetches[f].snapshot, fetches[f].scope)
      /\ PrivateEnded(fetches[f].snapshot)
  BY <1>1, Zenon DEF FetchInv
<1>3. /\ \A r \in InLane(fetches[f].snapshot, "public") :
           r.scope = fetches[f].scope \/ Key(r) \in late'
      /\ \A r \in InLane(fetches[f].snapshot, "private") :
           r.hash \in Op /\ ops'[r.hash].pc = "done"
  BY <1>2, StillAllowed, Zenon
<1> QED
  BY <1>1, <1>2, <1>3, Zenon

\* Steps that leave the list, the scope and the wipe alone.
LEMMA ListUntouched ==
  ASSUME ActivityInv, UNCHANGED <<here, wiping, rows, late>>,
         \A o \in Op : ops[o].pc = "done" => ops'[o].pc = "done"
  PROVE  ForeignHasCause' /\ PrivateEnded(rows)' /\ WipeInv'
<1>1. ForeignHasCause' /\ WipeInv'
  BY DEF ActivityInv, ForeignHasCause, WipeInv, InLane, Key
<1>2. PrivateEnded(rows)'
  BY DEF ActivityInv, PrivateEnded, InLane
<1> QED
  BY <1>1, <1>2

LEMMA ListSet ==
  ASSUME NEW R, R \subseteq RowType, Whole(R), SetRows(R)
  PROVE  /\ rows' = R /\ rows' \subseteq RowType /\ disk' \subseteq rows'
         /\ \A r, q \in rows' : SameRow(r, q) => r = q
BY KeptIsPart, Zenon DEF SetRows, Whole

\* One row added by a call, for whatever scope it was made.
LEMMA RowAdded ==
  ASSUME ActivityInv, NEW q \in RowType, AddTransaction(q), UNCHANGED wallet,
         \A o \in Op : ops[o].pc = "done" => ops'[o].pc = "done",
         q.lane = "private" => q.hash \in Op /\ ops'[q.hash].pc = "done"
  PROVE  /\ rows' \subseteq RowType /\ disk' \subseteq rows'
         /\ \A r, p \in rows' : SameRow(r, p) => r = p
         /\ late' \subseteq (Scope \cup Payment \cup Op) \X {"public", "private"} \X Scope
         /\ late \subseteq late'
         /\ ForeignHasCause' /\ PrivateEnded(rows)' /\ WipeInv'
<1>1. rows' = Over({q}, rows)
  BY DEF AddTransaction, SetRows
<1>2. rows' \subseteq {q} \cup rows
  BY <1>1, OverHolds
<1>3. Whole(Over({q}, rows))
  <2>1. Whole({q})
    BY DEF Whole
  <2>2. Whole(rows)
    BY Zenon DEF ActivityInv, TypeOK, Whole
  <2> QED
    BY <2>1, <2>2, OverWhole
<1>4. Over({q}, rows) \subseteq RowType
  BY <1>1, <1>2 DEF ActivityInv, TypeOK
<1>5. /\ rows' \subseteq RowType /\ disk' \subseteq rows'
      /\ \A r, p \in rows' : SameRow(r, p) => r = p
  BY <1>3, <1>4, ListSet, Zenon DEF AddTransaction
<1>6. /\ late \subseteq late'
      /\ q.scope # here => Key(q) \in late'
      /\ late' \subseteq late \cup {Key(q)}
  BY DEF AddTransaction
<1>7. late' \subseteq (Scope \cup Payment \cup Op) \X {"public", "private"} \X Scope
  <2>1. Key(q) \in (Scope \cup Payment \cup Op) \X {"public", "private"} \X Scope
    BY DEF Key, RowType
  <2> QED
    BY <1>6, <2>1 DEF ActivityInv, TypeOK
<1>8. ForeignHasCause'
  <2> SUFFICES ASSUME NEW r \in rows', r.lane = "public"
               PROVE  r.scope = here \/ Key(r) \in late'
    BY DEF ForeignHasCause, InLane, Key, wallet
  <2>1. CASE r = q
    BY <1>6, <2>1
  <2>2. CASE r \in rows
    BY <1>6, <2>2 DEF ActivityInv, ForeignHasCause, InLane
  <2> QED
    BY <1>2, <2>1, <2>2
<1>9. PrivateEnded(rows)'
  <2> SUFFICES ASSUME NEW r \in rows', r.lane = "private"
               PROVE  r.hash \in Op /\ ops'[r.hash].pc = "done"
    BY DEF PrivateEnded, InLane
  <2>1. CASE r = q
    BY <2>1
  <2>2. CASE r \in rows
    BY <2>2 DEF ActivityInv, PrivateEnded, InLane
  <2> QED
    BY <1>2, <2>1, <2>2
<1>10. WipeInv'
  <2>1. wiping' # "no" => here' = None
    BY DEF ActivityInv, WipeInv, wallet
  <2>2. ASSUME wiping' = "done", NEW r \in rows'
        PROVE  Key(r) \in late'
    <3>1. wiping = "done" /\ here = None
      BY <2>2 DEF ActivityInv, WipeInv, wallet
    <3>2. CASE r = q
      BY <1>6, <3>1, <3>2, ActivityAssumption DEF RowType
    <3>3. CASE r \in rows
      BY <1>6, <3>1, <3>3 DEF ActivityInv, WipeInv
    <3> QED
      BY <1>2, <2>2, <3>2, <3>3
  <2> QED
    BY <2>1, <2>2 DEF WipeInv, Key
<1> QED
  BY <1>5, <1>6, <1>7, <1>8, <1>9, <1>10

\* A fetch that begins reads the list as the invariant has it.
LEMMA FetchBegun ==
  ASSUME FetchInv, NEW f \in Fetch, late \subseteq late',
         \A o \in Op : ops[o].pc = "done" => ops'[o].pc = "done",
         \A g \in Fetch \ {f} : fetches'[g] = fetches[g],
         here' # None, here' \in Scope \cup {None},
         Whole(rows'), ForeignHasCause', PrivateEnded(rows)',
         fetches'[f].scope = here', fetches'[f].snapshot = rows'
  PROVE  FetchInv'
<1> SUFFICES ASSUME NEW g \in Fetch, fetches'[g].pc = "sent"
             PROVE  /\ fetches'[g].scope \in Scope
                    /\ Whole(fetches'[g].snapshot)
                    /\ \A r \in InLane(fetches'[g].snapshot, "public") :
                         r.scope = fetches'[g].scope \/ Key(r) \in late'
                    /\ \A r \in InLane(fetches'[g].snapshot, "private") :
                         r.hash \in Op /\ ops'[r.hash].pc = "done"
  BY Zenon DEF FetchInv, OwnOrLate, PrivateEnded, Whole, InLane, Key, SameRow
<1>1. CASE g = f
  <2>1. fetches'[g].scope \in Scope /\ Whole(fetches'[g].snapshot)
    BY <1>1
  <2>2. \A r \in InLane(rows', "public") : r.scope = here' \/ Key(r) \in late'
    BY DEF ForeignHasCause, InLane, Key
  <2>3. \A r \in InLane(rows', "private") : r.hash \in Op /\ ops'[r.hash].pc = "done"
    BY DEF PrivateEnded, InLane
  <2> QED
    BY <1>1, <2>1, <2>2, <2>3
<1>2. CASE g # f
  <2>1. fetches'[g] = fetches[g] /\ fetches[g].pc = "sent"
    BY <1>2
  <2>2. /\ fetches[g].scope \in Scope /\ Whole(fetches[g].snapshot)
        /\ OwnOrLate(fetches[g].snapshot, fetches[g].scope)
        /\ PrivateEnded(fetches[g].snapshot)
    BY <2>1, Zenon DEF FetchInv
  <2>3. /\ \A r \in InLane(fetches[g].snapshot, "public") :
             r.scope = fetches[g].scope \/ Key(r) \in late'
        /\ \A r \in InLane(fetches[g].snapshot, "private") :
             r.hash \in Op /\ ops'[r.hash].pc = "done"
    BY <2>2, StillAllowed, Zenon
  <2> QED
    BY <2>1, <2>2, <2>3, Zenon
<1> QED
  BY <1>1, <1>2

LEMMA BeginFetchKeeps ==
  ASSUME ActivityInv, NEW f \in Fetch, NEW reset \in BOOLEAN, NEW silent \in BOOLEAN,
         BeginFetch(f, reset, silent)
  PROVE  ActivityInv'
<1> USE DEF BeginFetch, wallet, chainVars
<1>1. TypeOK'
  <2>1. [IdleFetch EXCEPT !.pc = "sent", !.reset = reset, !.scope = here, !.snapshot = rows,
                          !.after = IF reset THEN None ELSE cursor]
          \in [pc : {"idle", "sent"}, reset : BOOLEAN, scope : Scope \cup {None},
               snapshot : SUBSET RowType, after : Payment \cup {None}]
    BY DEF ActivityInv, TypeOK, IdleFetch
  <2> QED
    BY <2>1 DEF ActivityInv, TypeOK, SameRow
<1>2. FetchInv'
  <2>1. /\ fetches'[f].scope = here /\ fetches'[f].snapshot = rows
        /\ \A g \in Fetch \ {f} : fetches'[g] = fetches[g]
    BY DEF ActivityInv, TypeOK, IdleFetch
  <2>2. Whole(rows) /\ here \in Scope \cup {None} /\ FetchInv
    BY Zenon DEF ActivityInv, TypeOK, Whole
  <2>3. ForeignHasCause' /\ PrivateEnded(rows)'
    BY ListUntouched
  <2> QED
    BY <2>1, <2>2, <2>3, FetchBegun
<1>3. CallInv' /\ ForeignHasCause' /\ PrivateEnded(rows)' /\ WipeInv'
  BY ListUntouched DEF ActivityInv, CallInv
<1> QED
  BY <1>1, <1>2, <1>3, Zenon DEF ActivityInv

\* The list a fetch leaves: its page and what it read before.
LEMMA MergedIs ==
  ASSUME ActivityInv, NEW f \in Fetch, fetches[f].pc = "sent"
  PROVE  LET c == fetches[f]
             page == History(c.scope, c.after)
             list == Merged(c, page)
         IN  /\ c.scope \in Scope
             /\ NextCursor(page) \in Payment \cup {None}
             /\ list \subseteq RowType /\ Whole(list)
             /\ OwnOrLate(list, c.scope) /\ PrivateEnded(list)
             /\ InLane(c.snapshot, "private") \subseteq list
<1> DEFINE c == fetches[f]
           page == History(c.scope, c.after)
           list == Merged(c, page)
<1>1. /\ c.scope \in Scope /\ Whole(c.snapshot)
      /\ OwnOrLate(c.snapshot, c.scope) /\ PrivateEnded(c.snapshot)
  BY Zenon DEF ActivityInv, FetchInv
<1>2. c.snapshot \subseteq RowType /\ c.after \in Payment \cup {None}
  BY DEF ActivityInv, TypeOK
<1>3. /\ page \subseteq RowType /\ Whole(page)
      /\ \A r \in page : r.lane = "public" /\ r.scope = c.scope
      /\ NextCursor(page) \in Payment \cup {None}
  BY <1>1, <1>2, HistoryIs, Zenon DEF ActivityInv
<1>4. list = IF c.reset THEN Over(page, InLane(c.snapshot, "private")) ELSE Over(c.snapshot, page)
  BY DEF Merged
<1> HIDE DEF c, page, list
<1>5. list \subseteq page \cup c.snapshot
  BY <1>4, OverHolds DEF InLane
<1>6. Whole(list)
  <2>1. Whole(InLane(c.snapshot, "private"))
    BY <1>1 DEF Whole, InLane
  <2> QED
    BY <1>1, <1>3, <1>4, <2>1, OverWhole
<1>7. OwnOrLate(list, c.scope)
  BY <1>1, <1>3, <1>5 DEF OwnOrLate, InLane
<1>8. PrivateEnded(list)
  BY <1>1, <1>3, <1>5 DEF PrivateEnded, InLane
<1>9. InLane(c.snapshot, "private") \subseteq list
  <2>1. CASE c.reset
    <3>1. \A r \in InLane(c.snapshot, "private"), q \in page : ~ SameRow(r, q)
      BY <1>3 DEF InLane, SameRow
    <3>2. list = Over(page, InLane(c.snapshot, "private"))
      BY <1>4, <2>1
    <3> QED
      BY <3>1, <3>2, OverHolds
  <2>2. CASE ~ c.reset
    BY <1>4, <2>2, OverHolds DEF InLane
  <2> QED
    BY <2>1, <2>2
<1>10. list \subseteq RowType
  BY <1>2, <1>3, <1>5
<1> QED
  BY <1>1, <1>3, <1>6, <1>7, <1>8, <1>9, <1>10, Zenon DEF c, page, list

LEMMA EndFetchKeeps ==
  ASSUME ActivityInv, NEW f \in Fetch, EndFetch(f)
  PROVE  ActivityInv'
<1> DEFINE c == fetches[f]
           page == History(c.scope, c.after)
           list == Merged(c, page)
<1>1. fetches[f].pc = "sent"
  BY DEF EndFetch
<1>2. /\ c.scope \in Scope
      /\ NextCursor(page) \in Payment \cup {None}
      /\ list \subseteq RowType /\ Whole(list)
      /\ OwnOrLate(list, c.scope) /\ PrivateEnded(list)
  BY <1>1, MergedIs, Zenon
<1>3. /\ SetRows(list)
      /\ cursor' = NextCursor(page) /\ more' = (cursor' # None)
      /\ late' = IF c.scope = here THEN late ELSE late \cup {Key(r) : r \in list}
      /\ loading' = FALSE
      /\ fetches' = [fetches EXCEPT ![f] = IdleFetch]
      /\ UNCHANGED <<here, wiping, notifying, payments, onChain, indexed, ops, upsets>>
  BY Zenon DEF EndFetch, wallet, chainVars
<1> HIDE DEF c, page, list
<1>4. /\ rows' = list /\ rows' \subseteq RowType /\ disk' \subseteq rows'
      /\ \A r, q \in rows' : SameRow(r, q) => r = q
  BY <1>2, <1>3, ListSet
<1>5. /\ late \subseteq late'
      /\ late' \subseteq late \cup {Key(r) : r \in list}
      /\ c.scope # here => \A r \in list : Key(r) \in late'
  BY <1>3
<1>6. late' \subseteq (Scope \cup Payment \cup Op) \X {"public", "private"} \X Scope
  <2>1. \A r \in RowType : Key(r) \in (Scope \cup Payment \cup Op) \X {"public", "private"} \X Scope
    BY DEF Key, RowType
  <2> QED
    BY <1>2, <1>5, <2>1 DEF ActivityInv, TypeOK
<1>7. TypeOK'
  <2>1. IdleFetch \in [pc : {"idle", "sent"}, reset : BOOLEAN, scope : Scope \cup {None},
                       snapshot : SUBSET RowType, after : Payment \cup {None}]
    BY DEF IdleFetch
  <2>2. fetches' \in [Fetch -> [pc : {"idle", "sent"}, reset : BOOLEAN, scope : Scope \cup {None},
                                snapshot : SUBSET RowType, after : Payment \cup {None}]]
    BY <1>3, <2>1 DEF ActivityInv, TypeOK
  <2>3. loading' \in BOOLEAN /\ more' \in BOOLEAN /\ cursor' \in Payment \cup {None}
    BY <1>2, <1>3
  <2>4. \A r, q \in rows' : SameRow(r, q)' => r = q
    BY <1>4 DEF SameRow
  <2> QED
    BY <1>3, <1>4, <1>6, <2>2, <2>3, <2>4 DEF ActivityInv, TypeOK
<1>8. FetchInv'
  <2>1. \A g \in Fetch : fetches'[g].pc = "sent" => fetches'[g] = fetches[g]
    BY <1>3 DEF ActivityInv, TypeOK, IdleFetch
  <2> QED
    BY <1>3, <1>5, <2>1, FetchesKept DEF ActivityInv
<1>9. CallInv'
  BY <1>3 DEF ActivityInv, CallInv
<1>10. ForeignHasCause'
  <2> SUFFICES ASSUME NEW r \in list, r.lane = "public"
               PROVE  r.scope = here \/ Key(r) \in late'
    BY <1>3, <1>4 DEF ForeignHasCause, InLane, Key
  <2> QED
    BY <1>2, <1>5 DEF OwnOrLate, InLane
<1>11. PrivateEnded(rows)'
  BY <1>2, <1>3, <1>4 DEF PrivateEnded, InLane
<1>12. WipeInv'
  <2>1. wiping' # "no" => here' = None /\ c.scope # here
    BY <1>2, <1>3, ActivityAssumption DEF ActivityInv, WipeInv
  <2>2. wiping' = "done" => \A r \in rows' : Key(r) \in late'
    BY <1>3, <1>4, <1>5, <2>1
  <2> QED
    BY <2>1, <2>2 DEF WipeInv, Key
<1> QED
  BY <1>7, <1>8, <1>9, <1>10, <1>11, <1>12, Zenon DEF ActivityInv

LEMMA FetchFailsKeeps ==
  ASSUME ActivityInv, NEW f \in Fetch, FetchFails(f)
  PROVE  ActivityInv'
<1> USE DEF FetchFails, Upset, wallet, chainVars
<1>1. TypeOK'
  <2>1. IdleFetch \in [pc : {"idle", "sent"}, reset : BOOLEAN, scope : Scope \cup {None},
                       snapshot : SUBSET RowType, after : Payment \cup {None}]
    BY DEF IdleFetch
  <2>2. upsets' \in 0 .. MaxUpsets
    BY ActivityAssumption DEF ActivityInv, TypeOK
  <2> QED
    BY <2>1, <2>2 DEF ActivityInv, TypeOK, SameRow
<1>2. FetchInv'
  <2>1. \A g \in Fetch : fetches'[g].pc = "sent" => fetches'[g] = fetches[g]
    BY DEF ActivityInv, TypeOK, IdleFetch
  <2> QED
    BY <2>1, FetchesKept DEF ActivityInv
<1>3. CallInv' /\ ForeignHasCause' /\ PrivateEnded(rows)' /\ WipeInv'
  BY ListUntouched DEF ActivityInv, CallInv
<1> QED
  BY <1>1, <1>2, <1>3, Zenon DEF ActivityInv

\* Payments: a call added, moved on or ended.
LEMMA SendKeeps ==
  ASSUME ActivityInv, NEW p \in Payment, Send(p)
  PROVE  ActivityInv'
<1> USE DEF Send, wallet
<1>1. here \in Scope
  BY DEF ActivityInv, TypeOK
<1>2. TypeOK'
  <2>1. /\ payments' \in [Payment -> [pc : {"none", "sent", "polling", "done"}, scope : Scope \cup {None}]]
        /\ onChain' \in [Payment -> {"none", "sent", "settled"}]
    BY <1>1 DEF ActivityInv, TypeOK
  <2> QED
    BY <2>1 DEF ActivityInv, TypeOK, SameRow
<1>3. FetchInv'
  BY FetchesKept DEF ActivityInv
<1>4. ForeignHasCause' /\ PrivateEnded(rows)' /\ WipeInv'
  BY ListUntouched DEF ActivityInv
<1>5. CallInv'
  BY <1>1 DEF ActivityInv, TypeOK, CallInv
<1> QED
  BY <1>2, <1>3, <1>4, <1>5, Zenon DEF ActivityInv

\* A payment's row, pending or settled, is of the scope it was sent from.
LEMMA PaymentRowKeeps ==
  ASSUME ActivityInv, NEW p \in Payment, ListPending(p) \/ PollSettled(p)
  PROVE  ActivityInv'
<1>1. payments[p].scope \in Scope
  BY DEF ListPending, PollSettled, ActivityInv, CallInv
<1>2. PICK t \in {"pending", "settled"} : AddTransaction(Row(p, "public", payments[p].scope, t))
  BY DEF ListPending, PollSettled
<1> DEFINE q == Row(p, "public", payments[p].scope, t)
<1>3. q \in RowType /\ q.lane = "public" /\ AddTransaction(q)
  BY <1>1, <1>2, RowTyped, RowIs
<1> HIDE DEF q
<1>4. /\ UNCHANGED <<here, wiping, notifying, loading, cursor, more, fetches, onChain, indexed, ops, upsets>>
      /\ payments' = [payments EXCEPT ![p].pc = "polling"] \/ payments' = [payments EXCEPT ![p].pc = "done"]
      /\ UNCHANGED wallet /\ ops' = ops
  BY DEF ListPending, PollSettled, wallet, chainVars
<1>5. /\ rows' \subseteq RowType /\ disk' \subseteq rows'
      /\ \A r, x \in rows' : SameRow(r, x) => r = x
      /\ late' \subseteq (Scope \cup Payment \cup Op) \X {"public", "private"} \X Scope
      /\ late \subseteq late'
      /\ ForeignHasCause' /\ PrivateEnded(rows)' /\ WipeInv'
  BY <1>3, <1>4, RowAdded
<1>6. TypeOK'
  <2>1. payments' \in [Payment -> [pc : {"none", "sent", "polling", "done"}, scope : Scope \cup {None}]]
    BY <1>4 DEF ActivityInv, TypeOK
  <2> QED
    BY <1>4, <1>5, <2>1 DEF ActivityInv, TypeOK, SameRow
<1>7. FetchInv'
  BY <1>4, <1>5, FetchesKept DEF ActivityInv
<1>8. CallInv'
  BY <1>1, <1>4 DEF ActivityInv, TypeOK, CallInv
<1> QED
  BY <1>5, <1>6, <1>7, <1>8, Zenon DEF ActivityInv

LEMMA SettleKeeps ==
  ASSUME ActivityInv, NEW p \in Payment, Settle(p) \/ Index(p)
  PROVE  ActivityInv'
<1> USE DEF Settle, Index, wallet
<1>1. TypeOK'
  <2>1. onChain' \in [Payment -> {"none", "sent", "settled"}] /\ indexed' \subseteq Payment
    BY DEF ActivityInv, TypeOK
  <2> QED
    BY <2>1 DEF ActivityInv, TypeOK, SameRow
<1>2. FetchInv'
  BY FetchesKept DEF ActivityInv
<1>3. CallInv' /\ ForeignHasCause' /\ PrivateEnded(rows)' /\ WipeInv'
  BY ListUntouched DEF ActivityInv, CallInv
<1> QED
  BY <1>1, <1>2, <1>3, Zenon DEF ActivityInv

LEMMA BeginPrivateKeeps ==
  ASSUME ActivityInv, NEW o \in Op, BeginPrivate(o)
  PROVE  ActivityInv'
<1> USE DEF BeginPrivate, wallet, chainVars
<1>1. \A x \in Op : ops[x].pc = "done" => ops'[x].pc = "done"
  BY DEF ActivityInv, TypeOK
<1>2. TypeOK'
  <2>1. ops' \in [Op -> [pc : {"none", "proving", "done"}, scope : Scope \cup {None}]]
    BY DEF ActivityInv, TypeOK
  <2> QED
    BY <2>1 DEF ActivityInv, TypeOK, SameRow
<1>3. FetchInv'
  BY <1>1, FetchesKept DEF ActivityInv
<1>4. ForeignHasCause' /\ PrivateEnded(rows)' /\ WipeInv'
  BY <1>1, ListUntouched
<1>5. CallInv'
  BY DEF ActivityInv, TypeOK, CallInv
<1> QED
  BY <1>2, <1>3, <1>4, <1>5, Zenon DEF ActivityInv

LEMMA EndPrivateKeeps ==
  ASSUME ActivityInv, NEW o \in Op, EndPrivate(o)
  PROVE  ActivityInv'
<1> DEFINE q == Row(o, "private", ops[o].scope, "settled")
           started == [IdleFetch EXCEPT !.pc = "sent", !.reset = TRUE, !.scope = here, !.snapshot = rows']
<1>1. ops[o].scope \in Scope /\ ops[o].pc = "proving"
  BY DEF EndPrivate, ActivityInv, CallInv
<1>2. q \in RowType /\ q.lane = "private" /\ q.hash = o
  BY <1>1, RowTyped, RowIs
<1>3. AddTransaction(q)
  BY DEF EndPrivate
<1>4. /\ ops' = [ops EXCEPT ![o].pc = "done"]
      /\ UNCHANGED <<here, wiping, notifying, loading, cursor, more, payments, onChain, indexed, upsets>>
      /\ \/ here = None /\ fetches' = fetches
         \/ here # None /\ \E f \in Fetch : fetches' = [fetches EXCEPT ![f] = started]
  BY Zenon DEF EndPrivate, wallet, chainVars
<1>5. /\ \A x \in Op : ops[x].pc = "done" => ops'[x].pc = "done"
      /\ ops'[o].pc = "done"
      /\ ops' \in [Op -> [pc : {"none", "proving", "done"}, scope : Scope \cup {None}]]
      /\ \A x \in Op : ops'[x].pc = "proving" => ops'[x] = ops[x]
  BY <1>4 DEF ActivityInv, TypeOK
<1> HIDE DEF q
<1>6. /\ rows' \subseteq RowType /\ disk' \subseteq rows'
      /\ \A r, x \in rows' : SameRow(r, x) => r = x
      /\ late' \subseteq (Scope \cup Payment \cup Op) \X {"public", "private"} \X Scope
      /\ late \subseteq late'
      /\ ForeignHasCause' /\ PrivateEnded(rows)' /\ WipeInv'
  BY <1>2, <1>3, <1>4, <1>5, RowAdded DEF wallet
<1>7. /\ started.scope = here /\ started.snapshot = rows'
      /\ started \in [pc : {"idle", "sent"}, reset : BOOLEAN, scope : Scope \cup {None},
                      snapshot : SUBSET RowType, after : Payment \cup {None}]
  BY <1>6 DEF ActivityInv, TypeOK, IdleFetch
<1> HIDE DEF started
<1>8. FetchInv'
  <2>1. CASE fetches' = fetches
    BY <1>5, <1>6, <2>1, FetchesKept DEF ActivityInv
  <2>2. ASSUME here # None, NEW f \in Fetch, fetches' = [fetches EXCEPT ![f] = started]
        PROVE  FetchInv'
    <3>1. /\ fetches'[f].scope = here' /\ fetches'[f].snapshot = rows'
          /\ \A g \in Fetch \ {f} : fetches'[g] = fetches[g]
      BY <1>4, <1>7, <2>2 DEF ActivityInv, TypeOK
    <3>2. Whole(rows')
      BY <1>6, Zenon DEF Whole
    <3>3. here' # None /\ here' \in Scope \cup {None}
      BY <1>4, <2>2 DEF ActivityInv, TypeOK
    <3> QED
      BY <1>5, <1>6, <3>1, <3>2, <3>3, FetchBegun DEF ActivityInv
  <2> QED
    BY <1>4, <2>1, <2>2
<1>9. TypeOK'
  <2>1. fetches' \in [Fetch -> [pc : {"idle", "sent"}, reset : BOOLEAN, scope : Scope \cup {None},
                                snapshot : SUBSET RowType, after : Payment \cup {None}]]
    BY <1>4, <1>7 DEF ActivityInv, TypeOK
  <2>2. \A r, x \in rows' : SameRow(r, x)' => r = x
    BY <1>6 DEF SameRow
  <2> QED
    BY <1>4, <1>5, <1>6, <2>1, <2>2 DEF ActivityInv, TypeOK
<1>10. CallInv'
  BY <1>4, <1>5 DEF ActivityInv, CallInv
<1> QED
  BY <1>6, <1>8, <1>9, <1>10, Zenon DEF ActivityInv

\* Only private rows stay.
LEMMA ClearKeeps ==
  ASSUME ActivityInv, ClearTransactions, UNCHANGED notifying, here' \in Scope \cup {None},
         wiping' \in {"no", "begun"}, wiping' # "no" => here' = None, Upset
  PROVE  ActivityInv'
<1>1. /\ SetRows(PrivateRows) /\ cursor' = None /\ more' = TRUE
      /\ UNCHANGED <<loading, fetches, payments, onChain, indexed, ops, late>>
      /\ upsets' \in 0 .. MaxUpsets
  BY ActivityAssumption DEF ClearTransactions, chainVars, Upset, ActivityInv, TypeOK
<1>2. /\ PrivateRows \subseteq rows
      /\ \A r \in PrivateRows : r.lane = "private"
  BY DEF PrivateRows, InLane
<1>3. /\ rows' = PrivateRows /\ rows' \subseteq RowType /\ disk' \subseteq rows'
      /\ \A r, q \in rows' : SameRow(r, q) => r = q
  <2>1. PrivateRows \subseteq RowType /\ Whole(PrivateRows)
    BY <1>2 DEF ActivityInv, TypeOK, Whole
  <2> QED
    BY <1>1, <2>1, ListSet
<1>4. TypeOK'
  <2>1. \A r, x \in rows' : SameRow(r, x)' => r = x
    BY <1>3 DEF SameRow
  <2> QED
    BY <1>1, <1>3, <2>1 DEF ActivityInv, TypeOK
<1>5. FetchInv'
  BY <1>1, FetchesKept DEF ActivityInv
<1>6. CallInv'
  BY <1>1 DEF ActivityInv, CallInv
<1>7. ForeignHasCause'
  BY <1>2, <1>3 DEF ForeignHasCause, InLane
<1>8. PrivateEnded(rows)'
  BY <1>1, <1>2, <1>3 DEF ActivityInv, PrivateEnded, InLane
<1>9. WipeInv'
  BY DEF WipeInv
<1> QED
  BY <1>4, <1>5, <1>6, <1>7, <1>8, <1>9, Zenon DEF ActivityInv

LEMMA SetNotificationsKeeps ==
  ASSUME ActivityInv, SetNotifications
  PROVE  ActivityInv'
<1>1. /\ UNCHANGED <<here, wiping, rows, disk, loading, cursor, more, fetches, payments, onChain, indexed, ops, late>>
      /\ notifying' \in BOOLEAN /\ upsets' \in 0 .. MaxUpsets
  BY ActivityAssumption DEF SetNotifications, Upset, chainVars, ActivityInv, TypeOK
<1>2. TypeOK'
  BY <1>1 DEF ActivityInv, TypeOK, SameRow
<1>3. FetchInv'
  BY <1>1, FetchesKept DEF ActivityInv
<1>4. CallInv' /\ ForeignHasCause' /\ PrivateEnded(rows)' /\ WipeInv'
  BY <1>1, ListUntouched DEF ActivityInv, CallInv
<1> QED
  BY <1>2, <1>3, <1>4, Zenon DEF ActivityInv

LEMMA WipePersistedStateKeeps ==
  ASSUME ActivityInv, WipePersistedState
  PROVE  ActivityInv'
<1> USE DEF WipePersistedState, chainVars
<1>1. TypeOK'
  BY DEF ActivityInv, TypeOK, SameRow
<1>2. FetchInv'
  BY FetchesKept DEF ActivityInv
<1>3. CallInv'
  BY DEF ActivityInv, CallInv
<1>4. ForeignHasCause' /\ PrivateEnded(rows)'
  BY DEF ForeignHasCause, PrivateEnded, InLane
<1>5. WipeInv'
  BY DEF ActivityInv, WipeInv
<1> QED
  BY <1>1, <1>2, <1>3, <1>4, <1>5, Zenon DEF ActivityInv

\* The rows that are back were on screen before.
LEMMA RestartKeeps ==
  ASSUME ActivityInv, Restart
  PROVE  ActivityInv'
<1>1. /\ rows' = disk /\ disk' = disk /\ loading' = FALSE /\ cursor' = None /\ more' = TRUE
      /\ fetches' = [f \in Fetch |-> IdleFetch]
      /\ UNCHANGED <<here, wiping, notifying, onChain, indexed, late>>
      /\ upsets' \in 0 .. MaxUpsets
  BY ActivityAssumption DEF Restart, Upset, wallet, chainVars, ActivityInv, TypeOK
<1>2. disk \subseteq rows
  BY DEF ActivityInv, TypeOK
<1>3. /\ payments' \in [Payment -> [pc : {"none", "sent", "polling", "done"}, scope : Scope \cup {None}]]
      /\ \A p \in Payment : payments'[p].pc \notin {"sent", "polling"}
  BY DEF Restart, ActivityInv, TypeOK
<1>4. /\ ops' \in [Op -> [pc : {"none", "proving", "done"}, scope : Scope \cup {None}]]
      /\ \A o \in Op : ops'[o].pc # "proving"
      /\ \A o \in Op : ops[o].pc = "done" => ops'[o].pc = "done"
  BY DEF Restart, ActivityInv, TypeOK
<1>5. TypeOK'
  <2>1. IdleFetch \in [pc : {"idle", "sent"}, reset : BOOLEAN, scope : Scope \cup {None},
                       snapshot : SUBSET RowType, after : Payment \cup {None}]
    BY DEF IdleFetch
  <2>2. \A r, x \in rows' : SameRow(r, x)' => r = x
    BY <1>1, <1>2 DEF ActivityInv, TypeOK, SameRow
  <2> QED
    BY <1>1, <1>2, <1>3, <1>4, <2>1, <2>2 DEF ActivityInv, TypeOK
<1>6. FetchInv'
  BY <1>1 DEF FetchInv, IdleFetch
<1>7. CallInv'
  BY <1>3, <1>4 DEF CallInv
<1>8. ForeignHasCause'
  BY <1>1, <1>2 DEF ActivityInv, ForeignHasCause, InLane, Key
<1>9. PrivateEnded(rows)'
  BY <1>1, <1>2, <1>4 DEF ActivityInv, PrivateEnded, InLane
<1>10. WipeInv'
  BY <1>1, <1>2 DEF ActivityInv, WipeInv, Key
<1> QED
  BY <1>5, <1>6, <1>7, <1>8, <1>9, <1>10, Zenon DEF ActivityInv

\* The invariant holds initially and no step breaks it.
THEOREM ActivityInvariance == Spec => []ActivityInv
<1>1. Init => ActivityInv
  <2> SUFFICES ASSUME Init PROVE ActivityInv
    OBVIOUS
  <2>1. TypeOK
    <3>1. IdleFetch \in [pc : {"idle", "sent"}, reset : BOOLEAN, scope : Scope \cup {None},
                         snapshot : SUBSET RowType, after : Payment \cup {None}]
      BY DEF IdleFetch
    <3>2. IdleCall.pc = "none" /\ IdleCall \in [pc : {"none"}, scope : Scope \cup {None}]
      BY DEF IdleCall
    <3>3. /\ fetches \in [Fetch -> [pc : {"idle", "sent"}, reset : BOOLEAN, scope : Scope \cup {None},
                                   snapshot : SUBSET RowType, after : Payment \cup {None}]]
          /\ payments \in [Payment -> [pc : {"none", "sent", "polling", "done"}, scope : Scope \cup {None}]]
          /\ ops \in [Op -> [pc : {"none", "proving", "done"}, scope : Scope \cup {None}]]
          /\ onChain \in [Payment -> {"none", "sent", "settled"}]
      BY <3>1, <3>2 DEF Init, IdleCall
    <3>4. upsets \in 0 .. MaxUpsets
      BY ActivityAssumption DEF Init
    <3> QED
      BY <3>3, <3>4 DEF Init, TypeOK
  <2>2. FetchInv /\ CallInv
    BY DEF Init, FetchInv, CallInv, IdleFetch, IdleCall
  <2>3. ForeignHasCause /\ PrivateEnded(rows) /\ WipeInv
    BY DEF Init, ForeignHasCause, PrivateEnded, InLane, WipeInv
  <2> QED
    BY <2>1, <2>2, <2>3 DEF ActivityInv
<1>2. ActivityInv /\ [Next]_vars => ActivityInv'
  <2> SUFFICES ASSUME ActivityInv, [Next]_vars PROVE ActivityInv'
    OBVIOUS
  <2>1. ASSUME NEW f \in Fetch, Refresh(f) \/ Watch(f) \/ LoadMore(f)
        PROVE  ActivityInv'
    BY <2>1, BeginFetchKeeps DEF Refresh, Watch, LoadMore
  <2>2. ASSUME NEW f \in Fetch, EndFetch(f) \/ FetchFails(f)
        PROVE  ActivityInv'
    BY <2>2, EndFetchKeeps, FetchFailsKeeps
  <2>3. ASSUME NEW p \in Payment, Send(p) \/ ListPending(p) \/ Settle(p) \/ Index(p) \/ PollSettled(p)
        PROVE  ActivityInv'
    BY <2>3, SendKeeps, PaymentRowKeeps, SettleKeeps
  <2>4. ASSUME NEW o \in Op, BeginPrivate(o) \/ EndPrivate(o)
        PROVE  ActivityInv'
    BY <2>4, BeginPrivateKeeps, EndPrivateKeeps
  <2>5. ASSUME NEW s \in Scope \cup {None}, ShowScope(s)
        PROVE  ActivityInv'
    <3>1. here' = s /\ wiping' = "no" /\ UNCHANGED notifying /\ Upset /\ ClearTransactions
      BY <2>5 DEF ShowScope
    <3> QED
      BY <3>1, ClearKeeps
  <2>6. CASE WipeSession
    <3>1. here' = None /\ wiping' = "begun" /\ UNCHANGED notifying /\ Upset /\ ClearTransactions
      BY <2>6 DEF WipeSession
    <3> QED
      BY <3>1, ClearKeeps
  <2>7. CASE WipePersistedState
    BY <2>7, WipePersistedStateKeeps
  <2>8. CASE Restart
    BY <2>8, RestartKeeps
  <2>9. CASE SetNotifications
    BY <2>9, SetNotificationsKeeps
  <2>10. CASE UNCHANGED vars
    BY <2>10 DEF vars, wallet, chainVars, ActivityInv, TypeOK, FetchInv, CallInv, ForeignHasCause,
                OwnOrLate, PrivateEnded, Whole, WipeInv, InLane, Key, SameRow
  <2> QED
    BY <2>1, <2>2, <2>3, <2>4, <2>5, <2>6, <2>7, <2>8, <2>9, <2>10, Zenon DEF Next
<1> QED
  BY <1>1, <1>2, PTL DEF Spec

-----------------------------------------------------------------------------
(* What follows from it.                                                   *)

\* Every variable keeps its type, and the list has one row per hash and lane.
THEOREM ActivityTypeCorrect == Spec => []TypeOK
BY ActivityInvariance, PTL DEF ActivityInv

\* A public row of another address or chain was written by a call that ended
\* after the switch (fetchTransactions compares no scope).
THEOREM ForeignRowsAreLate == Spec => []ForeignHasCause
BY ActivityInvariance, PTL DEF ActivityInv

\* After wipeLocalAccountData the device keeps late rows only: each was
\* written by a call that was under way.
THEOREM WipeIsThorough == Spec => []WipeLeavesNothing
<1>1. ActivityInv => WipeLeavesNothing
  BY DEF ActivityInv, TypeOK, WipeInv, WipeLeavesNothing
<1> QED
  BY <1>1, ActivityInvariance, PTL

-----------------------------------------------------------------------------
(* Private rows.                                                           *)

\* What is persisted has every private row, when they are no more than the
\* device keeps.
LEMMA KeptHasPrivate ==
  ASSUME IsFiniteSet(Op), Cardinality(Op) <= Cap,
         NEW R, Whole(R), \A r \in InLane(R, "private") : r.hash \in Op,
         NEW K \in Kept(R)
  PROVE  InLane(R, "private") \subseteq K
<1> DEFINE P == InLane(R, "private")
<1>1. IsFiniteSet(P) /\ Cardinality(P) <= Cardinality(Op)
  <2> DEFINE hashOf == [r \in P |-> r.hash]
  <2>1. \A r, q \in P : r.hash = q.hash => r = q
    BY DEF Whole, InLane, SameRow
  <2>2. hashOf \in Injection(P, Op)
    BY <2>1 DEF Injection, IsInjective
  <2> HIDE DEF P, hashOf
  <2> QED
    BY <2>2, FS_Injection
<1>2. Cardinality(P) \in Nat /\ Cardinality(Op) \in Nat /\ Cap \in Nat
  BY <1>1, FS_CardinalityType, ActivityAssumption
<1>3. CASE Cardinality(K) = Cap /\ K \subseteq P
  <2>1. Cardinality(K) <= Cardinality(P) /\ (Cardinality(P) = Cardinality(K) => P = K)
    BY <1>1, <1>3, FS_Subset
  <2> QED
    BY <1>1, <1>2, <1>3, <2>1
<1>4. K = R \/ P \subseteq K \/ (Cardinality(K) = Cap /\ K \subseteq P)
  BY DEF Kept
<1>5. CASE K = R
  BY <1>5 DEF InLane
<1> QED
  BY <1>3, <1>4, <1>5

\* What a step does to a private row on screen.
PrivateStep ==
  \A r \in PrivateRows :
    \/ r \in rows'
    \/ wiping = "begun" /\ wiping' = "done"
    \/ \E f \in Fetch : Landed(f) /\ r \notin fetches[f].snapshot

LEMMA StepKeepsPrivate ==
  ASSUME ActivityInv, PrivateRows \subseteq disk, [Next]_vars
  PROVE  PrivateStep
<1> SUFFICES ASSUME NEW r \in rows, r.lane = "private", r \notin rows',
                    ~ (wiping = "begun" /\ wiping' = "done")
             PROVE  \E f \in Fetch : Landed(f) /\ r \notin fetches[f].snapshot
  BY DEF PrivateStep, PrivateRows, InLane
<1>1. r \in disk /\ r \in PrivateRows
  BY DEF PrivateRows, InLane
<1>2. r.hash \in Op /\ ops[r.hash].pc = "done"
  BY DEF ActivityInv, PrivateEnded, InLane
<1>3. ASSUME NEW q, AddTransaction(q), ~ SameRow(r, q)
      PROVE  FALSE
  BY <1>3, OverHolds DEF AddTransaction, SetRows
<1>4. ~ ClearTransactions
  BY <1>1 DEF ClearTransactions, SetRows
<1>5. ASSUME NEW f \in Fetch, EndFetch(f)
      PROVE  Landed(f) /\ r \notin fetches[f].snapshot
  <2> DEFINE c == fetches[f]
             page == History(c.scope, c.after)
             list == Merged(c, page)
  <2>1. c.pc = "sent" /\ fetches'[f].pc = "idle" /\ upsets' = upsets
    BY <1>5 DEF EndFetch, ActivityInv, TypeOK, IdleFetch
  <2>2. rows' = list
    BY <1>5 DEF EndFetch, SetRows
  <2>3. InLane(c.snapshot, "private") \subseteq list
    BY <2>1, MergedIs, Zenon
  <2>4. r \notin c.snapshot
    BY <2>2, <2>3 DEF InLane
  <2> QED
    BY <2>1, <2>4 DEF Landed
<1>6. ASSUME NEW p \in Payment, ListPending(p) \/ PollSettled(p)
      PROVE  FALSE
  <2>1. PICK s, t : AddTransaction(Row(p, "public", s, t))
    BY <1>6, Zenon DEF ListPending, PollSettled
  <2>2. ~ SameRow(r, Row(p, "public", s, t))
    BY RowIs DEF SameRow
  <2> QED
    BY <1>3, <2>1, <2>2
<1>7. ASSUME NEW o \in Op, EndPrivate(o)
      PROVE  FALSE
  <2>1. ops[o].pc = "proving" /\ AddTransaction(Row(o, "private", ops[o].scope, "settled"))
    BY <1>7 DEF EndPrivate
  <2>2. ~ SameRow(r, Row(o, "private", ops[o].scope, "settled"))
    BY <1>2, <2>1, RowIs DEF SameRow
  <2> QED
    BY <1>3, <2>1, <2>2
<1>8. rows' # rows
  OBVIOUS
<1>9. \A f \in Fetch : ~ (Refresh(f) \/ Watch(f) \/ LoadMore(f) \/ FetchFails(f))
  BY <1>8 DEF Refresh, Watch, LoadMore, BeginFetch, FetchFails
<1>10. \A p \in Payment : ~ (Send(p) \/ Settle(p) \/ Index(p))
  BY <1>8 DEF Send, Settle, Index
<1>11. \A o \in Op : ~ BeginPrivate(o)
  BY <1>8 DEF BeginPrivate
<1>12. ~ WipePersistedState
  BY DEF WipePersistedState
<1>13. ~ WipeSession /\ \A s \in Scope \cup {None} : ~ ShowScope(s)
  BY <1>4 DEF WipeSession, ShowScope
<1>14. ~ Restart /\ ~ SetNotifications
  BY <1>1, <1>8 DEF Restart, SetNotifications
<1>15. ~ UNCHANGED vars
  BY <1>8 DEF vars
<1> QED
  BY <1>5, <1>6, <1>7, <1>9, <1>10, <1>11, <1>12, <1>13, <1>14, <1>15, Zenon DEF Next

LEMMA StepPersistsPrivate ==
  ASSUME IsFiniteSet(Op), Cardinality(Op) <= Cap,
         ActivityInv, ActivityInv', PrivateRows \subseteq disk, [Next]_vars
  PROVE  (PrivateRows \subseteq disk)'
<1>1. ASSUME disk' \in Kept(rows')
      PROVE  (PrivateRows \subseteq disk)'
  <2>1. Whole(rows')
    BY Zenon DEF ActivityInv, TypeOK, Whole, SameRow
  <2>2. \A r \in InLane(rows', "private") : r.hash \in Op
    BY DEF ActivityInv, PrivateEnded, InLane
  <2>3. InLane(rows', "private") \subseteq disk'
    BY <1>1, <2>1, <2>2, KeptHasPrivate
  <2> QED
    BY <2>3 DEF PrivateRows, InLane
<1>2. CASE rows' = rows /\ disk' = disk
  BY <1>2 DEF PrivateRows, InLane
<1>3. CASE rows' = disk'
  BY <1>3 DEF PrivateRows, InLane
<1>4. ASSUME NEW R, SetRows(R)
      PROVE  (PrivateRows \subseteq disk)'
  BY <1>1, <1>4 DEF SetRows
<1>5. ASSUME NEW f \in Fetch, Refresh(f) \/ Watch(f) \/ LoadMore(f) \/ EndFetch(f) \/ FetchFails(f)
      PROVE  (PrivateRows \subseteq disk)'
  <2>1. CASE EndFetch(f)
    BY <1>4, <2>1, Zenon DEF EndFetch
  <2>2. CASE Refresh(f) \/ Watch(f) \/ LoadMore(f) \/ FetchFails(f)
    BY <1>2, <2>2 DEF Refresh, Watch, LoadMore, BeginFetch, FetchFails
  <2> QED
    BY <1>5, <2>1, <2>2
<1>6. ASSUME NEW p \in Payment, Send(p) \/ ListPending(p) \/ Settle(p) \/ Index(p) \/ PollSettled(p)
      PROVE  (PrivateRows \subseteq disk)'
  <2>1. CASE ListPending(p) \/ PollSettled(p)
    BY <1>4, <2>1, Zenon DEF ListPending, PollSettled, AddTransaction
  <2>2. CASE Send(p) \/ Settle(p) \/ Index(p)
    BY <1>2, <2>2 DEF Send, Settle, Index
  <2> QED
    BY <1>6, <2>1, <2>2
<1>7. ASSUME NEW o \in Op, BeginPrivate(o) \/ EndPrivate(o)
      PROVE  (PrivateRows \subseteq disk)'
  <2>1. CASE EndPrivate(o)
    BY <1>4, <2>1, Zenon DEF EndPrivate, AddTransaction
  <2>2. CASE BeginPrivate(o)
    BY <1>2, <2>2 DEF BeginPrivate
  <2> QED
    BY <1>7, <2>1, <2>2
<1>8. ASSUME WipeSession \/ \E s \in Scope \cup {None} : ShowScope(s)
      PROVE  (PrivateRows \subseteq disk)'
  BY <1>4, <1>8, Zenon DEF WipeSession, ShowScope, ClearTransactions
<1>11. CASE SetNotifications
  BY <1>2, <1>11 DEF SetNotifications
<1>9. CASE WipePersistedState \/ Restart
  BY <1>3, <1>9 DEF WipePersistedState, Restart
<1>10. CASE UNCHANGED vars
  BY <1>2, <1>10 DEF vars
<1> QED
  BY <1>5, <1>6, <1>7, <1>8, <1>9, <1>10, <1>11, Zenon DEF Next

\* Switches, disconnections, restarts and the cap of rows lose no private
\* row: only the wipe and a fetch that began before the row was listed do.
\* The private operations are no more than the device keeps: past the cap the
\* oldest are dropped at the next write (partialize).
THEOREM PrivateRowsStay ==
  ASSUME IsFiniteSet(Op), Cardinality(Op) <= Cap
  PROVE  Spec => PrivateRowsKept
<1> DEFINE Persisted == PrivateRows \subseteq disk
<1>1. Init => Persisted
  BY DEF Init, PrivateRows, InLane
<1>2. ActivityInv /\ ActivityInv' /\ Persisted /\ [Next]_vars => Persisted'
  BY StepPersistsPrivate, Zenon
<1>3. ActivityInv /\ Persisted /\ [Next]_vars => PrivateStep
  BY StepKeepsPrivate, Zenon
<1>4. PrivateStep =>
        \A r \in PrivateRows :
          \/ r \in rows'
          \/ wiping = "begun" /\ wiping' = "done"
          \/ \E f \in Fetch : Landed(f) /\ r \notin fetches[f].snapshot
  BY Zenon DEF PrivateStep
<1> HIDE DEF Persisted
<1> QED
  BY <1>1, <1>2, <1>3, <1>4, ActivityInvariance, PTL DEF Spec, PrivateRowsKept
=============================================================================
