--------------------------- MODULE StateStoreProofs ---------------------------
(***************************************************************************)
(* The tables of the EVM's state, for any addresses, code, storage and     *)
(* number of accounts: the invariants and action properties of StateStore. *)
(***************************************************************************)
EXTENDS StateStore, FiniteSetTheorems, WellFoundedInduction, TLAPS

\* A set of keys has a least one and, if bounded, a greatest one.
LEMMA LeastKey ==
    ASSUME NEW S \in SUBSET Nat, S # {}
    PROVE  Min(S) \in S /\ \A y \in S : Min(S) <= y
<1>1. PICK x \in S : \A y \in S : ~(<<y, x>> \in OpToRel(<, Nat))
  BY NatLessThanWellFounded, WFMin, Zenon
<1>2. \A y \in S : ~(y < x)
  BY <1>1, Zenon DEF OpToRel
<1>3. \A y \in S : x <= y
  BY <1>2
<1> QED  BY <1>3, Zenon DEF Min

LEMMA GreatestKey ==
    ASSUME NEW S \in SUBSET Nat, S # {}, NEW n \in Nat, \A y \in S : y <= n
    PROVE  Max(S) \in S /\ \A y \in S : y <= Max(S)
<1> DEFINE T == {n - y : y \in S}
<1>0. \A y \in S : n - y \in Nat
  OBVIOUS
<1>1. T \in SUBSET Nat /\ T # {}
  BY <1>0, Zenon
<1> HIDE DEF T
<1>2. Min(T) \in T /\ \A z \in T : Min(T) <= z
  BY <1>1, LeastKey
<1>3. PICK x \in S : Min(T) = n - x
  BY <1>2, Zenon DEF T
<1>4. \A y \in S : n - x <= n - y
  BY <1>2, <1>3 DEF T
<1>5. \A y \in S : x >= y
  BY <1>4
<1> QED  BY <1>5, Zenon DEF Max

\* The rows of a table have keys that are numbers and have a bound.
KeysOK(t) == DOMAIN t \subseteq Nat /\ \E n \in Nat : \A i \in DOMAIN t : i <= n

\* A key that is available is not in use and above all that are, and using it
\* keeps the keys bounded.
LEMMA AvailableKey ==
    ASSUME NEW t, KeysOK(t)
    PROVE  /\ available_primary_key(t) \in Nat
           /\ available_primary_key(t) \notin DOMAIN t
<1>1. CASE DOMAIN t = {}
  BY <1>1 DEF available_primary_key
<1>2. CASE DOMAIN t # {}
  <2>1. Max(DOMAIN t) \in DOMAIN t /\ \A y \in DOMAIN t : y <= Max(DOMAIN t)
    BY <1>2, GreatestKey, Zenon DEF KeysOK
  <2> QED  BY <1>2, <2>1 DEF available_primary_key, KeysOK
<1> QED  BY <1>1, <1>2, Zenon

LEMMA KeyAbove ==
    ASSUME NEW t, KeysOK(t), NEW i \in DOMAIN t
    PROVE  i \in Nat /\ i < available_primary_key(t)
<1> DEFINE D == DOMAIN t
<1>1. D \in SUBSET Nat /\ i \in D /\ \E n \in Nat : \A y \in D : y <= n
  BY DEF KeysOK
<1>2. available_primary_key(t) = Max(D) + 1
  BY DEF available_primary_key
<1> HIDE DEF D
<1>3. Max(D) \in D /\ \A y \in D : y <= Max(D)
  BY <1>1, GreatestKey, Zenon
<1>4. i \in Nat /\ Max(D) \in Nat /\ i <= Max(D)
  BY <1>1, <1>3, Zenon
<1> QED  BY <1>2, <1>4

LEMMA KeysEmplaced ==
    ASSUME NEW t, KeysOK(t), NEW k \in Nat, NEW row
    PROVE  KeysOK(Emplace(t, k, row))
<1>1. DOMAIN Emplace(t, k, row) = DOMAIN t \cup {k}
  BY DEF Emplace
<1>2. PICK n \in Nat : \A i \in DOMAIN t : i <= n
  BY DEF KeysOK
<1>3. \A i \in DOMAIN t \cup {k} : i <= n + k
  BY <1>2 DEF KeysOK
<1> QED  BY <1>1, <1>3 DEF KeysOK

LEMMA KeysErased ==
    ASSUME NEW t, KeysOK(t), NEW k
    PROVE  KeysOK(Erase(t, k))
BY DEF KeysOK, Erase

-----------------------------------------------------------------------------
\* The account table, and the code table against it.
AccountRow == [eth_address : Addrs, data : Datas, code_id : Nat \cup {None}, frozen : BOOLEAN]

CodeRow == [code_hash : Hashes, ref_count : Nat \ {0}]

UsersIn(acc, c) == {i \in DOMAIN acc : acc[i].code_id = c}

AccountsOK(acc) ==
    /\ DOMAIN acc \subseteq Ids /\ IsFiniteSet(DOMAIN acc)
    /\ \A i \in DOMAIN acc : acc[i] \in AccountRow
    /\ \A i, j \in DOMAIN acc : acc[i].eth_address = acc[j].eth_address => i = j

CodesOK(acc, cod) ==
    /\ KeysOK(cod)
    /\ \A c \in DOMAIN cod : cod[c] \in CodeRow
    /\ \A i \in DOMAIN acc : acc[i].code_id \in DOMAIN cod \cup {None}
    /\ \A c \in DOMAIN cod : cod[c].ref_count = Cardinality(UsersIn(acc, c))
    /\ \A c, d \in DOMAIN cod : cod[c].code_hash = cod[d].code_hash => c = d

NewRow(a, data, code_id) ==
    [eth_address |-> a, data |-> data, code_id |-> code_id, frozen |-> FALSE]

\* A change of data or flag keeps both in order.
LEMMA ModifyKeeps ==
    ASSUME NEW acc, NEW cod, AccountsOK(acc), CodesOK(acc, cod),
           NEW new, DOMAIN new = DOMAIN acc,
           \A i \in DOMAIN acc : /\ new[i] \in AccountRow
                                 /\ new[i].eth_address = acc[i].eth_address
                                 /\ new[i].code_id = acc[i].code_id
    PROVE  AccountsOK(new) /\ CodesOK(new, cod)
<1>1. AccountsOK(new)
  BY DEF AccountsOK
<1>2. \A c : UsersIn(new, c) = UsersIn(acc, c)
  BY DEF UsersIn
<1>3. CodesOK(new, cod)
  BY <1>2 DEF CodesOK
<1> QED  BY <1>1, <1>3

\* So does a new account without code, at an address that has none.
LEMMA CreateKeeps ==
    ASSUME NEW acc, NEW cod, AccountsOK(acc), CodesOK(acc, cod),
           NEW id \in Ids, id \notin DOMAIN acc, NEW a \in Addrs, NEW data \in Datas,
           \A i \in DOMAIN acc : acc[i].eth_address # a
    PROVE  /\ AccountsOK(Emplace(acc, id, NewRow(a, data, None)))
           /\ CodesOK(Emplace(acc, id, NewRow(a, data, None)), cod)
<1> DEFINE row == NewRow(a, data, None)
           new == Emplace(acc, id, row)
<1>1. row \in AccountRow /\ row.eth_address = a /\ row.code_id = None
  BY DEF NewRow, AccountRow
<1>2. /\ DOMAIN new = DOMAIN acc \cup {id}
      /\ new[id] = row
      /\ \A i \in DOMAIN acc : new[i] = acc[i]
  BY DEF Emplace
<1> HIDE DEF row, new
<1>3. AccountsOK(new)
  <2>1. IsFiniteSet(DOMAIN new)
    BY <1>2, FS_AddElement DEF AccountsOK
  <2> QED  BY <1>1, <1>2, <2>1 DEF AccountsOK
<1>4. \A c \in DOMAIN cod : UsersIn(new, c) = UsersIn(acc, c)
  BY <1>1, <1>2 DEF UsersIn, CodesOK, KeysOK, None
<1>5. CodesOK(new, cod)
  BY <1>1, <1>2, <1>4 DEF CodesOK
<1> QED  BY <1>3, <1>5 DEF row, new

\* Removing an account releases its code exactly.
LEMMA RemoveKeeps ==
    ASSUME AccountsOK(account), CodesOK(account, codes), NEW i \in DOMAIN account
    PROVE  /\ AccountsOK(Without(i))
           /\ CodesOK(Without(i), Released(account[i].code_id))
<1> DEFINE new == Without(i)
           c   == account[i].code_id
           cod == Released(c)
<1>1. /\ DOMAIN new = DOMAIN account \ {i}
      /\ \A j \in DOMAIN new : new[j] = account[j]
  BY DEF Without, Erase
<1>2. AccountsOK(new)
  <2>1. IsFiniteSet(DOMAIN new)
    BY <1>1, FS_RemoveElement DEF AccountsOK
  <2> QED  BY <1>1, <2>1 DEF AccountsOK
<1>3. \A d : d # c => UsersIn(new, d) = UsersIn(account, d)
  BY <1>1 DEF UsersIn
<1>4. CASE c = None
  <2>1. cod = codes
    BY <1>4 DEF Released
  <2>2. \A d \in DOMAIN codes : d # c
    BY <1>4 DEF CodesOK, KeysOK, None
  <2> HIDE DEF new, cod, c
  <2> QED  BY <1>1, <1>2, <1>3, <2>1, <2>2 DEF CodesOK, new, cod, c
<1>5. CASE c # None
  <2>1. c \in DOMAIN codes
    BY <1>5 DEF CodesOK
  <2>2. UsersIn(new, c) = UsersIn(account, c) \ {i} /\ i \in UsersIn(account, c)
    BY <1>1 DEF UsersIn
  <2>3. IsFiniteSet(UsersIn(account, c))
    <3>1. UsersIn(account, c) \subseteq DOMAIN account
      BY DEF UsersIn
    <3> QED  BY <3>1, FS_Subset DEF AccountsOK
  <2>4. /\ Cardinality(UsersIn(account, c)) = codes[c].ref_count
        /\ codes[c] \in CodeRow
    BY <2>1 DEF CodesOK
  <2>5. Cardinality(UsersIn(new, c)) = codes[c].ref_count - 1
    BY <2>2, <2>3, <2>4, FS_RemoveElement, ZenonT(40)
  <2>6. codes[c].ref_count \in Nat \ {0} /\ codes[c].code_hash \in Hashes
    BY <2>4 DEF CodeRow
  <2>7. CASE codes[c].ref_count - 1 # 0
    <3>1. cod = [codes EXCEPT ![c].ref_count = @ - 1]
      BY <1>5, <2>7 DEF Released
    <3>2. /\ DOMAIN cod = DOMAIN codes
          /\ \A d \in DOMAIN codes : d # c => cod[d] = codes[d]
          /\ cod[c].ref_count = codes[c].ref_count - 1
          /\ cod[c].code_hash = codes[c].code_hash
          /\ cod[c] \in CodeRow
      BY <2>1, <2>4, <2>6, <2>7, <3>1 DEF CodeRow
    <3> HIDE DEF new, cod, c
    <3>3. \A d \in DOMAIN cod : cod[d] \in CodeRow /\ cod[d].code_hash = codes[d].code_hash
      BY <3>2 DEF CodesOK
    <3>4. \A d \in DOMAIN cod : cod[d].ref_count = Cardinality(UsersIn(new, d))
      BY <1>3, <2>5, <3>2 DEF CodesOK
    <3>5. \A j \in DOMAIN new : new[j].code_id \in DOMAIN cod \cup {None}
      BY <1>1, <3>2 DEF CodesOK
    <3>6. KeysOK(cod)
      BY <3>2 DEF CodesOK, KeysOK
    <3>7. \A d, e \in DOMAIN cod : cod[d].code_hash = cod[e].code_hash => d = e
      BY <3>2, <3>3 DEF CodesOK
    <3>8. CodesOK(new, cod)
      BY <3>3, <3>4, <3>5, <3>6, <3>7 DEF CodesOK
    <3> QED  BY <1>2, <3>8 DEF new, cod, c
  <2>8. CASE codes[c].ref_count - 1 = 0
    <3>1. cod = Erase(codes, c)
      BY <1>5, <2>8 DEF Released
    <3>2. /\ DOMAIN cod = DOMAIN codes \ {c}
          /\ \A d \in DOMAIN cod : cod[d] = codes[d]
      BY <3>1 DEF Erase
    <3>3. UsersIn(new, c) = {}
      <4>1. IsFiniteSet(UsersIn(new, c))
        BY <2>2, <2>3, FS_RemoveElement
      <4> QED  BY <2>5, <2>8, <4>1, FS_EmptySet
    <3> HIDE DEF new, cod, c
    <3>4. \A j \in DOMAIN new : new[j].code_id \in DOMAIN cod \cup {None}
      BY <1>1, <3>2, <3>3 DEF CodesOK, UsersIn
    <3>5. KeysOK(cod)
      BY <3>1, KeysErased DEF CodesOK
    <3>6. CodesOK(new, cod)
      BY <1>3, <3>2, <3>4, <3>5 DEF CodesOK
    <3> QED  BY <1>2, <3>6 DEF new, cod, c
  <2> QED  BY <2>7, <2>8
<1> QED  BY <1>4, <1>5

\* Giving an account that has none a code counts the reference exactly.
LEMMA ShareKeeps ==
    ASSUME NEW acc, AccountsOK(acc), CodesOK(acc, codes), NEW i \in DOMAIN acc,
           acc[i].code_id = None, NEW h \in Hashes,
           NEW new, DOMAIN new = DOMAIN acc, \A j \in DOMAIN acc : j # i => new[j] = acc[j],
           new[i] \in AccountRow, new[i].code_id = SharedId(h),
           new[i].eth_address = acc[i].eth_address
    PROVE  AccountsOK(new) /\ CodesOK(new, Shared(h))
<1> DEFINE c   == SharedId(h)
           cod == Shared(h)
<1>1. c \in Nat /\ (HasCode(h) => c \in DOMAIN codes /\ codes[c].code_hash = h)
                /\ (~HasCode(h) => c \notin DOMAIN codes)
  BY AvailableKey DEF SharedId, HasCode, CodeOf, CodesOK, KeysOK
<1>2. /\ DOMAIN new = DOMAIN acc
      /\ \A j \in DOMAIN acc : j # i => new[j] = acc[j]
      /\ new[i] \in AccountRow
      /\ new[i].code_id = c /\ new[i].eth_address = acc[i].eth_address
  OBVIOUS
<1> HIDE DEF c
<1>3. AccountsOK(new)
  <2>1. \A j \in DOMAIN acc : new[j] \in AccountRow /\ new[j].eth_address = acc[j].eth_address
    BY <1>2 DEF AccountsOK
  <2> QED  BY <1>2, <2>1 DEF AccountsOK
<1>4. \A d \in DOMAIN codes : d # c => UsersIn(new, d) = UsersIn(acc, d)
  <2>1. \A d \in DOMAIN codes : d # None
    BY DEF CodesOK, KeysOK, None
  <2> QED  BY <1>2, <2>1 DEF UsersIn
<1>5. UsersIn(new, c) = UsersIn(acc, c) \cup {i} /\ i \notin UsersIn(acc, c)
  BY <1>1, <1>2 DEF UsersIn, None
<1>6. IsFiniteSet(UsersIn(acc, c))
  <2>1. UsersIn(acc, c) \subseteq DOMAIN acc
    BY DEF UsersIn
  <2> QED  BY <2>1, FS_Subset DEF AccountsOK
<1>7. Cardinality(UsersIn(new, c)) = Cardinality(UsersIn(acc, c)) + 1
  BY <1>5, <1>6, FS_AddElement, Zenon
<1>8. CASE HasCode(h)
  <2>1. CodeOf(h) = c
    BY <1>8 DEF SharedId, c
  <2>2. cod = [codes EXCEPT ![c].ref_count = @ + 1]
    BY <1>8, <2>1 DEF Shared
  <2>3. codes[c] \in CodeRow /\ codes[c].ref_count = Cardinality(UsersIn(acc, c))
    BY <1>1, <1>8 DEF CodesOK
  <2>4. /\ DOMAIN cod = DOMAIN codes
        /\ \A d \in DOMAIN codes : d # c => cod[d] = codes[d]
        /\ cod[c].ref_count = codes[c].ref_count + 1
        /\ cod[c].code_hash = codes[c].code_hash
        /\ cod[c] \in CodeRow
    BY <1>1, <1>8, <2>2, <2>3 DEF CodeRow
  <2> HIDE DEF cod
  <2>5. \A d \in DOMAIN cod : cod[d] \in CodeRow /\ cod[d].code_hash = codes[d].code_hash
    BY <2>4 DEF CodesOK
  <2>6. \A d \in DOMAIN cod : cod[d].ref_count = Cardinality(UsersIn(new, d))
    BY <1>4, <1>7, <2>3, <2>4 DEF CodesOK
  <2>7. \A j \in DOMAIN new : new[j].code_id \in DOMAIN cod \cup {None}
    BY <1>1, <1>2, <1>8, <2>4 DEF CodesOK
  <2>8. KeysOK(cod) /\ \A d, e \in DOMAIN cod : cod[d].code_hash = cod[e].code_hash => d = e
    BY <2>4, <2>5 DEF CodesOK, KeysOK
  <2>9. CodesOK(new, cod)
    BY <2>5, <2>6, <2>7, <2>8 DEF CodesOK
  <2> QED  BY <1>3, <2>9 DEF cod
<1>9. CASE ~HasCode(h)
  <2> DEFINE row == [code_hash |-> h, ref_count |-> 1]
  <2>1. cod = Emplace(codes, c, row)
    BY <1>9 DEF Shared, c
  <2>2. row \in CodeRow /\ row.code_hash = h /\ row.ref_count = 1
    BY DEF CodeRow
  <2> HIDE DEF row
  <2>3. /\ DOMAIN cod = DOMAIN codes \cup {c}
        /\ \A d \in DOMAIN codes : cod[d] = codes[d]
        /\ cod[c] = row
    BY <1>1, <1>9, <2>1 DEF Emplace
  <2>4. UsersIn(acc, c) = {}
    BY <1>1, <1>9 DEF CodesOK, UsersIn, None
  <2>5. Cardinality(UsersIn(new, c)) = 1
    BY <1>7, <2>4, FS_EmptySet
  <2>6. KeysOK(cod)
    BY <1>1, <2>1, KeysEmplaced DEF CodesOK
  <2> HIDE DEF cod
  <2>7. \A d \in DOMAIN cod : cod[d] \in CodeRow
                             /\ cod[d].ref_count = Cardinality(UsersIn(new, d))
    BY <1>1, <1>4, <1>9, <2>2, <2>3, <2>5 DEF CodesOK
  <2>8. \A j \in DOMAIN new : new[j].code_id \in DOMAIN cod \cup {None}
    BY <1>2, <2>3 DEF CodesOK
  <2>9. \A d, e \in DOMAIN cod : cod[d].code_hash = cod[e].code_hash => d = e
    BY <1>9, <2>2, <2>3 DEF CodesOK, HasCode
  <2>10. CodesOK(new, cod)
    BY <2>6, <2>7, <2>8, <2>9 DEF CodesOK
  <2> QED  BY <1>3, <2>10 DEF cod
<1> QED  BY <1>8, <1>9


-----------------------------------------------------------------------------
\* The inductive invariant.

Stages == {"unread", "present", "missing", "new", "coded", "done", "removed"}

\* The id that get_next_account_id hands out next.
Floor ==
    IF _config2 # None THEN _config2 ELSE IF config2 # None THEN config2
    ELSE available_primary_key(account)

\* No id was handed out yet: the next one comes from the accounts there are.
Unset == config2 = None /\ _config2 = None

\* Of a step: as long as that is so, the account with the highest id is neither
\* removed nor replaced, which would queue its scope.
TopKept ==
    Unset => \A i \in DOMAIN account :
                (\A j \in DOMAIN account : j <= i) =>
                    \A g \in DOMAIN gcstore' \ DOMAIN gcstore : gcstore'[g] # i

\* A contract that had config2 from the start has no accounts at that point,
\* so there is none to be removed.
Started == Unset => DOMAIN account = {}

\* What the stage of a transaction says of the rows at address a.
StageFits(acc, s, a) ==
    /\ s \in {"present", "new", "coded", "done"} => \E i \in DOMAIN acc : acc[i].eth_address = a
    /\ s # "unread" => \A i \in DOMAIN acc : acc[i].eth_address = a => ~acc[i].frozen
    /\ s \in {"missing", "new"} =>
          \A i \in DOMAIN acc : acc[i].eth_address = a => acc[i].code_id = None

FieldsOK ==
    /\ storage \in [Ids -> [Keys -> Values \cup {None}]]
    /\ config2 \in Nat \cup {None} /\ _config2 \in Nat \cup {None}
    /\ phase \in {"idle", "tx", "gc"} /\ max \in Nat
    /\ stage \in [Addrs -> Stages]
    /\ phase # "tx" => stage = Unread /\ _config2 = None

QueueOK(queue) ==
    /\ KeysOK(queue)
    /\ \A g \in DOMAIN queue : queue[g] \in Ids

IdsOK ==
    /\ KeysOK(account)
    /\ \A i \in DOMAIN account : i < Floor
    /\ \A g \in DOMAIN gcstore : gcstore[g] < Floor

\* What every action keeps, all those of the administrator included.
Core ==
    /\ AccountsOK(account) /\ CodesOK(account, codes)
    /\ FieldsOK /\ QueueOK(gcstore) /\ IdsOK
    /\ \A a \in Addrs : StageFits(account, stage[a], a)

LEMMA CoreImplies ==
    Core => TypeOK /\ OneRowPerAddress /\ RefCountsExact
<1> SUFFICES ASSUME Core PROVE TypeOK /\ OneRowPerAddress /\ RefCountsExact
  OBVIOUS
<1>1. TypeOK
  BY DEF Core, TypeOK, AccountsOK, CodesOK, FieldsOK, QueueOK, KeysOK, AccountRow, CodeRow, Stages
<1>2. OneRowPerAddress
  BY DEF Core, OneRowPerAddress, AccountsOK
<1>3. RefCountsExact
  BY DEF Core, RefCountsExact, CodesOK, Users, UsersIn
<1> QED  BY <1>1, <1>2, <1>3

\* The next id depends on what accounts there are, not on what is in them.
LEMMA SameFloor ==
    ASSUME DOMAIN account' = DOMAIN account, UNCHANGED <<config2, _config2>>
    PROVE  Floor' = Floor
BY DEF Floor, available_primary_key

LEMMA FloorNat ==
    ASSUME Core
    PROVE  Floor \in Nat
<1>1. available_primary_key(account) \in Nat
  BY AvailableKey DEF Core, IdsOK
<1>2. config2 \in Nat \cup {None} /\ _config2 \in Nat \cup {None}
  BY DEF Core, FieldsOK
<1> QED  BY <1>1, <1>2 DEF Floor

\* Table t, which may lack an account, has the same next id.
SameNext(t) == Unset => available_primary_key(t) = available_primary_key(account)

\* The next id is that of no account and not queued.
LEMMA NextIdNew ==
    ASSUME Core, NEW t, SameNext(t)
    PROVE  /\ get_next_account_id(t) = Floor /\ Floor \in Nat
           /\ Floor \notin DOMAIN account
           /\ \A g \in DOMAIN gcstore : gcstore[g] # Floor
<1>1. Floor \in Nat
  BY FloorNat
<1>2. \A i \in DOMAIN account : i \in Nat
  BY StoreAssumption, Zenon DEF Core, AccountsOK
<1>3. \A g \in DOMAIN gcstore : gcstore[g] \in Nat
  BY StoreAssumption, Zenon DEF Core, QueueOK
<1>4. get_next_account_id(t) = Floor
  <2> QED  BY DEF get_next_account_id, Floor, Unset, SameNext
<1> QED  BY <1>1, <1>2, <1>3, <1>4 DEF Core, IdsOK

LEMMA NextIdHere ==
    ASSUME Core
    PROVE  /\ get_next_account_id(account) = Floor /\ Floor \in Nat
           /\ Floor \notin DOMAIN account
           /\ \A g \in DOMAIN gcstore : gcstore[g] # Floor
BY NextIdNew DEF SameNext

\* The row of an address.
LEMMA RowOf ==
    ASSUME NEW a, HasRow(a)
    PROVE  IdOf(a) \in DOMAIN account /\ account[IdOf(a)].eth_address = a
BY DEF HasRow, IdOf

LEMMA RowIs ==
    ASSUME AccountsOK(account), NEW i \in DOMAIN account, NEW a, account[i].eth_address = a
    PROVE  HasRow(a) /\ IdOf(a) = i
<1>1. HasRow(a)
  BY DEF HasRow
<1> QED  BY <1>1, RowOf DEF AccountsOK

\* Two tables agree on the rows of an address.
SameAt(acc, new, b) ==
    /\ \A i \in DOMAIN acc : acc[i].eth_address = b => i \in DOMAIN new /\ new[i] = acc[i]
    /\ \A i \in DOMAIN new : new[i].eth_address = b => i \in DOMAIN acc /\ new[i] = acc[i]

\* What a call of a transaction on address a has to keep.
LEMMA TxKeeps ==
    ASSUME Core, phase = "tx", NEW a \in Addrs, NEW s \in Stages,
           AccountsOK(account'), CodesOK(account', codes'),
           storage' \in [Ids -> [Keys -> Values \cup {None}]],
           QueueOK(gcstore'), IdsOK', _config2' \in Nat \cup {None},
           UNCHANGED <<config2, phase, max>>,
           stage' = [stage EXCEPT ![a] = s],
           StageFits(account', s, a),
           \A b \in Addrs \ {a} : SameAt(account, account', b)
    PROVE  Core'
<1>1. FieldsOK'
  BY DEF Core, FieldsOK
<1>2. \A b \in Addrs : stage'[b] = IF b = a THEN s ELSE stage[b]
  BY DEF Core, FieldsOK
<1>3. ASSUME NEW b \in Addrs \ {a} PROVE StageFits(account', stage[b], b)
  <2>1. StageFits(account, stage[b], b) /\ SameAt(account, account', b)
    BY <1>3 DEF Core
  <2> QED  BY <2>1 DEF StageFits, SameAt
<1>4. \A b \in Addrs : StageFits(account', stage'[b], b)
  BY <1>2, <1>3
<1> QED  BY <1>1, <1>4 DEF Core


\* The queue after a scope was added.
LEMMA QueueGrows ==
    ASSUME Core, NEW i \in DOMAIN account
    PROVE  /\ QueueOK(Queued(i))
           /\ \A g \in DOMAIN Queued(i) : Queued(i)[g] = i
                 \/ \E h \in DOMAIN gcstore : gcstore[h] = Queued(i)[g]
           /\ \E g \in DOMAIN Queued(i) \ DOMAIN gcstore :
                 Queued(i)[g] = i /\ DOMAIN Queued(i) = DOMAIN gcstore \cup {g}
           /\ \A h \in DOMAIN gcstore : h \in DOMAIN Queued(i) /\ Queued(i)[h] = gcstore[h]
<1> DEFINE k == available_primary_key(gcstore)
<1>1. k \in Nat /\ k \notin DOMAIN gcstore
  BY AvailableKey DEF Core, QueueOK
<1>2. Queued(i) = Emplace(gcstore, k, i)
  BY DEF Queued
<1> HIDE DEF k
<1>3. KeysOK(Queued(i))
  BY <1>1, <1>2, KeysEmplaced DEF Core, QueueOK
<1>4. /\ DOMAIN Queued(i) = DOMAIN gcstore \cup {k}
      /\ Queued(i)[k] = i
      /\ \A h \in DOMAIN gcstore : Queued(i)[h] = gcstore[h]
  BY <1>1, <1>2 DEF Emplace
<1>5. i \in Ids
  BY DEF Core, AccountsOK
<1>6. QueueOK(Queued(i))
  BY <1>3, <1>4, <1>5 DEF Core, QueueOK
<1> QED  BY <1>1, <1>4, <1>6

\* What creating an account does, t and cod being the accounts and the code
\* without it.
CreatedFrom(t, cod, a, data) ==
    /\ account' = Emplace(t, Floor, NewRow(a, data, None))
    /\ DOMAIN account' = DOMAIN t \cup {Floor}
    /\ account'[Floor] = NewRow(a, data, None)
    /\ \A i \in DOMAIN t : account'[i] = t[i]
    /\ AccountsOK(account') /\ CodesOK(account', cod)
    /\ Floor \in Ids /\ Floor \in Nat /\ Floor \notin DOMAIN account
    /\ _config2' = Floor + 1 /\ Floor' = Floor + 1
    /\ \A g \in DOMAIN gcstore : gcstore[g] # Floor
    /\ \A b \in Addrs \ {a} : SameAt(t, account', b)

LEMMA CreateStep ==
    ASSUME Core, NEW t, NEW cod, AccountsOK(t), CodesOK(t, cod), DOMAIN t \subseteq DOMAIN account,
           SameNext(t),
           NEW a \in Addrs, NEW data \in Datas, \A i \in DOMAIN t : t[i].eth_address # a,
           CreateIn(t, a, data, None), UNCHANGED config2
    PROVE  CreatedFrom(t, cod, a, data)
<1>1. /\ get_next_account_id(t) = Floor /\ Floor \in Nat
      /\ Floor \notin DOMAIN account
      /\ \A g \in DOMAIN gcstore : gcstore[g] # Floor
  BY NextIdNew
<1>2. /\ Floor \in Ids /\ Floor \notin DOMAIN t
      /\ account' = Emplace(t, Floor, NewRow(a, data, None))
      /\ _config2' = Floor + 1
  BY <1>1 DEF CreateIn, NewRow
<1>3. Floor' = Floor + 1
  <2>1. _config2' # None
    BY <1>1, <1>2 DEF None
  <2> QED  BY <1>2, <2>1 DEF Floor
<1>4. AccountsOK(account') /\ CodesOK(account', cod)
  BY <1>2, CreateKeeps
<1>5. /\ DOMAIN account' = DOMAIN t \cup {Floor}
      /\ account'[Floor] = NewRow(a, data, None)
      /\ \A i \in DOMAIN t : account'[i] = t[i]
  BY <1>2 DEF Emplace
<1>6. \A b \in Addrs \ {a} : SameAt(t, account', b)
  <2>1. NewRow(a, data, None).eth_address = a
    BY DEF NewRow
  <2> QED  BY <1>2, <1>5, <2>1 DEF SameAt
<1> QED  BY <1>1, <1>2, <1>3, <1>4, <1>5, <1>6 DEF CreatedFrom

LEMMA CreateHere ==
    ASSUME Core, NEW a \in Addrs, NEW data \in Datas,
           \A i \in DOMAIN account : account[i].eth_address # a,
           CreateIn(account, a, data, None), UNCHANGED config2
    PROVE  /\ DOMAIN account' = DOMAIN account \cup {Floor}
           /\ account'[Floor] = NewRow(a, data, None)
           /\ \A i \in DOMAIN account : account'[i] = account[i]
           /\ AccountsOK(account') /\ CodesOK(account', codes)
           /\ Floor \in Ids /\ Floor \in Nat /\ _config2' = Floor + 1 /\ Floor' = Floor + 1
           /\ \A g \in DOMAIN gcstore : gcstore[g] # Floor
           /\ \A b \in Addrs \ {a} : SameAt(account, account', b)
<1>1. SameNext(account)
  BY DEF SameNext
<1>2. CreatedFrom(account, codes, a, data)
  BY <1>1, CreateStep, ZenonT(40) DEF Core
<1> QED  BY <1>2 DEF CreatedFrom

\* The ids stay in order when an account is created and when one is removed.
LEMMA IdsAfterCreate ==
    ASSUME Core, DOMAIN account' \subseteq DOMAIN account \cup {Floor},
           Floor' = Floor + 1, Floor \in Nat,
           \A g \in DOMAIN gcstore' :
              \/ \E h \in DOMAIN gcstore : gcstore[h] = gcstore'[g]
              \/ gcstore'[g] \in DOMAIN account \ DOMAIN account',
           \A g \in DOMAIN gcstore : gcstore[g] # Floor
    PROVE  IdsOK'
<1>1. \A i \in DOMAIN account : i \in Nat /\ i < Floor
  BY StoreAssumption, Zenon DEF Core, AccountsOK, IdsOK
<1>2. \A g \in DOMAIN gcstore : gcstore[g] \in Nat /\ gcstore[g] < Floor
  BY StoreAssumption, Zenon DEF Core, QueueOK, IdsOK
<1>3. \A i \in DOMAIN account' : i \in Nat /\ i < Floor'
  BY <1>1
<1>4. \A g \in DOMAIN gcstore' : gcstore'[g] < Floor'
  BY <1>1, <1>2
<1>5. KeysOK(account')
  <2>1. \A i \in DOMAIN account' : i <= Floor
    BY <1>1
  <2> QED  BY <1>3, <2>1 DEF KeysOK
<1> QED  BY <1>3, <1>4, <1>5 DEF IdsOK

LEMMA IdsAfterRemove ==
    ASSUME Core, DOMAIN account' \subseteq DOMAIN account, Floor' = Floor,
           \A g \in DOMAIN gcstore' :
              \/ \E h \in DOMAIN gcstore : gcstore[h] = gcstore'[g]
              \/ gcstore'[g] \in DOMAIN account \ DOMAIN account'
    PROVE  IdsOK'
<1>3. \A i \in DOMAIN account' : i < Floor'
  BY DEF Core, IdsOK
<1>4. \A g \in DOMAIN gcstore' : gcstore'[g] < Floor'
  BY DEF Core, IdsOK
<1>5. KeysOK(account')
  BY DEF Core, IdsOK, KeysOK
<1> QED  BY <1>3, <1>4, <1>5 DEF IdsOK

\* The account table without an account that is not the last one has the same
\* next key.
LEMMA TopStays ==
    ASSUME Core, TopKept, NEW i \in DOMAIN account, gcstore' = Queued(i)
    PROVE  SameNext(Without(i))
<1> SUFFICES ASSUME Unset
             PROVE  available_primary_key(Without(i)) = available_primary_key(account)
  BY DEF SameNext
<1> DEFINE D == DOMAIN account
<1>1. DOMAIN Without(i) = D \ {i}
  BY DEF Without, Erase
<1>2. \E g \in DOMAIN gcstore' \ DOMAIN gcstore : gcstore'[g] = i
  BY QueueGrows, Zenon
<1>3. PICK j \in D : ~(j <= i)
  BY <1>2 DEF TopKept
<1>4. D \in SUBSET Nat /\ i \in D /\ \E n \in Nat : \A y \in D : y <= n
  BY DEF Core, IdsOK, KeysOK
<1> HIDE DEF D
<1>5. Max(D) \in D /\ \A y \in D : y <= Max(D)
  BY <1>4, GreatestKey
<1>6. Max(D \ {i}) \in D \ {i} /\ \A y \in D \ {i} : y <= Max(D \ {i})
  <2> DEFINE S == D \ {i}
  <2>1. j \in S
    BY <1>3, <1>4
  <2>2. S \in SUBSET Nat /\ S # {} /\ \E n \in Nat : \A y \in S : y <= n
    BY <1>4, <2>1, Zenon
  <2> HIDE DEF S
  <2>3. Max(S) \in S /\ \A y \in S : y <= Max(S)
    BY <2>2, GreatestKey
  <2> QED  BY <2>3 DEF S
<1>7. Max(D \ {i}) = Max(D)
  <2>1. Max(D) # i
    BY <1>3, <1>4, <1>5
  <2>2. /\ Max(D) \in Nat /\ Max(D \ {i}) \in Nat
        /\ Max(D) <= Max(D \ {i}) /\ Max(D \ {i}) <= Max(D)
    BY <1>4, <1>5, <1>6, <2>1, Zenon
  <2> QED  BY <2>2
<1>8. D # {} /\ D \ {i} # {}
  BY <1>5, <1>6
<1> QED  BY <1>1, <1>7, <1>8 DEF available_primary_key, D

-----------------------------------------------------------------------------
\* The calls of a transaction, one by one.

\* At most one id is handed out.
IdsGrow == Floor' = Floor \/ Floor' = Floor + 1

\* What a call on address a that keeps the row, or makes one, leaves behind.
LEMMA UpdateAccountKeeps ==
    ASSUME Core, NEW a \in Addrs, NEW d \in Datas, update_account(a, d)
    PROVE  Core' /\ IdsGrow /\ \A b \in Addrs \ {a} : SameAt(account, account', b)
<1> DEFINE s == IF stage[a] = "missing" THEN "new" ELSE "done"
<1>1. /\ phase = "tx" /\ stage[a] \in {"present", "missing", "coded"}
      /\ stage' = [stage EXCEPT ![a] = s]
      /\ UNCHANGED <<codes, storage, gcstore, config2, phase, max>>
  BY DEF update_account, NextStage
<1>2. s \in Stages /\ (stage[a] = "missing" <=> s = "new") /\ s \in {"new", "done"}
  BY DEF Stages
<1> HIDE DEF s
<1>3. StageFits(account, stage[a], a)
  BY DEF Core
<1>4. CASE HasRow(a)
  <2> DEFINE i == IdOf(a)
  <2>1. i \in DOMAIN account /\ account[i].eth_address = a /\ account[i] \in AccountRow
    BY <1>4, RowOf DEF Core, AccountsOK
  <2> HIDE DEF i
  <2>2. account' = [account EXCEPT ![i].data = d] /\ _config2' = _config2
    BY <1>4 DEF update_account, i
  <2>3. /\ DOMAIN account' = DOMAIN account
        /\ \A j \in DOMAIN account : j # i => account'[j] = account[j]
        /\ account'[i] \in AccountRow
        /\ account'[i].eth_address = a
        /\ account'[i].code_id = account[i].code_id
        /\ account'[i].frozen = account[i].frozen
    BY <2>1, <2>2 DEF AccountRow
  <2>4. \A j \in DOMAIN account : /\ account'[j] \in AccountRow
                                  /\ account'[j].eth_address = account[j].eth_address
                                  /\ account'[j].code_id = account[j].code_id
                                  /\ account'[j].frozen = account[j].frozen
    BY <2>1, <2>3 DEF Core, AccountsOK
  <2>5. AccountsOK(account') /\ CodesOK(account', codes')
    <3>1. AccountsOK(account') /\ CodesOK(account', codes)
      BY <2>3, <2>4, ModifyKeeps DEF Core
    <3> QED  BY <1>1, <3>1
  <2>6. \A b \in Addrs \ {a} : SameAt(account, account', b)
    BY <2>1, <2>3 DEF SameAt
  <2>7. StageFits(account', s, a)
    BY <1>1, <1>2, <1>3, <2>1, <2>3, <2>4 DEF StageFits
  <2>8. Floor' = Floor /\ IdsGrow
    BY <1>1, <2>2, <2>3, SameFloor DEF IdsGrow
  <2>9. IdsOK'
    BY <1>1, <2>3, <2>8, IdsAfterRemove, SMTT(30)
  <2> QED  BY <1>1, <1>2, <2>2, <2>5, <2>6, <2>7, <2>8, <2>9, TxKeeps, Zenon DEF Core, FieldsOK
<1>5. CASE ~HasRow(a)
  <2>1. CreateIn(account, a, d, None)
    BY <1>5 DEF update_account
  <2>2. \A i \in DOMAIN account : account[i].eth_address # a
    BY <1>5, SMTT(30) DEF HasRow
  <2>3. /\ DOMAIN account' = DOMAIN account \cup {Floor}
        /\ account'[Floor] = NewRow(a, d, None)
        /\ \A i \in DOMAIN account : account'[i] = account[i]
        /\ AccountsOK(account') /\ CodesOK(account', codes)
        /\ Floor \in Nat /\ _config2' = Floor + 1 /\ Floor' = Floor + 1
        /\ \A g \in DOMAIN gcstore : gcstore[g] # Floor
        /\ \A b \in Addrs \ {a} : SameAt(account, account', b)
    BY <1>1, <2>1, <2>2, CreateHere, Zenon
  <2>4. /\ NewRow(a, d, None).eth_address = a /\ NewRow(a, d, None).code_id = None
        /\ NewRow(a, d, None).frozen = FALSE
    BY DEF NewRow
  <2>5. StageFits(account', s, a)
    BY <1>2, <2>2, <2>3, <2>4 DEF StageFits
  <2>6. IdsOK'
    BY <1>1, <2>3, IdsAfterCreate
  <2>7. _config2' \in Nat \cup {None} /\ CodesOK(account', codes')
    <3>1. _config2' \in Nat \cup {None}
      BY <2>3
    <3>2. CodesOK(account', codes')
      BY <1>1, <2>3, Zenon
    <3> QED  BY <3>1, <3>2
  <2>8. IdsGrow
    BY <2>3 DEF IdsGrow
  <2> QED  BY <1>1, <1>2, <2>3, <2>5, <2>6, <2>7, <2>8, TxKeeps, Zenon DEF Core, FieldsOK
<1> QED  BY <1>4, <1>5


\* Taking away the account with id i changes nothing at other addresses.
LEMMA WithoutRow ==
    ASSUME AccountsOK(account), NEW i \in DOMAIN account
    PROVE  /\ DOMAIN Without(i) = DOMAIN account \ {i}
           /\ \A j \in DOMAIN Without(i) : Without(i)[j] = account[j]
           /\ \A j \in DOMAIN Without(i) : Without(i)[j].eth_address # account[i].eth_address
           /\ \A b : b # account[i].eth_address => SameAt(account, Without(i), b)
<1>1. /\ DOMAIN Without(i) = DOMAIN account \ {i}
      /\ \A j \in DOMAIN Without(i) : Without(i)[j] = account[j]
  BY DEF Without, Erase
<1>2. \A j \in DOMAIN Without(i) : Without(i)[j].eth_address # account[i].eth_address
  BY <1>1 DEF AccountsOK
<1>3. \A b : b # account[i].eth_address => SameAt(account, Without(i), b)
  BY <1>1 DEF SameAt
<1> QED  BY <1>1, <1>2, <1>3

LEMMA SameTrans ==
    ASSUME NEW t, NEW u, NEW v, NEW b, SameAt(t, u, b), SameAt(u, v, b)
    PROVE  SameAt(t, v, b)
BY SMTT(30) DEF SameAt

LEMMA IncarnationKeeps ==
    ASSUME Core, TopKept, NEW a \in Addrs, NEW d \in Datas, update_account_incarnation(a, d)
    PROVE  Core' /\ IdsGrow /\ \A b \in Addrs \ {a} : SameAt(account, account', b)
<1> DEFINE i == IdOf(a)
<1>1. /\ phase = "tx" /\ stage[a] = "present"
      /\ stage' = [stage EXCEPT ![a] = "new"]
      /\ UNCHANGED <<storage, config2, phase, max>>
      /\ gcstore' = Queued(i) /\ codes' = Released(account[i].code_id)
      /\ CreateIn(Without(i), a, d, None)
  BY DEF update_account_incarnation, NextStage, remove_account
<1>2. HasRow(a)
  BY <1>1 DEF Core, StageFits, HasRow
<1>3. i \in DOMAIN account /\ account[i].eth_address = a
  BY <1>2, RowOf
<1> HIDE DEF i
<1>4. AccountsOK(Without(i)) /\ CodesOK(Without(i), codes')
  BY <1>1, <1>3, RemoveKeeps DEF Core
<1>5. /\ DOMAIN Without(i) = DOMAIN account \ {i}
      /\ \A j \in DOMAIN Without(i) : Without(i)[j].eth_address # a
      /\ \A b : b # a => SameAt(account, Without(i), b)
  BY <1>3, WithoutRow, Zenon DEF Core
<1>6. /\ DOMAIN account' = DOMAIN Without(i) \cup {Floor}
      /\ account'[Floor] = NewRow(a, d, None)
      /\ \A j \in DOMAIN Without(i) : account'[j] = Without(i)[j]
      /\ AccountsOK(account') /\ CodesOK(account', codes')
      /\ Floor \in Nat /\ Floor \notin DOMAIN account
      /\ _config2' = Floor + 1 /\ Floor' = Floor + 1
      /\ \A g \in DOMAIN gcstore : gcstore[g] # Floor
      /\ \A b \in Addrs \ {a} : SameAt(Without(i), account', b)
  <2>1. /\ DOMAIN Without(i) \subseteq DOMAIN account /\ UNCHANGED config2
        /\ SameNext(Without(i))
    BY <1>1, <1>3, <1>5, TopStays
  <2> DEFINE t == Without(i)
             cod == Released(account[i].code_id)
  <2>2. AccountsOK(t) /\ CodesOK(t, cod) /\ CreateIn(t, a, d, None) /\ codes' = cod
    BY <1>1, <1>4
  <2>3. /\ DOMAIN t \subseteq DOMAIN account /\ \A j \in DOMAIN t : t[j].eth_address # a
        /\ SameNext(t) /\ UNCHANGED config2
    BY <1>5, <2>1
  <2> HIDE DEF t, cod
  <2>4. CreatedFrom(t, cod, a, d)
    BY <2>2, <2>3, CreateStep, ZenonT(40)
  <2> QED  BY <2>2, <2>4, Zenon DEF t, CreatedFrom
<1>7. \A b \in Addrs \ {a} : SameAt(account, account', b)
  BY <1>5, <1>6, SameTrans
<1>8. /\ NewRow(a, d, None).eth_address = a /\ NewRow(a, d, None).code_id = None
      /\ NewRow(a, d, None).frozen = FALSE
  BY DEF NewRow
<1>9. StageFits(account', "new", a)
  BY <1>5, <1>6, <1>8, SMTT(30) DEF StageFits
<1>10. QueueOK(gcstore') /\ \A g \in DOMAIN gcstore' :
              gcstore'[g] = i \/ \E h \in DOMAIN gcstore : gcstore[h] = gcstore'[g]
  <2>1. gcstore' = Queued(i)
    BY <1>1
  <2> QED  BY <1>3, <2>1, QueueGrows, ZenonT(40)
<1>11. IdsOK'
  <2>1. i \in DOMAIN account \ DOMAIN account'
    BY <1>3, <1>5, <1>6
  <2>2. DOMAIN account' \subseteq DOMAIN account \cup {Floor}
    BY <1>5, <1>6, SMTT(30)
  <2> QED  BY <1>6, <1>10, <2>1, <2>2, IdsAfterCreate, SMTT(30)
<1>12. _config2' \in Nat \cup {None} /\ "new" \in Stages
  BY <1>6 DEF Stages
<1>13. IdsGrow
  BY <1>6 DEF IdsGrow
<1> QED  BY <1>1, <1>6, <1>7, <1>9, <1>10, <1>11, <1>12, <1>13, TxKeeps, Zenon DEF Core, FieldsOK

\* The part that removal by a transaction and by the administrator share.
LEMMA RemovalKeeps ==
    ASSUME Core, TopKept, NEW i \in DOMAIN account, remove_account(i), account' = Without(i),
           UNCHANGED <<config2, _config2>>
    PROVE  /\ AccountsOK(account') /\ CodesOK(account', codes')
           /\ QueueOK(gcstore') /\ IdsOK' /\ IdsGrow
           /\ \A j \in DOMAIN account' : account'[j].eth_address # account[i].eth_address
           /\ \A b : b # account[i].eth_address => SameAt(account, account', b)
<1>1. gcstore' = Queued(i) /\ codes' = Released(account[i].code_id)
  BY DEF remove_account
<1>2. AccountsOK(account') /\ CodesOK(account', codes')
  BY <1>1, RemoveKeeps, SMTT(30) DEF Core
<1>3. /\ DOMAIN account' = DOMAIN account \ {i}
      /\ \A j \in DOMAIN account' : account'[j].eth_address # account[i].eth_address
      /\ \A b : b # account[i].eth_address => SameAt(account, account', b)
  BY WithoutRow, ZenonT(40) DEF Core
<1>4. QueueOK(gcstore') /\ \A g \in DOMAIN gcstore' :
              gcstore'[g] = i \/ \E h \in DOMAIN gcstore : gcstore[h] = gcstore'[g]
  BY <1>1, QueueGrows
<1>5. Floor' = Floor /\ IdsGrow
  <2>1. Unset => available_primary_key(account') = available_primary_key(account)
    BY <1>1, TopStays DEF SameNext
  <2> QED  BY <2>1 DEF Floor, Unset, IdsGrow
<1>6. IdsOK'
  BY <1>3, <1>4, <1>5, IdsAfterRemove, SMTT(30)
<1> QED  BY <1>2, <1>3, <1>4, <1>5, <1>6, SMTT(30)

LEMMA RemovedKeeps ==
    ASSUME Core, TopKept, NEW a \in Addrs, update_account_removed(a)
    PROVE  Core' /\ IdsGrow /\ \A b \in Addrs \ {a} : SameAt(account, account', b)
<1> DEFINE i == IdOf(a)
<1>1. /\ phase = "tx" /\ stage[a] = "present"
      /\ stage' = [stage EXCEPT ![a] = "removed"]
      /\ UNCHANGED <<storage, config2, phase, _config2, max>>
      /\ remove_account(i) /\ account' = Without(i)
  BY DEF update_account_removed, NextStage
<1>2. HasRow(a)
  BY <1>1, SMTT(30) DEF Core, StageFits, HasRow
<1>3. i \in DOMAIN account /\ account[i].eth_address = a
  BY <1>2, RowOf, Zenon
<1> HIDE DEF i
<1>4. /\ AccountsOK(account') /\ CodesOK(account', codes')
      /\ QueueOK(gcstore') /\ IdsOK' /\ IdsGrow
      /\ \A j \in DOMAIN account' : account'[j].eth_address # a
      /\ \A b : b # a => SameAt(account, account', b)
  BY <1>1, <1>3, RemovalKeeps
<1>5. StageFits(account', "removed", a)
  BY <1>4 DEF StageFits
<1>6. _config2' \in Nat \cup {None} /\ "removed" \in Stages
  BY <1>1 DEF Stages, Core, FieldsOK
<1> QED  BY <1>1, <1>4, <1>5, <1>6, TxKeeps, Zenon DEF Core, FieldsOK

LEMMA CodeKeeps ==
    ASSUME Core, NEW a \in Addrs, NEW h \in Hashes, update_account_code(a, h)
    PROVE  Core' /\ IdsGrow /\ \A b \in Addrs \ {a} : SameAt(account, account', b)
<1> DEFINE s == IF stage[a] = "missing" THEN "coded" ELSE "done"
           c == SharedId(h)
<1>1. /\ phase = "tx" /\ stage[a] \in {"missing", "new"}
      /\ codes' = Shared(h)
      /\ stage' = [stage EXCEPT ![a] = s]
      /\ UNCHANGED <<storage, gcstore, config2, phase, max>>
  BY DEF update_account_code, NextStage
<1>2. s \in Stages /\ s \in {"coded", "done"}
  BY SMTT(30) DEF Stages
<1> HIDE DEF s
<1>3. StageFits(account, stage[a], a)
  BY DEF Core
<1>4. c \in Nat
  BY AvailableKey DEF Core, CodesOK, KeysOK, SharedId, HasCode, CodeOf
<1>5. CASE HasRow(a)
  <2> DEFINE i == IdOf(a)
  <2>1. i \in DOMAIN account /\ account[i].eth_address = a /\ account[i] \in AccountRow
    BY <1>5, RowOf DEF Core, AccountsOK
  <2> HIDE DEF i
  <2>2. account' = [account EXCEPT ![i].code_id = c] /\ _config2' = _config2
    BY <1>5 DEF update_account_code, i
  <2>3. account[i].code_id = None /\ ~account[i].frozen
    BY <1>1, <1>3, <2>1 DEF StageFits
  <2> HIDE DEF c
  <2>5. /\ DOMAIN account' = DOMAIN account
        /\ \A j \in DOMAIN account : j # i => account'[j] = account[j]
        /\ account'[i].eth_address = a
        /\ account'[i].frozen = account[i].frozen
        /\ account'[i].code_id = c
        /\ account'[i] \in AccountRow
    BY <1>4, <2>1, <2>2, Zenon DEF AccountRow
  <2>4. AccountsOK(account') /\ CodesOK(account', codes')
    BY <1>1, <2>1, <2>3, <2>5, ShareKeeps DEF Core, c
  <2>6. \A b \in Addrs \ {a} : SameAt(account, account', b)
    BY <2>1, <2>5, SMTT(30) DEF SameAt
  <2>7. StageFits(account', s, a)
    BY <1>2, <2>1, <2>3, <2>4, <2>5, SMTT(30) DEF StageFits, AccountsOK
  <2>8. Floor' = Floor /\ IdsGrow
    BY <1>1, <2>2, <2>5, SameFloor, SMTT(30) DEF IdsGrow
  <2>9. IdsOK'
    <3>1. DOMAIN account' \subseteq DOMAIN account /\ Floor' = Floor
      BY <2>5, <2>8, Zenon
    <3>2. \A g \in DOMAIN gcstore' : \E k \in DOMAIN gcstore : gcstore[k] = gcstore'[g]
      BY <1>1, Zenon
    <3> QED  BY <3>1, <3>2, IdsAfterRemove, Zenon
  <2> QED  BY <1>1, <1>2, <2>2, <2>4, <2>6, <2>7, <2>8, <2>9, TxKeeps, Zenon DEF Core, FieldsOK
<1>6. CASE ~HasRow(a)
  <2> DEFINE blank == Emplace(account, Floor, NewRow(a, 0, None))
  <2>1. \A i \in DOMAIN account : account[i].eth_address # a
    BY <1>6 DEF HasRow
  <2>2. /\ get_next_account_id(account) = Floor /\ Floor \in Nat
        /\ Floor \notin DOMAIN account
        /\ \A g \in DOMAIN gcstore : gcstore[g] # Floor
    BY NextIdHere
  <2>3. /\ Floor \in Ids
        /\ account' = Emplace(account, Floor, NewRow(a, 0, c))
        /\ _config2' = Floor + 1
    BY <1>6, <2>2, Zenon DEF update_account_code, CreateIn, NewRow
  <2>4. AccountsOK(blank) /\ CodesOK(blank, codes)
    BY <2>1, <2>2, <2>3, CreateKeeps, StoreAssumption DEF Core
  <2>5. /\ DOMAIN blank = DOMAIN account \cup {Floor}
        /\ blank[Floor] = NewRow(a, 0, None)
        /\ \A j \in DOMAIN account : blank[j] = account[j]
    BY <2>2 DEF Emplace
  <2>6. /\ DOMAIN account' = DOMAIN account \cup {Floor}
        /\ account'[Floor] = NewRow(a, 0, c)
        /\ \A j \in DOMAIN account : account'[j] = account[j]
    BY <2>2, <2>3 DEF Emplace
  <2> HIDE DEF blank, c
  <2>9. /\ NewRow(a, 0, None).code_id = None /\ NewRow(a, 0, None).eth_address = a
        /\ NewRow(a, 0, c).eth_address = a /\ NewRow(a, 0, c).frozen = FALSE
        /\ NewRow(a, 0, c).code_id = c /\ NewRow(a, 0, c) \in AccountRow
    BY <1>4, StoreAssumption, Zenon DEF NewRow, AccountRow
  <2>10. AccountsOK(account') /\ CodesOK(account', codes')
    BY <1>1, <2>2, <2>4, <2>5, <2>6, <2>9, ShareKeeps, SMTT(30) DEF c
  <2>11. \A b \in Addrs \ {a} : SameAt(account, account', b)
    BY <2>2, <2>6, <2>9, Zenon DEF SameAt
  <2>12. StageFits(account', s, a)
    BY <1>2, <2>1, <2>6, <2>9, SMTT(30) DEF StageFits
  <2>13. Floor' = Floor + 1 /\ _config2' \in Nat \cup {None}
    BY <2>2, <2>3, SMTT(30) DEF Floor, None
  <2>14. IdsOK'
    BY <1>1, <2>2, <2>6, <2>13, IdsAfterCreate
  <2>15. IdsGrow
    BY <2>13 DEF IdsGrow
  <2> QED  BY <1>1, <1>2, <2>10, <2>11, <2>12, <2>13, <2>14, <2>15, TxKeeps, Zenon DEF Core, FieldsOK
<1> QED  BY <1>5, <1>6


\* Writing one slot of a scope keeps the type of the storage.
LEMMA SlotWritten ==
    ASSUME FieldsOK, NEW i \in Ids, NEW k \in Keys, NEW v \in Values \cup {None},
           storage' = [storage EXCEPT ![i][k] = v]
    PROVE  /\ storage' \in [Ids -> [Keys -> Values \cup {None}]]
           /\ \A j \in Ids \ {i} : storage'[j] = storage[j]
           /\ \A l \in Keys : storage'[i][l] = IF l = k THEN v ELSE storage[i][l]
BY DEF FieldsOK

LEMMA StorageKeeps ==
    ASSUME Core, NEW a \in Addrs, NEW k \in Keys, NEW v \in Values, update_storage(a, k, v)
    PROVE  Core' /\ IdsGrow /\ \A b \in Addrs \ {a} : SameAt(account, account', b)
<1>1. /\ phase = "tx" /\ stage[a] \notin {"unread", "removed"}
      /\ UNCHANGED <<codes, gcstore, config2, phase, stage, max>>
  BY DEF update_storage
<1>2. StageFits(account, stage[a], a) /\ stage[a] \in Stages
  BY DEF Core, FieldsOK
<1>3. stage' = [stage EXCEPT ![a] = stage[a]]
  BY <1>1, Zenon DEF Core, FieldsOK
<1>4. CASE HasRow(a)
  <2>1. IdOf(a) \in Ids
    BY <1>4, RowOf DEF Core, AccountsOK
  <2>2. /\ storage' = [storage EXCEPT ![IdOf(a)][k] = IF v = 0 THEN None ELSE v]
        /\ account' = account /\ _config2' = _config2
    BY <1>4 DEF update_storage
  <2>3. storage' \in [Ids -> [Keys -> Values \cup {None}]]
    <3>1. (IF v = 0 THEN None ELSE v) \in Values \cup {None}
      OBVIOUS
    <3> QED  BY <2>1, <2>2, <3>1, SlotWritten, Zenon DEF Core
  <2>4. \A b \in Addrs \ {a} : SameAt(account, account', b)
    BY <2>2 DEF SameAt
  <2>5. Floor' = Floor /\ IdsGrow
    BY <1>1, <2>2, SameFloor DEF IdsGrow
  <2>6. IdsOK'
    BY <1>1, <2>2, <2>5, IdsAfterRemove
  <2>7. StageFits(account', stage[a], a) /\ AccountsOK(account') /\ CodesOK(account', codes')
    BY <1>1, <1>2, <2>2, SMTT(30) DEF Core
  <2> QED  BY <1>1, <1>2, <1>3, <2>2, <2>3, <2>4, <2>5, <2>6, <2>7, TxKeeps, Zenon DEF Core, FieldsOK
<1>5. CASE ~HasRow(a)
  <2>1. CreateIn(account, a, 0, None) /\ v # 0
    BY <1>5 DEF update_storage
  <2>2. \A i \in DOMAIN account : account[i].eth_address # a
    BY <1>5, SMTT(30) DEF HasRow
  <2>3. /\ DOMAIN account' = DOMAIN account \cup {Floor}
        /\ account'[Floor] = NewRow(a, 0, None)
        /\ \A i \in DOMAIN account : account'[i] = account[i]
        /\ AccountsOK(account') /\ CodesOK(account', codes)
        /\ Floor \in Ids /\ Floor \in Nat /\ _config2' = Floor + 1 /\ Floor' = Floor + 1
        /\ \A g \in DOMAIN gcstore : gcstore[g] # Floor
        /\ \A b \in Addrs \ {a} : SameAt(account, account', b)
    BY <1>1, <2>1, <2>2, CreateHere, StoreAssumption, Zenon
  <2>4. /\ NewRow(a, 0, None).eth_address = a /\ NewRow(a, 0, None).code_id = None
        /\ NewRow(a, 0, None).frozen = FALSE
    BY Zenon DEF NewRow
  <2>5. StageFits(account', stage[a], a)
    BY <1>2, <2>2, <2>3, <2>4 DEF StageFits
  <2>6. IdsOK'
    BY <1>1, <2>3, IdsAfterCreate, Zenon
  <2>7. _config2' \in Nat \cup {None} /\ CodesOK(account', codes')
    <3>1. _config2' \in Nat \cup {None}
      BY <2>3
    <3>2. CodesOK(account', codes')
      BY <1>1, <2>3, Zenon
    <3> QED  BY <3>1, <3>2, SMTT(30)
  <2>8. storage' \in [Ids -> [Keys -> Values \cup {None}]]
    <3>1. get_next_account_id(account) = Floor
      BY NextIdHere
    <3>2. storage' = [storage EXCEPT ![Floor][k] = v]
      BY <1>5, <3>1 DEF update_storage
    <3> QED  BY <2>3, <3>2, SlotWritten, Zenon DEF Core
  <2>9. IdsGrow
    BY <2>3 DEF IdsGrow
  <2> QED  BY <1>1, <1>2, <1>3, <2>3, <2>5, <2>6, <2>7, <2>8, <2>9, TxKeeps, Zenon DEF Core, FieldsOK
<1> QED  BY <1>4, <1>5

-----------------------------------------------------------------------------
\* The steps outside a transaction.

LEMMA IdleFits ==
    ASSUME FieldsOK, phase # "tx", NEW acc, NEW a \in Addrs
    PROVE  StageFits(acc, stage[a], a)
BY DEF FieldsOK, Unread, StageFits

LEMMA CoreInit == Init => Core
<1> SUFFICES ASSUME Init PROVE Core
  OBVIOUS
<1>1. DOMAIN account = {} /\ DOMAIN codes = {} /\ DOMAIN gcstore = {}
  BY DEF Init, NoRows
<1>2. AccountsOK(account) /\ CodesOK(account, codes) /\ QueueOK(gcstore) /\ IdsOK
  BY <1>1, FS_EmptySet DEF AccountsOK, CodesOK, QueueOK, IdsOK, KeysOK
<1>3. FieldsOK
  BY DEF Init, FieldsOK, Unread, Stages, None
<1>4. \A a \in Addrs : StageFits(account, stage[a], a)
  BY <1>3, IdleFits DEF Init
<1> QED  BY <1>2, <1>3, <1>4 DEF Core

LEMMA ExecuteKeeps ==
    ASSUME Core, NEW S \in SUBSET Addrs, Execute(S)
    PROVE  Core'
<1>1. /\ phase = "idle" /\ phase' = "tx" /\ UNCHANGED <<tables, _config2, max>>
      /\ \A a \in S : MayRead(a)
      /\ stage' = [a \in Addrs |-> IF a \notin S THEN "unread"
                                   ELSE IF HasRow(a) THEN "present" ELSE "missing"]
  BY DEF Execute
<1>2. UNCHANGED <<account, codes, storage, gcstore, config2>>
  BY <1>1 DEF tables
<1>3. FieldsOK'
  BY <1>1, <1>2 DEF Core, FieldsOK, Stages
<1>4. IdsOK'
  BY <1>1, <1>2 DEF Core, IdsOK, Floor
<1>5. ASSUME NEW a \in Addrs PROVE StageFits(account, stage'[a], a)
  <2>1. CASE a \notin S
    BY <1>1, <2>1 DEF StageFits
  <2>2. CASE a \in S /\ ~HasRow(a)
    BY <1>1, <2>2 DEF StageFits, HasRow
  <2>3. CASE a \in S /\ HasRow(a)
    <3>1. stage'[a] = "present" /\ ~account[IdOf(a)].frozen
      BY <1>1, <2>3, SMTT(30) DEF MayRead
    <3>2. \A i \in DOMAIN account : account[i].eth_address = a => IdOf(a) = i
      BY RowIs DEF Core
    <3>3. \A i \in DOMAIN account : account[i].eth_address = a => ~account[i].frozen
      BY <3>1, <3>2
    <3> QED  BY <2>3, <3>1, <3>3 DEF StageFits, HasRow
  <2> QED  BY <2>1, <2>2, <2>3
<1> QED  BY <1>2, <1>3, <1>4, <1>5 DEF Core

LEMMA EndTxKeeps ==
    ASSUME Core, EndTx
    PROVE  Core'
<1>1. /\ config2' = ConfigStored /\ phase' = "idle" /\ stage' = Unread /\ _config2' = None
      /\ UNCHANGED <<account, codes, storage, gcstore, max>>
  BY DEF EndTx
<1>2. FieldsOK'
  BY <1>1 DEF Core, FieldsOK, ConfigStored, Unread, Stages
<1>3. Floor' = Floor
  BY <1>1 DEF Floor, ConfigStored, Core, FieldsOK, None
<1>4. IdsOK'
  BY <1>1, <1>3, IdsAfterRemove
<1>5. \A a \in Addrs : StageFits(account', stage'[a], a)
  BY <1>1 DEF StageFits, Unread
<1> QED  BY <1>1, <1>2, <1>4, <1>5 DEF Core

\* Outside a transaction, what keeps the tables in order keeps Core.
LEMMA IdleKeeps ==
    ASSUME Core, phase # "tx", phase' \in {"idle", "gc"}, max' \in Nat,
           UNCHANGED <<config2, stage, _config2>>,
           AccountsOK(account'), CodesOK(account', codes'), QueueOK(gcstore'), IdsOK',
           storage' \in [Ids -> [Keys -> Values \cup {None}]]
    PROVE  Core'
<1>1. FieldsOK'
  BY DEF Core, FieldsOK
<1>2. \A a \in Addrs : StageFits(account', stage'[a], a)
  BY DEF StageFits, Core, FieldsOK, Unread
<1> QED  BY <1>1, <1>2 DEF Core

LEMMA GcKeeps ==
    ASSUME Core, GcCall \/ \E b \in Budgets : gc(b)
    PROVE  Core'
<1>1. CASE \E b \in Budgets : gc(b)
  <2>1. /\ phase = "idle" /\ phase' = "gc" /\ max' \in Nat
        /\ UNCHANGED <<account, codes, storage, gcstore, config2, stage, _config2>>
    BY <1>1, StoreAssumption DEF gc, tables
  <2>2. IdsOK'
    BY <2>1, SMTT(30) DEF Core, IdsOK, Floor
  <2> QED  BY <2>1, <2>2, IdleKeeps DEF Core, FieldsOK
<1>2. CASE gc_slot
  <2>1. /\ phase = "gc" /\ max # 0 /\ DOMAIN gcstore # {} /\ max' = max - 1
        /\ UNCHANGED <<account, codes, gcstore, config2, phase, stage, _config2>>
    BY <1>2 DEF gc_slot
  <2>2. gcstore[First] \in Ids
    BY <2>1, LeastKey DEF First, Core, QueueOK, KeysOK
  <2>3. PICK k \in Keys : storage' = [storage EXCEPT ![gcstore[First]][k] = None]
    BY <1>2, Zenon DEF gc_slot
  <2>4. storage' \in [Ids -> [Keys -> Values \cup {None}]]
    BY <2>2, <2>3, SlotWritten, Zenon DEF Core
  <2>5. IdsOK'
    BY <2>1 DEF Core, IdsOK, Floor
  <2>6. max' \in Nat
    BY <2>1, SMTT(30) DEF Core, FieldsOK
  <2> QED  BY <2>1, <2>4, <2>5, <2>6, IdleKeeps DEF Core
<1>3. CASE gc_row
  <2>1. /\ phase = "gc" /\ max # 0 /\ max' = max - 1 /\ gcstore' = Erase(gcstore, First)
        /\ UNCHANGED <<account, codes, storage, config2, phase, stage, _config2>>
    BY <1>3 DEF gc_row
  <2>2. /\ DOMAIN gcstore' = DOMAIN gcstore \ {First}
        /\ \A g \in DOMAIN gcstore' : gcstore'[g] = gcstore[g]
    BY <2>1 DEF Erase
  <2>3. KeysOK(gcstore')
    BY <2>1, KeysErased, SMTT(30) DEF Core, QueueOK
  <2>4. QueueOK(gcstore')
    BY <2>2, <2>3, Zenon DEF Core, QueueOK
  <2>5. IdsOK'
    BY <2>1, <2>2, Zenon DEF Core, IdsOK, Floor
  <2>6. max' \in Nat
    BY <2>1, SMTT(30) DEF Core, FieldsOK
  <2> QED  BY <2>1, <2>4, <2>5, <2>6, IdleKeeps, SMTT(30) DEF Core, FieldsOK
<1>4. CASE gc_end
  <2>1. /\ phase = "gc" /\ phase' = "idle" /\ max' = 0
        /\ UNCHANGED <<account, codes, storage, gcstore, config2, stage, _config2>>
    BY <1>4 DEF gc_end, tables
  <2>2. IdsOK'
    BY <2>1 DEF Core, IdsOK, Floor
  <2> QED  BY <2>1, <2>2, IdleKeeps DEF Core, FieldsOK
<1> QED  BY <1>1, <1>2, <1>3, <1>4, SMTT(30) DEF GcCall


LEMMA AdminKeeps ==
    ASSUME Core, TopKept, NEW id \in DOMAIN account,
           \/ \E value \in BOOLEAN : freezeaccnt(id, value)
           \/ \E d \in Datas : addevmbal(id, d)
           \/ rmaccount(id)
    PROVE  Core' /\ IdsGrow
<1>1. ASSUME NEW new, DOMAIN new = DOMAIN account,
             \A i \in DOMAIN account : /\ new[i] \in AccountRow
                                       /\ new[i].eth_address = account[i].eth_address
                                       /\ new[i].code_id = account[i].code_id
      PROVE  AccountsOK(new) /\ CodesOK(new, codes)
  BY <1>1, ModifyKeeps, Zenon DEF Core
<1>2. CASE account' # Without(id)
  <2>1. /\ phase = "idle"
        /\ UNCHANGED <<codes, storage, gcstore, config2, phase, stage, _config2, max>>
    BY <1>2 DEF freezeaccnt, addevmbal, rmaccount, running
  <2>2. /\ DOMAIN account' = DOMAIN account
        /\ \A i \in DOMAIN account : /\ account'[i] \in AccountRow
                                     /\ account'[i].eth_address = account[i].eth_address
                                     /\ account'[i].code_id = account[i].code_id
    BY <1>2, SMTT(30) DEF freezeaccnt, addevmbal, rmaccount, Core, AccountsOK, AccountRow
  <2> DEFINE new == account'
  <2>3. /\ DOMAIN new = DOMAIN account
        /\ \A i \in DOMAIN account : /\ new[i] \in AccountRow
                                     /\ new[i].eth_address = account[i].eth_address
                                     /\ new[i].code_id = account[i].code_id
    BY <2>2, Zenon
  <2> HIDE DEF new
  <2>4. AccountsOK(new) /\ CodesOK(new, codes)
    BY <1>1, <2>3, Zenon
  <2>5. AccountsOK(account') /\ CodesOK(account', codes')
    BY <2>1, <2>4, SMTT(30) DEF new
  <2>6. Floor' = Floor /\ IdsGrow
    BY <2>1, <2>2, SameFloor, Zenon DEF IdsGrow
  <2>7. IdsOK'
    BY <2>1, <2>2, <2>6, IdsAfterRemove, Zenon
  <2> QED  BY <2>1, <2>5, <2>6, <2>7, IdleKeeps DEF Core, FieldsOK
<1>3. CASE account' = Without(id) /\ rmaccount(id)
  <2>1. /\ phase = "idle" /\ remove_account(id)
        /\ UNCHANGED <<storage, config2, phase, stage, _config2, max>>
    BY <1>3, SMTT(30) DEF rmaccount, running
  <2>2. AccountsOK(account') /\ CodesOK(account', codes') /\ QueueOK(gcstore') /\ IdsOK' /\ IdsGrow
    BY <1>3, <2>1, RemovalKeeps, Zenon
  <2> QED  BY <2>1, <2>2, IdleKeeps, SMTT(30) DEF Core, FieldsOK
<1>4. CASE account' = Without(id) /\ ~rmaccount(id)
  <2>1. DOMAIN account' = DOMAIN account
    BY <1>4 DEF freezeaccnt, addevmbal
  <2>2. DOMAIN account' = DOMAIN account \ {id}
    BY <1>4 DEF Without, Erase
  <2> QED  BY <2>1, <2>2, Zenon
<1> QED  BY <1>2, <1>3, <1>4

LEMMA QueueErased ==
    ASSUME Core, NEW g, gcstore' = Erase(gcstore, g)
    PROVE  /\ QueueOK(gcstore') /\ DOMAIN gcstore' = DOMAIN gcstore \ {g}
           /\ \A h \in DOMAIN gcstore' : gcstore'[h] = gcstore[h]
<1>1. /\ DOMAIN gcstore' = DOMAIN gcstore \ {g}
      /\ \A h \in DOMAIN gcstore' : gcstore'[h] = gcstore[h]
  BY DEF Erase
<1>2. KeysOK(gcstore')
  BY KeysErased DEF Core, QueueOK
<1> QED  BY <1>1, <1>2 DEF Core, QueueOK

LEMMA RepairKeeps ==
    ASSUME Core,
           \/ \E g \in DOMAIN gcstore : rmgcstore(g)
           \/ \E id \in Ids, k \in Keys, v \in Values \cup {None} : setkvstore(id, k, v)
    PROVE  Core'
<1>1. CASE \E g \in DOMAIN gcstore : rmgcstore(g)
  <2>1. PICK g \in DOMAIN gcstore : rmgcstore(g)
    BY <1>1
  <2>2. /\ phase = "idle" /\ gcstore' = Erase(gcstore, g)
        /\ UNCHANGED <<account, codes, storage, config2, phase, stage, _config2, max>>
    BY <2>1 DEF rmgcstore, running
  <2>3. /\ QueueOK(gcstore') /\ DOMAIN gcstore' \subseteq DOMAIN gcstore
        /\ \A h \in DOMAIN gcstore' : gcstore'[h] = gcstore[h]
    BY <2>2, QueueErased, Zenon
  <2>4. IdsOK'
    BY <2>2, <2>3, Zenon DEF Core, IdsOK, Floor
  <2> QED  BY <2>2, <2>3, <2>4, IdleKeeps DEF Core, FieldsOK
<1>2. CASE \E id \in Ids, k \in Keys, v \in Values \cup {None} : setkvstore(id, k, v)
  <2>1. PICK id \in Ids, k \in Keys, v \in Values \cup {None} : setkvstore(id, k, v)
    BY <1>2, SMTT(30)
  <2>2. /\ phase = "idle" /\ storage' = [storage EXCEPT ![id][k] = v]
        /\ UNCHANGED <<account, codes, gcstore, config2, phase, stage, _config2, max>>
    BY <2>1, SMTT(30) DEF setkvstore, running
  <2>3. storage' \in [Ids -> [Keys -> Values \cup {None}]]
    BY <2>2, SlotWritten, Zenon DEF Core
  <2>4. IdsOK'
    BY <2>2 DEF Core, IdsOK, Floor
  <2> QED  BY <2>2, <2>3, <2>4, IdleKeeps DEF Core, FieldsOK
<1> QED  BY <1>1, <1>2, Zenon

\* A call of a transaction keeps Core and leaves every other address alone.
LEMMA TxCallKeeps ==
    ASSUME Core, TopKept, NEW a \in Addrs, TxCall(a)
    PROVE  Core' /\ IdsGrow /\ \A b \in Addrs \ {a} : SameAt(account, account', b)
BY UpdateAccountKeeps, IncarnationKeeps, RemovedKeeps, CodeKeeps, StorageKeeps DEF TxCall

\* The other steps hand out no id.
LEMMA QuietIds ==
    ASSUME Core,
           \/ \E S \in SUBSET Addrs : Execute(S)
           \/ EndTx
           \/ GcCall \/ \E b \in Budgets : gc(b)
           \/ \E g \in DOMAIN gcstore : rmgcstore(g)
           \/ \E id \in Ids, k \in Keys, v \in Values \cup {None} : setkvstore(id, k, v)
           \/ UNCHANGED vars
    PROVE  IdsGrow
<1>1. CASE EndTx
  <2>1. Floor' = Floor
    BY <1>1 DEF EndTx, Floor, ConfigStored, Core, FieldsOK, None
  <2> QED  BY <2>1 DEF IdsGrow
<1>2. CASE ~EndTx
  <2>1. UNCHANGED <<account, config2, _config2>>
    BY <1>2 DEF Execute, GcCall, gc, gc_slot, gc_row, gc_end, rmgcstore, setkvstore, vars, tables, running
  <2> QED  BY <2>1, SameFloor DEF IdsGrow
<1> QED  BY <1>1, <1>2

\* A step keeps Core if it spares the account with the highest id before ids are
\* handed out, and the next id never decreases.
LEMMA CoreStep ==
    ASSUME Core, TopKept, [RepairNext]_vars
    PROVE  Core' /\ IdsGrow
<1>1. ASSUME NEW S \in SUBSET Addrs, Execute(S) PROVE Core' /\ IdsGrow
  BY <1>1, ExecuteKeeps, QuietIds
<1>2. ASSUME NEW a \in Addrs, TxCall(a) PROVE Core' /\ IdsGrow
  BY <1>2, TxCallKeeps
<1>3. ASSUME EndTx PROVE Core' /\ IdsGrow
  BY <1>3, EndTxKeeps, QuietIds
<1>4. ASSUME GcCall \/ \E b \in Budgets : gc(b) PROVE Core' /\ IdsGrow
  BY <1>4, GcKeeps, QuietIds
<1>5. ASSUME NEW id \in DOMAIN account,
             \/ \E value \in BOOLEAN : freezeaccnt(id, value)
             \/ \E d \in Datas : addevmbal(id, d)
             \/ rmaccount(id)
      PROVE  Core' /\ IdsGrow
  BY <1>5, AdminKeeps
<1>6. ASSUME \/ \E g \in DOMAIN gcstore : rmgcstore(g)
             \/ \E id \in Ids, k \in Keys, v \in Values \cup {None} : setkvstore(id, k, v)
      PROVE  Core' /\ IdsGrow
  BY <1>6, RepairKeeps, QuietIds
<1>7. DOMAIN account \subseteq Ids
  BY SMTT(30) DEF Core, AccountsOK
<1>8. CASE UNCHANGED vars
  <2>1. UNCHANGED <<account, codes, storage, gcstore, config2, phase, stage, _config2, max>>
    BY <1>8 DEF vars, tables, running
  <2>2. Core'
    BY <2>1 DEF Core, FieldsOK, IdsOK, Floor
  <2> QED  BY <1>8, <2>2, QuietIds
<1>9. CASE RepairNext
  BY <1>1, <1>2, <1>3, <1>4, <1>5, <1>6, <1>7, <1>9, ZenonT(60) DEF RepairNext, Next, DropEmptyRow
<1> QED  BY <1>8, <1>9

\* Where the contract has handed out its ids from the first account on, a step
\* spares the account with the highest id because there is none to spare.
LEMMA StartedInit == Init => Started
BY DEF Init, NoRows, Started

LEMMA StartedKept == Started => TopKept
BY DEF Started, TopKept

LEMMA StartedStep ==
    ASSUME Started, [RepairNext]_vars
    PROVE  Started'
<1> DEFINE Done == Unset /\ DOMAIN account' \subseteq DOMAIN account
<1> SUFFICES ASSUME Unset' PROVE Done
  BY Zenon DEF Started
<1>1. ASSUME NEW t, NEW a, NEW d, NEW c, CreateIn(t, a, d, c) PROVE FALSE
  <2>1. get_next_account_id(t) + 1 = None /\ get_next_account_id(t) \in Nat
    BY <1>1, StoreAssumption, Zenon DEF CreateIn, Unset
  <2> QED  BY <2>1 DEF None
<1>2. \A i : DOMAIN Without(i) \subseteq DOMAIN account
  BY DEF Without, Erase
<1>3. ASSUME UNCHANGED <<config2, _config2>>,
             DOMAIN account' = DOMAIN account \/ \E i : account' = Without(i)
      PROVE  Done
  BY <1>2, <1>3 DEF Unset
<1>4. ASSUME NEW a \in Addrs, TxCall(a) PROVE Done
  <2>1. ASSUME NEW d \in Datas, update_account(a, d) PROVE Done
    BY <1>1, <1>3, <2>1, SMTT(30) DEF update_account
  <2>2. ASSUME NEW d \in Datas, update_account_incarnation(a, d) PROVE Done
    BY <1>1, <2>2, Zenon DEF update_account_incarnation
  <2>3. ASSUME update_account_removed(a) PROVE Done
    BY <1>3, <2>3 DEF update_account_removed
  <2>4. ASSUME NEW h \in Hashes, update_account_code(a, h) PROVE Done
    BY <1>1, <1>3, <2>4 DEF update_account_code
  <2>5. ASSUME NEW k \in Keys, NEW v \in Values, update_storage(a, k, v) PROVE Done
    BY <1>1, <1>3, <2>5 DEF update_storage
  <2> QED  BY <1>4, <2>1, <2>2, <2>3, <2>4, <2>5, Zenon DEF TxCall
<1>5. ASSUME NEW id, \/ \E value \in BOOLEAN : freezeaccnt(id, value)
                     \/ \E d \in Datas : addevmbal(id, d)
                     \/ rmaccount(id)
                     \/ \E k, v : setkvstore(id, k, v)
      PROVE  Done
  BY <1>3, <1>5, SMTT(30) DEF freezeaccnt, addevmbal, rmaccount, setkvstore, running
<1>6. ASSUME EndTx PROVE Done
  BY <1>6 DEF EndTx, ConfigStored, Unset
<1>7. ASSUME \/ \E S \in SUBSET Addrs : Execute(S)
             \/ GcCall \/ \E b \in Budgets : gc(b)
             \/ \E g \in DOMAIN gcstore : rmgcstore(g)
             \/ UNCHANGED vars
      PROVE  Done
  BY <1>3, <1>7 DEF Execute, GcCall, gc, gc_slot, gc_row, gc_end, rmgcstore, vars, tables, running
<1> HIDE DEF Done
<1> QED  BY <1>4, <1>5, <1>6, <1>7, ZenonT(60) DEF RepairNext, Next, DropEmptyRow

LEMMA StartedCore ==
    ASSUME Core, Started, [RepairNext]_vars
    PROVE  Core' /\ Started' /\ TopKept
BY CoreStep, StartedStep, StartedKept

LEMMA RepairCore == RepairSpec => [](Core /\ Started)
<1>1. Core /\ Started /\ [RepairNext]_vars => Core' /\ Started'
  BY StartedCore
<1> QED  BY <1>1, CoreInit, StartedInit, PTL DEF RepairSpec

\* What holds with the additional repairs holds without them.
LEMMA NextIsRepair == [Next]_vars => [RepairNext]_vars
BY DEF RepairNext

LEMMA SpecRepairs == Spec => RepairSpec
BY NextIsRepair, PTL DEF Spec, RepairSpec

LEMMA SpecCore == Spec => [](Core /\ Started)
BY SpecRepairs, RepairCore, PTL

\* The same for the specification without repairs of the queue: types.
THEOREM StoreTypes == Spec => []TypeOK
BY SpecCore, CoreImplies, PTL

\* One account per address, though update_account, update_account_code and
\* update_storage all create accounts.
THEOREM OneAccount == Spec => []OneRowPerAddress
BY SpecCore, CoreImplies, PTL

\* Reference counts are exact whatever is shared, replaced and removed.
THEOREM CountsExact == Spec => []RefCountsExact
BY SpecCore, CoreImplies, PTL

-----------------------------------------------------------------------------

\* What is common to the calls of a transaction on address a and the repairs
\* of the account of a: which ids come and go, that at most one scope is queued
\* and only that of an account that goes, which scope is written, and that the
\* hash of a code never changes.
Effect(a) ==
    /\ \A i \in DOMAIN account \ DOMAIN account' : \E g \in DOMAIN gcstore' : gcstore'[g] = i
    /\ \A g \in DOMAIN gcstore : g \in DOMAIN gcstore' /\ gcstore'[g] = gcstore[g]
    /\ \A g \in DOMAIN gcstore' \ DOMAIN gcstore :
          /\ gcstore'[g] \in DOMAIN account /\ gcstore'[g] \notin DOMAIN account'
          /\ \A h \in DOMAIN gcstore' \ DOMAIN gcstore : g = h
    /\ DOMAIN account' \subseteq DOMAIN account \cup {Floor}
    /\ \A i \in Ids : \/ storage'[i] = storage[i]
                      \/ i \in DOMAIN account' /\ account'[i].eth_address = a
    /\ \A c \in DOMAIN codes : c \in DOMAIN codes' => codes'[c].code_hash = codes[c].code_hash

LEMMA HashesStay ==
    ASSUME Core, NEW c, NEW h, NEW d \in DOMAIN codes
    PROVE  /\ d \in DOMAIN Released(c) => Released(c)[d].code_hash = codes[d].code_hash
           /\ d \in DOMAIN Shared(h) => Shared(h)[d].code_hash = codes[d].code_hash
<1>1. codes[d] \in CodeRow
  BY Zenon DEF Core, CodesOK
<1>3. d \in DOMAIN Released(c) => Released(c)[d].code_hash = codes[d].code_hash
  BY <1>1 DEF Released, Erase, CodeRow
<1>4. CASE HasCode(h)
  BY <1>1, <1>3, <1>4, SMTT(30) DEF Shared, CodeRow
<1>5. CASE ~HasCode(h)
  <2>1. SharedId(h) \notin DOMAIN codes
    BY <1>5, AvailableKey, Zenon DEF SharedId, Core, CodesOK
  <2> QED  BY <1>3, <1>5, <2>1, Zenon DEF Shared, Emplace
<1> QED  BY <1>4, <1>5, SMTT(30)

LEMMA QueuedHas ==
    ASSUME Core, NEW i \in DOMAIN account, gcstore' = Queued(i)
    PROVE  /\ \E g \in DOMAIN gcstore' : gcstore'[g] = i
           /\ \A g \in DOMAIN gcstore : g \in DOMAIN gcstore' /\ gcstore'[g] = gcstore[g]
           /\ \A g \in DOMAIN gcstore' \ DOMAIN gcstore :
                 gcstore'[g] = i /\ \A h \in DOMAIN gcstore' \ DOMAIN gcstore : g = h
<1>1. PICK n \in DOMAIN gcstore' \ DOMAIN gcstore :
          gcstore'[n] = i /\ DOMAIN gcstore' = DOMAIN gcstore \cup {n}
  BY QueueGrows, Zenon
<1>2. \A g \in DOMAIN gcstore : g \in DOMAIN gcstore' /\ gcstore'[g] = gcstore[g]
  BY QueueGrows, Zenon
<1>3. \A g \in DOMAIN gcstore' \ DOMAIN gcstore : g = n
  BY <1>1
<1> QED  BY <1>1, <1>2, <1>3, Zenon

LEMMA CreatedDomain ==
    ASSUME Core, NEW t, SameNext(t), NEW a, NEW d, NEW c, CreateIn(t, a, d, c)
    PROVE  /\ DOMAIN account' = DOMAIN t \cup {Floor} /\ Floor \in Ids
           /\ account'[Floor].eth_address = a
           /\ get_next_account_id(t) = Floor
<1>1. get_next_account_id(t) = Floor
  BY NextIdNew
<1>2. /\ Floor \in Ids
      /\ account' = Emplace(t, Floor, [eth_address |-> a, data |-> d, code_id |-> c,
                                      frozen |-> FALSE])
  BY <1>1 DEF CreateIn
<1> QED  BY <1>1, <1>2 DEF Emplace

LEMMA CreatedHereDomain ==
    ASSUME Core, NEW a, NEW d, NEW c, CreateIn(account, a, d, c)
    PROVE  /\ DOMAIN account' = DOMAIN account \cup {Floor} /\ Floor \in Ids
           /\ account'[Floor].eth_address = a
           /\ get_next_account_id(account) = Floor
BY CreatedDomain DEF SameNext

LEMMA UpdateEffect ==
    ASSUME Core, NEW a \in Addrs, NEW d \in Datas, update_account(a, d)
    PROVE  Effect(a)
<1>1. UNCHANGED <<codes, storage, gcstore>>
  BY SMTT(30) DEF update_account
<1>2. CASE HasRow(a)
  <2>1. DOMAIN account' = DOMAIN account
    BY <1>2 DEF update_account
  <2> QED  BY <1>1, <2>1 DEF Effect
<1>3. CASE ~HasRow(a)
  <2>1. CreateIn(account, a, d, None)
    BY <1>3 DEF update_account
  <2>2. DOMAIN account' = DOMAIN account \cup {Floor}
    BY <2>1, CreatedHereDomain, Zenon
  <2> QED  BY <1>1, <2>2, SMTT(30) DEF Effect
<1> QED  BY <1>2, <1>3

LEMMA IncarnationEffect ==
    ASSUME Core, TopKept, NEW a \in Addrs, NEW d \in Datas, update_account_incarnation(a, d)
    PROVE  Effect(a)
<1>1. /\ phase = "tx" /\ stage[a] = "present" /\ remove_account(IdOf(a))
      /\ CreateIn(Without(IdOf(a)), a, d, None) /\ UNCHANGED storage
  BY SMTT(30) DEF update_account_incarnation
<1>2. IdOf(a) \in DOMAIN account
  BY <1>1, RowOf, Zenon DEF Core, StageFits, HasRow
<1>3. DOMAIN Without(IdOf(a)) = DOMAIN account \ {IdOf(a)}
  BY SMTT(30) DEF Without, Erase
<1>5. gcstore' = Queued(IdOf(a)) /\ codes' = Released(account[IdOf(a)].code_id)
  BY <1>1, Zenon DEF remove_account
<1>4. DOMAIN account' = (DOMAIN account \ {IdOf(a)}) \cup {Floor}
  <2>1. SameNext(Without(IdOf(a)))
    BY <1>2, <1>5, TopStays
  <2> QED  BY <1>1, <1>3, <2>1, CreatedDomain, ZenonT(40)
<1>6. \A c \in DOMAIN codes : c \in DOMAIN codes' => codes'[c].code_hash = codes[c].code_hash
  BY <1>5, HashesStay, ZenonT(40)
<1>7. IdOf(a) \notin DOMAIN account'
  <2>1. Floor \notin DOMAIN account
    BY NextIdHere, Zenon
  <2> QED  BY <1>2, <1>4, <2>1, Zenon
<1>8. /\ \E g \in DOMAIN gcstore' : gcstore'[g] = IdOf(a)
      /\ \A g \in DOMAIN gcstore : g \in DOMAIN gcstore' /\ gcstore'[g] = gcstore[g]
      /\ \A g \in DOMAIN gcstore' \ DOMAIN gcstore :
            gcstore'[g] = IdOf(a) /\ \A h \in DOMAIN gcstore' \ DOMAIN gcstore : g = h
  BY <1>2, <1>5, QueuedHas, Zenon
<1> QED  BY <1>1, <1>2, <1>4, <1>6, <1>7, <1>8, ZenonT(40) DEF Effect

LEMMA RemovalEffect ==
    ASSUME Core, NEW i \in DOMAIN account, NEW a, remove_account(i), account' = Without(i),
           UNCHANGED storage
    PROVE  Effect(a)
<1>1. DOMAIN account' = DOMAIN account \ {i}
  BY SMTT(30) DEF Without, Erase
<1>2. gcstore' = Queued(i) /\ codes' = Released(account[i].code_id)
  BY SMTT(30) DEF remove_account
<1>3. \A c \in DOMAIN codes : c \in DOMAIN codes' => codes'[c].code_hash = codes[c].code_hash
  BY <1>2, HashesStay
<1>4. /\ \E g \in DOMAIN gcstore' : gcstore'[g] = i
      /\ \A g \in DOMAIN gcstore : g \in DOMAIN gcstore' /\ gcstore'[g] = gcstore[g]
      /\ \A g \in DOMAIN gcstore' \ DOMAIN gcstore :
            gcstore'[g] = i /\ \A h \in DOMAIN gcstore' \ DOMAIN gcstore : g = h
  BY <1>2, QueuedHas, Zenon
<1> QED  BY <1>1, <1>3, <1>4, ZenonT(40) DEF Effect

LEMMA RemovedEffect ==
    ASSUME Core, NEW a \in Addrs, update_account_removed(a)
    PROVE  Effect(a)
<1>1. /\ phase = "tx" /\ stage[a] = "present" /\ remove_account(IdOf(a))
      /\ account' = Without(IdOf(a)) /\ UNCHANGED storage
  BY Zenon DEF update_account_removed
<1>2. IdOf(a) \in DOMAIN account
  BY <1>1, RowOf DEF Core, StageFits, HasRow
<1> QED  BY <1>1, <1>2, RemovalEffect, SMTT(30)

LEMMA CodeEffect ==
    ASSUME Core, NEW a \in Addrs, NEW h \in Hashes, update_account_code(a, h)
    PROVE  Effect(a)
<1>1. UNCHANGED <<storage, gcstore>> /\ codes' = Shared(h)
  BY SMTT(30) DEF update_account_code
<1>2. \A c \in DOMAIN codes : c \in DOMAIN codes' => codes'[c].code_hash = codes[c].code_hash
  BY <1>1, HashesStay, ZenonT(40)
<1>3. CASE HasRow(a)
  <2>1. DOMAIN account' = DOMAIN account
    BY <1>3, SMTT(30) DEF update_account_code
  <2> QED  BY <1>1, <1>2, <2>1 DEF Effect
<1>4. CASE ~HasRow(a)
  <2>1. CreateIn(account, a, 0, SharedId(h))
    BY <1>4, Zenon DEF update_account_code
  <2>2. DOMAIN account' = DOMAIN account \cup {Floor}
    BY <2>1, CreatedHereDomain
  <2> QED  BY <1>1, <1>2, <2>2 DEF Effect
<1> QED  BY <1>3, <1>4

LEMMA StorageEffect ==
    ASSUME Core, NEW a \in Addrs, NEW k \in Keys, NEW v \in Values, update_storage(a, k, v)
    PROVE  Effect(a)
<1>1. UNCHANGED <<codes, gcstore>>
  BY DEF update_storage
<1>2. storage \in [Ids -> [Keys -> Values \cup {None}]]
  BY DEF Core, FieldsOK
<1>3. CASE HasRow(a)
  <2>1. IdOf(a) \in DOMAIN account /\ account[IdOf(a)].eth_address = a
    BY <1>3, RowOf
  <2>2. /\ account' = account
        /\ storage' = [storage EXCEPT ![IdOf(a)][k] = IF v = 0 THEN None ELSE v]
    BY <1>3 DEF update_storage
  <2>3. \A i \in Ids \ {IdOf(a)} : storage'[i] = storage[i]
    BY <1>2, <2>2, Zenon
  <2> QED  BY <1>1, <2>1, <2>2, <2>3, SMTT(30) DEF Effect
<1>4. CASE ~HasRow(a)
  <2>1. /\ CreateIn(account, a, 0, None)
        /\ storage' = [storage EXCEPT ![get_next_account_id(account)][k] = v]
    BY <1>4 DEF update_storage
  <2>2. /\ DOMAIN account' = DOMAIN account \cup {Floor} /\ account'[Floor].eth_address = a
        /\ get_next_account_id(account) = Floor
    BY <2>1, CreatedHereDomain, Zenon
  <2>3. \A i \in Ids \ {Floor} : storage'[i] = storage[i]
    BY <1>2, <2>1, <2>2
  <2> QED  BY <1>1, <2>2, <2>3, SMTT(30) DEF Effect
<1> QED  BY <1>3, <1>4

LEMMA TxEffect ==
    ASSUME Core, TopKept, NEW a \in Addrs, TxCall(a)
    PROVE  Effect(a)
BY UpdateEffect, IncarnationEffect, RemovedEffect, CodeEffect, StorageEffect DEF TxCall

\* A repair of account id, by address.
AdminCall(id) ==
    \/ \E value \in BOOLEAN : freezeaccnt(id, value)
    \/ \E d \in Datas : addevmbal(id, d)
    \/ rmaccount(id)
    \/ \E k \in Keys, v \in Values \cup {None} : setkvstore(id, k, v)

LEMMA AdminEffect ==
    ASSUME Core, TopKept, NEW id \in DOMAIN account, AdminCall(id)
    PROVE  /\ Effect(account[id].eth_address)
           /\ \A b \in Addrs \ {account[id].eth_address} : SameAt(account, account', b)
<1>1. id \in Ids /\ account[id] \in AccountRow /\ storage \in [Ids -> [Keys -> Values \cup {None}]]
  BY SMTT(30) DEF Core, AccountsOK, FieldsOK
<1>2. ASSUME \/ \E value \in BOOLEAN : freezeaccnt(id, value)
             \/ \E d \in Datas : addevmbal(id, d)
      PROVE  /\ Effect(account[id].eth_address)
             /\ \A b \in Addrs \ {account[id].eth_address} : SameAt(account, account', b)
  <2>1. /\ UNCHANGED <<codes, storage, gcstore>> /\ DOMAIN account' = DOMAIN account
        /\ account'[id].eth_address = account[id].eth_address
        /\ \A i \in DOMAIN account \ {id} : account'[i] = account[i]
    BY <1>1, <1>2, Zenon DEF freezeaccnt, addevmbal, AccountRow
  <2> QED  BY <2>1 DEF Effect, SameAt
<1>3. ASSUME rmaccount(id)
      PROVE  /\ Effect(account[id].eth_address)
             /\ \A b \in Addrs \ {account[id].eth_address} : SameAt(account, account', b)
  <2>1. /\ remove_account(id) /\ account' = Without(id)
        /\ UNCHANGED <<storage, config2, _config2>>
    BY <1>3, Zenon DEF rmaccount, running
  <2> QED  BY <2>1, RemovalEffect, RemovalKeeps, Zenon
<1>4. ASSUME NEW k \in Keys, NEW v \in Values \cup {None}, setkvstore(id, k, v)
      PROVE  /\ Effect(account[id].eth_address)
             /\ \A b \in Addrs \ {account[id].eth_address} : SameAt(account, account', b)
  <2>1. /\ UNCHANGED <<account, codes, gcstore>>
        /\ \A i \in Ids \ {id} : storage'[i] = storage[i]
    BY <1>1, <1>4, Zenon DEF setkvstore
  <2> QED  BY <2>1, SMTT(30) DEF Effect, SameAt
<1> QED  BY <1>2, <1>3, <1>4, SMTT(30) DEF AdminCall

-----------------------------------------------------------------------------
\* Scopes.

LEMMA ScopesEffect ==
    ASSUME Core, ScopesAccounted, NEW a, Effect(a)
    PROVE  ScopesAccounted'
<1> SUFFICES ASSUME NEW i \in Ids
             PROVE  (IsEmpty(i) \/ i \in DOMAIN account \/ \E g \in DOMAIN gcstore : gcstore[g] = i)'
  BY DEF ScopesAccounted
<1>1. CASE i \in DOMAIN account
  BY <1>1, SMTT(30) DEF Effect
<1>2. CASE \E g \in DOMAIN gcstore : gcstore[g] = i
  BY <1>2, SMTT(30) DEF Effect
<1>3. CASE IsEmpty(i)
  <2>1. storage'[i] = storage[i] \/ i \in DOMAIN account'
    BY DEF Effect
  <2> QED  BY <1>3, <2>1, SMTT(30) DEF IsEmpty
<1> QED  BY <1>1, <1>2, <1>3, SMTT(30) DEF ScopesAccounted

\* An account that is new has an id that nothing was stored or queued under.
LEMMA NewEffect ==
    ASSUME Core, Core', ScopesAccounted, NEW a, Effect(a),
           NEW i \in DOMAIN account' \ DOMAIN account
    PROVE  IsEmpty(i) /\ \A g \in DOMAIN gcstore' : gcstore'[g] # i
<1>1. i = Floor
  BY Zenon DEF Effect
<1>2. i \in Ids
  BY SMTT(30) DEF Core, AccountsOK
<1>3. Floor \notin DOMAIN account /\ \A g \in DOMAIN gcstore : gcstore[g] # Floor
  BY NextIdHere, SMTT(30)
<1>4. \A g \in DOMAIN gcstore' : gcstore'[g] # i
  BY <1>1, <1>3, ZenonT(40) DEF Effect
<1> QED  BY <1>1, <1>2, <1>3, <1>4, Zenon DEF ScopesAccounted

\* gc erases only slots of the first scope of the queue, no account's if what is
\* queued is dead, and gc and DropEmptyRow the row of a scope only when there is
\* nothing in it.
LEMMA GcEffect ==
    ASSUME Core, GcCall \/ (\E b \in Budgets : gc(b)) \/ DropEmptyRow
    PROVE  /\ UNCHANGED <<account, codes>>
           /\ GarbageIsDead => \A i \in DOMAIN account : storage'[i] = storage[i]
           /\ ScopesAccounted => ScopesAccounted'
<1>1. CASE (\E b \in Budgets : gc(b)) \/ gc_end
  <2>1. UNCHANGED <<account, codes, storage, gcstore>>
    BY <1>1, Zenon DEF gc, gc_end, tables
  <2> QED  BY <2>1, SMTT(30) DEF ScopesAccounted, IsEmpty
<1>2. CASE gc_slot
  <2>1. DOMAIN gcstore # {} /\ UNCHANGED <<account, codes, gcstore>>
    BY <1>2 DEF gc_slot
  <2>2. gcstore[First] \in Ids /\ First \in DOMAIN gcstore
    BY <2>1, LeastKey, SMTT(30) DEF First, Core, QueueOK, KeysOK
  <2>3. PICK k \in Keys : storage' = [storage EXCEPT ![gcstore[First]][k] = None]
    BY <1>2, Zenon DEF gc_slot
  <2>4. \A j \in Ids \ {gcstore[First]} : storage'[j] = storage[j]
    BY <2>2, <2>3, SlotWritten, SMTT(30) DEF Core
  <2>5. /\ DOMAIN account \subseteq Ids
        /\ GarbageIsDead => gcstore[First] \notin DOMAIN account
    BY <2>2, Zenon DEF Core, AccountsOK, GarbageIsDead
  <2>6. ASSUME ScopesAccounted PROVE ScopesAccounted'
    <3> SUFFICES ASSUME NEW i \in Ids, i # gcstore[First]
                 PROVE  IsEmpty(i)' \/ i \in DOMAIN account'
                        \/ \E g \in DOMAIN gcstore' : gcstore'[g] = i
      BY <2>1, <2>2, SMTT(30) DEF ScopesAccounted
    <3> QED  BY <2>1, <2>4, <2>6, Zenon DEF ScopesAccounted, IsEmpty
  <2> QED  BY <2>1, <2>4, <2>5, <2>6, SMTT(30)
<1>3. ASSUME NEW f \in DOMAIN gcstore, IsEmpty(gcstore[f]), gcstore' = Erase(gcstore, f),
             UNCHANGED <<account, codes, storage>>, ScopesAccounted
      PROVE  ScopesAccounted'
  <2>1. /\ DOMAIN gcstore' = DOMAIN gcstore \ {f}
        /\ \A h \in DOMAIN gcstore' : gcstore'[h] = gcstore[h]
    BY <1>3, QueueErased, Zenon
  <2>2. ASSUME NEW i \in Ids
        PROVE  IsEmpty(i)' \/ i \in DOMAIN account'
               \/ \E g \in DOMAIN gcstore' : gcstore'[g] = i
    <3>1. IsEmpty(i)' <=> IsEmpty(i)
      BY <1>3, SMTT(30) DEF IsEmpty
    <3>2. CASE \E g \in DOMAIN gcstore : gcstore[g] = i
      BY <1>3, <2>1, <3>1, <3>2, Zenon
    <3>3. CASE IsEmpty(i) \/ i \in DOMAIN account
      BY <1>3, <3>1, <3>3
    <3> QED  BY <1>3, <3>2, <3>3, Zenon DEF ScopesAccounted
  <2> QED  BY <2>2 DEF ScopesAccounted
<1>4. CASE gc_row
  <2>1. /\ DOMAIN gcstore # {} /\ UNCHANGED <<account, codes, storage>>
        /\ IsEmpty(gcstore[First]) /\ gcstore' = Erase(gcstore, First)
    BY <1>4, SMTT(30) DEF gc_row, RowDone
  <2>2. First \in DOMAIN gcstore
    BY <2>1, LeastKey, SMTT(30) DEF First, Core, QueueOK, KeysOK
  <2> QED  BY <1>3, <2>1, <2>2, Zenon
<1>5. CASE DropEmptyRow
  <2>1. PICK f \in DOMAIN gcstore : IsEmpty(gcstore[f]) /\ rmgcstore(f)
    BY <1>5 DEF DropEmptyRow
  <2>2. gcstore' = Erase(gcstore, f) /\ UNCHANGED <<account, codes, storage>>
    BY <2>1 DEF rmgcstore
  <2> QED  BY <1>3, <2>1, <2>2, Zenon
<1> QED  BY <1>1, <1>2, <1>4, <1>5, Zenon DEF GcCall

\* A step is a call on an address, or one that leaves accounts and code alone.
LEMMA StepCases ==
    ASSUME Core, [Next]_vars
    PROVE  \/ \E a \in Addrs : TxCall(a)
           \/ \E id \in DOMAIN account : AdminCall(id)
           \/ GcCall \/ (\E b \in Budgets : gc(b)) \/ DropEmptyRow
           \/ UNCHANGED <<account, codes, storage, gcstore>>
<1>1. ASSUME NEW S \in SUBSET Addrs, Execute(S) PROVE UNCHANGED <<account, codes, storage, gcstore>>
  BY <1>1 DEF Execute, tables
<1>2. ASSUME EndTx PROVE UNCHANGED <<account, codes, storage, gcstore>>
  BY <1>2, SMTT(30) DEF EndTx
<1>3. ASSUME UNCHANGED vars PROVE UNCHANGED <<account, codes, storage, gcstore>>
  BY <1>3, Zenon DEF vars, tables
<1> QED  BY <1>1, <1>2, <1>3, ZenonT(30) DEF Next, AdminCall

LEMMA ScopesStep ==
    ASSUME Core, TopKept, ScopesAccounted, [Next]_vars
    PROVE  ScopesAccounted'
<1>1. ASSUME NEW a \in Addrs, TxCall(a) PROVE ScopesAccounted'
  BY <1>1, TxEffect, ScopesEffect
<1>2. ASSUME NEW id \in DOMAIN account, AdminCall(id) PROVE ScopesAccounted'
  BY <1>2, AdminEffect, ScopesEffect, SMTT(30)
<1>3. ASSUME UNCHANGED <<account, codes, storage, gcstore>> PROVE ScopesAccounted'
  BY <1>3 DEF ScopesAccounted, IsEmpty
<1> QED  BY <1>1, <1>2, <1>3, GcEffect, StepCases

\* Every scope that holds something is that of an account or queued, so a gc
\* that finds the queue empty has left nothing behind.
THEOREM ScopesSafe == Spec => []ScopesAccounted
<1>1. Init => ScopesAccounted
  BY DEF Init, ScopesAccounted, IsEmpty
<1>2. Core /\ Started /\ ScopesAccounted /\ [Next]_vars => ScopesAccounted'
  BY ScopesStep, StartedKept
<1> QED  BY <1>1, <1>2, SpecCore, PTL DEF Spec

FreshStep ==
    \A i \in DOMAIN account' \ DOMAIN account :
        IsEmpty(i) /\ \A g \in DOMAIN gcstore' : gcstore'[g] # i

LEMMA FreshStepHolds ==
    ASSUME Core, TopKept, Core', ScopesAccounted, [Next]_vars
    PROVE  FreshStep
<1>1. ASSUME NEW a \in Addrs, TxCall(a) PROVE FreshStep
  BY <1>1, TxEffect, NewEffect, Zenon DEF FreshStep
<1>2. ASSUME NEW id \in DOMAIN account, AdminCall(id) PROVE FreshStep
  BY <1>2, AdminEffect, NewEffect, SMTT(30) DEF FreshStep
<1>3. ASSUME account' = account PROVE FreshStep
  BY <1>3 DEF FreshStep
<1> QED  BY <1>1, <1>2, <1>3, GcEffect, StepCases, Zenon

\* A new account inherits no storage, and no garbage collection is pending for
\* its scope.
THEOREM NewAccountsEmpty == Spec => NewAccountsStartEmpty
<1>1. Core /\ Started /\ Core' /\ ScopesAccounted /\ [Next]_vars => [FreshStep]_vars
  BY FreshStepHolds, StartedKept
<1> HIDE DEF FreshStep
<1>2. Spec => [][FreshStep]_vars
  BY <1>1, SpecCore, ScopesSafe, PTL DEF Spec
<1> QED  BY <1>2 DEF FreshStep, NewAccountsStartEmpty

-----------------------------------------------------------------------------
\* What is queued.

\* The accounts whose scope is queued.
Conflicted == {i \in DOMAIN account : \E g \in DOMAIN gcstore : gcstore[g] = i}

\* A call or a repair queues no scope of an account that stays, and none twice
\* if that of no account was queued.
LEMMA DeadEffect ==
    ASSUME Core, NEW a, Effect(a)
    PROVE  Conflicted' \subseteq Conflicted /\ (GarbageIsDead => GarbageIsDead')
<1> DEFINE New == DOMAIN gcstore' \ DOMAIN gcstore
<1>1. \A g \in DOMAIN gcstore : gcstore[g] # Floor
  BY NextIdHere, Zenon
<1>2. /\ DOMAIN account' \subseteq DOMAIN account \cup {Floor}
      /\ \A g \in DOMAIN gcstore : gcstore'[g] = gcstore[g]
      /\ \A g \in New : /\ gcstore'[g] \in DOMAIN account /\ gcstore'[g] \notin DOMAIN account'
                        /\ \A h \in New : g = h
  BY Zenon DEF Effect
<1>3. \A g \in DOMAIN gcstore' : g \in DOMAIN gcstore \/ g \in New
  OBVIOUS
<1> HIDE DEF New
<1>4. Conflicted' \subseteq Conflicted
  <2> SUFFICES ASSUME NEW i \in DOMAIN account', NEW g \in DOMAIN gcstore', gcstore'[g] = i
               PROVE  i \in DOMAIN account /\ \E h \in DOMAIN gcstore : gcstore[h] = i
    BY DEF Conflicted
  <2>1. g \in DOMAIN gcstore /\ gcstore[g] = i
    BY <1>2, <1>3, Zenon
  <2>2. i # Floor
    BY <1>1, <2>1, Zenon
  <2> QED  BY <1>2, <2>1, <2>2, Zenon
<1>5. ASSUME GarbageIsDead PROVE GarbageIsDead'
  <2>1. /\ \A g \in DOMAIN gcstore : gcstore[g] \notin DOMAIN account
        /\ \A g, h \in DOMAIN gcstore : gcstore[g] = gcstore[h] => g = h
    BY <1>5, Zenon DEF GarbageIsDead
  <2>2. ASSUME NEW g \in DOMAIN gcstore' PROVE gcstore'[g] \notin DOMAIN account'
    BY <1>1, <1>2, <1>3, <2>1, Zenon
  <2>3. ASSUME NEW g \in DOMAIN gcstore', NEW h \in DOMAIN gcstore', gcstore'[g] = gcstore'[h]
        PROVE  g = h
    <3>1. CASE g \in DOMAIN gcstore /\ h \in DOMAIN gcstore
      BY <1>2, <2>1, <2>3, <3>1, Zenon
    <3>2. CASE g \in New /\ h \in New
      BY <1>2, <3>2, Zenon
    <3>3. CASE g \in DOMAIN gcstore /\ h \in New
      BY <1>2, <2>1, <2>3, <3>3, Zenon
    <3>4. CASE g \in New /\ h \in DOMAIN gcstore
      BY <1>2, <2>1, <2>3, <3>4, Zenon
    <3> QED  BY <1>3, <3>1, <3>2, <3>3, <3>4, Zenon
  <2> QED  BY <2>2, <2>3, Zenon DEF GarbageIsDead
<1> QED  BY <1>4, <1>5

\* All other steps leave the accounts alone and at most take rows away.
LEMMA QueueShrinks ==
    ASSUME DOMAIN account' = DOMAIN account, DOMAIN gcstore' \subseteq DOMAIN gcstore,
           \A g \in DOMAIN gcstore' : gcstore'[g] = gcstore[g]
    PROVE  Conflicted' \subseteq Conflicted /\ (GarbageIsDead => GarbageIsDead')
<1>1. Conflicted' \subseteq Conflicted
  BY Zenon DEF Conflicted
<1>2. GarbageIsDead => GarbageIsDead'
  BY Zenon DEF GarbageIsDead
<1> QED  BY <1>1, <1>2

LEMMA DeadStep ==
    ASSUME Core, TopKept, [RepairNext]_vars
    PROVE  Conflicted' \subseteq Conflicted /\ (GarbageIsDead => GarbageIsDead')
<1> DEFINE Done == Conflicted' \subseteq Conflicted /\ (GarbageIsDead => GarbageIsDead')
<1>1. ASSUME NEW a \in Addrs, TxCall(a) PROVE Done
  BY <1>1, TxEffect, DeadEffect, Zenon
<1>2. ASSUME NEW id \in DOMAIN account, AdminCall(id) PROVE Done
  BY <1>2, AdminEffect, DeadEffect, Zenon
<1>3. ASSUME account' = account, gcstore' = gcstore PROVE Done
  BY <1>3, QueueShrinks, Zenon
<1>4. ASSUME NEW g, account' = account, gcstore' = Erase(gcstore, g) PROVE Done
  <2>1. /\ DOMAIN gcstore' \subseteq DOMAIN gcstore
        /\ \A h \in DOMAIN gcstore' : gcstore'[h] = gcstore[h]
    BY <1>4, Zenon DEF Erase
  <2> QED  BY <1>4, <2>1, QueueShrinks, Zenon
<1>5. ASSUME GcCall \/ (\E b \in Budgets : gc(b)) PROVE Done
  BY <1>3, <1>4, <1>5, Zenon DEF GcCall, gc, gc_slot, gc_row, gc_end, tables
<1>6. ASSUME NEW g, rmgcstore(g) PROVE Done
  BY <1>4, <1>6, Zenon DEF rmgcstore
<1>7. ASSUME NEW id, NEW k, NEW v, setkvstore(id, k, v) PROVE Done
  BY <1>3, <1>7, Zenon DEF setkvstore
<1> HIDE DEF Done
<1>8. ASSUME [Next]_vars PROVE Done
  BY <1>1, <1>2, <1>3, <1>5, <1>6, <1>8, StepCases, Zenon DEF DropEmptyRow
<1>9. ASSUME ~[Next]_vars PROVE Done
  BY <1>6, <1>7, <1>9, Zenon DEF RepairNext
<1> QED  BY <1>8, <1>9 DEF Done

LEMMA DeadAlways == RepairSpec => []GarbageIsDead
<1>1. Init => GarbageIsDead
  BY Zenon DEF Init, NoRows, GarbageIsDead
<1>2. Core /\ Started /\ GarbageIsDead /\ [RepairNext]_vars => GarbageIsDead'
  BY DeadStep, StartedKept
<1> QED  BY <1>1, <1>2, RepairCore, PTL DEF RepairSpec

\* In every behaviour, whatever the administrator does, an address has one
\* account, the reference counts are right, and garbage is not the storage of
\* an account.
THEOREM StoreConsistent ==
    RepairSpec => [](TypeOK /\ OneRowPerAddress /\ RefCountsExact /\ GarbageIsDead)
BY RepairCore, DeadAlways, CoreImplies, PTL

\* What gc works on is dead.
THEOREM OnlyGarbage == Spec => []GarbageIsDead
BY SpecRepairs, DeadAlways, PTL

-----------------------------------------------------------------------------
\* Frozen accounts.

FrozenStep ==
    phase # "idle" =>
        \A i \in DOMAIN account : account[i].frozen =>
            i \in DOMAIN account' /\ account'[i] = account[i] /\ storage'[i] = storage[i]

LEMMA FrozenStepHolds ==
    ASSUME Core, TopKept, GarbageIsDead, [RepairNext]_vars
    PROVE  FrozenStep
<1> SUFFICES ASSUME phase # "idle", NEW i \in DOMAIN account, account[i].frozen
             PROVE  i \in DOMAIN account' /\ account'[i] = account[i] /\ storage'[i] = storage[i]
  BY Zenon DEF FrozenStep
<1> DEFINE Done == i \in DOMAIN account' /\ account'[i] = account[i] /\ storage'[i] = storage[i]
<1>1. i \in Ids /\ account[i].eth_address \in Addrs
  BY SMTT(30) DEF Core, AccountsOK, AccountRow
<1>2. ASSUME NEW a \in Addrs, TxCall(a) PROVE Done
  <2>1. stage[a] # "unread"
    BY <1>2, SMTT(30) DEF TxCall, update_account, update_account_incarnation, update_account_removed,
                update_account_code, update_storage
  <2>2. account[i].eth_address # a
    BY <2>1, SMTT(30) DEF Core, StageFits
  <2>3. i \in DOMAIN account' /\ account'[i] = account[i]
    BY <1>1, <1>2, <2>2, TxCallKeeps DEF SameAt
  <2> QED  BY <1>1, <1>2, <2>2, <2>3, TxEffect, SMTT(30) DEF Effect
<1>3. ASSUME GcCall \/ (\E b \in Budgets : gc(b)) \/ DropEmptyRow PROVE Done
  BY <1>3, GcEffect, SMTT(30)
<1>4. ASSUME UNCHANGED <<account, storage>> PROVE Done
  BY <1>4
<1>5. ASSUME NEW g \in DOMAIN gcstore, rmgcstore(g) PROVE Done
  BY <1>5 DEF rmgcstore
<1>6. ASSUME NEW id, NEW k, NEW v, setkvstore(id, k, v) PROVE Done
  BY <1>6 DEF setkvstore
<1>7. ASSUME NEW id, AdminCall(id) PROVE Done
  BY <1>7, SMTT(30) DEF AdminCall, freezeaccnt, addevmbal, rmaccount, setkvstore
<1>8. CASE [Next]_vars
  BY <1>2, <1>3, <1>4, <1>7, <1>8, StepCases, Zenon
<1>9. CASE ~[Next]_vars
  BY <1>5, <1>6, <1>9 DEF RepairNext
<1> QED  BY <1>8, <1>9

\* No transaction and no garbage collection touches a frozen account, whatever
\* the administrator has done.
THEOREM FrozenSafe == RepairSpec => FrozenUntouched
<1>1. Core /\ Started /\ GarbageIsDead /\ [RepairNext]_vars => [FrozenStep]_vars
  BY FrozenStepHolds, StartedKept
<1> HIDE DEF FrozenStep
<1>2. RepairSpec => [][FrozenStep]_vars
  BY <1>1, RepairCore, DeadAlways, PTL DEF RepairSpec
<1> QED  BY <1>2 DEF FrozenStep, FrozenUntouched

-----------------------------------------------------------------------------
\* Account ids.

\* The next id never decreases, and the id of a new account is one that it goes
\* past: once handed out, no id is handed out again.
IdStep ==
    /\ Floor <= Floor'
    /\ \A i \in DOMAIN account' \ DOMAIN account : Floor <= i /\ i < Floor'

LEMMA IdStepHolds ==
    ASSUME Core, TopKept, [RepairNext]_vars
    PROVE  IdStep
<1>1. Floor \in Nat
  BY FloorNat
<1>2. Core' /\ IdsGrow
  BY CoreStep
<1>3. Floor <= Floor'
  BY <1>1, <1>2 DEF IdsGrow
<1>4. DOMAIN account' \subseteq DOMAIN account \cup {Floor}
  <2>1. ASSUME NEW a \in Addrs, TxCall(a) PROVE DOMAIN account' \subseteq DOMAIN account \cup {Floor}
    BY <2>1, TxEffect DEF Effect
  <2>2. ASSUME NEW id \in DOMAIN account, AdminCall(id)
        PROVE  DOMAIN account' \subseteq DOMAIN account \cup {Floor}
    BY <2>2, AdminEffect, SMTT(30) DEF Effect
  <2>3. ASSUME account' = account PROVE DOMAIN account' \subseteq DOMAIN account \cup {Floor}
    BY <2>3, Zenon
  <2>4. CASE [Next]_vars
    BY <2>1, <2>2, <2>3, <2>4, GcEffect, StepCases, Zenon
  <2>5. CASE ~[Next]_vars
    BY <2>3, <2>5, Zenon DEF RepairNext, rmgcstore, setkvstore
  <2> QED  BY <2>4, <2>5, Zenon
<1>5. \A i \in DOMAIN account' : i < Floor'
  BY <1>2 DEF Core, IdsOK
<1> QED  BY <1>1, <1>3, <1>4, <1>5 DEF IdStep

\* No account id is ever handed out twice, whichever accounts are removed or
\* replaced, by transactions or the administrator, and whatever the
\* administrator does to the queue: the storage scope and the garbage of an
\* account are never those of another.
THEOREM IdsOnlyGrow == RepairSpec => [][IdStep]_vars
<1>1. Core /\ Started /\ [RepairNext]_vars => [IdStep]_vars
  BY IdStepHolds, StartedKept
<1> QED  BY <1>1, RepairCore, PTL DEF RepairSpec

-----------------------------------------------------------------------------
\* The queue of garbage.

\* What is queued goes behind all that is there, a row of the queue never comes
\* to name another scope, and gc takes the first one away.
FifoStep ==
    /\ \A g \in DOMAIN gcstore' \ DOMAIN gcstore : \A h \in DOMAIN gcstore : h < g
    /\ \A g \in DOMAIN gcstore' \cap DOMAIN gcstore : gcstore'[g] = gcstore[g]
    /\ phase = "gc" =>
          \A g \in DOMAIN gcstore \ DOMAIN gcstore' : \A h \in DOMAIN gcstore : g <= h

LEMMA QueueCases ==
    ASSUME [RepairNext]_vars
    PROVE  \/ UNCHANGED gcstore
           \/ phase # "gc" /\ \E i : gcstore' = Queued(i)
           \/ DOMAIN gcstore # {} /\ gcstore' = Erase(gcstore, First)
           \/ phase # "gc" /\ \E g : gcstore' = Erase(gcstore, g)
<1> DEFINE Done == \/ UNCHANGED gcstore
                   \/ phase # "gc" /\ \E i : gcstore' = Queued(i)
                   \/ DOMAIN gcstore # {} /\ gcstore' = Erase(gcstore, First)
                   \/ phase # "gc" /\ \E g : gcstore' = Erase(gcstore, g)
<1>1. ASSUME NEW a \in Addrs, TxCall(a) PROVE Done
  BY <1>1, SMTT(30) DEF TxCall, update_account, update_account_incarnation, update_account_removed,
              update_account_code, update_storage, remove_account
<1>2. ASSUME NEW id, \/ \E value \in BOOLEAN : freezeaccnt(id, value)
                     \/ \E d \in Datas : addevmbal(id, d)
                     \/ rmaccount(id)
                     \/ \E k, v : setkvstore(id, k, v)
      PROVE  Done
  BY <1>2, Zenon DEF freezeaccnt, addevmbal, rmaccount, remove_account, setkvstore
<1>3. ASSUME \/ \E S \in SUBSET Addrs : Execute(S)
             \/ EndTx
             \/ GcCall \/ \E b \in Budgets : gc(b)
             \/ \E g \in DOMAIN gcstore : rmgcstore(g)
             \/ UNCHANGED vars
      PROVE  Done
  BY <1>3 DEF Execute, EndTx, GcCall, gc, gc_slot, gc_row, gc_end, rmgcstore, vars, tables
<1> HIDE DEF Done
<1>4. Done
  BY <1>1, <1>2, <1>3, ZenonT(60) DEF RepairNext, Next, DropEmptyRow
<1> QED  BY <1>4 DEF Done

LEMMA FifoStepHolds ==
    ASSUME Core, [RepairNext]_vars
    PROVE  FifoStep
<1>1. KeysOK(gcstore)
  BY DEF Core, QueueOK
<1>2. CASE UNCHANGED gcstore
  BY <1>2 DEF FifoStep
<1>3. ASSUME phase # "gc", NEW i, gcstore' = Queued(i) PROVE FifoStep
  <2> DEFINE k == available_primary_key(gcstore)
  <2>1. \A h \in DOMAIN gcstore : h < k
    BY <1>1, KeyAbove
  <2>2. k \notin DOMAIN gcstore
    BY <1>1, AvailableKey
  <2>3. gcstore' = Emplace(gcstore, k, i)
    BY <1>3 DEF Queued
  <2> HIDE DEF k
  <2> QED  BY <1>3, <2>1, <2>2, <2>3 DEF FifoStep, Emplace
<1>4. CASE DOMAIN gcstore # {} /\ gcstore' = Erase(gcstore, First)
  <2>1. \A h \in DOMAIN gcstore : First <= h
    BY <1>1, <1>4, LeastKey DEF First, KeysOK
  <2> QED  BY <1>4, <2>1 DEF FifoStep, Erase
<1>5. ASSUME phase # "gc", NEW g, gcstore' = Erase(gcstore, g) PROVE FifoStep
  BY <1>5 DEF FifoStep, Erase
<1> QED  BY <1>2, <1>3, <1>4, <1>5, QueueCases

\* Garbage is collected in the order it was made: what is queued later waits
\* behind what is there, though rows of the queue that are gone give back their
\* ids.  So a scope at the head of the queue stays there until gc has
\* emptied it, unless the administrator takes it away.
THEOREM QueueIsFifo == RepairSpec => [][FifoStep]_vars
<1>1. Core /\ [RepairNext]_vars => [FifoStep]_vars
  BY FifoStepHolds
<1> QED  BY <1>1, RepairCore, PTL DEF RepairSpec

-----------------------------------------------------------------------------
\* A contract upgraded from a release without config2.  Such a release takes
\* every id from the accounts there are, so it hands out the id of the account
\* with the highest one again once that is removed: an account may be there while
\* its scope is still queued for its predecessor, and the same scope may be
\* queued twice.  GarbageIsDead is therefore not among what the tables are
\* assumed to satisfy.  What is assumed: addresses, reference counts and scopes
\* are in order, and no queued id is above all accounts.  The last is needed,
\* since such an id would be handed out next.
UpgradedInit ==
    /\ TypeOK /\ OneRowPerAddress /\ RefCountsExact /\ ScopesAccounted
    /\ IsFiniteSet(DOMAIN account)
    /\ KeysOK(account) /\ KeysOK(codes) /\ KeysOK(gcstore)
    /\ \A g \in DOMAIN gcstore : \E i \in DOMAIN account : gcstore[g] <= i
    /\ config2 = None
    /\ phase = "idle" /\ stage = Unread /\ _config2 = None /\ max = 0

\* It runs on, but the account with the highest id is neither removed nor
\* replaced before a new account was made.
UpgradedSpec == UpgradedInit /\ [][Next /\ TopKept]_vars

LEMMA UpgradedCore == UpgradedInit => Core
<1> SUFFICES ASSUME UpgradedInit PROVE Core
  BY SMTT(30)
<1>1. AccountsOK(account)
  BY Zenon DEF UpgradedInit, TypeOK, OneRowPerAddress, AccountsOK, AccountRow
<1>2. CodesOK(account, codes)
  BY Zenon DEF UpgradedInit, TypeOK, RefCountsExact, CodesOK, CodeRow, Users, UsersIn
<1>3. FieldsOK
  BY Zenon DEF UpgradedInit, TypeOK, FieldsOK, Stages
<1>4. QueueOK(gcstore)
  BY Zenon DEF UpgradedInit, TypeOK, QueueOK
<1>5. \A i \in DOMAIN account : i \in Nat /\ i < Floor
  <2>1. \A i \in DOMAIN account : i \in Nat /\ i < available_primary_key(account)
    BY KeyAbove DEF UpgradedInit
  <2> QED  BY <2>1 DEF UpgradedInit, Floor
<1>6. Floor \in Nat
  <2>1. available_primary_key(account) \in Nat
    BY AvailableKey DEF UpgradedInit
  <2> QED  BY <2>1 DEF UpgradedInit, Floor
<1>7. IdsOK
  <2>1. \A g \in DOMAIN gcstore : gcstore[g] \in Nat
    BY <1>4, StoreAssumption, Zenon DEF QueueOK
  <2>2. \A g \in DOMAIN gcstore : gcstore[g] < Floor
    <3> SUFFICES ASSUME NEW g \in DOMAIN gcstore PROVE gcstore[g] < Floor
      OBVIOUS
    <3>1. PICK i \in DOMAIN account : gcstore[g] <= i
      BY DEF UpgradedInit
    <3> QED  BY <1>5, <1>6, <2>1, <3>1
  <2>3. KeysOK(account)
    BY Zenon DEF UpgradedInit
  <2> QED  BY <1>5, <2>2, <2>3, Zenon DEF IdsOK
<1>8. \A a \in Addrs : StageFits(account, stage[a], a)
  BY <1>3, IdleFits DEF UpgradedInit
<1> QED  BY <1>1, <1>2, <1>3, <1>4, <1>7, <1>8, SMTT(30) DEF Core

\* A stuttering step spares the account with the highest id too.
LEMMA UpgradedStep ==
    ASSUME [Next /\ TopKept]_vars
    PROVE  [Next]_vars /\ TopKept
<1>1. CASE UNCHANGED vars
  <2>1. gcstore' = gcstore
    BY <1>1 DEF vars, tables
  <2>2. TopKept
    BY <2>1 DEF TopKept
  <2> QED  BY <1>1, <2>2
<1> QED  BY <1>1

LEMMA UpgradedInvariant == UpgradedSpec => [](Core /\ ScopesAccounted)
<1>1. UpgradedInit => Core /\ ScopesAccounted
  BY UpgradedCore DEF UpgradedInit
<1>2. Core /\ ScopesAccounted /\ [Next /\ TopKept]_vars => Core' /\ ScopesAccounted'
  BY UpgradedStep, CoreStep, ScopesStep, NextIsRepair
<1> QED  BY <1>1, <1>2, PTL DEF UpgradedSpec

\* After an upgrade, as long as the account with the highest id stays until a
\* new account is made: addresses, reference counts and scopes stay in order, new
\* accounts start empty with nothing queued against them, though ids come from
\* available_primary_key at first, and no account comes to have its scope queued
\* that did not have it queued before.  Without the condition this fails: see
\* IdsNotReused in MCStateStore.
THEOREM UpgradeSafe ==
    UpgradedSpec => /\ [](TypeOK /\ OneRowPerAddress /\ RefCountsExact /\ ScopesAccounted)
                    /\ NewAccountsStartEmpty
                    /\ [][Conflicted' \subseteq Conflicted]_vars
<1>1. Core /\ Core' /\ ScopesAccounted /\ [Next /\ TopKept]_vars => [FreshStep]_vars
  BY UpgradedStep, FreshStepHolds
<1> DEFINE Kept == Conflicted' \subseteq Conflicted
<1>2. Core /\ [Next /\ TopKept]_vars => [Kept]_vars
  BY UpgradedStep, DeadStep, NextIsRepair
<1> HIDE DEF FreshStep, Kept
<1>3. UpgradedSpec => [][FreshStep]_vars /\ [][Kept]_vars
  BY <1>1, <1>2, UpgradedInvariant, PTL DEF UpgradedSpec
<1>4. UpgradedSpec => NewAccountsStartEmpty
  BY <1>3 DEF FreshStep, NewAccountsStartEmpty
<1>5. UpgradedSpec => [][Conflicted' \subseteq Conflicted]_vars
  BY <1>3 DEF Kept
<1>6. UpgradedSpec => [](TypeOK /\ OneRowPerAddress /\ RefCountsExact /\ ScopesAccounted)
  BY UpgradedInvariant, CoreImplies, PTL
<1> QED  BY <1>4, <1>5, <1>6

LEMMA UpgradedDead == UpgradedSpec /\ GarbageIsDead => []GarbageIsDead
<1>1. Core /\ GarbageIsDead /\ [Next /\ TopKept]_vars => GarbageIsDead'
  BY UpgradedStep, DeadStep, NextIsRepair
<1> QED  BY <1>1, UpgradedInvariant, PTL DEF UpgradedSpec

\* If, moreover, no account's scope is queued at the time of the upgrade and none
\* is queued twice, for instance because gc has emptied the queue, that
\* remains so, and no transaction or garbage collection touches a frozen account.
THEOREM UpgradeClean ==
    UpgradedSpec /\ GarbageIsDead => []GarbageIsDead /\ FrozenUntouched
<1>1. Core /\ GarbageIsDead /\ [Next /\ TopKept]_vars => [FrozenStep]_vars
  BY UpgradedStep, FrozenStepHolds, NextIsRepair
<1> HIDE DEF FrozenStep
<1>2. UpgradedSpec /\ GarbageIsDead => [][FrozenStep]_vars
  BY <1>1, UpgradedInvariant, UpgradedDead, PTL DEF UpgradedSpec
<1>3. UpgradedSpec /\ GarbageIsDead => FrozenUntouched
  BY <1>2 DEF FrozenStep, FrozenUntouched
<1> QED  BY <1>3, UpgradedDead

=============================================================================
