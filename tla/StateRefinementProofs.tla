------------------------ MODULE StateRefinementProofs ------------------------
(***************************************************************************)
(* The tables of StateStore implement the accounts of EvmState.  The view  *)
(* of an address is computed from its row (ViewOf); a call leaves the view *)
(* of every other address alone (OthersSame) and makes of its own what     *)
(* EvmState allows (TxViewHolds, AdminViewHolds).                          *)
(***************************************************************************)
EXTENDS StateStoreProofs

Read(scope) == [k \in Keys |-> IF scope[k] # None THEN scope[k] ELSE 0]

HashIn(cod, c) == IF c \in DOMAIN cod THEN cod[c].code_hash ELSE None

RowView(row, cod, scope) == EVM!Live(row.data, HashIn(cod, row.code_id), row.frozen, Read(scope))

\* The view of an address with a row, and of one without.
Views ==
    \A a \in Addrs :
        /\ \A i \in DOMAIN account : account[i].eth_address = a =>
              read_account(a) = RowView(account[i], codes, storage[i])
        /\ (\A i \in DOMAIN account : account[i].eth_address # a) => read_account(a) = EVM!Nobody

LEMMA ViewOf == Core => Views
<1> SUFFICES ASSUME Core, NEW a \in Addrs
             PROVE  /\ \A i \in DOMAIN account : account[i].eth_address = a =>
                          read_account(a) = RowView(account[i], codes, storage[i])
                    /\ (\A i \in DOMAIN account : account[i].eth_address # a) =>
                          read_account(a) = EVM!Nobody
  BY DEF Views
<1>1. ASSUME NEW i \in DOMAIN account, account[i].eth_address = a
      PROVE  read_account(a) = RowView(account[i], codes, storage[i])
  <2>1. HasRow(a) /\ IdOf(a) = i
    BY <1>1, RowIs DEF Core
  <2>2. HasRow(a) = TRUE /\ (HasRow(a) /\ account[i].frozen) = account[i].frozen
    <3>1. account[i].frozen \in BOOLEAN
      BY <1>1 DEF Core, AccountsOK, AccountRow
    <3> QED  BY <2>1, <3>1, Zenon DEF HasRow
  <2>3. [k \in Keys |-> read_storage(a, k)] = Read(storage[i])
    BY <2>1 DEF read_storage, Read
  <2>4. code_hash(a) = HashIn(codes, account[i].code_id)
    BY <2>1 DEF code_hash, HashIn
  <2>5. read_account(a) = [live |-> TRUE, data |-> account[i].data, code |-> code_hash(a),
                           frozen |-> account[i].frozen, slots |-> [k \in Keys |-> read_storage(a, k)]]
    <3> HIDE DEF HasRow, IdOf, read_storage, code_hash
    <3> QED  BY <2>1, <2>2, Zenon DEF read_account
  <2> QED  BY <2>3, <2>4, <2>5, Zenon DEF RowView, EVM!Live
<1>2. ASSUME \A i \in DOMAIN account : account[i].eth_address # a
      PROVE  read_account(a) = EVM!Nobody
  <2>1. HasRow(a) = FALSE
    BY <1>2 DEF HasRow
  <2>2. [k \in Keys |-> read_storage(a, k)] = [k \in Keys |-> 0]
    BY <2>1 DEF read_storage
  <2> QED  BY <2>1, <2>2, Zenon DEF read_account, EVM!Nobody, EVM!NoCode, None
<1> QED  BY <1>1, <1>2

LEMMA CoreViewed == Core' => Views'
BY ViewOf, PTL

LEMMA ViewNext ==
    ASSUME Core', NEW a \in Addrs
    PROVE  /\ \A i \in DOMAIN account' : account'[i].eth_address = a =>
                 read_account(a)' = RowView(account'[i], codes', storage'[i])
           /\ (\A i \in DOMAIN account' : account'[i].eth_address # a) =>
                 read_account(a)' = EVM!Nobody
<1>1. Views'
  BY CoreViewed
<1> QED  BY <1>1 DEF Views


\* A call on one address does not show at another.
LEMMA OthersSame ==
    ASSUME Core, Core', NEW a, Effect(a), NEW b \in Addrs, b # a, SameAt(account, account', b)
    PROVE  read_account(b)' = read_account(b)
<1>1. CASE \A i \in DOMAIN account : account[i].eth_address # b
  <2>1. \A i \in DOMAIN account' : account'[i].eth_address # b
    BY <1>1 DEF SameAt
  <2>2. read_account(b) = EVM!Nobody
    BY <1>1, ViewOf DEF Views
  <2>3. read_account(b)' = EVM!Nobody
    BY <2>1, ViewNext
  <2> QED  BY <2>2, <2>3
<1>2. CASE \E i \in DOMAIN account : account[i].eth_address = b
  <2>1. PICK i \in DOMAIN account : account[i].eth_address = b
    BY <1>2
  <2>2. i \in DOMAIN account' /\ account'[i] = account[i]
    BY <2>1 DEF SameAt
  <2>3. storage'[i] = storage[i]
    BY <2>1, <2>2 DEF Effect, Core, AccountsOK
  <2>4. HashIn(codes', account[i].code_id) = HashIn(codes, account[i].code_id)
    <3>1. account[i].code_id \in DOMAIN codes \cup {None}
      BY DEF Core, CodesOK
    <3>2. account[i].code_id \in DOMAIN codes' \cup {None}
      BY <2>2 DEF Core, CodesOK
    <3>3. DOMAIN codes \subseteq Nat /\ DOMAIN codes' \subseteq Nat
      BY Zenon DEF Core, CodesOK, KeysOK
    <3>4. None \notin DOMAIN codes /\ None \notin DOMAIN codes'
      BY <3>3 DEF None
    <3> QED  BY <3>1, <3>2, <3>4 DEF Effect, HashIn
  <2>5. read_account(b) = RowView(account[i], codes, storage[i])
    BY <2>1, ViewOf DEF Views
  <2>6. read_account(b)' = RowView(account'[i], codes', storage'[i])
    BY <2>1, <2>2, ViewNext
  <2> QED  BY <2>2, <2>3, <2>4, <2>5, <2>6 DEF RowView
<1> QED  BY <1>1, <1>2

LEMMA BecomesView ==
    ASSUME NEW a \in Addrs, \A b \in Addrs \ {a} : read_account(b)' = read_account(b)
    PROVE  EVM!Becomes(a, read_account(a)')
BY Zenon DEF EVM!Becomes

\* The records of EvmState.
LEMMA Records ==
    /\ EVM!Nobody.live = FALSE /\ EVM!Nobody.frozen = FALSE /\ EVM!Nobody.code = None
    /\ \A d : EVM!Newborn(d) = EVM!Live(d, None, FALSE, [k \in Keys |-> 0])
    /\ EVM!AsLive(EVM!Nobody) = EVM!Live(0, None, FALSE, [k \in Keys |-> 0])
    /\ \A d, c, f, s : EVM!AsLive(EVM!Live(d, c, f, s)) = EVM!Live(d, c, f, s)
<1>1. EVM!Nobody.live = FALSE /\ EVM!Nobody.frozen = FALSE /\ EVM!Nobody.code = None
  BY DEF EVM!Nobody, EVM!NoCode, None
<1>2. \A d : EVM!Newborn(d) = EVM!Live(d, None, FALSE, [k \in Keys |-> 0])
  BY DEF EVM!Newborn, EVM!NoCode, None
<1>3. EVM!AsLive(EVM!Nobody) = EVM!Live(0, None, FALSE, [k \in Keys |-> 0])
  BY <1>1, <1>2, Zenon DEF EVM!AsLive
<1>4. \A d, c, f, s : EVM!AsLive(EVM!Live(d, c, f, s)) = EVM!Live(d, c, f, s)
  BY DEF EVM!AsLive, EVM!Live
<1> QED  BY <1>1, <1>2, <1>3, <1>4, Zenon

\* Reading a scope after a write, and one with nothing in it.
LEMMA ReadWritten ==
    ASSUME Core, NEW i \in Ids, NEW k \in Keys, NEW v \in Values \cup {None},
           storage' = [storage EXCEPT ![i][k] = v], NEW x, x = IF v = None THEN 0 ELSE v
    PROVE  Read(storage'[i]) = EVM!Put(Read(storage[i]), k, x)
<1>1. \A l \in Keys : storage'[i][l] = IF l = k THEN v ELSE storage[i][l]
  BY SlotWritten, Zenon DEF Core
<1> QED  BY <1>1, Zenon DEF Read, EVM!Put

LEMMA ReadEmpty ==
    ASSUME NEW i \in Ids, IsEmpty(i)
    PROVE  Read(storage[i]) = [k \in Keys |-> 0]
BY DEF Read, IsEmpty

LEMMA NoHash ==
    ASSUME Core
    PROVE  HashIn(codes, None) = None
BY DEF Core, CodesOK, KeysOK, HashIn, None

LEMMA NoHashNext ==
    ASSUME Core'
    PROVE  HashIn(codes', None) = None
BY DEF Core, CodesOK, KeysOK, HashIn, None


\* The sets of EvmState, member by member.
LEMMA Changes ==
    ASSUME NEW d, NEW c, NEW f, NEW s
    PROVE  /\ \A e \in Datas : /\ EVM!Live(e, c, f, s) \in EVM!TxChanges(EVM!Live(d, c, f, s))
                               /\ EVM!Live(e, c, f, s) \in EVM!Repairs(EVM!Live(d, c, f, s))
           /\ \A k \in Keys, v \in Values :
                 /\ EVM!Live(d, c, f, EVM!Put(s, k, v)) \in EVM!TxChanges(EVM!Live(d, c, f, s))
                 /\ EVM!Live(d, c, f, EVM!Put(s, k, v)) \in EVM!Repairs(EVM!Live(d, c, f, s))
           /\ \A b \in BOOLEAN : EVM!Live(d, c, b, s) \in EVM!Repairs(EVM!Live(d, c, f, s))
           /\ c = None => \A h \in Hashes :
                             EVM!Live(d, h, f, s) \in EVM!TxChanges(EVM!Live(d, c, f, s))
<1> DEFINE w == EVM!Live(d, c, f, s)
<1>1. /\ EVM!AsLive(w) = w
      /\ w.data = d /\ w.code = c /\ w.frozen = f /\ w.slots = s
  BY DEF EVM!AsLive, EVM!Live
<1> HIDE DEF w
<1>2. \A e \in Datas : EVM!Live(e, c, f, s) \in EVM!WithData(w)
  BY <1>1, Zenon DEF EVM!WithData
<1>3. \A k \in Keys, v \in Values : EVM!Live(d, c, f, EVM!Put(s, k, v)) \in EVM!WithSlot(w)
  BY <1>1 DEF EVM!WithSlot
<1>4. \A b \in BOOLEAN : EVM!Live(d, c, b, s) \in EVM!WithFlag(w)
  BY <1>1, Zenon DEF EVM!WithFlag
<1>5. \A h \in Hashes : EVM!Live(d, h, f, s) \in EVM!WithCode(w)
  BY <1>1, Zenon DEF EVM!WithCode
<1>6. \A x : /\ x \in EVM!WithData(w) \cup EVM!WithSlot(w) => x \in EVM!TxChanges(w)
             /\ c = None /\ x \in EVM!WithCode(w) => x \in EVM!TxChanges(w)
             /\ x \in EVM!WithData(w) \cup EVM!WithSlot(w) \cup EVM!WithFlag(w) => x \in EVM!Repairs(w)
  <2> HIDE DEF EVM!WithData, EVM!WithSlot, EVM!WithCode, EVM!WithFlag, EVM!Live, EVM!Nobody, EVM!Newborn
  <2> QED  BY <1>1 DEF EVM!TxChanges, EVM!Repairs, EVM!NoCode, None
<1> QED  BY <1>2, <1>3, <1>4, <1>5, <1>6 DEF w

LEMMA ChangesOfNobody ==
    /\ \A w : EVM!Nobody \in EVM!TxChanges(w) /\ EVM!Nobody \in EVM!Repairs(w)
    /\ \A w : \A d \in Datas :
          EVM!Live(d, None, FALSE, [k \in Keys |-> 0]) \in EVM!TxChanges(w)
    /\ \A l \in Keys, v \in Values :
          EVM!Live(0, None, FALSE, EVM!Put([k \in Keys |-> 0], l, v)) \in EVM!TxChanges(EVM!Nobody)
    /\ \A h \in Hashes :
          EVM!Live(0, h, FALSE, [k \in Keys |-> 0]) \in EVM!TxChanges(EVM!Nobody)
<1> DEFINE u == EVM!Live(0, None, FALSE, [k \in Keys |-> 0])
<1>1. /\ EVM!AsLive(EVM!Nobody) = u /\ EVM!Nobody.code = None
      /\ u.data = 0 /\ u.code = None /\ u.frozen = FALSE /\ u.slots = [k \in Keys |-> 0]
  <2>1. EVM!AsLive(EVM!Nobody) = u /\ EVM!Nobody.code = None
    BY Records
  <2> QED  BY <2>1 DEF EVM!Live
<1>2. \A w : \A d \in Datas :
          EVM!Live(d, None, FALSE, [k \in Keys |-> 0]) \in EVM!TxChanges(w)
  <2>1. \A w : \A d \in Datas : EVM!Newborn(d) \in EVM!TxChanges(w)
    BY Zenon DEF EVM!TxChanges
  <2> QED  BY <2>1, Records, Zenon
<1> HIDE DEF u
<1>3. \A l \in Keys, v \in Values :
          EVM!Live(0, None, FALSE, EVM!Put([k \in Keys |-> 0], l, v)) \in EVM!WithSlot(u)
  <2>1. \A l \in Keys, v \in Values :
           EVM!Live(u.data, u.code, u.frozen, EVM!Put(u.slots, l, v)) \in EVM!WithSlot(u)
    BY DEF EVM!WithSlot
  <2> QED  BY <1>1, <2>1, Zenon
<1>4. \A h \in Hashes : EVM!Live(0, h, FALSE, [k \in Keys |-> 0]) \in EVM!WithCode(u)
  BY <1>1, Zenon DEF EVM!WithCode
<1>5. \A x : x \in EVM!WithSlot(u) \cup EVM!WithCode(u) => x \in EVM!TxChanges(EVM!Nobody)
  <2> HIDE DEF EVM!WithData, EVM!WithSlot, EVM!WithCode, EVM!Live, EVM!Nobody, EVM!Newborn
  <2> QED  BY <1>1 DEF EVM!TxChanges, EVM!NoCode, None
<1>6. \A w : EVM!Nobody \in EVM!TxChanges(w) /\ EVM!Nobody \in EVM!Repairs(w)
  BY Zenon DEF EVM!TxChanges, EVM!Repairs
<1> QED  BY <1>2, <1>3, <1>4, <1>5, <1>6, Zenon

\* An account that was created in a scope with nothing in it.
LEMMA CreatedView ==
    ASSUME Core, Core', ScopesAccounted, NEW t, DOMAIN t \subseteq DOMAIN account, SameNext(t),
           NEW a \in Addrs, NEW d, NEW c, CreateIn(t, a, d, c)
    PROVE  /\ read_account(a)' = EVM!Live(d, HashIn(codes', c), FALSE, Read(storage'[Floor]))
           /\ Read(storage[Floor]) = [k \in Keys |-> 0] /\ Floor \in Ids
<1>1. get_next_account_id(t) = Floor /\ DOMAIN account' = DOMAIN t \cup {Floor} /\ Floor \in Ids
  BY CreatedDomain
<1>2. account'[Floor] = NewRow(a, d, c)
  BY <1>1 DEF CreateIn, Emplace, NewRow
<1>3. /\ NewRow(a, d, c).eth_address = a /\ NewRow(a, d, c).data = d
      /\ NewRow(a, d, c).code_id = c /\ NewRow(a, d, c).frozen = FALSE
  BY DEF NewRow
<1>4. read_account(a)' = RowView(account'[Floor], codes', storage'[Floor])
  BY <1>1, <1>2, <1>3, ViewNext
<1>5. IsEmpty(Floor)
  BY <1>1, NextIdHere DEF ScopesAccounted
<1> QED  BY <1>1, <1>2, <1>3, <1>4, <1>5, ReadEmpty, Zenon DEF RowView

LEMMA CreatedHere ==
    ASSUME Core, Core', ScopesAccounted, NEW a \in Addrs, NEW d, NEW c, CreateIn(account, a, d, c)
    PROVE  /\ read_account(a)' = EVM!Live(d, HashIn(codes', c), FALSE, Read(storage'[Floor]))
           /\ Read(storage[Floor]) = [k \in Keys |-> 0] /\ Floor \in Ids
<1> DEFINE t == account
<1>1. CreateIn(t, a, d, c) /\ DOMAIN t \subseteq DOMAIN account /\ SameNext(t)
  BY DEF SameNext
<1> HIDE DEF t
<1> QED  BY <1>1, CreatedView, Zenon

\* An address whose account a transaction has read.
LEMMA ReadFirst ==
    ASSUME Core, NEW a \in Addrs, stage[a] # "unread"
    PROVE  read_account(a).frozen = FALSE
<1>1. ~(HasRow(a) /\ account[IdOf(a)].frozen)
  <2> SUFFICES ASSUME HasRow(a) PROVE ~account[IdOf(a)].frozen
    OBVIOUS
  <2>1. IdOf(a) \in DOMAIN account /\ account[IdOf(a)].eth_address = a
    BY RowOf
  <2>2. StageFits(account, stage[a], a)
    BY DEF Core
  <2> QED  BY <2>1, <2>2 DEF StageFits
<1>2. (HasRow(a) /\ account[IdOf(a)].frozen) = FALSE
  BY <1>1, Zenon
<1>3. read_account(a).frozen = (HasRow(a) /\ account[IdOf(a)].frozen)
  BY Zenon DEF read_account
<1> QED  BY <1>2, <1>3, Zenon

\* What a call of a transaction makes of its address is what a transaction may
\* make of it.
TxView(a) == read_account(a)' \in EVM!TxChanges(read_account(a))

LEMMA UpdateView ==
    ASSUME Core, Core', ScopesAccounted, NEW a \in Addrs, NEW d \in Datas, update_account(a, d)
    PROVE  TxView(a)
<1>1. UNCHANGED <<codes, storage>>
  BY DEF update_account
<1>2. CASE HasRow(a)
  <2> DEFINE i == IdOf(a)
  <2>1. i \in DOMAIN account /\ account[i].eth_address = a
    BY <1>2, RowOf
  <2>2. account' = [account EXCEPT ![i].data = d]
    BY <1>2 DEF update_account
  <2> HIDE DEF i
  <2>3. /\ i \in DOMAIN account' /\ account'[i].eth_address = a /\ account'[i].data = d
        /\ account'[i].code_id = account[i].code_id /\ account'[i].frozen = account[i].frozen
    BY <2>1, <2>2 DEF Core, AccountsOK, AccountRow
  <2>4. read_account(a) = EVM!Live(account[i].data, HashIn(codes, account[i].code_id),
                                   account[i].frozen, Read(storage[i]))
    BY <2>1, ViewOf DEF Views, RowView
  <2>5. read_account(a)' = EVM!Live(d, HashIn(codes, account[i].code_id),
                                    account[i].frozen, Read(storage[i]))
    BY <1>1, <2>3, ViewNext DEF RowView
  <2> QED  BY <2>4, <2>5, Changes, Zenon DEF TxView
<1>3. CASE ~HasRow(a)
  <2>1. CreateIn(account, a, d, None)
    BY <1>3 DEF update_account
  <2>2. read_account(a)' = EVM!Live(d, None, FALSE, [k \in Keys |-> 0])
    <3>1. /\ read_account(a)' = EVM!Live(d, HashIn(codes', None), FALSE, Read(storage'[Floor]))
          /\ Read(storage[Floor]) = [k \in Keys |-> 0]
      BY <2>1, CreatedHere, Zenon
    <3> QED  BY <1>1, <3>1, NoHashNext
  <2> QED  BY <2>2, ChangesOfNobody, Zenon DEF TxView
<1> QED  BY <1>2, <1>3

LEMMA IncarnationView ==
    ASSUME Core, Core', TopKept, ScopesAccounted, NEW a \in Addrs, NEW d \in Datas,
           update_account_incarnation(a, d)
    PROVE  TxView(a)
<1>1. /\ stage[a] = "present" /\ gcstore' = Queued(IdOf(a))
      /\ CreateIn(Without(IdOf(a)), a, d, None) /\ UNCHANGED storage
  BY DEF update_account_incarnation, remove_account
<1>2. DOMAIN Without(IdOf(a)) \subseteq DOMAIN account /\ SameNext(Without(IdOf(a)))
  <2>1. IdOf(a) \in DOMAIN account
    BY <1>1, RowOf DEF Core, StageFits, HasRow
  <2> QED  BY <1>1, <2>1, WithoutRow, TopStays, Zenon DEF Core
<1>3. read_account(a)' = EVM!Live(d, None, FALSE, [k \in Keys |-> 0])
  <2>1. /\ read_account(a)' = EVM!Live(d, HashIn(codes', None), FALSE, Read(storage'[Floor]))
        /\ Read(storage[Floor]) = [k \in Keys |-> 0]
    BY <1>1, <1>2, CreatedView, ZenonT(40)
  <2> QED  BY <1>1, <2>1, NoHashNext
<1> QED  BY <1>3, ChangesOfNobody, Zenon DEF TxView

LEMMA RemovedView ==
    ASSUME Core, Core', NEW a \in Addrs, NEW i \in DOMAIN account, account[i].eth_address = a,
           remove_account(i), account' = Without(i), UNCHANGED <<config2, _config2>>
    PROVE  read_account(a)' = EVM!Nobody
<1>1. \A j \in DOMAIN account' : account'[j].eth_address # a
  BY WithoutRow, Zenon DEF Core
<1> QED  BY <1>1, ViewNext

LEMMA SharedHash ==
    ASSUME Core, NEW h \in Hashes
    PROVE  HashIn(Shared(h), SharedId(h)) = h
<1>1. CASE HasCode(h)
  <2>1. SharedId(h) \in DOMAIN codes /\ codes[SharedId(h)].code_hash = h /\ SharedId(h) = CodeOf(h)
    BY <1>1 DEF SharedId, HasCode, CodeOf
  <2>2. DOMAIN Shared(h) = DOMAIN codes
    BY <1>1 DEF Shared
  <2> QED  BY <2>1, <2>2, HashesStay DEF HashIn
<1>2. CASE ~HasCode(h)
  BY <1>2 DEF Shared, HashIn, Emplace
<1> QED  BY <1>1, <1>2

LEMMA CodeView ==
    ASSUME Core, Core', ScopesAccounted, NEW a \in Addrs, NEW h \in Hashes,
           update_account_code(a, h)
    PROVE  TxView(a)
<1>1. codes' = Shared(h) /\ UNCHANGED storage /\ stage[a] \in {"missing", "new"}
  BY DEF update_account_code
<1>2. HashIn(codes', SharedId(h)) = h
  BY <1>1, SharedHash
<1>3. CASE HasRow(a)
  <2> DEFINE i == IdOf(a)
  <2>1. i \in DOMAIN account /\ account[i].eth_address = a
    BY <1>3, RowOf
  <2>2. account' = [account EXCEPT ![i].code_id = SharedId(h)]
    BY <1>3 DEF update_account_code
  <2> HIDE DEF i
  <2>3. /\ i \in DOMAIN account' /\ account'[i].eth_address = a
        /\ account'[i].data = account[i].data
        /\ account'[i].code_id = SharedId(h) /\ account'[i].frozen = account[i].frozen
    BY <2>1, <2>2, Zenon DEF Core, AccountsOK, AccountRow
  <2>4. account[i].code_id = None
    BY <1>1, <2>1 DEF Core, StageFits
  <2>5. read_account(a) = EVM!Live(account[i].data, None, account[i].frozen, Read(storage[i]))
    BY <2>1, <2>4, ViewOf, NoHash, Zenon DEF Views, RowView
  <2>6. read_account(a)' = EVM!Live(account[i].data, h, account[i].frozen, Read(storage[i]))
    BY <1>1, <1>2, <2>3, ViewNext, SMTT(30) DEF RowView
  <2> QED  BY <2>5, <2>6, Changes, Zenon DEF TxView
<1>4. CASE ~HasRow(a)
  <2>1. CreateIn(account, a, 0, SharedId(h))
    BY <1>4 DEF update_account_code
  <2>2. read_account(a)' = EVM!Live(0, h, FALSE, [k \in Keys |-> 0])
    <3>1. /\ read_account(a)' = EVM!Live(0, HashIn(codes', SharedId(h)), FALSE, Read(storage'[Floor]))
          /\ Read(storage[Floor]) = [k \in Keys |-> 0]
      BY <2>1, CreatedHere, Zenon
    <3> QED  BY <1>1, <1>2, <3>1
  <2>3. read_account(a) = EVM!Nobody
    BY <1>4, ViewOf DEF Views, HasRow
  <2> QED  BY <2>2, <2>3, ChangesOfNobody, Zenon DEF TxView
<1> QED  BY <1>3, <1>4


LEMMA StorageView ==
    ASSUME Core, Core', ScopesAccounted, NEW a \in Addrs, NEW k \in Keys, NEW v \in Values,
           update_storage(a, k, v)
    PROVE  TxView(a)
<1>1. UNCHANGED codes /\ v # None /\ None \notin Values
  BY StoreAssumption DEF update_storage, None
<1>2. CASE HasRow(a)
  <2> DEFINE i == IdOf(a)
  <2>1. i \in DOMAIN account /\ account[i].eth_address = a
    BY <1>2, RowOf
  <2> DEFINE x == IF v = 0 THEN None ELSE v
  <2>2. account' = account /\ storage' = [storage EXCEPT ![i][k] = x]
    BY <1>2 DEF update_storage
  <2>3. x \in Values \cup {None} /\ v = (IF x = None THEN 0 ELSE x)
    BY <1>1
  <2> HIDE DEF i, x
  <2>4. i \in Ids
    BY <2>1 DEF Core, AccountsOK
  <2>5. Read(storage'[i]) = EVM!Put(Read(storage[i]), k, v)
    BY <2>2, <2>3, <2>4, ReadWritten, Zenon
  <2>6. read_account(a) = EVM!Live(account[i].data, HashIn(codes, account[i].code_id),
                                   account[i].frozen, Read(storage[i]))
    BY <2>1, ViewOf DEF Views, RowView
  <2>7. read_account(a)' = EVM!Live(account[i].data, HashIn(codes, account[i].code_id),
                                    account[i].frozen, EVM!Put(Read(storage[i]), k, v))
    BY <1>1, <2>1, <2>2, <2>5, ViewNext, SMTT(30) DEF RowView
  <2> QED  BY <2>6, <2>7, Changes, Zenon DEF TxView
<1>3. CASE ~HasRow(a)
  <2>1. CreateIn(account, a, 0, None)
    BY <1>3 DEF update_storage
  <2>2. /\ read_account(a)' = EVM!Live(0, HashIn(codes', None), FALSE, Read(storage'[Floor]))
        /\ Read(storage[Floor]) = [l \in Keys |-> 0] /\ Floor \in Ids
    BY <2>1, CreatedHere, Zenon
  <2>3. storage' = [storage EXCEPT ![Floor][k] = v]
    <3>1. get_next_account_id(account) = Floor
      BY NextIdHere
    <3> QED  BY <1>3, <3>1 DEF update_storage
  <2>4. Read(storage'[Floor]) = EVM!Put([l \in Keys |-> 0], k, v)
    <3>1. v = (IF v = None THEN 0 ELSE v) /\ v \in Values \cup {None}
      BY <1>1
    <3>2. Read(storage'[Floor]) = EVM!Put(Read(storage[Floor]), k, v)
      BY <2>2, <2>3, <3>1, ReadWritten, Zenon
    <3> QED  BY <2>2, <3>2
  <2>5. read_account(a)' = EVM!Live(0, None, FALSE, EVM!Put([l \in Keys |-> 0], k, v))
    BY <2>2, <2>4, NoHashNext, Zenon
  <2>6. read_account(a) = EVM!Nobody
    BY <1>3, ViewOf, SMTT(30) DEF Views, HasRow
  <2> QED  BY <2>5, <2>6, ChangesOfNobody, Zenon DEF TxView
<1> QED  BY <1>2, <1>3

LEMMA TxViewHolds ==
    ASSUME Core, Core', TopKept, ScopesAccounted, NEW a \in Addrs, TxCall(a)
    PROVE  TxView(a) /\ read_account(a).frozen = FALSE
<1>1. ASSUME update_account_removed(a) PROVE TxView(a)
  <2>1. /\ stage[a] = "present" /\ remove_account(IdOf(a)) /\ account' = Without(IdOf(a))
        /\ UNCHANGED <<config2, _config2>>
    BY <1>1 DEF update_account_removed
  <2>2. IdOf(a) \in DOMAIN account /\ account[IdOf(a)].eth_address = a
    BY <2>1, RowOf DEF Core, StageFits, HasRow
  <2>3. read_account(a)' = EVM!Nobody
    BY <2>1, <2>2, RemovedView
  <2> QED  BY <2>3, ChangesOfNobody, Zenon DEF TxView
<1>2. stage[a] # "unread"
  BY DEF TxCall, update_account, update_account_incarnation, update_account_removed,
         update_account_code, update_storage
<1> QED  BY <1>1, <1>2, UpdateView, IncarnationView, CodeView, StorageView, ReadFirst, Zenon DEF TxCall

LEMMA AdminViewHolds ==
    ASSUME Core, Core', NEW id \in DOMAIN account, AdminCall(id),
           NEW a \in Addrs, account[id].eth_address = a
    PROVE  read_account(a)' \in EVM!Repairs(read_account(a)) /\ read_account(a).live = TRUE
<1>1. id \in Ids /\ account[id] \in AccountRow
  BY DEF Core, AccountsOK
<1>2. read_account(a) = EVM!Live(account[id].data, HashIn(codes, account[id].code_id),
                                 account[id].frozen, Read(storage[id]))
  BY ViewOf DEF Views, RowView
<1>3. read_account(a).live = TRUE
  <2>1. HasRow(a) = TRUE
    BY Zenon DEF HasRow
  <2>2. read_account(a).live = HasRow(a)
    BY Zenon DEF read_account
  <2> QED  BY <2>1, <2>2, Zenon
<1>4. ASSUME NEW value \in BOOLEAN, freezeaccnt(id, value)
      PROVE  read_account(a)' \in EVM!Repairs(read_account(a))
  <2>1. /\ id \in DOMAIN account' /\ account'[id].eth_address = a
        /\ account'[id].data = account[id].data /\ account'[id].code_id = account[id].code_id
        /\ account'[id].frozen = value /\ UNCHANGED <<codes, storage>>
    BY <1>1, <1>4 DEF freezeaccnt, AccountRow
  <2>2. read_account(a)' = EVM!Live(account[id].data, HashIn(codes, account[id].code_id),
                                    value, Read(storage[id]))
    BY <2>1, ViewNext DEF RowView
  <2> QED  BY <1>2, <2>2, Changes, Zenon
<1>5. ASSUME NEW d \in Datas, addevmbal(id, d)
      PROVE  read_account(a)' \in EVM!Repairs(read_account(a))
  <2>1. /\ id \in DOMAIN account' /\ account'[id].eth_address = a
        /\ account'[id].data = d /\ account'[id].code_id = account[id].code_id
        /\ account'[id].frozen = account[id].frozen /\ UNCHANGED <<codes, storage>>
    BY <1>1, <1>5, SMTT(30) DEF addevmbal, AccountRow
  <2>2. read_account(a)' = EVM!Live(d, HashIn(codes, account[id].code_id),
                                    account[id].frozen, Read(storage[id]))
    BY <2>1, ViewNext DEF RowView
  <2> QED  BY <1>2, <2>2, Changes, Zenon
<1>6. ASSUME rmaccount(id)
      PROVE  read_account(a)' \in EVM!Repairs(read_account(a))
  <2>1. remove_account(id) /\ account' = Without(id) /\ UNCHANGED <<config2, _config2>>
    BY <1>6 DEF rmaccount, running
  <2>2. read_account(a)' = EVM!Nobody
    BY <2>1, RemovedView
  <2> QED  BY <2>2, ChangesOfNobody, Zenon
<1>7. ASSUME NEW k \in Keys, NEW v \in Values \cup {None}, setkvstore(id, k, v)
      PROVE  read_account(a)' \in EVM!Repairs(read_account(a))
  <2> DEFINE x == IF v = None THEN 0 ELSE v
  <2>1. x \in Values
    BY StoreAssumption
  <2>2. UNCHANGED <<account, codes>> /\ storage' = [storage EXCEPT ![id][k] = v]
    BY <1>7 DEF setkvstore
  <2>3. Read(storage'[id]) = EVM!Put(Read(storage[id]), k, x)
    BY <1>1, <2>2, ReadWritten, Zenon
  <2> HIDE DEF x
  <2>4. read_account(a)' = EVM!Live(account[id].data, HashIn(codes, account[id].code_id),
                                    account[id].frozen, EVM!Put(Read(storage[id]), k, x))
    BY <2>2, <2>3, ViewNext, Zenon DEF RowView
  <2> QED  BY <1>2, <2>1, <2>4, Changes, Zenon
<1> QED  BY <1>3, <1>4, <1>5, <1>6, <1>7, Zenon DEF AdminCall

World == [a \in Addrs |-> read_account(a)]

LEMMA RefinementStep ==
    ASSUME Core, Core', TopKept, ScopesAccounted, GarbageIsDead, [Next]_vars
    PROVE  EVM!Next \/ UNCHANGED World
<1>1. ASSUME NEW a \in Addrs, TxCall(a) PROVE EVM!Next
  <2>1. TxView(a) /\ read_account(a).frozen = FALSE
    BY <1>1, TxViewHolds, Zenon
  <2>2. \A b \in Addrs \ {a} : read_account(b)' = read_account(b)
    BY <1>1, TxCallKeeps, TxEffect, OthersSame
  <2>3. EVM!Becomes(a, read_account(a)')
    BY <2>2, BecomesView
  <2> DEFINE w == read_account(a)'
  <2>4. w \in EVM!TxChanges(read_account(a)) /\ EVM!Becomes(a, w)
    BY <2>1, <2>3 DEF TxView
  <2> HIDE DEF w
  <2> QED  BY <2>1, <2>4 DEF EVM!Next
<1>2. ASSUME NEW id \in DOMAIN account, AdminCall(id) PROVE EVM!Next
  <2>1. PICK a \in Addrs : account[id].eth_address = a
    BY <1>2 DEF Core, AccountsOK, AccountRow
  <2>2. read_account(a)' \in EVM!Repairs(read_account(a)) /\ read_account(a).live = TRUE
    BY <1>2, <2>1, AdminViewHolds, Zenon
  <2>3. \A b \in Addrs \ {a} : read_account(b)' = read_account(b)
    BY <1>2, <2>1, AdminEffect, OthersSame
  <2>4. EVM!Becomes(a, read_account(a)')
    BY <2>3, BecomesView
  <2> DEFINE w == read_account(a)'
  <2>5. w \in EVM!Repairs(read_account(a)) /\ EVM!Becomes(a, w)
    BY <2>2, <2>4
  <2> HIDE DEF w
  <2> QED  BY <2>2, <2>5, Zenon DEF EVM!Next
<1>3. ASSUME UNCHANGED <<account, codes>>, \A i \in DOMAIN account : storage'[i] = storage[i]
      PROVE  UNCHANGED World
  <2>1. ASSUME NEW b \in Addrs PROVE read_account(b)' = read_account(b)
    <3>1. CASE \A i \in DOMAIN account : account[i].eth_address # b
      <4>1. read_account(b) = EVM!Nobody
        BY <3>1, ViewOf DEF Views
      <4>2. read_account(b)' = EVM!Nobody
        BY <1>3, <3>1, ViewNext, SMTT(30)
      <4> QED  BY <4>1, <4>2
    <3>2. CASE \E i \in DOMAIN account : account[i].eth_address = b
      <4>1. PICK i \in DOMAIN account : account[i].eth_address = b
        BY <3>2
      <4>2. read_account(b) = RowView(account[i], codes, storage[i])
        BY <4>1, ViewOf DEF Views
      <4>3. read_account(b)' = RowView(account'[i], codes', storage'[i])
        BY <1>3, <4>1, ViewNext
      <4> QED  BY <1>3, <4>2, <4>3
    <3> QED  BY <3>1, <3>2
  <2> QED  BY <2>1 DEF World
<1> QED  BY <1>1, <1>2, <1>3, GcEffect, StepCases, SMTT(30)

\* The tables implement the accounts of EvmState: whatever ids, scopes, shared
\* code and garbage there are, the EVM sees one account per address, removal
\* takes effect at once, and a call changes what is seen at one address only.
THEOREM TablesImplementState == Spec => StateRefinement
<1>1. Init => EVM!Init
  <2> SUFFICES ASSUME Init PROVE EVM!Init
    OBVIOUS
  <2>1. DOMAIN account = {}
    BY DEF Init, NoRows
  <2>2. \A a \in Addrs : read_account(a) = EVM!Nobody
    BY <2>1, CoreInit, ViewOf DEF Views
  <2> QED  BY <2>2 DEF EVM!Init
<1>2. Core /\ Core' /\ Started /\ ScopesAccounted /\ GarbageIsDead /\ [Next]_vars
         => [EVM!Next]_([a \in Addrs |-> read_account(a)])
  BY RefinementStep, StartedKept DEF World
<1> QED  BY <1>1, <1>2, SpecCore, ScopesSafe, OnlyGarbage, PTL DEF Spec, StateRefinement, EVM!Spec

\* From the tables of a release without config2 on, the steps are still those of
\* EvmState, provided that the tables are as in UpgradedInit, no account's scope
\* is queued when the contract is upgraded, and the account with the highest id
\* stays until a new one is made.  With such a scope queued the steps are not
\* those of EvmState: gc would erase slots the account sees.
THEOREM UpgradedTablesImplementState ==
    UpgradedSpec /\ GarbageIsDead => [][EVM!Next]_([a \in Addrs |-> read_account(a)])
<1>1. Core /\ Core' /\ ScopesAccounted /\ GarbageIsDead /\ [Next /\ TopKept]_vars
         => [EVM!Next]_([a \in Addrs |-> read_account(a)])
  BY UpgradedStep, RefinementStep DEF World
<1> QED  BY <1>1, UpgradedInvariant, UpgradedDead, PTL DEF UpgradedSpec

=============================================================================
