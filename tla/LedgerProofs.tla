---------------------------- MODULE LedgerProofs ----------------------------
(***************************************************************************)
(* The bookkeeping of Ledger is exact for every set of accounts and        *)
(* addresses, every supply and every bound; and the repairs of the         *)
(* administrator leave all of it but Conservation, which then holds up to  *)
(* their sum.                                                              *)
(***************************************************************************)
EXTENDS LedgerLemmas, LedgerRepairs

-----------------------------------------------------------------------------
\* The inductive invariant.  Solvency needs the exact value of inevm, which
\* Conservation carries from one transaction to the next; NonceFresh needs the
\* nonces of the transactions that wait on the stack.

NoncesTaken == replayed = FALSE /\ Taken(nextnonces, used, stack)

NothingBeforeInit == ~inited => inevm = ZeroBalance

\* Conservation up to an amount d that was added to the tables without tokens:
\* zero here, the sum of the administrator's repairs in RInv.
Backed(d) == held * MinAsset + d = Funds(balances, inevm, stack)

Sound ==
    /\ TypeOK
    /\ RowsConsistent
    /\ Solvency
    /\ NoncesTaken
    /\ NothingBeforeInit

IInv(d) == Sound /\ Backed(d)

\* A bridge transaction: the account pays what enters the EVM.
LEMMA BridgeTx ==
    ASSUME TypeOK, Self \in open, Solvency, NEW b \in Table, NEW from \in Accounts, NEW nonce,
           NEW x \in Nat, NEW s \in Seq(Item), NEW notified,
           bridge_tx(b, from, nonce, x, s, notified)
    PROVE  /\ TxDone(b, 0, s)
           /\ used' = used \cup {<<from, nonce>>}
           /\ replayed' = (replayed \/ <<from, nonce>> \in used)
<1> DEFINE c == [b EXCEPT ![from] = Deduct(@, x)]
<1>1. /\ from \in open /\ CanDeduct(b[from], x) /\ process_tx(c, x, Self, s, notified)
      /\ used' = used \cup {<<from, nonce>>}
      /\ replayed' = (replayed \/ <<from, nonce>> \in used)
  BY DEF bridge_tx
<1>2. b[from] \in Balance
  BY DEF Table
<1>3. Deduct(b[from], x) \in Balance /\ Value(Deduct(b[from], x)) = Value(b[from]) - x
  BY <1>1, <1>2, DeductExact
<1>4. /\ c \in Table /\ c[from] = Deduct(b[from], x)
      /\ \A a \in Accounts \ {from} : c[a] = b[a]
  BY <1>3 DEF Table
<1> HIDE DEF c
<1>5. Holdings(c) = Holdings(b) + Value(c[from]) - Value(b[from])
  BY <1>4, HoldingsUpdate
<1>6. inevm \in Balance /\ Value(b[from]) \in Nat
  BY <1>2, ValueType DEF TypeOK
<1>7. Funds(c, inevm, s) + x = Funds(b, inevm, s)
  <2> DEFINE owed == OwedIn(s) * MinAsset
  <2>1. owed \in Nat /\ Holdings(b) \in Nat /\ Holdings(c) \in Nat /\ Value(inevm) \in Nat
    BY <1>4, <1>6, FundsType, SMTT(30)
  <2>2. Holdings(c) + x = Holdings(b)
    BY <1>3, <1>4, <1>5, <1>6, <2>1, SMTT(30)
  <2> HIDE DEF owed
  <2>3. Holdings(c) + Value(inevm) + owed + x = Holdings(b) + Value(inevm) + owed
    BY <2>1, <2>2
  <2> QED  BY <2>3 DEF Funds, owed
<1>8. TxDone(c, x, s)
  BY <1>1, <1>4, ProcessTx, Zenon
<1>9. \A a \in Accounts \ open : c[a] = b[a]
  BY <1>1, <1>4
<1>10. Funds(b, inevm, s) + 0 = Funds(b, inevm, s)
  <2>1. Funds(b, inevm, s) \in Nat
    BY <1>6, FundsType
  <2> QED  BY <2>1
<1>11. TxDone(b, 0, s)
  BY <1>7, <1>8, <1>9, <1>10, ZenonT(40) DEF TxDone
<1> QED  BY <1>1, <1>11

\* What the contract does with a transaction of its own, now or in an inline
\* pushtx, on balances b.
Dispatched(b) ==
    /\ balances' \in Table /\ inevm' \in Balance /\ evm' \in [Addrs -> Nat]
    /\ stack' \in Seq(Item)
    /\ \A a \in Accounts \ open : balances'[a] = b[a]
    /\ Funds(balances', inevm', stack') = Funds(b, inevm, stack)
    /\ Total(evm') <= Value(inevm')
    /\ nextnonces' \in Nonces
    /\ \A a \in Accounts : nextnonces[a] # NoRow => nextnonces'[a] # NoRow
    /\ used' \subseteq Accounts \X Nat
    /\ replayed' = FALSE /\ Taken(nextnonces', used', stack')
    /\ UNCHANGED <<inited, frozen, bridging, open, egresslist, receivers>>

LEMMA DispatchTx ==
    ASSUME TypeOK, Self \in open, Solvency, NoncesTaken, NEW b \in Table, NEW from \in Accounts,
           NEW x \in Nat, NEW notified, dispatch_tx(b, from, x, notified)
    PROVE  Dispatched(b)
<1> DEFINE n == nextnonces[from]
           next == [nextnonces EXCEPT ![from] = @ + 1]
           it == PushTx(from, n, x)
<1>1. nextnonces[from] # NoRow /\ nextnonces' = next
  BY DEF dispatch_tx
<1>2. /\ nextnonces \in Nonces /\ used \in SUBSET (Accounts \X Nat) /\ stack \in Seq(Item)
      /\ Taken(nextnonces, used, stack) /\ replayed = FALSE
      /\ inevm \in Balance /\ evm \in [Addrs -> Nat]
  BY DEF TypeOK, Nonces, NoncesTaken
<1>3. /\ n \in Nat /\ next \in Nonces
      /\ <<from, n>> \notin used
      /\ Taken(next, used \cup {<<from, n>>}, stack)
      /\ it \in Item
      /\ Taken(next, used, Append(stack, it))
  BY <1>1, <1>2, TakenNew, Zenon
<1>4. \A a \in Accounts : nextnonces[a] # NoRow => next[a] # NoRow
  BY <1>2, <1>3, SMTT(30) DEF NoRow, Nonces
<1>5. TakenBy(it) = 0 /\ it.kind = "pushtx"
  BY DEF TakenBy, PushTx
<1> HIDE DEF next, it
<1>6. CASE bridging
  <2>1. bridge_tx(b, from, n, x, stack, notified)
    BY <1>6 DEF dispatch_tx
  <2>2. /\ TxDone(b, 0, stack)
        /\ used' = used \cup {<<from, n>>}
        /\ replayed' = (replayed \/ <<from, n>> \in used)
    BY <1>2, <2>1, BridgeTx, Zenon
  <2>3. replayed' = FALSE
    BY <1>2, <1>3, <2>2, Zenon
  <2>4. used' \subseteq Accounts \X Nat
    BY <1>2, <1>3, <2>2
  <2>5. Taken(nextnonces', used', stack')
    <3>1. Grown(stack, stack')
      BY <2>2 DEF TxDone
    <3>2. Taken(next, used \cup {<<from, n>>}, stack')
      BY <1>2, <1>3, <3>1, TakenGrown, Zenon
    <3> QED  BY <1>1, <2>2, <3>2, Zenon
  <2>6. Funds(balances', inevm', stack') = Funds(b, inevm, stack)
    <3>1. Funds(b, inevm, stack) \in Nat
      BY <1>2, FundsType
    <3> QED  BY <2>2, <3>1 DEF TxDone
  <2>7. stack' \in Seq(Item)
    BY <2>2 DEF TxDone, Grown
  <2> QED  BY <1>1, <1>3, <1>4, <2>2, <2>3, <2>4, <2>5, <2>6, <2>7, ZenonT(40) DEF TxDone, Dispatched
<1>7. CASE ~bridging
  <2>1. /\ balances' = b
        /\ stack' = ThenForeign(Append(stack, it), notified)
        /\ UNCHANGED <<inited, frozen, bridging, open, inevm, egresslist, receivers,
                       evm, used, replayed>>
    BY <1>7 DEF dispatch_tx, it
  <2>2. Append(stack, it) \in Seq(Item) /\ OwedIn(Append(stack, it)) = OwedIn(stack)
    <3>1. /\ Append(stack, it) \in Seq(Item)
          /\ OwedIn(Append(stack, it)) = OwedIn(stack) + TakenBy(it)
          /\ OwedIn(stack) \in Nat
      BY <1>2, <1>3, OwedAppend, OwedType
    <3> QED  BY <1>5, <3>1
  <2>3. stack' \in Seq(Item) /\ OwedIn(stack') = OwedIn(stack)
    <3>1. /\ ThenForeign(Append(stack, it), notified) \in Seq(Item)
          /\ OwedIn(ThenForeign(Append(stack, it), notified)) = OwedIn(Append(stack, it))
      BY <2>2, ThenForeignIs, Zenon
    <3> QED  BY <2>1, <2>2, <3>1, Zenon
  <2>4. Funds(balances', inevm', stack') = Funds(b, inevm, stack)
    BY <2>1, <2>3, Zenon DEF Funds
  <2>5. Taken(nextnonces', used', stack')
    <3>1. Grown(Append(stack, it), ThenForeign(Append(stack, it), notified))
      BY <2>2, GrownSame, GrownForeign, Zenon
    <3>2. Taken(next, used, ThenForeign(Append(stack, it), notified))
      BY <1>3, <2>2, <3>1, TakenGrown, Zenon
    <3>3. nextnonces' = next /\ used' = used
      BY <1>1, <2>1
    <3> QED  BY <2>1, <3>2, <3>3, Zenon
  <2>6. Total(evm') <= Value(inevm')
    BY <2>1 DEF Solvency
  <2> QED  BY <1>1, <1>2, <1>3, <1>4, <2>1, <2>3, <2>4, <2>5, <2>6, ZenonT(40) DEF Dispatched
<1> QED  BY <1>6, <1>7, SMTT(30)

\* The parts of the invariant in the terms of the lemmas above.
LEMMA Parts ==
    ASSUME Sound
    PROVE  /\ TypeOK /\ Solvency /\ NoncesTaken /\ RowsConsistent
           /\ open \subseteq Accounts /\ balances \in Table /\ inevm \in Balance
           /\ evm \in [Addrs -> Nat] /\ held \in Nat /\ held <= Supply
           /\ stack \in Seq(Item) /\ nextnonces \in Nonces
           /\ used \in SUBSET (Accounts \X Nat) /\ replayed = FALSE
           /\ Taken(nextnonces, used, stack)
           /\ inited => Self \in open
           /\ \A a \in Accounts \ open : balances[a] = ZeroBalance
           /\ \A a \in open : nextnonces[a] # NoRow
<1>1. TypeOK /\ Solvency /\ NoncesTaken /\ RowsConsistent
  BY DEF Sound
<1>2. held \in Nat /\ held <= Supply
  BY <1>1, LedgerAssumption DEF TypeOK
<1> QED  BY <1>1, <1>2 DEF TypeOK, Table, Nonces, NoncesTaken, RowsConsistent

\* A step that leaves money and nonces alone.
LEMMA MoneyAlone ==
    ASSUME NEW d \in Int, Sound, Backed(d),
           UNCHANGED <<inited, open, balances, nextnonces, inevm, evm, held, stack, used, replayed>>,
           frozen' \in BOOLEAN, bridging' \in BOOLEAN, egresslist' \subseteq Accounts,
           receivers' \in [Accounts -> Nat \cup {NoRow}]
    PROVE  IInv(d)'
<1>1. TypeOK'
  BY DEF Sound, TypeOK
<1>2. RowsConsistent' /\ NothingBeforeInit'
  BY DEF Sound, RowsConsistent, NothingBeforeInit
<1>3. Backed(d)' /\ Solvency'
  BY DEF Sound, Backed, Solvency
<1>4. NoncesTaken'
  BY DEF Sound, NoncesTaken
<1> QED  BY <1>1, <1>2, <1>3, <1>4, SMTT(30) DEF IInv, Sound

\* A step that opens an account.
LEMMA Opening ==
    ASSUME NEW d \in Int, Sound, Backed(d), NEW owner \in Accounts, open_internal_balance(owner), inited' \in BOOLEAN,
           inited' => inited \/ owner = Self, ~inited' => ~inited,
           receivers' \in [Accounts -> Nat \cup {NoRow}],
           UNCHANGED <<frozen, bridging, inevm, egresslist, evm, held, stack, used, replayed>>
    PROVE  IInv(d)'
<1>1. /\ open' = open \cup {owner} /\ balances' = balances
      /\ nextnonces' = [nextnonces EXCEPT ![owner] = IF @ = NoRow THEN 0 ELSE @]
  BY DEF open_internal_balance
<1>2. nextnonces \in Nonces /\ nextnonces' \in Nonces
  BY <1>1, Parts DEF Nonces
<1>3. \A a \in Accounts : nextnonces'[a] = nextnonces[a] \/ nextnonces[a] <= 0
  BY <1>1, <1>2 DEF Nonces, NoRow
<1>4. TypeOK'
  BY <1>1, <1>2 DEF Sound, TypeOK, Nonces
<1>5. RowsConsistent'
  <2>1. \A a \in Accounts \ open' : balances'[a] = ZeroBalance
    BY <1>1, Parts, SMTT(30)
  <2>2. \A a \in open' : nextnonces'[a] # NoRow
    BY <1>1, <1>2, Parts, SMTT(30) DEF Nonces, NoRow
  <2>3. inited' => Self \in open'
    BY <1>1, Parts
  <2> QED  BY <2>1, <2>2, <2>3, SMTT(30) DEF RowsConsistent
<1>6. Backed(d)' /\ Solvency' /\ NothingBeforeInit'
  BY <1>1 DEF Sound, Backed, Solvency, NothingBeforeInit
<1>7. NoncesTaken'
  BY <1>2, <1>3, Parts, TakenRows, ZenonT(40) DEF NoncesTaken
<1> QED  BY <1>4, <1>5, <1>6, <1>7, SMTT(30) DEF IInv, Sound

\* A step that leaves the accounts as they are, and moves funds.
LEMMA Moving ==
    ASSUME NEW d \in Int, Sound, inited \/ inevm' = inevm,
           UNCHANGED <<inited, frozen, bridging, open, egresslist, receivers>>,
           balances' \in Table, inevm' \in Balance, evm' \in [Addrs -> Nat],
           held' \in Nat, held' <= Supply, stack' \in Seq(Item),
           \A a \in Accounts \ open : balances'[a] = balances[a],
           held' * MinAsset + d = Funds(balances', inevm', stack'),
           Total(evm') <= Value(inevm'),
           nextnonces' \in Nonces,
           \A a \in Accounts : nextnonces[a] # NoRow => nextnonces'[a] # NoRow,
           used' \subseteq Accounts \X Nat, replayed' = FALSE,
           Taken(nextnonces', used', stack')
    PROVE  IInv(d)'
<1>1. held' \in 0 .. Supply
  BY LedgerAssumption
<1>2. TypeOK'
  BY <1>1, Zenon DEF Sound, TypeOK, Table, Nonces
<1>3. RowsConsistent'
  BY Parts, Zenon DEF RowsConsistent
<1>4. Backed(d)' /\ Solvency' /\ NothingBeforeInit'
  BY DEF Sound, Backed, Solvency, NothingBeforeInit, Funds
<1>5. NoncesTaken'
  BY DEF NoncesTaken
<1> QED  BY <1>2, <1>3, <1>4, <1>5, SMTT(30) DEF IInv, Sound

-----------------------------------------------------------------------------
\* One lemma for each operation that moves money or nonces.

\* close: the row that goes is zero, and so is a nonce that goes with it.
LEMMA CloseStep ==
    ASSUME NEW d \in Int, Sound, Backed(d), NEW owner \in Accounts, close(owner)
    PROVE  IInv(d)'
<1>1. /\ owner # Self /\ is_zero(balances[owner])
      /\ open' = open \ {owner}
      /\ balances' = [balances EXCEPT ![owner] = ZeroBalance]
      /\ nextnonces' = [nextnonces EXCEPT ![owner] = NonceAfterClose(@)]
      /\ UNCHANGED <<inited, frozen, bridging, inevm, egresslist, receivers, evm, held, stack,
                     used, replayed>>
  BY DEF close, MayClose
<1>2. balances' = balances
  <2>1. balances[owner] \in Balance
    BY Parts DEF Table
  <2>2. balances[owner] = ZeroBalance
    BY <1>1, <2>1 DEF Balance, ZeroBalance, is_zero
  <2>3. balances \in [Accounts -> Balance]
    BY Parts DEF Table
  <2> QED  BY <1>1, <2>2, <2>3, SMTT(30)
<1>3. nextnonces \in Nonces /\ nextnonces' \in Nonces
  BY <1>1, Parts DEF Nonces, NonceAfterClose
<1>4. \A a \in Accounts : nextnonces'[a] = nextnonces[a] \/ nextnonces[a] <= 0
  BY <1>1, <1>3, SMTT(30) DEF Nonces, NonceAfterClose
<1>5. TypeOK'
  BY <1>1, <1>2, <1>3, SMTT(30) DEF Sound, TypeOK, Nonces
<1>6. RowsConsistent'
  <2>1. \A a \in Accounts \ open' : balances'[a] = ZeroBalance
    BY <1>1, Parts, SMTT(30) DEF Table
  <2>2. \A a \in open' : nextnonces'[a] # NoRow
    BY <1>1, <1>3, Parts, SMTT(30) DEF Nonces
  <2>3. inited' => Self \in open'
    BY <1>1, Parts
  <2> QED  BY <2>1, <2>2, <2>3, SMTT(30) DEF RowsConsistent
<1>7. Backed(d)' /\ Solvency' /\ NothingBeforeInit'
  BY <1>1, <1>2, SMTT(30) DEF Sound, Backed, Solvency, NothingBeforeInit
<1>8. NoncesTaken'
  <2>1. Taken(nextnonces', used, stack)
    BY <1>3, <1>4, Parts, TakenRows, ZenonT(40)
  <2> QED  BY <1>1, <2>1, Parts, SMTT(30) DEF NoncesTaken
<1> QED  BY <1>5, <1>6, <1>7, <1>8 DEF IInv, Sound

\* Adding whole tokens to a row adds their value.
LEMMA WholeTokens ==
    ASSUME NEW b \in Table, NEW a \in Accounts, NEW q \in Int,
           b[a].amount + q \in 0 .. MaxAmount
    PROVE  LET c == [b EXCEPT ![a] = AddTokens(@, q)]
           IN  /\ c \in Table
               /\ \A h \in Accounts \ {a} : c[h] = b[h]
               /\ Holdings(c) = Holdings(b) + q * MinAsset
<1> DEFINE row == AddTokens(b[a], q)
           c == [b EXCEPT ![a] = row]
<1>1. b[a] \in Balance
  BY DEF Table
<1>2. row \in Balance /\ row.amount = b[a].amount + q /\ row.dust = b[a].dust
  BY <1>1 DEF Balance, AddTokens
<1> HIDE DEF row
<1>3. c \in Table /\ c[a] = row /\ \A h \in Accounts \ {a} : c[h] = b[h]
  BY <1>2 DEF Table
<1>4. Value(row) = Value(b[a]) + q * MinAsset
  <2>1. b[a].amount \in Int /\ b[a].dust \in Int /\ MinAsset \in Int
    BY <1>1, BalanceAssumption DEF Balance
  <2>2. (b[a].amount + q) * MinAsset = b[a].amount * MinAsset + q * MinAsset
    BY <2>1
  <2>3. b[a].amount * MinAsset \in Int /\ q * MinAsset \in Int
    BY <2>1
  <2> QED  BY <1>2, <2>1, <2>2, <2>3, SMTT(30) DEF Value
<1>5. Holdings(c) = Holdings(b) + Value(row) - Value(b[a])
  <2> HIDE DEF c
  <2>1. Holdings(c) = Holdings(b) + Value(c[a]) - Value(b[a])
    BY <1>3, HoldingsUpdate, Zenon
  <2> QED  BY <1>3, <2>1
<1>6. Holdings(b) \in Nat /\ Value(b[a]) \in Nat /\ q * MinAsset \in Int
  BY <1>1, HoldingsType, ValueType, BalanceAssumption, SMTT(30)
<1>7. Holdings(c) = Holdings(b) + q * MinAsset
  <2> DEFINE v == q * MinAsset
  <2>1. Value(row) = Value(b[a]) + v /\ v \in Int
    BY <1>4, <1>6
  <2> HIDE DEF v, c
  <2>2. Holdings(c) = Holdings(b) + v
    BY <1>5, <1>6, <2>1, SMTT(30)
  <2> QED  BY <2>2 DEF v
<1> QED  BY <1>3, <1>7 DEF row

\* withdraw: what the row loses is owed to the recipient.
LEMMA WithdrawStep ==
    ASSUME NEW d \in Int, Sound, Backed(d), NEW owner \in Accounts, NEW to \in Accounts, NEW q \in Quantities,
           withdraw(owner, q, to)
    PROVE  IInv(d)'
<1> DEFINE c == [balances EXCEPT ![owner] = AddTokens(@, -q)]
           it == Transfer(to, q)
<1>1. /\ inited /\ owner \in open /\ q > 0 /\ balances[owner].amount >= q
      /\ balances' = c
      /\ stack' = Append(stack, it)
      /\ UNCHANGED <<inited, frozen, bridging, open, nextnonces, inevm, egresslist, receivers,
                     evm, held, used, replayed>>
  BY DEF withdraw, assert_unfrozen
<1>2. q \in Nat /\ balances \in Table /\ balances[owner] \in Balance
  BY Parts, LedgerAssumption DEF Table
<1>3. balances[owner].amount \in Int /\ balances[owner].amount + (-q) \in 0 .. MaxAmount
  BY <1>1, <1>2, BalanceAssumption, SMTT(30) DEF Balance
<1>5. /\ c \in Table
      /\ \A h \in Accounts \ {owner} : c[h] = balances[h]
      /\ Holdings(c) = Holdings(balances) + (-q) * MinAsset
  <2>1. -q \in Int
    BY <1>2
  <2> QED  BY <1>2, <1>3, <2>1, WholeTokens, Zenon
<1>6. it \in Item /\ TakenBy(it) = q /\ it.kind # "pushtx"
  BY <1>2 DEF Transfer, Item, TakenBy
<1> HIDE DEF c, it
<1>7. stack' \in Seq(Item) /\ OwedIn(stack') = OwedIn(stack) + q
  <2>1. Append(stack, it) \in Seq(Item) /\ OwedIn(Append(stack, it)) = OwedIn(stack) + q
    BY <1>6, Parts, OwedAppend, SMTT(30)
  <2> QED  BY <1>1, <2>1, Zenon
<1>8. Funds(balances', inevm', stack') = Funds(balances, inevm, stack)
  <2>1. /\ Holdings(balances) \in Nat /\ Value(inevm) \in Nat
        /\ OwedIn(stack) \in Nat /\ OwedIn(stack) * MinAsset \in Nat /\ q * MinAsset \in Nat
    BY <1>2, Parts, FundsType, BalanceAssumption, SMTT(30)
  <2>2. (OwedIn(stack) + q) * MinAsset = OwedIn(stack) * MinAsset + q * MinAsset
    BY <1>2, <2>1, BalanceAssumption
  <2>3. (-q) * MinAsset = -(q * MinAsset)
    BY <1>2, BalanceAssumption, SMTT(30)
  <2> DEFINE v == q * MinAsset
             w == OwedIn(stack) * MinAsset
  <2>4. /\ Holdings(balances') = Holdings(balances) - v
        /\ OwedIn(stack') * MinAsset = w + v
        /\ v \in Nat /\ w \in Nat
    BY <1>1, <1>5, <1>7, <2>1, <2>2, <2>3, Zenon
  <2> HIDE DEF v, w
  <2>5. Holdings(balances') + Value(inevm) + (w + v) = Holdings(balances) + Value(inevm) + w
    BY <2>1, <2>4, SMTT(30)
  <2>6. Funds(balances', inevm, stack') = Funds(balances, inevm, stack)
    BY <2>4, <2>5, SMTT(30) DEF Funds, w
  <2> QED  BY <1>1, <2>6, SMTT(30)
<1>9. Taken(nextnonces', used', stack')
  <2>1. Grown(stack, Append(stack, it))
    BY <1>6, Parts, GrownSame, GrownAppend, Zenon
  <2>2. Taken(nextnonces, used, Append(stack, it))
    BY <2>1, Parts, TakenGrown, ZenonT(40)
  <2> QED  BY <1>1, <2>2, Zenon
<1>10. \A a \in Accounts \ open : balances'[a] = balances[a]
  BY <1>1, <1>5, Zenon
<1>11. /\ held' * MinAsset + d = Funds(balances', inevm', stack')
       /\ Total(evm') <= Value(inevm')
       /\ held' \in Nat /\ held' <= Supply
  BY <1>1, <1>8, Parts, SMTT(30) DEF Solvency, Backed
<1> QED  BY <1>1, <1>5, <1>7, <1>9, <1>10, <1>11, Parts, Moving, Zenon

\* Any EVM transaction from outside.
LEMMA OutsideStep ==
    ASSUME NEW d \in Int, Sound, Backed(d), inited, NEW miner \in open, process_tx(balances, 0, miner, stack, FALSE),
           UNCHANGED <<nextnonces, held, used, replayed>>
    PROVE  IInv(d)'
<1>1. Self \in open /\ balances \in Table /\ stack \in Seq(Item) /\ 0 \in Nat
  BY Parts
<1>2. TxDone(balances, 0, stack)
  BY <1>1, Parts, ProcessTx, Zenon
<1>3. Grown(stack, stack') /\ stack' \in Seq(Item)
  BY <1>2 DEF TxDone, Grown
<1>4. Taken(nextnonces', used', stack')
  <2>1. Taken(nextnonces, used, stack')
    BY <1>1, <1>3, Parts, TakenGrown, ZenonT(40)
  <2> QED  BY <2>1
<1>5. held' * MinAsset + d = Funds(balances', inevm', stack')
  <2>1. Funds(balances, inevm, stack) \in Nat
    BY Parts, FundsType, SMTT(30)
  <2> QED  BY <1>2, <2>1, SMTT(30) DEF TxDone, Backed
<1>6. held' \in Nat /\ held' <= Supply /\ nextnonces' \in Nonces /\ used' \subseteq Accounts \X Nat
      /\ replayed' = FALSE
  BY Parts, SMTT(30)
<1> QED  BY <1>2, <1>3, <1>4, <1>5, <1>6, Moving, ZenonT(40) DEF TxDone

\* A transaction of the contract on balances b, while the tokens held change
\* by as much as the balances were changed before it.
LEMMA OwnStep ==
    ASSUME NEW d \in Int, Sound, Backed(d), inited, NEW b \in Table, NEW from \in Accounts, NEW x \in Nat, NEW notified,
           dispatch_tx(b, from, x, notified),
           \A a \in Accounts \ open : b[a] = balances[a],
           held' \in Nat, held' <= Supply, held' * MinAsset + d = Funds(b, inevm, stack)
    PROVE  IInv(d)'
<1>1. Self \in open /\ TypeOK /\ Solvency /\ NoncesTaken
  BY Parts
<1>2. Dispatched(b)
  BY <1>1, DispatchTx, Zenon
<1>3. /\ held' * MinAsset + d = Funds(balances', inevm', stack')
      /\ \A a \in Accounts \ open : balances'[a] = balances[a]
  BY <1>2 DEF Dispatched
<1> QED  BY <1>2, <1>3, Moving, Zenon DEF Dispatched

LEMMA CallStep ==
    ASSUME NEW d \in Int, Sound, Backed(d), NEW from \in Accounts, NEW x \in Amounts, call(from, x)
    PROVE  IInv(d)'
<1>1. inited /\ dispatch_tx(balances, from, x, FALSE) /\ held' = held
  BY ZenonT(40) DEF call, assert_unfrozen
<1>2. x \in Nat /\ balances \in Table
  BY Parts, LedgerAssumption, SMTT(30)
<1>3. held' \in Nat /\ held' <= Supply /\ held' * MinAsset + d = Funds(balances, inevm, stack)
  BY <1>1, Parts, SMTT(30) DEF Backed
<1> QED  BY <1>1, <1>2, <1>3, OwnStep, ZenonT(40)

\* The pushtx leaves the stack and its transaction runs.
LEMMA PushTxInlineStep ==
    ASSUME NEW d \in Int, Sound, Backed(d), pushtx_inline
    PROVE  IInv(d)'
<1>1. /\ stack # <<>> /\ Top.kind = "pushtx" /\ inited
      /\ bridge_tx(balances, Top.who, Top.nonce, Top.amount, Popped, FALSE)
      /\ UNCHANGED <<nextnonces, held>>
  BY Zenon DEF pushtx_inline, assert_unfrozen
<1>2. /\ Popped \in Seq(Item) /\ Top \in Item /\ stack = Append(Popped, Top)
  BY <1>1, Parts, PoppedIs, Zenon
<1>3. Top.who \in Accounts /\ Top.amount \in Nat /\ TxOf(Top) = <<Top.who, Top.nonce>>
      /\ TxOf(Top) \in Accounts \X Nat
  BY <1>2 DEF Item, TxOf
<1>4. Self \in open /\ TypeOK /\ Solvency /\ balances \in Table
  BY <1>1, Parts
<1>5. /\ TxDone(balances, 0, Popped)
      /\ used' = used \cup {TxOf(Top)}
      /\ replayed' = (replayed \/ TxOf(Top) \in used)
  BY <1>1, <1>2, <1>3, <1>4, BridgeTx, ZenonT(40)
<1>6. TxOf(Top) \notin used /\ Taken(nextnonces, used \cup {TxOf(Top)}, Popped)
  <2>1. Taken(nextnonces, used, Append(Popped, Top))
    BY <1>2, Parts, SMTT(30)
  <2> QED  BY <1>1, <1>2, <2>1, TakenPop, Zenon
<1>7. Grown(Popped, stack') /\ stack' \in Seq(Item)
  BY <1>5 DEF TxDone, Grown
<1>8. Taken(nextnonces', used', stack')
  <2>1. Taken(nextnonces, used \cup {TxOf(Top)}, stack')
    BY <1>2, <1>6, <1>7, TakenGrown, Zenon
  <2> QED  BY <1>1, <1>5, <2>1, SMTT(30)
<1>9. OwedIn(stack) = OwedIn(Popped) /\ OwedIn(Popped) \in Nat
  <2>1. OwedIn(Append(Popped, Top)) = OwedIn(Popped) + TakenBy(Top)
    BY <1>2, OwedAppend, Zenon
  <2>2. TakenBy(Top) = 0
    BY <1>1 DEF TakenBy
  <2>3. OwedIn(Popped) \in Nat
    BY <1>2, OwedType
  <2>4. OwedIn(stack) = OwedIn(Append(Popped, Top))
    BY <1>2, Zenon
  <2> HIDE DEF Top, Popped
  <2> QED  BY <2>1, <2>2, <2>3, <2>4, SMTT(30)
<1>10. held' * MinAsset + d = Funds(balances', inevm', stack')
  <2>1. Funds(balances, inevm, Popped) = Funds(balances, inevm, stack)
    BY <1>9, ZenonT(40) DEF Funds
  <2>2. Funds(balances, inevm, Popped) \in Nat
    BY <1>2, Parts, FundsType, SMTT(30)
  <2>3. Funds(balances', inevm', stack') = Funds(balances, inevm, Popped) + 0
    BY <1>5 DEF TxDone
  <2>4. held * MinAsset + d = Funds(balances, inevm, stack) /\ held' = held
    BY <1>1, SMTT(30) DEF Backed
  <2> QED  BY <2>1, <2>2, <2>3, <2>4, SMTT(30)
<1>11. /\ held' \in Nat /\ held' <= Supply /\ nextnonces' \in Nonces
       /\ \A a \in Accounts : nextnonces[a] # NoRow => nextnonces'[a] # NoRow
       /\ used' \subseteq Accounts \X Nat /\ replayed' = FALSE
  BY <1>1, <1>3, <1>5, <1>6, Parts, Zenon
<1> QED  BY <1>1, <1>5, <1>7, <1>8, <1>10, <1>11, Moving, Zenon DEF TxDone

\* Tokens come in and are added to the row of an account.
LEMMA IncomingFunds ==
    ASSUME NEW d \in Int, Sound, Backed(d), NEW q \in Nat, Incoming(q), NEW a \in Accounts, CanAddTokens(balances[a], q)
    PROVE  LET b == [balances EXCEPT ![a] = AddTokens(@, q)]
           IN  /\ b \in Table
               /\ \A h \in Accounts \ {a} : b[h] = balances[h]
               /\ held' \in Nat /\ held' <= Supply
               /\ held' * MinAsset + d = Funds(b, inevm, stack)
<1> DEFINE b == [balances EXCEPT ![a] = AddTokens(@, q)]
<1>1. held' = held + q /\ held' \in Nat /\ held' <= Supply /\ held \in Nat
  BY Parts, LedgerAssumption, SMTT(30) DEF Incoming
<1>2. balances \in Table /\ balances[a] \in Balance
  BY Parts, SMTT(30) DEF Table
<1>3. balances[a].amount + q \in 0 .. MaxAmount
  BY <1>2, BalanceAssumption DEF CanAddTokens, Balance
<1>4. /\ b \in Table
      /\ \A h \in Accounts \ {a} : b[h] = balances[h]
      /\ Holdings(b) = Holdings(balances) + q * MinAsset
  <2>1. q \in Int
    OBVIOUS
  <2> QED  BY <1>2, <1>3, <2>1, WholeTokens, Zenon
<1> HIDE DEF b
<1>5. held' * MinAsset + d = Funds(b, inevm, stack)
  <2> DEFINE v == q * MinAsset
             w == OwedIn(stack) * MinAsset
             g == held * MinAsset
  <2>1. Holdings(balances) \in Nat /\ Value(inevm) \in Nat /\ w \in Nat
    BY Parts, FundsType, SMTT(30)
  <2>2. v \in Nat /\ g \in Nat /\ held' * MinAsset = g + v
    BY <1>1, BalanceAssumption, SMTT(30)
  <2>3. g + d = Holdings(balances) + Value(inevm) + w
    BY DEF Backed, Funds
  <2>4. Holdings(b) = Holdings(balances) + v
    BY <1>4
  <2> HIDE DEF v, w, g
  <2>5. held' * MinAsset + d = Holdings(b) + Value(inevm) + w
    <3>1. (g + v) + d = (Holdings(balances) + v) + Value(inevm) + w
      BY <2>1, <2>2, <2>3
    <3> QED  BY <2>2, <2>4, <3>1, Zenon
  <2> QED  BY <2>5, SMTT(30) DEF Funds, w
<1> QED  BY <1>1, <1>4, <1>5 DEF b

LEMMA AccountTransferStep ==
    ASSUME NEW d \in Int, Sound, Backed(d), NEW q \in Quantities, NEW receiver \in Accounts,
           handle_account_transfer(q, receiver)
    PROVE  IInv(d)'
<1> DEFINE b == [balances EXCEPT ![receiver] = AddTokens(@, q)]
<1>1. /\ inited /\ Incoming(q) /\ receiver \in open /\ CanAddTokens(balances[receiver], q)
      /\ balances' = b
      /\ UNCHANGED <<inited, frozen, bridging, open, nextnonces, inevm, egresslist, receivers,
                     evm, stack, used, replayed>>
  BY DEF handle_account_transfer, assert_unfrozen
<1>2. q \in Nat
  BY LedgerAssumption
<1>3. /\ b \in Table
      /\ \A h \in Accounts \ {receiver} : b[h] = balances[h]
      /\ held' \in Nat /\ held' <= Supply
      /\ held' * MinAsset + d = Funds(b, inevm, stack)
  BY <1>1, <1>2, IncomingFunds, ZenonT(40)
<1> HIDE DEF b
<1>4. held' * MinAsset + d = Funds(balances', inevm', stack') /\ Total(evm') <= Value(inevm')
  BY <1>1, <1>3, Parts, Zenon DEF Solvency
<1>5. \A a \in Accounts \ open : balances'[a] = balances[a]
  BY <1>1, <1>3, Zenon
<1>6. /\ balances' \in Table /\ inevm' \in Balance /\ evm' \in [Addrs -> Nat]
      /\ stack' \in Seq(Item) /\ nextnonces' \in Nonces /\ used' \subseteq Accounts \X Nat
      /\ replayed' = FALSE /\ Taken(nextnonces', used', stack')
      /\ \A a \in Accounts : nextnonces[a] # NoRow => nextnonces'[a] # NoRow
  BY <1>1, <1>3, Parts, SMTT(30)
<1> QED  BY <1>1, <1>3, <1>4, <1>5, <1>6, Moving, ZenonT(40)

LEMMA EvmTransferStep ==
    ASSUME NEW d \in Int, Sound, Backed(d), NEW q \in Quantities, NEW fee \in Quantities, NEW gas \in Amounts, NEW notified,
           handle_evm_transfer(q, fee, gas, notified)
    PROVE  IInv(d)'
<1> DEFINE b == [balances EXCEPT ![Self] = AddTokens(@, q)]
           x == (q - fee) * MinAsset + gas
<1>1. /\ inited /\ Incoming(q) /\ CanAddTokens(balances[Self], q) /\ q - fee > 0
      /\ dispatch_tx(b, Self, x, notified)
  BY DEF handle_evm_transfer, assert_unfrozen
<1>2. q \in Nat /\ Self \in Accounts
  BY LedgerAssumption
<1>3. x \in Nat
  <2>1. q - fee \in Nat /\ gas \in Nat
    BY <1>1, LedgerAssumption, SMTT(30)
  <2>2. (q - fee) * MinAsset \in Nat
    BY <2>1, BalanceAssumption
  <2> QED  BY <2>1, <2>2, SMTT(30)
<1>4. /\ b \in Table
      /\ \A h \in Accounts \ {Self} : b[h] = balances[h]
      /\ held' \in Nat /\ held' <= Supply
      /\ held' * MinAsset + d = Funds(b, inevm, stack)
  BY <1>1, <1>2, IncomingFunds, Zenon
<1> HIDE DEF b, x
<1>5. \A a \in Accounts \ open : b[a] = balances[a]
  BY <1>1, <1>4, Parts, SMTT(30)
<1> QED  BY <1>1, <1>2, <1>3, <1>4, <1>5, OwnStep, ZenonT(40)

\* What is popped off the stack is a transfer that is made or code that ends.
LEMMA PopStep ==
    ASSUME NEW d \in Int, Sound, Backed(d), stack # <<>>, Top.kind # "pushtx", NEW notified,
           stack' = ThenForeign(Popped, notified),
           held' = held - TakenBy(Top), held' \in Nat,
           UNCHANGED <<inited, frozen, bridging, tables, evm, used, replayed>>
    PROVE  IInv(d)'
<1>1. Popped \in Seq(Item) /\ Top \in Item /\ stack = Append(Popped, Top)
  BY Parts, PoppedIs, Zenon
<1>2. UNCHANGED <<open, balances, nextnonces, inevm, egresslist, receivers>>
  BY DEF tables
<1>3. Taken(nextnonces', used', stack')
  <2>1. Taken(nextnonces, used, Append(Popped, Top))
    BY <1>1, Parts
  <2>2. Taken(nextnonces, used, Popped)
    BY <1>1, <2>1, TakenPop, Zenon
  <2>3. Grown(Popped, ThenForeign(Popped, notified))
    BY <1>1, GrownSame, GrownForeign, Zenon
  <2>4. Taken(nextnonces, used, ThenForeign(Popped, notified))
    BY <1>1, <2>2, <2>3, TakenGrown, ZenonT(40)
  <2> QED  BY <1>2, <2>4, SMTT(30)
<1>4. stack' \in Seq(Item) /\ OwedIn(stack) = OwedIn(stack') + TakenBy(Top) /\ OwedIn(stack') \in Nat
  <2>1. OwedIn(Append(Popped, Top)) = OwedIn(Popped) + TakenBy(Top)
    BY <1>1, OwedAppend, Zenon
  <2>2. OwedIn(stack) = OwedIn(Append(Popped, Top))
    BY <1>1, Zenon
  <2>3. /\ ThenForeign(Popped, notified) \in Seq(Item)
        /\ OwedIn(ThenForeign(Popped, notified)) = OwedIn(Popped)
    BY <1>1, ThenForeignIs, ZenonT(40)
  <2>4. OwedIn(Popped) \in Nat
    BY <1>1, OwedType, SMTT(30)
  <2> HIDE DEF Top, Popped
  <2> QED  BY <2>1, <2>2, <2>3, <2>4, SMTT(30)
<1>5. held' * MinAsset + d = Funds(balances', inevm', stack')
  <2> DEFINE t == TakenBy(Top)
             v == t * MinAsset
             w == OwedIn(stack') * MinAsset
             g == held' * MinAsset
  <2>1. t \in Nat /\ held \in Nat /\ held = held' + t
    <3>1. TakenBy(Top) \in Nat
      BY <1>1 DEF TakenBy, Item
    <3>2. held \in Nat
      BY Parts
    <3> QED  BY <3>1, <3>2, SMTT(30)
  <2> HIDE DEF t
  <2>2. held * MinAsset = g + v /\ g \in Nat /\ v \in Nat
    BY <2>1, BalanceAssumption, SMTT(30)
  <2>3. OwedIn(stack) * MinAsset = w + v /\ w \in Nat
    BY <1>4, <2>1, BalanceAssumption, SMTT(30) DEF t
  <2>4. held * MinAsset + d = Holdings(balances) + Value(inevm) + OwedIn(stack) * MinAsset
    BY SMTT(30) DEF Backed, Funds
  <2>5. Holdings(balances) \in Nat /\ Value(inevm) \in Nat
    BY Parts, FundsType, SMTT(30)
  <2> HIDE DEF v, w, g
  <2>6. g + d = Holdings(balances) + Value(inevm) + w
    BY <2>2, <2>3, <2>4, <2>5, SMTT(30)
  <2>7. g + d = Funds(balances, inevm, stack')
    BY <2>6, SMTT(30) DEF Funds, w
  <2> QED  BY <1>2, <2>7, SMTT(30) DEF g
<1>6. held' <= Supply
  <2>1. TakenBy(Top) \in Nat
    BY <1>1 DEF TakenBy, Item
  <2> QED  BY <2>1, Parts, LedgerAssumption, SMTT(30)
<1>7. /\ balances' \in Table /\ inevm' \in Balance /\ evm' \in [Addrs -> Nat]
      /\ nextnonces' \in Nonces /\ used' \subseteq Accounts \X Nat
      /\ replayed' = FALSE /\ Total(evm') <= Value(inevm')
      /\ \A a \in Accounts : nextnonces[a] # NoRow => nextnonces'[a] # NoRow
      /\ \A a \in Accounts \ open : balances'[a] = balances[a]
  BY <1>2, Parts DEF Solvency
<1> QED  BY <1>2, <1>3, <1>4, <1>5, <1>6, <1>7, Moving, Zenon

-----------------------------------------------------------------------------
\* The invariant holds at the start and every step keeps it.

LEMMA InitIInv == Init => IInv(0)
<1> SUFFICES ASSUME Init
             PROVE  IInv(0)
  OBVIOUS
<1>1. ZeroBalance \in Balance /\ Value(ZeroBalance) = 0
  BY BalanceAssumption DEF ZeroBalance, Balance, Value
<1>2. TypeOK
  <2>1. held \in 0 .. Supply
    BY LedgerAssumption DEF Init
  <2>2. stack \in Seq(Item)
    BY DEF Init
  <2>3. /\ balances \in [Accounts -> Balance] /\ inevm \in Balance
        /\ nextnonces \in [Accounts -> Nat \cup {NoRow}]
        /\ receivers \in [Accounts -> Nat \cup {NoRow}]
        /\ evm \in [Addrs -> Nat]
    BY <1>1 DEF Init
  <2>4. inited \in BOOLEAN /\ frozen \in BOOLEAN /\ bridging \in BOOLEAN /\ replayed \in BOOLEAN
    BY Zenon DEF Init
  <2>5. open \subseteq Accounts /\ egresslist \subseteq Accounts /\ used \subseteq Accounts \X Nat
    BY DEF Init
  <2> QED  BY <2>1, <2>2, <2>3, <2>4, <2>5, SMTT(30) DEF TypeOK
<1>3. RowsConsistent
  BY DEF Init, RowsConsistent
<1>4. Holdings(balances) = 0
  <2> DEFINE f == [a \in Accounts |-> Value(balances[a])]
  <2>1. f \in [Accounts -> Nat] /\ \A h \in Accounts : f[h] = 0
    BY <1>1 DEF Init
  <2> HIDE DEF f
  <2>2. Total(f) = 0
    BY <2>1, TotalZero, SMTT(30)
  <2> QED  BY <2>2 DEF Holdings, f
<1>5. OwedIn(stack) = 0
  <2> DEFINE f == [i \in DOMAIN stack |-> TakenBy(stack[i])]
  <2>1. f \in [{} -> Nat] /\ \A h \in {} : f[h] = 0
    BY DEF Init
  <2> HIDE DEF f
  <2>2. Total(f) = 0
    BY <2>1, TotalZero, Zenon
  <2> QED  BY <2>2 DEF OwedIn, f
<1>6. Backed(0)
  BY <1>1, <1>4, <1>5, BalanceAssumption, SMTT(30) DEF Init, Backed, Funds
<1>7. Solvency
  <2>1. evm \in [Addrs -> Nat] /\ \A h \in Addrs : evm[h] = 0
    BY DEF Init
  <2>2. Total(evm) = 0
    BY <2>1, TotalZero, SMTT(30)
  <2> QED  BY <1>1, <2>2, SMTT(30) DEF Init, Solvency
<1>8. NoncesTaken /\ NothingBeforeInit
  BY SMTT(30) DEF Init, NoncesTaken, NothingBeforeInit, Taken
<1> QED  BY <1>2, <1>3, <1>6, <1>7, <1>8, SMTT(30) DEF IInv, Sound

LEMMA NextIInv ==
    ASSUME NEW d \in Int
    PROVE  IInv(d) /\ [Next]_vars => IInv(d)'
<1> SUFFICES ASSUME Sound, Backed(d), [Next]_vars
             PROVE  IInv(d)'
  BY DEF IInv
<1>1. TypeOK /\ Self \in Accounts
  BY LedgerAssumption, SMTT(30) DEF Sound
<1>2. CASE init
  <2>1. inevm' = inevm
    BY <1>2, SMTT(30) DEF init, Sound, NothingBeforeInit
  <2> QED  BY <1>1, <1>2, <2>1, Opening, SMTT(30) DEF init, TypeOK
<1>3. ASSUME NEW value \in BOOLEAN, freeze(value)
      PROVE  IInv(d)'
  BY <1>1, <1>3, MoneyAlone, SMTT(30) DEF freeze, tables, TypeOK
<1>4. CASE NewVersion
  BY <1>1, <1>4, MoneyAlone, Zenon DEF NewVersion, tables, TypeOK
<1>5. ASSUME NEW accounts \in SUBSET Contracts, addegress(accounts) \/ removeegress(accounts)
      PROVE  IInv(d)'
  BY <1>1, <1>5, MoneyAlone, LedgerAssumption, Zenon DEF addegress, removeegress, TypeOK
<1>6. ASSUME NEW owner \in Accounts, open_account(owner)
      PROVE  IInv(d)'
  BY <1>1, <1>6, Opening, Zenon DEF open_account, TypeOK
<1>7. ASSUME NEW r \in Receivers, NEW q \in Quantities, bridgereg(r, q)
      PROVE  IInv(d)'
  <2>1. r \in Accounts /\ q \in Nat
    BY LedgerAssumption, SMTT(30)
  <2>2. receivers' \in [Accounts -> Nat \cup {NoRow}]
    BY <1>1, <1>7, <2>1, SMTT(30) DEF bridgereg, TypeOK
  <2> QED  BY <1>1, <1>7, <2>1, <2>2, Opening, Zenon DEF bridgereg, TypeOK
<1>8. ASSUME NEW r \in Receivers, bridgeunreg(r)
      PROVE  IInv(d)'
  BY <1>1, <1>8, MoneyAlone, Zenon DEF bridgeunreg, TypeOK
<1>9. ASSUME NEW miner \in Accounts, pushtx(miner)
      PROVE  IInv(d)'
  BY <1>9, OutsideStep, Zenon DEF pushtx, assert_unfrozen
<1>10. CASE admincall
  <2>1. inited /\ Self \in open
    BY <1>10, Parts DEF admincall, assert_unfrozen
  <2> QED  BY <1>10, <2>1, OutsideStep, Zenon DEF admincall
<1>11. CASE transfer_out
  <2>1. /\ stack # <<>> /\ Top.kind # "pushtx" /\ TakenBy(Top) = Top.amount
        /\ stack' = ThenForeign(Popped, Top.who \in Contracts)
        /\ UNCHANGED <<inited, frozen, bridging, tables, evm, used, replayed>>
    BY <1>11 DEF transfer_out, TakenBy
  <2>2. held' = held - Top.amount /\ held' \in Nat
    <3>1. Top \in Item
      BY <2>1, Parts, PoppedIs, ZenonT(40)
    <3>2. Top.amount \in Nat /\ held \in Nat
      BY <3>1, Parts, SMTT(30) DEF Item
    <3> QED  BY <1>11, <3>2 DEF transfer_out
  <2> QED  BY <2>1, <2>2, PopStep, SMTT(30)
<1>12. CASE Return
  <2>1. /\ stack # <<>> /\ Top.kind # "pushtx" /\ TakenBy(Top) = 0
        /\ stack' = ThenForeign(Popped, FALSE)
        /\ held' = held
        /\ UNCHANGED <<inited, frozen, bridging, tables, evm, used, replayed>>
    BY <1>12 DEF Return, TakenBy, ThenForeign
  <2>2. held' = held - TakenBy(Top) /\ held' \in Nat
    BY <2>1, Parts
  <2> QED  BY <2>1, <2>2, PopStep, Zenon
<1>13. CASE UNCHANGED vars
  BY <1>1, <1>13, MoneyAlone, SMTT(30) DEF vars, tables, TypeOK
<1> QED
  BY <1>2, <1>3, <1>4, <1>5, <1>6, <1>7, <1>8, <1>9, <1>10, <1>11, <1>12, <1>13,
     CloseStep, WithdrawStep, CallStep, PushTxInlineStep, AccountTransferStep, EvmTransferStep, SMTT(30)
     DEF Next

\* The inductive invariant, for every value of the constants.
THEOREM LedgerInvariant == Spec => []IInv(0)
<1>1. IInv(0) /\ [Next]_vars => IInv(0)'
  BY NextIInv
<1> QED  BY <1>1, InitIInv, PTL DEF Spec

-----------------------------------------------------------------------------
\* What follows from it.

\* Every table of the contract holds what its type allows; in particular no
\* compound assignment of a balance leaves its range.
THEOREM TypeCorrect == Spec => []TypeOK
<1>1. IInv(0) => TypeOK
  BY DEF IInv, Sound
<1> QED  BY <1>1, LedgerInvariant, PTL

\* process_tx, the transfers and withdraw neither create nor lose a unit of
\* 10^-18, whatever the EVM does and however calls nest.
THEOREM FundsConserved == Spec => []Conservation
<1>1. IInv(0) => Conservation
  <2>1. ASSUME Backed(0), held * MinAsset \in Int PROVE Conservation
    BY <2>1 DEF Backed, Funds, Conservation
  <2>2. ASSUME Sound PROVE held * MinAsset \in Int
    BY <2>2, Parts, BalanceAssumption
  <2> QED  BY <2>1, <2>2, Zenon DEF IInv
<1> QED  BY <1>1, LedgerInvariant, PTL

\* The inevm singleton covers what the EVM addresses own.
THEOREM EvmCovered == Spec => []Solvency
<1>1. IInv(0) => Solvency
  BY SMTT(30) DEF IInv, Sound
<1> QED  BY <1>1, LedgerInvariant, PTL

\* The rows of the balances and nextnonces tables come and go together.
THEOREM RowsStayConsistent == Spec => []RowsConsistent
<1>1. IInv(0) => RowsConsistent
  BY SMTT(30) DEF IInv, Sound
<1> QED  BY <1>1, LedgerInvariant, PTL

\* No bridge transaction of an account repeats a nonce.
THEOREM NoncesNeverRepeat == Spec => []NonceFresh
<1>1. IInv(0) => NonceFresh
  BY SMTT(30) DEF IInv, Sound, NoncesTaken, NonceFresh
<1> QED  BY <1>1, LedgerInvariant, PTL

\* Unless something was added, every transfer on top of the stack is covered.
LEMMA Covered ==
    ASSUME NEW d \in Int, d <= 0, Sound, Backed(d), stack # <<>>, Top.kind = "transfer"
    PROVE  Top.amount <= held
<1>1. Popped \in Seq(Item) /\ Top \in Item /\ stack = Append(Popped, Top)
  BY Parts, PoppedIs, Zenon
<1>2. OwedIn(stack) = OwedIn(Popped) + Top.amount /\ OwedIn(Popped) \in Nat
  <2>1. OwedIn(Append(Popped, Top)) = OwedIn(Popped) + TakenBy(Top)
    BY <1>1, OwedAppend, Zenon
  <2>2. OwedIn(stack) = OwedIn(Append(Popped, Top)) /\ TakenBy(Top) = Top.amount
    BY <1>1, Zenon DEF TakenBy
  <2>3. OwedIn(Popped) \in Nat
    BY <1>1, OwedType, SMTT(30)
  <2> HIDE DEF Top, Popped
  <2> QED  BY <2>1, <2>2, <2>3, SMTT(30)
<1>3. Top.amount \in Nat /\ held \in Nat
  BY <1>1, Parts, SMTT(30) DEF Item
<1>4. OwedIn(stack) <= held
  <2>1. held * MinAsset + d = Holdings(balances) + Value(inevm) + OwedIn(stack) * MinAsset
    BY SMTT(30) DEF Backed, Funds
  <2>2. /\ Holdings(balances) \in Nat /\ Value(inevm) \in Nat
        /\ OwedIn(stack) \in Nat /\ OwedIn(stack) * MinAsset \in Nat
    BY Parts, FundsType, SMTT(30)
  <2>3. OwedIn(stack) * MinAsset <= held * MinAsset
    <3> DEFINE v == OwedIn(stack) * MinAsset
               g == held * MinAsset
    <3>1. g \in Nat /\ v \in Nat /\ g + d = Holdings(balances) + Value(inevm) + v
      BY <1>3, <2>1, <2>2, BalanceAssumption
    <3> HIDE DEF v, g
    <3>2. v <= g
      BY <2>2, <3>1, SMTT(30)
    <3> QED  BY <3>2 DEF v, g
  <2>4. \A m, n \in Nat : m * MinAsset <= n * MinAsset => m <= n
    BY BalanceAssumption
  <2> QED  BY <1>3, <2>2, <2>3, <2>4, Zenon
<1> HIDE DEF Top, Popped
<1> QED  BY <1>2, <1>3, <1>4, SMTT(30)

\* The transfers of withdraw and execute_tx are covered when they run.
THEOREM TransfersNeverFail == Spec => []TransfersCovered
<1>1. IInv(0) => TransfersCovered
  <2>1. 0 \in Int /\ 0 <= 0
    OBVIOUS
  <2> QED  BY <2>1, Covered, Zenon DEF IInv, TransfersCovered
<1> QED  BY <1>1, LedgerInvariant, PTL

\* No operation of Next moves money while the contract is frozen.
LEMMA StillStep ==
    ASSUME Sound, Next, frozen, frozen'
    PROVE  UNCHANGED <<balances, inevm, evm, held, used>>
<1>1. CASE init
  BY <1>1, SMTT(30) DEF init, open_internal_balance, Sound, NothingBeforeInit
<1>2. CASE \E value \in BOOLEAN : freeze(value)
  BY <1>2, SMTT(30) DEF freeze, tables
<1>3. CASE NewVersion \/ Return
  BY <1>3, SMTT(30) DEF NewVersion, Return, tables
<1>4. CASE \E accounts \in SUBSET Contracts : addegress(accounts) \/ removeegress(accounts)
  BY <1>4 DEF addegress, removeegress
<1> QED
  BY <1>1, <1>2, <1>3, <1>4, ZenonT(40)
     DEF Next, open_account, close, bridgereg, bridgeunreg, withdraw, pushtx, call, admincall,
         pushtx_inline, handle_account_transfer, handle_evm_transfer, transfer_out,
         assert_unfrozen

\* freeze stops every movement of money.
THEOREM FreezeStopsMoney == Spec => FrozenStandsStill
<1> DEFINE Still == frozen /\ frozen' => UNCHANGED <<balances, inevm, evm, held, used>>
<1>1. IInv(0) /\ [Next]_vars => [Still]_vars
  BY StillStep DEF IInv
<1> HIDE DEF Still
<1>2. Spec => [][Still]_vars
  BY <1>1, LedgerInvariant, PTL DEF Spec
<1> USE DEF Still
<1> QED  BY <1>2 DEF FrozenStandsStill

-----------------------------------------------------------------------------
\* The repairs of the administrator.

\* What a repair leaves alone: the accounts, the nonces and the tokens.
RestAlone ==
    UNCHANGED <<inited, frozen, bridging, open, nextnonces, egresslist, receivers,
                held, stack, used, replayed>>

\* A repair that changes the value of the tables by e.
LEMMA RepairStep ==
    ASSUME NEW d \in Int, NEW e \in Int, Sound, Backed(d), inited \/ inevm' = inevm, RestAlone,
           balances' \in Table, inevm' \in Balance, evm' \in [Addrs -> Nat],
           \A a \in Accounts \ open : balances'[a] = balances[a],
           Holdings(balances') + Value(inevm') = Holdings(balances) + Value(inevm) + e,
           Total(evm') <= Value(inevm')
    PROVE  IInv(d + e)'
<1>1. d + e \in Int
  OBVIOUS
<1>2. UNCHANGED <<inited, frozen, bridging, open, nextnonces, egresslist, receivers,
                  held, stack, used, replayed>>
  BY DEF RestAlone
<1>3. held' * MinAsset + (d + e) = Funds(balances', inevm', stack')
  <2> DEFINE g == held * MinAsset
             w == OwedIn(stack) * MinAsset
             h == Holdings(balances) + Value(inevm)
             k == Holdings(balances') + Value(inevm')
  <2>1. g \in Int /\ w \in Int /\ h \in Int /\ k \in Int
    <3>1. Holdings(balances) \in Nat /\ Value(inevm) \in Nat /\ w \in Nat
      BY Parts, FundsType, SMTT(30)
    <3>2. Holdings(balances') \in Nat
      BY HoldingsType, Zenon
    <3>3. Value(inevm') \in 0 .. MaxValue
      BY ValueType, Zenon
    <3>4. g \in Int
      BY Parts, BalanceAssumption, SMTT(30)
    <3> HIDE DEF g, w
    <3> QED  BY <3>1, <3>2, <3>3, <3>4, SMTT(30)
  <2>2. g + d = h + w /\ k = h + e
    BY DEF Backed, Funds
  <2>3. Funds(balances', inevm', stack') = k + w /\ held' * MinAsset = g
    BY <1>2 DEF Funds
  <2> HIDE DEF g, w, h, k
  <2>4. g + (d + e) = k + w
    BY <2>1, <2>2, SMTT(30)
  <2> QED  BY <2>3, <2>4
<1>4. /\ held' \in Nat /\ held' <= Supply /\ stack' \in Seq(Item) /\ nextnonces' \in Nonces
      /\ \A a \in Accounts : nextnonces[a] # NoRow => nextnonces'[a] # NoRow
      /\ used' \subseteq Accounts \X Nat /\ replayed' = FALSE
      /\ Taken(nextnonces', used', stack')
  BY <1>2, Parts, SMTT(30)
<1> QED  BY <1>1, <1>2, <1>3, <1>4, Moving, ZenonT(40)

\* The total of the EVM's balances when that of x becomes v.
LEMMA EvmChanged ==
    ASSUME NEW f \in [Addrs -> Nat], NEW x \in Addrs, NEW v \in Nat
    PROVE  /\ [f EXCEPT ![x] = v] \in [Addrs -> Nat]
           /\ Total([f EXCEPT ![x] = v]) = Total(f) + v - f[x]
           /\ Total(f) \in Nat /\ f[x] \in Nat
<1> DEFINE g == [f EXCEPT ![x] = v]
<1>1. f[x] \in Nat /\ g \in [Addrs -> Nat] /\ g[x] = v
      /\ \A h \in Addrs \ {x} : g[h] = f[h]
  OBVIOUS
<1> HIDE DEF g
<1>2. IsFiniteSet(Addrs)
  BY LedgerAssumption
<1>3. Total(g) = Total(f) + g[x] - f[x]
  BY <1>1, <1>2, TotalUpdate, Zenon
<1>4. Total(f) \in Nat
  BY <1>2, TotalType, Zenon
<1> QED  BY <1>1, <1>3, <1>4, Zenon DEF g

LEMMA SubtractStep ==
    ASSUME NEW d \in Int, Sound, Backed(d), NEW x \in Addrs, NEW n \in Deltas,
           addevmbal_subtract(x, n)
    PROVE  IInv(d + (-n))'
<1>1. /\ inited /\ CanDeduct(inevm, n) /\ inevm' = Deduct(inevm, n) /\ evm[x] >= n
      /\ evm' = [evm EXCEPT ![x] = @ - n] /\ balances' = balances /\ RestAlone
  BY DEF addevmbal_subtract, BalanceLowered, RestAlone
<1>2. n \in Nat /\ -n \in Int /\ inevm \in Balance /\ evm \in [Addrs -> Nat] /\ balances \in Table
  BY Parts, RepairAssumption, SMTT(30)
<1>3. inevm' \in Balance /\ Value(inevm') = Value(inevm) - n
  BY <1>1, <1>2, DeductExact, Zenon
<1>4. evm' \in [Addrs -> Nat] /\ Total(evm') = Total(evm) - n /\ Total(evm) \in Nat
  <2>1. evm[x] \in Nat /\ evm[x] - n \in Nat
    BY <1>1, <1>2
  <2>2. /\ evm' \in [Addrs -> Nat] /\ Total(evm) \in Nat
        /\ Total(evm') = Total(evm) + (evm[x] - n) - evm[x]
    BY <1>1, <1>2, <2>1, EvmChanged, Zenon
  <2> QED  BY <1>2, <2>1, <2>2, SMTT(30)
<1>5. Value(inevm) \in Nat /\ Holdings(balances) \in Nat
  BY <1>2, Parts, FundsType, Zenon
<1>6. Total(evm') <= Value(inevm')
  BY <1>2, <1>3, <1>4, <1>5, Parts, SMTT(30) DEF Solvency
<1>7. Holdings(balances') + Value(inevm') = Holdings(balances) + Value(inevm) + (-n)
  BY <1>1, <1>2, <1>3, <1>5, SMTT(30)
<1> QED  BY <1>1, <1>2, <1>3, <1>4, <1>6, <1>7, RepairStep, Zenon

LEMMA AddStep ==
    ASSUME NEW d \in Int, Sound, Backed(d), NEW x \in Addrs, NEW n \in Deltas,
           addevmbal_add(x, n)
    PROVE  IInv(d + n)'
<1>1. /\ inited /\ CanAccumulate(inevm, n) /\ inevm' = Accumulate(inevm, n)
      /\ evm' = [evm EXCEPT ![x] = @ + n] /\ balances' = balances /\ RestAlone
  BY DEF addevmbal_add, InevmRaised, RestAlone
<1>2. n \in Nat /\ n \in Int /\ inevm \in Balance /\ evm \in [Addrs -> Nat] /\ balances \in Table
  BY Parts, RepairAssumption, SMTT(30)
<1>3. inevm' \in Balance /\ Value(inevm') = Value(inevm) + n
  BY <1>1, <1>2, AccumulateExact, Zenon
<1>4. evm' \in [Addrs -> Nat] /\ Total(evm') = Total(evm) + n /\ Total(evm) \in Nat
  <2>1. evm[x] \in Nat /\ evm[x] + n \in Nat
    BY <1>2
  <2>2. /\ evm' \in [Addrs -> Nat] /\ Total(evm) \in Nat
        /\ Total(evm') = Total(evm) + (evm[x] + n) - evm[x]
    BY <1>1, <1>2, <2>1, EvmChanged, Zenon
  <2> QED  BY <1>2, <2>1, <2>2, SMTT(30)
<1>5. Value(inevm) \in Nat /\ Holdings(balances) \in Nat
  BY <1>2, Parts, FundsType, Zenon
<1>6. Total(evm') <= Value(inevm')
  BY <1>2, <1>3, <1>4, <1>5, Parts, SMTT(30) DEF Solvency
<1>7. Holdings(balances') + Value(inevm') = Holdings(balances) + Value(inevm) + n
  BY <1>1, <1>2, <1>3, <1>5, SMTT(30)
<1> QED  BY <1>1, <1>2, <1>3, <1>4, <1>6, <1>7, RepairStep, Zenon

LEMMA OpenBalanceStep ==
    ASSUME NEW d \in Int, Sound, Backed(d), NEW a \in Accounts, NEW n \in Deltas,
           NEW subtract \in BOOLEAN, addopenbal(a, n, subtract)
    PROVE  IInv(d + (IF subtract THEN -n ELSE n))'
<1> DEFINE e == IF subtract THEN -n ELSE n
           row == IF subtract THEN Deduct(balances[a], n) ELSE Accumulate(balances[a], n)
           c == [balances EXCEPT ![a] = row]
<1>1. /\ a \in open /\ balances' = c /\ inevm' = inevm /\ evm' = evm /\ RestAlone
      /\ subtract => CanDeduct(balances[a], n)
      /\ ~subtract => CanAccumulate(balances[a], n)
  BY DEF addopenbal, RestAlone
<1>2. n \in Nat /\ e \in Int /\ inevm \in Balance /\ evm \in [Addrs -> Nat] /\ balances \in Table
  BY Parts, RepairAssumption, SMTT(30)
<1>3. balances[a] \in Balance
  BY <1>2, Zenon DEF Table
<1>4. row \in Balance /\ Value(row) = Value(balances[a]) + e
  <2>1. CASE subtract
    <3>1. Deduct(balances[a], n) \in Balance /\ Value(Deduct(balances[a], n)) = Value(balances[a]) - n
      BY <1>1, <1>2, <1>3, <2>1, DeductExact, Zenon
    <3>2. Value(balances[a]) \in 0 .. MaxValue
      BY <1>3, ValueType
    <3> QED  BY <1>2, <2>1, <3>1, <3>2
  <2>2. CASE ~subtract
    <3>1. /\ Accumulate(balances[a], n) \in Balance
          /\ Value(Accumulate(balances[a], n)) = Value(balances[a]) + n
      BY <1>1, <1>2, <1>3, <2>2, AccumulateExact, Zenon
    <3> QED  BY <2>2, <3>1
  <2> QED  BY <2>1, <2>2, Zenon
<1> HIDE DEF row, e
<1>5. c \in Table /\ c[a] = row /\ \A h \in Accounts \ {a} : c[h] = balances[h]
  BY <1>2, <1>4 DEF Table
<1> HIDE DEF c
<1>6. Holdings(c) = Holdings(balances) + Value(c[a]) - Value(balances[a])
  BY <1>2, <1>5, HoldingsUpdate, Zenon
<1>7. /\ Holdings(balances) \in Nat /\ Value(inevm) \in Nat
      /\ Value(balances[a]) \in 0 .. MaxValue
  BY <1>2, <1>3, Parts, FundsType, ValueType, Zenon
<1>8. Holdings(c) = Holdings(balances) + e
  BY <1>2, <1>4, <1>5, <1>6, <1>7, SMTT(30)
<1>9. Holdings(balances') + Value(inevm') = Holdings(balances) + Value(inevm) + e
  BY <1>1, <1>2, <1>7, <1>8, SMTT(30)
<1>10. \A h \in Accounts \ open : balances'[h] = balances[h]
  BY <1>1, <1>5, Zenon
<1>11. Total(evm') <= Value(inevm')
  BY <1>1, Parts DEF Solvency
<1>12. balances' \in Table /\ inevm' \in Balance /\ evm' \in [Addrs -> Nat]
  BY <1>1, <1>2, <1>5
<1>13. IInv(d + e)'
  BY <1>1, <1>2, <1>9, <1>10, <1>11, <1>12, RepairStep, ZenonT(40)
<1> QED  BY <1>13, Zenon DEF e

LEMMA RemovalStep ==
    ASSUME NEW d \in Int, Sound, Backed(d), NEW x \in Addrs, rmaccount(x)
    PROVE  IInv(d + 0)'
<1>1. /\ evm' = [evm EXCEPT ![x] = 0] /\ balances' = balances /\ inevm' = inevm /\ RestAlone
  BY DEF rmaccount, tables, RestAlone
<1>2. 0 \in Nat /\ 0 \in Int /\ inevm \in Balance /\ evm \in [Addrs -> Nat] /\ balances \in Table
  BY Parts, SMTT(30)
<1>3. /\ evm' \in [Addrs -> Nat] /\ Total(evm) \in Nat /\ evm[x] \in Nat
      /\ Total(evm') = Total(evm) + 0 - evm[x]
  BY <1>1, <1>2, EvmChanged, Zenon
<1>4. Value(inevm) \in Nat /\ Holdings(balances) \in Nat
  BY <1>2, Parts, FundsType, Zenon
<1>5. Total(evm') <= Value(inevm')
  BY <1>1, <1>3, <1>4, Parts, SMTT(30) DEF Solvency
<1>6. Holdings(balances') + Value(inevm') = Holdings(balances) + Value(inevm) + 0
  BY <1>1, <1>4
<1>7. \A a \in Accounts \ open : balances'[a] = balances[a]
  BY <1>1
<1> QED  BY <1>1, <1>2, <1>3, <1>5, <1>6, <1>7, RepairStep, ZenonT(40)

-----------------------------------------------------------------------------
\* The inductive invariant: that of the ledger, with the sum of the repairs as
\* the amount that was added without tokens.

RInv == drift \in Int /\ IInv(drift)

\* From the sum of the repairs as a number to the variable that counts it.
LEMMA Shift ==
    ASSUME NEW d \in Int, NEW e \in Int, drift = d, drift' = drift + e, IInv(d + e)'
    PROVE  RInv'
<1>1. drift' \in Int /\ drift' = d + e
  OBVIOUS
<1>2. Sound' /\ held' * MinAsset + (d + e) = Funds(balances', inevm', stack')
  BY DEF IInv, Backed
<1>3. held' * MinAsset + drift' = Funds(balances', inevm', stack')
  BY <1>1, <1>2, Zenon
<1> QED  BY <1>1, <1>2, <1>3 DEF RInv, IInv, Backed

LEMMA NextRInv == RInv /\ [RepairNext]_rvars => RInv'
<1> SUFFICES ASSUME RInv, [RepairNext]_rvars
             PROVE  RInv'
  OBVIOUS
<1>1. PICK d \in Int : drift = d
  BY DEF RInv
<1>2. Sound /\ Backed(d)
  BY <1>1 DEF RInv, IInv, Backed
<1>3. CASE [Next]_vars /\ drift' = drift
  <2>1. IInv(d)'
    BY <1>2, <1>3, NextIInv, Zenon DEF IInv
  <2>2. d + 0 = d /\ drift' = drift + 0 /\ 0 \in Int
    BY <1>1, <1>3
  <2>3. IInv(d + 0)'
    BY <2>1, <2>2, Zenon
  <2> QED  BY <1>1, <2>2, <2>3, Shift, Zenon
<1>4. ASSUME NEW x \in Addrs, NEW n \in Deltas, addevmbal_subtract(x, n)
      PROVE  RInv'
  <2>1. IInv(d + (-n))'
    BY <1>2, <1>4, SubtractStep, Zenon
  <2>2. drift' = drift + (-n) /\ -n \in Int
    BY <1>4, RepairAssumption DEF addevmbal_subtract, Drifts
  <2> QED  BY <1>1, <2>1, <2>2, Shift, Zenon
<1>5. ASSUME NEW x \in Addrs, NEW n \in Deltas, addevmbal_add(x, n)
      PROVE  RInv'
  <2>1. IInv(d + n)'
    BY <1>2, <1>5, AddStep, Zenon
  <2>2. drift' = drift + n /\ n \in Int
    BY <1>5, RepairAssumption DEF addevmbal_add, Drifts
  <2> QED  BY <1>1, <2>1, <2>2, Shift, Zenon
<1>6. ASSUME NEW a \in Accounts, NEW n \in Deltas, NEW subtract \in BOOLEAN,
             addopenbal(a, n, subtract)
      PROVE  RInv'
  <2> DEFINE e == IF subtract THEN -n ELSE n
  <2>1. IInv(d + e)'
    BY <1>2, <1>6, OpenBalanceStep, Zenon
  <2>2. drift' = drift + e
    BY <1>6 DEF addopenbal, Drifts
  <2>3. e \in Int
    BY RepairAssumption
  <2> HIDE DEF e
  <2> QED  BY <1>1, <2>1, <2>2, <2>3, Shift, Zenon
<1>7. ASSUME NEW x \in Addrs, rmaccount(x)
      PROVE  RInv'
  <2>1. IInv(d + 0)'
    BY <1>2, <1>7, RemovalStep, Zenon
  <2>2. drift' = drift + 0 /\ 0 \in Int
    BY <1>1, <1>7 DEF rmaccount
  <2> QED  BY <1>1, <2>1, <2>2, Shift, Zenon
<1> QED
  BY <1>3, <1>4, <1>5, <1>6, <1>7, Zenon DEF RepairNext, Repair, rvars

\* The ledger's invariant, up to the sum of the repairs.
THEOREM RepairsInvariant == RepairSpec => []RInv
<1>1. RepairInit => RInv
  BY InitIInv DEF RepairInit, RInv, IInv, Backed
<1> QED  BY <1>1, NextRInv, PTL DEF RepairSpec

-----------------------------------------------------------------------------
\* What follows from it.

\* What the contract owes differs from what it holds by exactly what addevmbal
\* and addopenbal added and took away.
THEOREM RepairsBacking == RepairSpec => []BackingExact
<1>1. RInv => BackingExact
  BY DEF RInv, IInv, Backed, Funds, BackingExact
<1> QED  BY <1>1, RepairsInvariant, PTL

\* addevmbal changes inevm with the account's balance, and rmaccount leaves it
\* where it was, so inevm covers the EVM's balances after any repairs.
THEOREM RepairsSolvent == RepairSpec => []Solvency
<1>1. RInv => Solvency
  BY DEF RInv, IInv, Sound
<1> QED  BY <1>1, RepairsInvariant, PTL

\* Types and rows survive the repairs: addopenbal needs a row, and the compound
\* assignments stay in range.
THEOREM RepairsKeepRows == RepairSpec => [](TypeOK /\ RowsConsistent)
<1>1. RInv => TypeOK /\ RowsConsistent
  BY DEF RInv, IInv, Sound
<1> QED  BY <1>1, RepairsInvariant, PTL

\* The transfers of withdraw and execute_tx are covered unless the repairs have
\* added more than they took away.
THEOREM RepairsCovered == RepairSpec => []CoveredUnlessAdded
<1>1. RInv => CoveredUnlessAdded
  <2> SUFFICES ASSUME RInv, drift <= 0, stack # <<>>, Top.kind = "transfer"
               PROVE  Top.amount <= held
    BY DEF CoveredUnlessAdded
  <2>1. PICK d \in Int : drift = d
    BY DEF RInv
  <2>2. Sound /\ Backed(d) /\ d <= 0
    BY <2>1 DEF RInv, IInv, Backed
  <2> QED  BY <2>2, Covered, Zenon
<1> QED  BY <1>1, RepairsInvariant, PTL

\* Nor do repairs ever let a nonce be used twice.
THEOREM RepairsKeepNonces == RepairSpec => []NonceFresh
<1>1. RInv => NonceFresh
  BY DEF RInv, IInv, Sound, NoncesTaken, NonceFresh
<1> QED  BY <1>1, RepairsInvariant, PTL

\* While the contract is frozen, a step moves no tokens and runs no transaction
\* of the bridge, and changes a balance only if it is a repair.
RepairsOnly ==
    frozen /\ frozen' => /\ UNCHANGED <<held, used>>
                         /\ Repair \/ UNCHANGED <<balances, inevm, evm>>

\* addevmbal, addopenbal and rmaccount do not ask whether the contract is frozen:
\* this is what freeze still guarantees beside them.
THEOREM FrozenButForRepairs == RepairSpec => [][RepairsOnly]_rvars
<1>1. RInv /\ [RepairNext]_rvars => [RepairsOnly]_rvars
  <2> SUFFICES ASSUME RInv, RepairNext, frozen, frozen'
               PROVE  /\ UNCHANGED <<held, used>>
                      /\ Repair \/ UNCHANGED <<balances, inevm, evm>>
    BY DEF RepairsOnly
  <2>1. CASE Next
    <3>1. Sound
      BY DEF RInv, IInv
    <3> QED  BY <2>1, <3>1, StillStep
  <2>2. CASE Repair
    <3>1. UNCHANGED <<held, used>>
      BY <2>2 DEF Repair, addevmbal_subtract, addevmbal_add, addopenbal, rmaccount
    <3> QED  BY <2>2, <3>1, Zenon
  <2> QED  BY <2>1, <2>2 DEF RepairNext
<1> HIDE DEF RepairsOnly
<1> QED  BY <1>1, RepairsInvariant, PTL DEF RepairSpec

=============================================================================
