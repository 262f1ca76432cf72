---------------------------- MODULE LedgerLemmas ----------------------------
(***************************************************************************)
(* Lemmas about the operators of Ledger: totals, the value of a table of   *)
(* balances, what the pending inline actions owe, the parts of process_tx, *)
(* and the nonces of the bridge transactions.                              *)
(***************************************************************************)
EXTENDS Ledger, BalanceWithDustProofs, Functions, FiniteSetTheorems, TLAPS

-----------------------------------------------------------------------------
\* The laws of totals: of an update, of a sum, of a new holder.

\* The units of a single holding.
LEMMA OneHolding ==
    ASSUME NEW h, NEW n \in Nat
    PROVE  IsFiniteSet({h} \X (1 .. n)) /\ Cardinality({h} \X (1 .. n)) = n
<1>1. IsFiniteSet({h}) /\ Cardinality({h}) = 1
  BY FS_Singleton, Zenon
<1>2. IsFiniteSet(1 .. n) /\ Cardinality(1 .. n) = n
  BY FS_Interval
<1>3. /\ IsFiniteSet({h} \X (1 .. n))
      /\ Cardinality({h} \X (1 .. n)) = Cardinality({h}) * Cardinality(1 .. n)
  BY <1>1, <1>2, FS_Product, Zenon
<1> QED  BY <1>1, <1>2, <1>3

\* A total is a natural number.
LEMMA TotalType ==
    ASSUME NEW S, IsFiniteSet(S), NEW f \in [S -> Nat]
    PROVE  IsFiniteSet(Units(f)) /\ Total(f) \in Nat
<1> DEFINE g == [h \in S |-> {h} \X (1 .. f[h])]
           T == {g[h] : h \in S}
<1>1. g \in Surjection(S, T)
  BY Zenon DEF Surjection
<1>2. IsFiniteSet(T)
  BY <1>1, FS_Surjection
<1>3. \A t \in T : IsFiniteSet(t)
  <2> SUFFICES ASSUME NEW h \in S PROVE IsFiniteSet({h} \X (1 .. f[h]))
    OBVIOUS
  <2> QED  BY OneHolding, Zenon
<1>4. Units(f) = UNION T
  BY DEF Units
<1>5. IsFiniteSet(Units(f))
  BY <1>2, <1>3, <1>4, FS_UNION, Zenon
<1> QED  BY <1>5, FS_CardinalityType DEF Total

\* The sizes of disjoint sets add up.
LEMMA DisjointCardinality ==
    ASSUME NEW S, IsFiniteSet(S), NEW T, IsFiniteSet(T), S \cap T = {}
    PROVE  Cardinality(S \cup T) = Cardinality(S) + Cardinality(T)
<1>1. Cardinality(S \cup T) = Cardinality(S) + Cardinality(T) - Cardinality(S \cap T)
  BY FS_Union
<1>2. Cardinality(S \cap T) = 0
  BY FS_EmptySet, Zenon
<1>3. Cardinality(S) \in Nat /\ Cardinality(T) \in Nat
  BY FS_CardinalityType
<1> QED  BY <1>1, <1>2, <1>3

\* The total with one holder set apart.
LEMMA TotalSplit ==
    ASSUME NEW S, IsFiniteSet(S), NEW f \in [S -> Nat], NEW a \in S
    PROVE  LET rest == [h \in S \ {a} |-> f[h]]
           IN  /\ Total(rest) \in Nat
               /\ Total(f) = Total(rest) + f[a]
<1> DEFINE rest == [h \in S \ {a} |-> f[h]]
           one == {a} \X (1 .. f[a])
<1>1. IsFiniteSet(S \ {a}) /\ rest \in [S \ {a} -> Nat]
  BY FS_RemoveElement
<1>2. IsFiniteSet(Units(rest)) /\ Total(rest) \in Nat
  BY <1>1, TotalType
<1>3. IsFiniteSet(one) /\ Cardinality(one) = f[a]
  BY OneHolding, Zenon
<1>4. Units(f) = Units(rest) \cup one
  BY DEF Units
<1>5. Units(rest) \cap one = {}
  BY DEF Units
<1>6. Cardinality(Units(f)) = Cardinality(Units(rest)) + Cardinality(one)
  <2> HIDE DEF rest, one
  <2>1. Cardinality(Units(rest) \cup one) = Cardinality(Units(rest)) + Cardinality(one)
    BY <1>2, <1>3, <1>5, DisjointCardinality
  <2> QED  BY <1>4, <2>1
<1> QED  BY <1>2, <1>3, <1>6 DEF Total

\* A new holder adds what it holds.
LEMMA TotalExtend ==
    ASSUME NEW S, IsFiniteSet(S), NEW a, a \notin S,
           NEW f \in [S -> Nat], NEW g \in [S \cup {a} -> Nat],
           \A h \in S : g[h] = f[h]
    PROVE  Total(g) = Total(f) + g[a]
<1>1. IsFiniteSet(S \cup {a})
  BY FS_AddElement
<1>2. [h \in (S \cup {a}) \ {a} |-> g[h]] = f
  <2>1. (S \cup {a}) \ {a} = S
    OBVIOUS
  <2> QED  BY <2>1
<1> QED  BY <1>1, <1>2, TotalSplit

\* Changing one holding changes the total by as much.
LEMMA TotalUpdate ==
    ASSUME NEW S, IsFiniteSet(S), NEW f \in [S -> Nat], NEW g \in [S -> Nat], NEW a \in S,
           \A h \in S \ {a} : g[h] = f[h]
    PROVE  Total(g) = Total(f) + g[a] - f[a]
<1>1. [h \in S \ {a} |-> g[h]] = [h \in S \ {a} |-> f[h]]
  OBVIOUS
<1> DEFINE n == Total([h \in S \ {a} |-> f[h]])
<1>2. n \in Nat /\ Total(f) = n + f[a]
  BY TotalSplit, Zenon
<1>3. Total(g) = n + g[a]
  <2>1. Total(g) = Total([h \in S \ {a} |-> g[h]]) + g[a]
    BY TotalSplit, Zenon
  <2> QED  BY <2>1, <1>1
<1> HIDE DEF n
<1> QED  BY <1>2, <1>3

\* No holding exceeds the total, and the total of nothing is 0.
LEMMA TotalBound ==
    ASSUME NEW S, IsFiniteSet(S), NEW f \in [S -> Nat], NEW a \in S
    PROVE  f[a] <= Total(f)
<1> DEFINE n == Total([h \in S \ {a} |-> f[h]])
<1>1. n \in Nat /\ Total(f) = n + f[a]
  BY TotalSplit, Zenon
<1> HIDE DEF n
<1> QED  BY <1>1

LEMMA TotalZero ==
    ASSUME NEW S, NEW f \in [S -> Nat], \A h \in S : f[h] = 0
    PROVE  Total(f) = 0
<1>1. Units(f) = {}
  BY DEF Units
<1> QED  BY <1>1, FS_EmptySet DEF Total

\* The total of a sum is the sum of the totals.
LEMMA TotalPlus ==
    ASSUME NEW S, IsFiniteSet(S), NEW f \in [S -> Nat], NEW g \in [S -> Nat], NEW k \in [S -> Nat],
           \A h \in S : k[h] = f[h] + g[h]
    PROVE  Total(k) = Total(f) + Total(g)
<1> DEFINE upper == {u \in Units(k) : u[2] > f[u[1]]}
           shift == [u \in Units(g) |-> <<u[1], f[u[1]] + u[2]>>]
<1>1. /\ IsFiniteSet(Units(f)) /\ IsFiniteSet(Units(g)) /\ IsFiniteSet(Units(k))
      /\ Total(f) \in Nat /\ Total(g) \in Nat
  BY TotalType
<1>2. Units(k) = Units(f) \cup upper
  BY DEF Units
<1>3. Units(f) \cap upper = {}
  BY DEF Units
<1>4. shift \in Bijection(Units(g), upper)
  <2>1. \A u \in Units(g) : shift[u] \in upper
    BY DEF Units
  <2>2. \A u, v \in Units(g) : shift[u] = shift[v] => u = v
    BY DEF Units
  <2>3. \A w \in upper : \E u \in Units(g) : shift[u] = w
    <3> SUFFICES ASSUME NEW w \in upper PROVE \E u \in Units(g) : shift[u] = w
      OBVIOUS
    <3>1. PICK h \in S : \E i \in 1 .. k[h] : w = <<h, i>>
      BY DEF Units
    <3> PICK i \in 1 .. k[h] : w = <<h, i>>
      BY <3>1
    <3>2. i > f[h] /\ i - f[h] \in 1 .. g[h]
      BY <3>1
    <3>3. <<h, i - f[h]>> \in Units(g)
      BY <3>2 DEF Units
    <3> QED  BY <3>1, <3>3
  <2> QED  BY <2>1, <2>2, <2>3, Zenon DEF Bijection, Injection, Surjection, IsInjective
<1>5. IsFiniteSet(upper) /\ Cardinality(upper) = Total(g)
  BY <1>1, <1>4, FS_Bijection DEF ExistsBijection, Total
<1>6. Cardinality(Units(k)) = Cardinality(Units(f)) + Cardinality(upper) - 0
  BY <1>1, <1>2, <1>3, <1>5, FS_Union, FS_EmptySet
<1> QED  BY <1>1, <1>5, <1>6 DEF Total

-----------------------------------------------------------------------------
\* Tables of balances.

Table == [Accounts -> Balance]

\* The value of a table is a natural number.
LEMMA HoldingsType ==
    ASSUME NEW b \in Table
    PROVE  [a \in Accounts |-> Value(b[a])] \in [Accounts -> Nat] /\ Holdings(b) \in Nat
<1>1. \A a \in Accounts : Value(b[a]) \in Nat
  <2> TAKE a \in Accounts
  <2>1. b[a] \in Balance
    BY DEF Table
  <2>2. Value(b[a]) \in 0 .. MaxValue
    BY <2>1, ValueType
  <2> QED  BY <2>2
<1>2. [a \in Accounts |-> Value(b[a])] \in [Accounts -> Nat]
  BY <1>1
<1> QED  BY <1>2, TotalType, LedgerAssumption DEF Holdings

\* Changing one row changes the value of the table by the value of the row.
LEMMA HoldingsUpdate ==
    ASSUME NEW b \in Table, NEW c \in Table, NEW a \in Accounts,
           \A h \in Accounts \ {a} : c[h] = b[h]
    PROVE  Holdings(c) = Holdings(b) + Value(c[a]) - Value(b[a])
<1> DEFINE f == [h \in Accounts |-> Value(b[h])]
           g == [h \in Accounts |-> Value(c[h])]
<1>1. f \in [Accounts -> Nat] /\ g \in [Accounts -> Nat]
  BY HoldingsType
<1>2. \A h \in Accounts \ {a} : g[h] = f[h]
  OBVIOUS
<1>3. f[a] = Value(b[a]) /\ g[a] = Value(c[a])
  OBVIOUS
<1>4. Holdings(b) = Total(f) /\ Holdings(c) = Total(g)
  BY DEF Holdings
<1> HIDE DEF f, g
<1>5. Total(g) = Total(f) + g[a] - f[a]
  BY <1>1, <1>2, TotalUpdate, LedgerAssumption
<1> QED  BY <1>3, <1>4, <1>5

\* Crediting every row credits the table with the total.
LEMMA HoldingsCredit ==
    ASSUME NEW b \in Table, NEW c \in Table, NEW r \in [Accounts -> Nat],
           \A h \in Accounts : Value(c[h]) = Value(b[h]) + r[h]
    PROVE  Holdings(c) = Holdings(b) + Total(r)
<1> DEFINE f == [h \in Accounts |-> Value(b[h])]
           g == [h \in Accounts |-> Value(c[h])]
<1>1. f \in [Accounts -> Nat] /\ g \in [Accounts -> Nat]
  BY HoldingsType
<1>2. \A h \in Accounts : g[h] = f[h] + r[h]
  OBVIOUS
<1>4. Holdings(b) = Total(f) /\ Holdings(c) = Total(g)
  BY DEF Holdings
<1> HIDE DEF f, g
<1>5. Total(g) = Total(f) + Total(r)
  BY <1>1, <1>2, TotalPlus, LedgerAssumption
<1> QED  BY <1>4, <1>5

-----------------------------------------------------------------------------
\* The stack of inline actions.

LEMMA OwedType ==
    ASSUME NEW s \in Seq(Item)
    PROVE  /\ [i \in DOMAIN s |-> TakenBy(s[i])] \in [1 .. Len(s) -> Nat]
           /\ IsFiniteSet(1 .. Len(s))
           /\ OwedIn(s) \in Nat
<1>1. DOMAIN s = 1 .. Len(s) /\ Len(s) \in Nat /\ \A i \in DOMAIN s : s[i] \in Item
  OBVIOUS
<1>2. \A i \in DOMAIN s : TakenBy(s[i]) \in Nat
  BY <1>1 DEF TakenBy, Item
<1>3. [i \in DOMAIN s |-> TakenBy(s[i])] \in [1 .. Len(s) -> Nat]
  BY <1>1, <1>2
<1>4. IsFiniteSet(1 .. Len(s))
  BY <1>1, FS_Interval
<1> QED  BY <1>3, <1>4, TotalType, SMTT(30) DEF OwedIn

\* Sending an inline action adds what it takes to what is owed.
LEMMA OwedAppend ==
    ASSUME NEW s \in Seq(Item), NEW it \in Item
    PROVE  /\ Append(s, it) \in Seq(Item)
           /\ OwedIn(Append(s, it)) = OwedIn(s) + TakenBy(it)
<1> DEFINE t == Append(s, it)
           f == [i \in DOMAIN s |-> TakenBy(s[i])]
           g == [i \in DOMAIN t |-> TakenBy(t[i])]
           n == Len(s)
<1>1. /\ t \in Seq(Item) /\ n \in Nat
      /\ DOMAIN s = 1 .. n /\ DOMAIN t = 1 .. n + 1 /\ Len(t) = n + 1
      /\ \A i \in 1 .. n : t[i] = s[i]
      /\ t[n + 1] = it
  OBVIOUS
<1>2. f \in [1 .. n -> Nat] /\ g \in [1 .. n + 1 -> Nat] /\ IsFiniteSet(1 .. n)
  BY <1>1, OwedType, Zenon
<1>3. \A i \in 1 .. n : g[i] = f[i]
  BY <1>1
<1>4. g[n + 1] = TakenBy(it)
  BY <1>1
<1>5. OwedIn(s) = Total(f) /\ OwedIn(t) = Total(g)
  BY DEF OwedIn
<1>6. 1 .. n + 1 = (1 .. n) \cup {n + 1} /\ n + 1 \notin 1 .. n
  BY <1>1
<1> HIDE DEF f, g, n, t
<1> DEFINE S == 1 .. n
           last == n + 1
<1>7. f \in [S -> Nat] /\ g \in [S \cup {last} -> Nat] /\ IsFiniteSet(S)
  BY <1>2, <1>6, Zenon
<1>8. last \notin S /\ \A i \in S : g[i] = f[i]
  BY <1>3, <1>6
<1> HIDE DEF S, last
<1>9. Total(g) = Total(f) + g[last]
  <2>1. \A F \in [S -> Nat], G \in [S \cup {last} -> Nat] :
           (\A h \in S : G[h] = F[h]) => Total(G) = Total(F) + G[last]
    BY <1>7, <1>8, TotalExtend, ZenonT(40)
  <2> QED  BY <1>7, <1>8, <2>1, Zenon
<1> QED  BY <1>1, <1>4, <1>5, <1>9 DEF t, last

\* The stack without its top.
LEMMA PoppedIs ==
    ASSUME stack \in Seq(Item), stack # <<>>
    PROVE  /\ Popped \in Seq(Item) /\ Top \in Item
           /\ Len(Popped) = Len(stack) - 1 /\ Len(stack) \in Nat \ {0}
           /\ \A i \in 1 .. Len(stack) - 1 : Popped[i] = stack[i]
           /\ stack = Append(Popped, Top)
<1>1. Len(stack) \in Nat \ {0} /\ \A i \in 1 .. Len(stack) : stack[i] \in Item
  OBVIOUS
<1> DEFINE m == Len(stack) - 1
<1>2. /\ Popped \in Seq(Item) /\ Len(Popped) = Len(stack) - 1
      /\ \A i \in 1 .. Len(stack) - 1 : Popped[i] = stack[i]
  <2>1. m \in Int /\ 1 \in Int /\ \A i \in 1 .. m : stack[i] \in Item
    BY <1>1
  <2>2. Popped = SubSeq(stack, 1, m)
    BY DEF Popped
  <2>3. m \in Nat /\ m = Len(stack) - 1
    BY <1>1
  <2> HIDE DEF m
  <2>4. /\ SubSeq(stack, 1, m) \in Seq(Item)
        /\ Len(SubSeq(stack, 1, m)) = IF 1 <= m THEN m - 1 + 1 ELSE 0
        /\ \A i \in 1 .. m - 1 + 1 : SubSeq(stack, 1, m)[i] = stack[1 + i - 1]
    BY <2>1, <2>3
  <2> QED  BY <2>2, <2>3, <2>4
<1>3. Top \in Item
  BY <1>1 DEF Top
<1>4. stack = Append(Popped, Top)
  BY <1>1, <1>2, <1>3 DEF Top
<1> QED  BY <1>1, <1>2, <1>3, <1>4

\* Sending a call of foreign code changes what is owed in no way.
LEMMA ThenForeignIs ==
    ASSUME NEW s \in Seq(Item), NEW runs
    PROVE  /\ ThenForeign(s, runs) \in Seq(Item)
           /\ OwedIn(ThenForeign(s, runs)) = OwedIn(s)
           /\ ThenForeign(s, runs) \in {s, Append(s, Foreign)}
<1>1. Foreign \in Item /\ TakenBy(Foreign) = 0
  BY LedgerAssumption DEF Foreign, Item, TakenBy
<1>2. OwedIn(s) \in Nat
  BY OwedType
<1>3. Append(s, Foreign) \in Seq(Item) /\ OwedIn(Append(s, Foreign)) = OwedIn(s)
  BY <1>1, <1>2, OwedAppend
<1> QED  BY <1>3, Zenon DEF ThenForeign

\* t is s with inline actions on top, none of them a pushtx.
Grown(s, t) ==
    /\ t \in Seq(Item)
    /\ Len(s) <= Len(t)
    /\ \A i \in 1 .. Len(s) : t[i] = s[i]
    /\ \A i \in 1 .. Len(t) : i > Len(s) => t[i].kind # "pushtx"

LEMMA GrownSame ==
    ASSUME NEW s \in Seq(Item)
    PROVE  Grown(s, s)
<1>1. Len(s) \in Nat
  OBVIOUS
<1> QED  BY <1>1 DEF Grown

LEMMA GrownAppend ==
    ASSUME NEW s \in Seq(Item), NEW t, Grown(s, t), NEW it \in Item, it.kind # "pushtx"
    PROVE  Grown(s, Append(t, it))
<1>1. t \in Seq(Item) /\ Len(s) \in Nat /\ Len(t) \in Nat /\ Len(s) <= Len(t)
  BY DEF Grown
<1> DEFINE u == Append(t, it)
<1>2. /\ u \in Seq(Item) /\ Len(u) = Len(t) + 1
      /\ \A i \in 1 .. Len(t) : u[i] = t[i]
      /\ u[Len(t) + 1] = it
  BY <1>1
<1> HIDE DEF u
<1>3. \A i \in 1 .. Len(s) : u[i] = s[i]
  BY <1>1, <1>2 DEF Grown
<1>4. \A i \in 1 .. Len(u) : i > Len(s) => u[i].kind # "pushtx"
  <2> TAKE i \in 1 .. Len(u)
  <2>1. CASE i \in 1 .. Len(t)
    BY <1>2, <2>1 DEF Grown
  <2>2. CASE i = Len(t) + 1
    BY <1>2, <2>2
  <2> QED  BY <1>1, <1>2, <2>1, <2>2
<1>5. Len(s) <= Len(u)
  BY <1>1, <1>2
<1>6. Grown(s, u)
  BY <1>2, <1>3, <1>4, <1>5, SMTT(30) DEF Grown
<1> QED  BY <1>6 DEF u

LEMMA GrownForeign ==
    ASSUME NEW s \in Seq(Item), NEW t, Grown(s, t), NEW runs
    PROVE  Grown(s, ThenForeign(t, runs))
<1>1. Foreign \in Item /\ Foreign.kind # "pushtx"
  BY LedgerAssumption DEF Foreign, Item
<1>2. Grown(s, Append(t, Foreign))
  BY <1>1, GrownAppend
<1> QED  BY <1>2, Zenon DEF ThenForeign

-----------------------------------------------------------------------------
\* The parts of process_tx.

\* What is reserved for the accounts that are open.
OpenPart(reserved) == [a \in Accounts |-> IF a \in open THEN reserved[a] ELSE 0]

\* execute_tx credits the open accounts with what is reserved for them.
LEMMA EgressIs ==
    ASSUME open \subseteq Accounts, NEW b \in Table, NEW reserved \in [Accounts -> Nat],
           \A a \in open : CanAccumulate(b[a], reserved[a])
    PROVE  /\ EgressCredited(b, reserved) \in Table
           /\ \A a \in Accounts \ open : EgressCredited(b, reserved)[a] = b[a]
           /\ Holdings(EgressCredited(b, reserved)) = Holdings(b) + Total(OpenPart(reserved))
<1> DEFINE c == EgressCredited(b, reserved)
           r == OpenPart(reserved)
<1>1. \A a \in Accounts : c[a] = IF a \in open THEN Accumulate(b[a], reserved[a]) ELSE b[a]
  BY DEF EgressCredited
<1>2. \A a \in Accounts : r[a] = IF a \in open THEN reserved[a] ELSE 0
  BY DEF OpenPart
<1>3. r \in [Accounts -> Nat]
  BY DEF OpenPart
<1>4. \A a \in Accounts : c[a] \in Balance /\ Value(c[a]) = Value(b[a]) + r[a]
  <2> TAKE a \in Accounts
  <2>1. b[a] \in Balance /\ reserved[a] \in Nat
    BY DEF Table
  <2>2. Value(b[a]) \in Nat
    BY <2>1, ValueType
  <2>3. CASE a \in open
    BY <1>1, <1>2, <2>1, <2>3, AccumulateExact, SMTT(30)
  <2>4. CASE a \notin open
    BY <1>1, <1>2, <2>1, <2>2, <2>4, SMTT(30)
  <2> QED  BY <2>3, <2>4
<1>5. c \in Table
  BY <1>4 DEF Table, EgressCredited
<1>6. \A a \in Accounts \ open : c[a] = b[a]
  BY <1>1
<1> HIDE DEF c, r
<1>7. Holdings(c) = Holdings(b) + Total(r)
  BY <1>3, <1>4, <1>5, HoldingsCredit
<1> QED  BY <1>5, <1>6, <1>7 DEF c, r

\* Whatever is not credited is reserved for a single account.
LEMMA ReservedSplit ==
    ASSUME open \subseteq Accounts, NEW reserved \in [Accounts -> Nat], EgressAllowed(reserved)
    PROVE  /\ NonOpen(reserved) = {} => Total(reserved) = Total(OpenPart(reserved))
           /\ \A a \in NonOpen(reserved) :
                Total(reserved) = Total(OpenPart(reserved)) + reserved[a]
<1> DEFINE r == OpenPart(reserved)
<1>1. /\ r \in [Accounts -> Nat]
      /\ \A a \in Accounts : r[a] = IF a \in open THEN reserved[a] ELSE 0
  BY DEF OpenPart
<1>2. \A h \in Accounts : h \notin NonOpen(reserved) => r[h] = reserved[h]
  BY <1>1 DEF NonOpen
<1>3. Total(r) \in Nat /\ Total(reserved) \in Nat
  BY <1>1, TotalType, LedgerAssumption
<1> HIDE DEF r
<1>4. ASSUME NonOpen(reserved) = {}
      PROVE  Total(reserved) = Total(r)
  <2>1. r = reserved
    BY <1>1, <1>2, <1>4
  <2> QED  BY <2>1
<1>5. ASSUME NEW a \in NonOpen(reserved)
      PROVE  Total(reserved) = Total(r) + reserved[a]
  <2>1. a \in Accounts /\ a \notin open /\ r[a] = 0 /\ reserved[a] \in Nat
    BY <1>1 DEF NonOpen
  <2>2. \A h \in Accounts \ {a} : r[h] = reserved[h]
    BY <1>2 DEF EgressAllowed
  <2>3. Total(r) = Total(reserved) + r[a] - reserved[a]
    BY <1>1, <2>1, <2>2, TotalUpdate, LedgerAssumption, SMTT(30)
  <2> QED  BY <1>3, <2>1, <2>3
<1> QED  BY <1>4, <1>5 DEF r

\* The miner's portion moves from the contract to the miner.
LEMMA MinerIs ==
    ASSUME NEW b \in Table, NEW miner \in Accounts, NEW portion \in Nat,
           CanDeduct(b[Self], portion),
           CanAccumulate([b EXCEPT ![Self] = Deduct(@, portion)][miner], portion)
    PROVE  /\ MinerPaid(b, miner, portion) \in Table
           /\ \A a \in Accounts \ {Self, miner} : MinerPaid(b, miner, portion)[a] = b[a]
           /\ Holdings(MinerPaid(b, miner, portion)) = Holdings(b)
<1> DEFINE d == [b EXCEPT ![Self] = Deduct(@, portion)]
           e == MinerPaid(b, miner, portion)
<1>1. Self \in Accounts /\ b[Self] \in Balance
  BY LedgerAssumption DEF Table
<1>2. Deduct(b[Self], portion) \in Balance /\ Value(Deduct(b[Self], portion)) = Value(b[Self]) - portion
  BY <1>1, DeductExact
<1>3. /\ d \in Table /\ d[Self] = Deduct(b[Self], portion)
      /\ \A a \in Accounts \ {Self} : d[a] = b[a]
  BY <1>1, <1>2 DEF Table
<1>4. d[miner] \in Balance /\ CanAccumulate(d[miner], portion)
  BY <1>3 DEF Table
<1>5. e = [d EXCEPT ![miner] = Accumulate(d[miner], portion)]
  BY DEF MinerPaid
<1> HIDE DEF d, e
<1>6. /\ Accumulate(d[miner], portion) \in Balance
      /\ Value(Accumulate(d[miner], portion)) = Value(d[miner]) + portion
  BY <1>4, AccumulateExact
<1>7. /\ e \in Table /\ e[miner] = Accumulate(d[miner], portion)
      /\ \A a \in Accounts \ {miner} : e[a] = d[a]
  BY <1>3, <1>5, <1>6 DEF Table
<1>8. Holdings(d) = Holdings(b) + Value(d[Self]) - Value(b[Self])
  BY <1>1, <1>3, HoldingsUpdate
<1>9. Holdings(e) = Holdings(d) + Value(e[miner]) - Value(d[miner])
  BY <1>3, <1>7, HoldingsUpdate
<1>10. /\ Holdings(b) \in Nat /\ Holdings(d) \in Nat
       /\ Value(b[Self]) \in Nat /\ Value(d[miner]) \in Nat
  BY <1>1, <1>3, <1>4, HoldingsType, ValueType, SMTT(30)
<1>11. Holdings(e) = Holdings(b)
  BY <1>2, <1>3, <1>6, <1>7, <1>8, <1>9, <1>10, SMTT(30)
<1> QED  BY <1>3, <1>7, <1>11 DEF e

\* process_filtered_messages moves the values of the messages from the
\* contract to the receivers.
LEMMA MessagesIs ==
    ASSUME NEW b \in Table, NEW to \in SUBSET Accounts, NEW pay \in [to -> Nat],
           CanPayMessages(b, pay)
    PROVE  /\ MessagesPaid(b, pay) \in Table
           /\ \A a \in Accounts \ (to \cup {Self}) : MessagesPaid(b, pay)[a] = b[a]
           /\ Holdings(MessagesPaid(b, pay)) = Holdings(b)
<1> DEFINE r == Paid(pay)
           c == MessagesCredited(b, pay)
           e == MessagesPaid(b, pay)
<1>1. /\ r \in [Accounts -> Nat]
      /\ \A a \in Accounts : r[a] = IF a \in to THEN pay[a] ELSE 0
  BY DEF Paid
<1>2. \A a \in Accounts : c[a] = IF a \in to THEN Accumulate(b[a], pay[a]) ELSE b[a]
  BY DEF MessagesCredited
<1>3. \A a \in to : CanAccumulate(b[a], pay[a])
  BY DEF CanPayMessages
<1>4. \A a \in Accounts : c[a] \in Balance /\ Value(c[a]) = Value(b[a]) + r[a]
  <2> TAKE a \in Accounts
  <2>1. b[a] \in Balance
    BY DEF Table
  <2>2. Value(b[a]) \in Nat
    BY <2>1, ValueType
  <2>3. CASE a \in to
    <3>1. pay[a] \in Nat
      BY <2>3
    <3> QED  BY <1>1, <1>2, <1>3, <2>1, <2>3, <3>1, AccumulateExact, SMTT(30)
  <2>4. CASE a \notin to
    BY <1>1, <1>2, <2>1, <2>2, <2>4, SMTT(30)
  <2> QED  BY <2>3, <2>4
<1>5. c \in Table
  BY <1>4 DEF Table, MessagesCredited
<1>6. CanDeduct(c[Self], Total(r))
  BY DEF CanPayMessages
<1>7. e = [c EXCEPT ![Self] = Deduct(c[Self], Total(r))]
  BY DEF MessagesPaid
<1> HIDE DEF c, r, e
<1>8. Self \in Accounts /\ c[Self] \in Balance /\ Total(r) \in Nat
  BY <1>1, <1>5, TotalType, LedgerAssumption, SMTT(30) DEF Table
<1>9. Deduct(c[Self], Total(r)) \in Balance /\ Value(Deduct(c[Self], Total(r))) = Value(c[Self]) - Total(r)
  BY <1>6, <1>8, DeductExact
<1>10. /\ e \in Table /\ e[Self] = Deduct(c[Self], Total(r))
       /\ \A a \in Accounts \ {Self} : e[a] = c[a]
  BY <1>5, <1>7, <1>8, <1>9, SMTT(30) DEF Table
<1>11. Holdings(c) = Holdings(b) + Total(r)
  BY <1>1, <1>4, <1>5, HoldingsCredit, SMTT(30)
<1>12. Holdings(e) = Holdings(c) + Value(e[Self]) - Value(c[Self])
  BY <1>5, <1>8, <1>10, HoldingsUpdate, SMTT(30)
<1>13. Holdings(b) \in Nat /\ Value(c[Self]) \in Nat
  BY <1>8, HoldingsType, ValueType
<1>14. Holdings(e) = Holdings(b)
  BY <1>8, <1>9, <1>10, <1>11, <1>12, <1>13, SMTT(30)
<1>15. \A a \in Accounts \ (to \cup {Self}) : e[a] = b[a]
  BY <1>2, <1>10
<1> QED  BY <1>10, <1>14, <1>15 DEF e

\* An amount without dust is a whole number of tokens.
LEMMA WholeUnits ==
    ASSUME NEW x \in Nat, x % MinAsset = 0
    PROVE  x \div MinAsset \in Nat /\ x = (x \div MinAsset) * MinAsset
  BY BalanceAssumption

\* The inline actions owe exactly what is reserved and not credited.
LEMMA TxInlineIs ==
    ASSUME open \subseteq Accounts, NEW s \in Seq(Item), NEW reserved \in [Accounts -> Nat],
           EgressAllowed(reserved), NEW pay
    PROVE  /\ Grown(s, TxInline(s, reserved, pay))
           /\ OwedIn(TxInline(s, reserved, pay)) \in Nat
           /\ OwedIn(TxInline(s, reserved, pay)) * MinAsset + Total(OpenPart(reserved))
                = OwedIn(s) * MinAsset + Total(reserved)
<1> DEFINE calls == ThenForeign(s, DOMAIN pay # {})
           t == TxInline(s, reserved, pay)
<1>1. calls \in Seq(Item) /\ OwedIn(calls) = OwedIn(s) /\ OwedIn(s) \in Nat
  BY ThenForeignIs, OwedType
<1>2. Grown(s, calls)
  BY GrownSame, GrownForeign
<1>3. Total(reserved) \in Nat /\ Total(OpenPart(reserved)) \in Nat
  <2>1. OpenPart(reserved) \in [Accounts -> Nat]
    BY DEF OpenPart
  <2> QED  BY <2>1, TotalType, LedgerAssumption
<1>4. CASE NonOpen(reserved) = {}
  <2>1. t = calls
    BY <1>4 DEF TxInline
  <2>2. Total(reserved) = Total(OpenPart(reserved))
    BY <1>4, ReservedSplit
  <2> HIDE DEF t, calls
  <2> QED  BY <1>1, <1>2, <2>1, <2>2, SMTT(30) DEF t
<1>5. CASE NonOpen(reserved) # {}
  <2> DEFINE a == CHOOSE a \in NonOpen(reserved) : TRUE
             it == Transfer(a, reserved[a] \div MinAsset)
  <2>1. a \in NonOpen(reserved)
    BY <1>5
  <2>2. t = Append(calls, it)
    BY <1>5 DEF TxInline
  <2> HIDE DEF a
  <2>3. a \in Accounts /\ reserved[a] \in Nat /\ reserved[a] % MinAsset = 0
    BY <2>1 DEF NonOpen, EgressAllowed
  <2>4. reserved[a] \div MinAsset \in Nat /\ reserved[a] = (reserved[a] \div MinAsset) * MinAsset
    BY <2>3, WholeUnits, Zenon
  <2>5. it \in Item /\ it.kind # "pushtx" /\ TakenBy(it) = reserved[a] \div MinAsset
    BY <2>3, <2>4 DEF Transfer, Item, TakenBy
  <2> HIDE DEF it, calls, t
  <2>6. OwedIn(t) = OwedIn(s) + (reserved[a] \div MinAsset)
    BY <1>1, <2>2, <2>5, OwedAppend
  <2>7. Grown(s, t)
    BY <1>2, <2>2, <2>5, GrownAppend, SMTT(30)
  <2>8. Total(reserved) = Total(OpenPart(reserved)) + reserved[a]
    BY <2>1, ReservedSplit
  <2> DEFINE q == reserved[a] \div MinAsset
  <2>9. q \in Nat /\ OwedIn(t) = OwedIn(s) + q /\ reserved[a] = q * MinAsset
    BY <2>4, <2>6
  <2> HIDE DEF q
  <2>10. OwedIn(t) * MinAsset = OwedIn(s) * MinAsset + q * MinAsset
    BY <1>1, <2>9, BalanceAssumption, SMTT(30)
  <2>11. OwedIn(t) * MinAsset + Total(OpenPart(reserved)) = OwedIn(s) * MinAsset + Total(reserved)
    <3>1. OwedIn(s) * MinAsset \in Nat /\ q * MinAsset \in Nat
      BY <1>1, <2>9, BalanceAssumption
    <3> QED  BY <1>3, <2>8, <2>9, <2>10, <3>1
  <2>12. OwedIn(t) \in Nat
    BY <1>1, <2>9
  <2> QED  BY <2>7, <2>11, <2>12 DEF t
<1> QED  BY <1>4, <1>5

\* All that is accounted for.
Funds(b, i, s) == Holdings(b) + Value(i) + OwedIn(s) * MinAsset

\* The outcome of a transaction on balances b and stack s: x is added to what
\* is accounted for, closed accounts and pending inline actions stay as they
\* are, and the EVM remains covered.
TxDone(b, x, s) ==
    /\ balances' \in Table /\ inevm' \in Balance /\ evm' \in [Addrs -> Nat]
    /\ Grown(s, stack')
    /\ \A a \in Accounts \ open : balances'[a] = b[a]
    /\ Funds(balances', inevm', stack') = Funds(b, inevm, s) + x
    /\ Total(evm') <= Value(inevm')
    /\ UNCHANGED <<inited, frozen, bridging, open, egresslist, receivers>>

LEMMA FundsType ==
    ASSUME NEW b \in Table, NEW i \in Balance, NEW s \in Seq(Item)
    PROVE  /\ Funds(b, i, s) \in Nat
           /\ Holdings(b) \in Nat /\ Value(i) \in Nat
           /\ OwedIn(s) \in Nat /\ OwedIn(s) * MinAsset \in Nat
<1>1. Holdings(b) \in Nat /\ Value(i) \in Nat /\ OwedIn(s) \in Nat
  BY HoldingsType, ValueType, OwedType
<1>2. OwedIn(s) * MinAsset \in Nat
  BY <1>1, BalanceAssumption
<1> HIDE DEF Funds
<1>3. Funds(b, i, s) \in Nat
  BY <1>1, <1>2, SMTT(30) DEF Funds
<1> QED  BY <1>1, <1>2, <1>3

\* A transaction moves funds between the balances, the EVM and the transfers
\* on their way out, and creates and loses none.
LEMMA ProcessTx ==
    ASSUME TypeOK, Self \in open, Solvency, NEW b \in Table, NEW x \in Nat, NEW miner \in open,
           NEW s \in Seq(Item), NEW notified, process_tx(b, x, miner, s, notified)
    PROVE  TxDone(b, x, s)
<1> DEFINE funds == Total(evm) + x
<1>1. open \subseteq Accounts /\ inevm \in Balance /\ evm \in [Addrs -> Nat] /\ Total(evm) \in Nat
  BY TotalType, LedgerAssumption DEF TypeOK
<1>2. funds \in Nat
  BY <1>1
<1>3. PICK e \in [Addrs -> 0 .. funds], reserved \in [Accounts -> 0 .. funds] :
        /\ Total(e) + Total(reserved) <= funds
        /\ evm' = e
        /\ EgressAllowed(reserved)
        /\ CanAccumulate(inevm, x)
        /\ CanDeduct(Accumulate(inevm, x), Total(reserved))
        /\ inevm' = InevmAfter(x, reserved)
        /\ \E portion \in 0 .. reserved[Self], to \in SUBSET MessageTargets :
           \E pay \in [to -> 0 .. reserved[Self]] :
              LET credited == EgressCredited(b, reserved)
                  shared   == MinerPaid(credited, miner, portion)
              IN  /\ Total(pay) + portion <= reserved[Self]
                  /\ miner = Self => portion = 0
                  /\ CanEgress(b, reserved, portion)
                  /\ CanAccumulate([credited EXCEPT ![Self] = Deduct(@, portion)][miner], portion)
                  /\ FeesCovered(pay) /\ CanPayMessages(shared, pay)
                  /\ balances' = MessagesPaid(shared, pay)
                  /\ stack' = ThenForeign(TxInline(s, reserved, pay), notified)
                  /\ Len(stack') <= MaxDepth
  BY Zenon DEF process_tx
<1>4. PICK portion \in 0 .. reserved[Self], to \in SUBSET MessageTargets :
        \E pay \in [to -> 0 .. reserved[Self]] :
              LET credited == EgressCredited(b, reserved)
                  shared   == MinerPaid(credited, miner, portion)
              IN  /\ CanEgress(b, reserved, portion)
                  /\ CanAccumulate([credited EXCEPT ![Self] = Deduct(@, portion)][miner], portion)
                  /\ CanPayMessages(shared, pay)
                  /\ balances' = MessagesPaid(shared, pay)
                  /\ stack' = ThenForeign(TxInline(s, reserved, pay), notified)
  BY <1>3, Zenon
<1>5. PICK pay \in [to -> 0 .. reserved[Self]] :
              LET credited == EgressCredited(b, reserved)
                  shared   == MinerPaid(credited, miner, portion)
              IN  /\ CanEgress(b, reserved, portion)
                  /\ CanAccumulate([credited EXCEPT ![Self] = Deduct(@, portion)][miner], portion)
                  /\ CanPayMessages(shared, pay)
                  /\ balances' = MessagesPaid(shared, pay)
                  /\ stack' = ThenForeign(TxInline(s, reserved, pay), notified)
  BY <1>4, Zenon
<1> DEFINE credited == EgressCredited(b, reserved)
           shared   == MinerPaid(credited, miner, portion)
           inline   == TxInline(s, reserved, pay)
<1>6. /\ e \in [Addrs -> Nat] /\ reserved \in [Accounts -> Nat] /\ portion \in Nat
      /\ to \subseteq open /\ to \subseteq Accounts /\ pay \in [to -> Nat] /\ miner \in Accounts
      /\ Self \in Accounts
  <2>1. 0 .. funds \subseteq Nat
    BY <1>2
  <2>2. e \in [Addrs -> Nat] /\ reserved \in [Accounts -> Nat]
    BY <2>1
  <2>3. reserved[Self] \in Nat /\ Self \in Accounts
    BY <2>2, LedgerAssumption
  <2>4. 0 .. reserved[Self] \subseteq Nat
    BY <2>3
  <2>5. portion \in Nat /\ pay \in [to -> Nat]
    BY <2>4, SMTT(30)
  <2> QED  BY <1>1, <2>2, <2>3, <2>5, SMTT(30) DEF MessageTargets
<1>7. /\ credited \in Table
      /\ \A a \in Accounts \ open : credited[a] = b[a]
      /\ Holdings(credited) = Holdings(b) + Total(OpenPart(reserved))
  BY <1>1, <1>5, <1>6, EgressIs, Zenon DEF CanEgress
<1>8. /\ CanDeduct(credited[Self], portion)
      /\ CanAccumulate([credited EXCEPT ![Self] = Deduct(@, portion)][miner], portion)
      /\ CanPayMessages(shared, pay)
      /\ balances' = MessagesPaid(shared, pay)
      /\ stack' = ThenForeign(inline, notified)
  BY <1>5 DEF CanEgress
<1> HIDE DEF credited, inline, funds
<1>9. /\ shared \in Table
      /\ \A a \in Accounts \ {Self, miner} : shared[a] = credited[a]
      /\ Holdings(shared) = Holdings(credited)
  BY <1>6, <1>7, <1>8, MinerIs
<1> HIDE DEF shared
<1>10. /\ balances' \in Table
       /\ \A a \in Accounts \ (to \cup {Self}) : balances'[a] = shared[a]
       /\ Holdings(balances') = Holdings(shared)
  <2>1. /\ MessagesPaid(shared, pay) \in Table
        /\ \A a \in Accounts \ (to \cup {Self}) : MessagesPaid(shared, pay)[a] = shared[a]
        /\ Holdings(MessagesPaid(shared, pay)) = Holdings(shared)
    BY <1>6, <1>8, <1>9, MessagesIs, ZenonT(40)
  <2> QED  BY <1>8, <2>1, Zenon
<1>11. \A a \in Accounts \ open : balances'[a] = b[a]
  BY <1>6, <1>7, <1>9, <1>10, SMTT(30)
<1>12. /\ Grown(s, inline) /\ OwedIn(inline) \in Nat
       /\ OwedIn(inline) * MinAsset + Total(OpenPart(reserved)) = OwedIn(s) * MinAsset + Total(reserved)
  BY <1>1, <1>3, <1>6, TxInlineIs, ZenonT(40) DEF inline
<1>13. Grown(s, stack') /\ OwedIn(stack') = OwedIn(inline)
  <2>1. inline \in Seq(Item)
    BY <1>12 DEF Grown
  <2>2. Grown(s, ThenForeign(inline, notified))
    BY <1>12, GrownForeign, Zenon
  <2>3. OwedIn(ThenForeign(inline, notified)) = OwedIn(inline)
    BY <2>1, ThenForeignIs, ZenonT(40)
  <2> QED  BY <1>8, <2>2, <2>3, ZenonT(40)
<1>14. Total(reserved) \in Nat /\ Total(e) \in Nat /\ Total(OpenPart(reserved)) \in Nat
  <2>1. OpenPart(reserved) \in [Accounts -> Nat]
    BY <1>6 DEF OpenPart
  <2> QED  BY <1>6, <2>1, TotalType, LedgerAssumption, SMTT(30)
<1>15. inevm' \in Balance /\ Value(inevm') = Value(inevm) + x - Total(reserved)
  <2>1. Accumulate(inevm, x) \in Balance /\ Value(Accumulate(inevm, x)) = Value(inevm) + x
    BY <1>1, <1>3, AccumulateExact, SMTT(30)
  <2> DEFINE c == Accumulate(inevm, x)
  <2>2. c \in Balance /\ Value(c) = Value(inevm) + x /\ CanDeduct(c, Total(reserved))
    BY <1>3, <2>1, SMTT(30)
  <2>3. inevm' = Deduct(c, Total(reserved))
    BY <1>3 DEF InevmAfter
  <2> HIDE DEF c
  <2>4. /\ Deduct(c, Total(reserved)) \in Balance
        /\ Value(Deduct(c, Total(reserved))) = Value(c) - Total(reserved)
    BY <1>14, <2>2, DeductExact, SMTT(30)
  <2>5. Value(inevm') = Value(c) - Total(reserved)
    BY <2>3, <2>4, Zenon
  <2>6. Value(inevm) \in Nat
    BY <1>1, ValueType, SMTT(30)
  <2>7. Value(inevm') = Value(inevm) + x - Total(reserved)
    BY <1>14, <2>2, <2>5, <2>6, SMTT(30)
  <2> QED  BY <2>3, <2>4, <2>7, ZenonT(40)
<1>16. Value(inevm) \in Nat /\ Holdings(b) \in Nat /\ OwedIn(s) * MinAsset \in Nat
       /\ OwedIn(inline) * MinAsset \in Nat
  <2>1. OwedIn(s) \in Nat
    BY OwedType
  <2>2. OwedIn(s) * MinAsset \in Nat /\ OwedIn(inline) * MinAsset \in Nat
    BY <1>12, <2>1, BalanceAssumption, SMTT(30)
  <2>3. Value(inevm) \in Nat /\ Holdings(b) \in Nat
    BY <1>1, ValueType, HoldingsType, SMTT(30)
  <2> QED  BY <2>2, <2>3, SMTT(30)
<1>17. Holdings(balances') + Value(inevm') + OwedIn(stack') * MinAsset
         = Holdings(b) + Value(inevm) + x + OwedIn(s) * MinAsset
  <2> DEFINE before == OwedIn(s) * MinAsset
             after  == OwedIn(inline) * MinAsset
  <2>1. /\ before \in Nat /\ after \in Nat
        /\ after + Total(OpenPart(reserved)) = before + Total(reserved)
        /\ OwedIn(stack') * MinAsset = after
    BY <1>12, <1>13, <1>16, SMTT(30)
  <2>2. Holdings(balances') = Holdings(b) + Total(OpenPart(reserved))
    BY <1>7, <1>9, <1>10, SMTT(30)
  <2> HIDE DEF before, after
  <2> DEFINE credit == Total(OpenPart(reserved))
             debit  == Total(reserved)
             hb == Holdings(b)
             vi == Value(inevm)
  <2>3. /\ credit \in Nat /\ debit \in Nat /\ hb \in Nat /\ vi \in Nat
        /\ Holdings(balances') = hb + credit /\ Value(inevm') = vi + x - debit
        /\ after + credit = before + debit
    BY <1>14, <1>15, <1>16, <2>1, <2>2, SMTT(30)
  <2> HIDE DEF credit, debit, hb, vi
  <2>4. Holdings(balances') + Value(inevm') + after = hb + vi + x + before
    BY <2>1, <2>3, SMTT(30)
  <2> QED  BY <2>1, <2>4, SMTT(30) DEF before, hb, vi
<1>18. Total(evm') <= Value(inevm')
  <2> DEFINE out == Total(reserved)
             vi == Value(inevm)
             te == Total(evm)
  <2>1. /\ out \in Nat /\ vi \in Nat /\ te \in Nat /\ te <= vi
        /\ Total(e) \in Nat /\ Total(e) + out <= te + x
    BY <1>1, <1>3, <1>14, <1>16, SMTT(30) DEF Solvency, funds
  <2>2. Value(inevm') = vi + x - out /\ evm' = e
    BY <1>3, <1>15, SMTT(30)
  <2> HIDE DEF out, vi, te
  <2>3. Total(e) <= Value(inevm')
    BY <2>1, <2>2
  <2> QED  BY <2>2, <2>3, SMTT(30)
<1>19. UNCHANGED <<inited, frozen, bridging, open, egresslist, receivers>>
  BY Zenon DEF process_tx
<1>20. Funds(balances', inevm', stack') = Funds(b, inevm, s) + x
  <2> DEFINE owed == OwedIn(s) * MinAsset
  <2>1. /\ Holdings(balances') + Value(inevm') + OwedIn(stack') * MinAsset
             = Holdings(b) + Value(inevm) + x + owed
        /\ owed \in Nat /\ Holdings(b) \in Nat /\ Value(inevm) \in Nat
    BY <1>16, <1>17
  <2>2. Funds(b, inevm, s) = Holdings(b) + Value(inevm) + owed
    BY DEF Funds
  <2> HIDE DEF owed
  <2>3. Holdings(b) + Value(inevm) + x + owed = Funds(b, inevm, s) + x
    BY <2>1, <2>2
  <2> QED  BY <2>1, <2>3, SMTT(30) DEF Funds
<1> QED  BY <1>3, <1>6, <1>10, <1>11, <1>13, <1>15, <1>18, <1>19, <1>20, ZenonT(40) DEF TxDone

-----------------------------------------------------------------------------
\* Nonces.

\* The transaction of a pushtx, and an account having passed its nonce.
TxOf(item) == <<item.who, item.nonce>>
Passed(nonces, p) == p[2] < nonces[p[1]]

\* Every bridge transaction that ran or waits in a pushtx has a nonce the
\* account has passed, and no two of them have the same one.
Taken(nonces, ran, s) ==
    /\ \A p \in ran : Passed(nonces, p)
    /\ \A i \in 1 .. Len(s) : s[i].kind = "pushtx" =>
          /\ Passed(nonces, TxOf(s[i]))
          /\ TxOf(s[i]) \notin ran
          /\ \A j \in 1 .. Len(s) : j # i /\ s[j].kind = "pushtx" => TxOf(s[j]) # TxOf(s[i])

Nonces == [Accounts -> Nat \cup {NoRow}]

LEMMA TxType ==
    ASSUME NEW s \in Seq(Item)
    PROVE  \A i \in 1 .. Len(s) : s[i] \in Item /\ TxOf(s[i]) \in Accounts \X Nat
<1>1. \A it \in Item : TxOf(it) \in Accounts \X Nat
  BY DEF Item, TxOf
<1>2. \A i \in 1 .. Len(s) : s[i] \in Item
  BY SMTT(30)
<1> QED  BY <1>1, <1>2

LEMMA TakenGrown ==
    ASSUME NEW n, NEW u, NEW s \in Seq(Item), NEW t, Taken(n, u, s), Grown(s, t)
    PROVE  Taken(n, u, t)
<1>1. Len(s) \in Nat /\ t \in Seq(Item) /\ Len(t) \in Nat
  BY DEF Grown
<1>2. \A i \in 1 .. Len(t) : t[i].kind = "pushtx" => i \in 1 .. Len(s) /\ t[i] = s[i]
  BY <1>1 DEF Grown
<1> QED  BY <1>2, SMTT(30) DEF Taken

\* The top of the stack leaves it.
LEMMA TakenPop ==
    ASSUME NEW n, NEW u, NEW s \in Seq(Item), NEW it \in Item, Taken(n, u, Append(s, it))
    PROVE  /\ Taken(n, u, s)
           /\ it.kind = "pushtx" =>
                TxOf(it) \notin u /\ Taken(n, u \cup {TxOf(it)}, s)
<1> DEFINE t == Append(s, it)
           k == Len(s)
<1>1. /\ k \in Nat /\ Len(t) = k + 1
      /\ \A i \in 1 .. k : t[i] = s[i] /\ i \in 1 .. Len(t) /\ i # k + 1
      /\ t[k + 1] = it /\ k + 1 \in 1 .. Len(t)
  OBVIOUS
<1>2. Taken(n, u, t)
  BY SMTT(30)
<1> HIDE DEF t
<1>3. Taken(n, u, s)
  BY <1>1, <1>2 DEF Taken
<1>4. ASSUME it.kind = "pushtx"
      PROVE  TxOf(it) \notin u /\ Taken(n, u \cup {TxOf(it)}, s)
  <2>1. TxOf(it) \notin u /\ Passed(n, TxOf(it))
    BY <1>1, <1>2, <1>4, SMTT(30) DEF Taken
  <2>2. \A i \in 1 .. k : s[i].kind = "pushtx" => TxOf(s[i]) # TxOf(it)
    BY <1>1, <1>2, <1>4, SMTT(30) DEF Taken
  <2>3. Taken(n, u \cup {TxOf(it)}, s)
    BY <1>3, <2>1, <2>2, SMTT(30) DEF Taken
  <2> QED  BY <2>1, <2>3, SMTT(30)
<1> QED  BY <1>3, <1>4, SMTT(30)

\* The next nonce of an account is new.
LEMMA TakenNew ==
    ASSUME NEW n \in Nonces, NEW u \in SUBSET (Accounts \X Nat), NEW s \in Seq(Item),
           Taken(n, u, s), NEW a \in Accounts, n[a] # NoRow, NEW x \in Nat
    PROVE  LET next == [n EXCEPT ![a] = @ + 1]
           IN  /\ n[a] \in Nat /\ next \in Nonces
               /\ <<a, n[a]>> \notin u
               /\ Taken(next, u \cup {<<a, n[a]>>}, s)
               /\ PushTx(a, n[a], x) \in Item
               /\ Taken(next, u, Append(s, PushTx(a, n[a], x)))
<1> DEFINE next == [n EXCEPT ![a] = @ + 1]
           p == <<a, n[a]>>
           it == PushTx(a, n[a], x)
           t == Append(s, it)
           k == Len(s)
<1>1. n[a] \in Nat
  BY DEF Nonces
<1>2. next \in Nonces
  BY <1>1 DEF Nonces
<1>3. next[a] = n[a] + 1 /\ \A h \in Accounts : n[h] \in Int /\ next[h] \in Int /\ n[h] <= next[h]
  BY <1>1, SMTT(30) DEF Nonces, NoRow
<1>4. p \notin u /\ ~Passed(n, p) /\ Passed(next, p)
  BY <1>1, <1>3, SMTT(30) DEF Taken, Passed
<1>5. it \in Item /\ it.kind = "pushtx" /\ TxOf(it) = p
  BY <1>1 DEF PushTx, Item, TxOf
<1> HIDE DEF next
<1>6. \A q \in Accounts \X Nat : Passed(n, q) => Passed(next, q)
  BY <1>3, SMTT(30) DEF Passed
<1>7. \A i \in 1 .. k : TxOf(s[i]) \in Accounts \X Nat
  BY TxType, SMTT(30)
<1>8. /\ k \in Nat /\ Len(t) = k + 1
      /\ \A i \in 1 .. k : t[i] = s[i]
      /\ t[k + 1] = it
      /\ \A i \in 1 .. k + 1 : i \in 1 .. k \/ i = k + 1
  BY <1>5
<1> HIDE DEF p, it, t
<1>9. \A q \in u : Passed(next, q)
  BY <1>6, SMTT(30) DEF Taken
<1>10. \A i \in 1 .. k : s[i].kind = "pushtx" => Passed(next, TxOf(s[i])) /\ TxOf(s[i]) # p
  BY <1>4, <1>6, <1>7, SMTT(30) DEF Taken
<1>11. Taken(next, u \cup {p}, s)
  BY <1>4, <1>9, <1>10, SMTT(30) DEF Taken
<1>12. Taken(next, u, t)
  <2>1. ASSUME NEW i \in 1 .. Len(t), t[i].kind = "pushtx"
        PROVE  /\ Passed(next, TxOf(t[i]))
               /\ TxOf(t[i]) \notin u
               /\ \A j \in 1 .. Len(t) : j # i /\ t[j].kind = "pushtx" => TxOf(t[j]) # TxOf(t[i])
    <3>1. CASE i = k + 1
      BY <1>4, <1>5, <1>8, <1>10, <3>1, SMTT(30)
    <3>2. CASE i \in 1 .. k
      <4>1. /\ TxOf(s[i]) \notin u
            /\ \A j \in 1 .. k : j # i /\ s[j].kind = "pushtx" => TxOf(s[j]) # TxOf(s[i])
        BY <1>8, <2>1, <3>2, SMTT(30) DEF Taken
      <4> QED  BY <1>5, <1>8, <1>10, <2>1, <3>2, <4>1, SMTT(30)
    <3> QED  BY <1>8, <3>1, <3>2, SMTT(30)
  <2> QED  BY <1>9, <2>1, SMTT(30) DEF Taken
<1> QED  BY <1>1, <1>2, <1>4, <1>5, <1>11, <1>12, SMTT(30) DEF next, p, it, t

\* Rows may go while their nonce is zero, and new ones come.
LEMMA TakenRows ==
    ASSUME NEW n \in Nonces, NEW m \in Nonces, NEW u \in SUBSET (Accounts \X Nat),
           NEW s \in Seq(Item), Taken(n, u, s),
           \A a \in Accounts : m[a] = n[a] \/ n[a] <= 0
    PROVE  Taken(m, u, s)
<1>1. \A a \in Accounts : n[a] \in Int
  BY DEF Nonces, NoRow
<1>2. \A q \in Accounts \X Nat : Passed(n, q) => Passed(m, q)
  BY <1>1 DEF Passed
<1>3. \A i \in 1 .. Len(s) : TxOf(s[i]) \in Accounts \X Nat
  BY TxType
<1> QED  BY <1>2, <1>3 DEF Taken

=============================================================================
