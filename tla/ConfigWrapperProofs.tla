------------------------ MODULE ConfigWrapperProofs ------------------------
(***************************************************************************)
(* The configuration, for every block interval, grace period, price and    *)
(* parameter set: the version never goes back, a block has one rule set,   *)
(* the price queues work, and both promoted values implement               *)
(* NextBlockValue.                                                         *)
(***************************************************************************)
EXTENDS ConfigWrapper, WellFoundedInduction, TLAPS

\* A later time is in the same EVM block or a later one.
LEMMA DivMonotone ==
    ASSUME NEW a \in Nat, NEW b \in Nat, a <= b, NEW d \in Nat \ {0}
    PROVE  a \div d \in Nat /\ a \div d <= b \div d
<1> DEFINE p == a \div d
           q == b \div d
<1>1. p \in Nat /\ d * p <= a /\ q \in Nat /\ b < d * q + d
  OBVIOUS
<1> HIDE DEF p, q
<1>2. p > q => d * p >= d * q + d
  <2> SUFFICES ASSUME p > q PROVE d * p >= d * q + d
    OBVIOUS
  <2> DEFINE k == p - (q + 1)
  <2>1. k \in Nat /\ p = q + 1 + k
    BY <1>1
  <2> HIDE DEF k
  <2>2. d * p = d * q + d + d * k /\ d * k \in Nat /\ d * q \in Nat
    BY <1>1, <2>1
  <2> QED  BY <2>2
<1>3. d * p \in Nat /\ d * q \in Nat
  BY <1>1
<1>4. p <= q
  BY <1>1, <1>2, <1>3
<1> QED  BY <1>1, <1>4 DEF p, q

LEMMA EvmBlockMonotone ==
    ASSUME NEW g \in Nat, NEW t \in Nat, NEW u \in Nat, t <= u
    PROVE  /\ EvmBlock(g, t) \in Nat
           /\ EvmBlock(g, u) \in Nat
           /\ EvmBlock(g, t) <= EvmBlock(g, u)
<1>1. Seconds(t) \in Nat /\ Seconds(u) \in Nat /\ Seconds(t) <= Seconds(u)
  BY DivMonotone, MappingAssumption DEF Seconds
<1>2. CASE Seconds(u) < g
  BY <1>1, <1>2 DEF EvmBlock
<1>3. CASE Seconds(t) < g /\ ~(Seconds(u) < g)
  <2>1. Seconds(u) - g \in Nat
    BY <1>1, <1>3
  <2>2. (Seconds(u) - g) \div Interval \in Nat
    BY <2>1, DivMonotone, MappingAssumption
  <2> QED  BY <1>3, <2>2 DEF EvmBlock
<1>4. CASE ~(Seconds(t) < g)
  <2>1. /\ Seconds(t) - g \in Nat /\ Seconds(u) - g \in Nat
        /\ Seconds(t) - g <= Seconds(u) - g /\ ~(Seconds(u) < g)
    BY <1>1, <1>4
  <2>2. /\ (Seconds(t) - g) \div Interval \in Nat
        /\ (Seconds(u) - g) \div Interval \in Nat
        /\ (Seconds(t) - g) \div Interval <= (Seconds(u) - g) \div Interval
    BY <2>1, DivMonotone, MappingAssumption
  <2> QED  BY <1>4, <2>1, <2>2 DEF EvmBlock
<1> QED  BY <1>1, <1>2, <1>3, <1>4

\* A set of block numbers has a least one and, if bounded, a greatest one.
LEMMA LeastBlock ==
    ASSUME NEW S \in SUBSET Nat, S # {}
    PROVE  Min(S) \in S /\ \A y \in S : Min(S) <= y
<1>1. PICK x \in S : \A y \in S : ~(<<y, x>> \in OpToRel(<, Nat))
  BY NatLessThanWellFounded, WFMin, Zenon
<1>2. \A y \in S : ~(y < x)
  BY <1>1, Zenon DEF OpToRel
<1>3. \A y \in S : x <= y
  BY <1>2
<1> QED  BY <1>3, Zenon DEF Min

LEMMA GreatestBlock ==
    ASSUME NEW S \in SUBSET Nat, S # {}, NEW n \in Nat, \A y \in S : y <= n
    PROVE  Max(S) \in S /\ \A y \in S : y <= Max(S)
<1> DEFINE T == {n - y : y \in S}
<1>0. \A y \in S : n - y \in Nat
  OBVIOUS
<1>1. T \in SUBSET Nat /\ T # {}
  BY <1>0, Zenon
<1> HIDE DEF T
<1>2. Min(T) \in T /\ \A z \in T : Min(T) <= z
  BY <1>1, LeastBlock
<1>3. PICK x \in S : Min(T) = n - x
  BY <1>2, Zenon DEF T
<1>4. \A y \in S : n - x <= n - y
  BY <1>2, <1>3 DEF T
<1>5. \A y \in S : x >= y
  BY <1>4
<1>6. Max(S) \in S /\ \A y \in S : Max(S) >= y
  BY <1>5, Zenon DEF Max
<1>7. Max(S) \in Nat
  BY <1>6, Zenon
<1> QED  BY <1>6, <1>7

-----------------------------------------------------------------------------
\* The value a promoter holds for the next block.
NextOf(p) == IF p.has_pending THEN p.value ELSE p.cached_value

\* What a promoting read leaves behind: the same value in force, ...
Promoted(m, p, V, g, t) ==
    /\ m \in Promoter(V, Nat) /\ m.time <= t
    /\ get_value(m, g, t) = get_value(p, g, t)
    /\ m.has_pending => m = p
    /\ m.cached_value = get_value(p, g, t)
    /\ NextOf(m) = NextOf(p)

\* ... and what an update to v does.
Updated(u, p, v, V, g, t) ==
    /\ u \in Promoter(V, Nat) /\ u.time <= t
    /\ get_value(u, g, t) = get_value(p, g, t)
    /\ u.has_pending /\ u.value = v
    /\ u.cached_value = get_value(p, g, t)

LEMMA PromoteStep ==
    ASSUME NEW V, NEW p \in Promoter(V, Nat), NEW g \in Nat, NEW t \in Nat, p.time <= t
    PROVE  Promoted(maybe_promote(p, g, t), p, V, g, t)
<1> DEFINE m == maybe_promote(p, g, t)
<1>1. p.cached_value \in V /\ p.value \in V /\ p.time \in Nat
  BY DEF Promoter
<1>2. CASE promotes(p, g, t)
  <2>1. m = NoPending(p.value)
    BY <1>2 DEF maybe_promote, promote_pending
  <2>2. /\ m.cached_value = p.value /\ m.has_pending = FALSE /\ m.value = p.value /\ m.time = 0
        /\ m \in Promoter(V, Nat)
    BY <1>1, <2>1 DEF NoPending, Promoter
  <2>3. p.has_pending
    BY <1>2 DEF promotes
  <2> HIDE DEF m
  <2>4. Promoted(m, p, V, g, t)
    BY <1>2, <2>2, <2>3 DEF Promoted, get_value, promotes, NextOf
  <2> QED  BY <2>4 DEF m
<1>3. CASE ~promotes(p, g, t)
  <2>1. m = p
    BY <1>3 DEF maybe_promote
  <2> QED  BY <1>3, <2>1 DEF Promoted, get_value
<1> QED  BY <1>2, <1>3

LEMMA UpdateStep ==
    ASSUME NEW V, NEW p \in Promoter(V, Nat), NEW v \in V,
           NEW g \in Nat, NEW t \in Nat, p.time <= t
    PROVE  Updated(update(p, v, g, t), p, v, V, g, t)
<1> DEFINE u == update(p, v, g, t)
<1>1. get_value(p, g, t) \in V
  BY DEF get_value, Promoter
<1>2. ~(EvmBlock(g, t) > EvmBlock(g, t))
  BY EvmBlockMonotone
<1>3. u = [cached_value |-> get_value(p, g, t), has_pending |-> TRUE, value |-> v, time |-> t]
  BY PromoteStep, Zenon DEF update, Promoted
<1> HIDE DEF u
<1>4. u.cached_value = get_value(p, g, t) /\ u.has_pending = TRUE /\ u.value = v /\ u.time = t
  BY <1>3
<1>5. u \in Promoter(V, Nat)
  BY <1>1, <1>3 DEF Promoter
<1>6. get_value(u, g, t) = get_value(p, g, t)
  BY <1>2, <1>4 DEF get_value, promotes, is_active
<1>7. Updated(u, p, v, V, g, t)
  BY <1>4, <1>5, <1>6 DEF Updated
<1> QED  BY <1>7 DEF u

\* Within a block the passing of time changes nothing; in a later block the
\* value is the one held for the next.
LEMMA PromoterTime ==
    ASSUME NEW V, NEW p \in Promoter(V, Nat), NEW g \in Nat,
           NEW t \in Nat, NEW u \in Nat, p.time <= t, t <= u
    PROVE  /\ EvmBlock(g, t) <= EvmBlock(g, u)
           /\ EvmBlock(g, u) = EvmBlock(g, t) => get_value(p, g, u) = get_value(p, g, t)
           /\ EvmBlock(g, u) > EvmBlock(g, t) => get_value(p, g, u) = NextOf(p)
           /\ get_value(p, g, u) \in {get_value(p, g, t), NextOf(p)}
<1>1. p.time \in Nat
  BY DEF Promoter
<1>2. /\ EvmBlock(g, p.time) \in Nat /\ EvmBlock(g, t) \in Nat /\ EvmBlock(g, u) \in Nat
      /\ EvmBlock(g, p.time) <= EvmBlock(g, t) /\ EvmBlock(g, t) <= EvmBlock(g, u)
  BY <1>1, EvmBlockMonotone, Zenon
<1> QED  BY <1>2 DEF get_value, promotes, is_active, NextOf

-----------------------------------------------------------------------------
\* The rows of a queue: each was asked for by now, and is to be in force from
\* the block that follows its grace period.
RowsOK(q, V, g, t) ==
    /\ DOMAIN q \subseteq Nat
    /\ \A b \in DOMAIN q :
          /\ q[b] \in Rows(V)
          /\ q[b].at <= t
          /\ b = EvmBlock(g, q[b].at + Grace * TicksPerSecond) + 1

\* The front block f is set while q has rows, and at most each of them.
FrontOK(q, f) == \A b \in DOMAIN q : 1 <= f /\ f <= b

\* The queue that version v works on.
QueueOf(v, old, new) == IF v >= 3 THEN new ELSE old

LEMMA GraceType == Grace * TicksPerSecond \in Nat
  BY ConfigAssumption, MappingAssumption

LEMMA ActivationLater ==
    ASSUME now \in Nat, genesis_time \in Nat
    PROVE  Activation \in Nat /\ Block \in Nat /\ Activation > Block /\ Activation > 0
<1> DEFINE G == Grace * TicksPerSecond
<1>1. G \in Nat
  BY GraceType
<1> HIDE DEF G
<1>2. now + G \in Nat /\ now <= now + G
  BY <1>1
<1>3. /\ EvmBlock(genesis_time, now) \in Nat /\ EvmBlock(genesis_time, now + G) \in Nat
      /\ EvmBlock(genesis_time, now) <= EvmBlock(genesis_time, now + G)
  BY <1>2, EvmBlockMonotone, Zenon
<1> QED  BY <1>3 DEF Activation, Block, G

\* Rows stay well-formed as time passes.
LEMMA RowsLater ==
    ASSUME NEW q, NEW V, NEW g, NEW t \in Nat, NEW u \in Nat, t <= u, RowsOK(q, V, g, t)
    PROVE  RowsOK(q, V, g, u)
  BY DEF RowsOK, Rows

\* A row queued so far is for no later block than one queued now.
LEMMA RowsBeforeActivation ==
    ASSUME now \in Nat, genesis_time \in Nat,
           NEW V, NEW q, RowsOK(q, V, genesis_time, now)
    PROVE  CanEnqueue(q)
<1> DEFINE G == Grace * TicksPerSecond
<1>1. G \in Nat
  BY GraceType
<1> SUFFICES ASSUME NEW b \in DOMAIN q PROVE Activation >= b
  BY DEF CanEnqueue
<1>2. q[b].at \in Nat /\ q[b].at <= now /\ b = EvmBlock(genesis_time, q[b].at + G) + 1
  BY DEF RowsOK, Rows
<1> HIDE DEF G
<1>3. q[b].at + G \in Nat /\ now + G \in Nat /\ q[b].at + G <= now + G
  BY <1>1, <1>2
<1>4. /\ EvmBlock(genesis_time, q[b].at + G) \in Nat /\ EvmBlock(genesis_time, now + G) \in Nat
      /\ EvmBlock(genesis_time, q[b].at + G) <= EvmBlock(genesis_time, now + G)
  BY <1>3, EvmBlockMonotone, Zenon
<1> QED  BY <1>2, <1>4 DEF Activation, G

\* A row that is due has its grace period behind it.
LEMMA DueAfterGrace ==
    ASSUME now \in Nat, genesis_time \in Nat,
           NEW V, NEW q, RowsOK(q, V, genesis_time, now),
           NEW b \in DOMAIN q, b <= Block
    PROVE  now > q[b].at + Grace * TicksPerSecond
<1> DEFINE G == Grace * TicksPerSecond
           a == q[b].at + G
<1>1. G \in Nat
  BY GraceType
<1>2. q[b].at \in Nat /\ b = EvmBlock(genesis_time, a) + 1
  BY DEF RowsOK, Rows
<1>3. a \in Nat
  BY <1>1, <1>2
<1> HIDE DEF a
<1> HIDE DEF G
<1>4. EvmBlock(genesis_time, a) \in Nat /\ EvmBlock(genesis_time, now) \in Nat
  <2>1. a <= a /\ now <= now
    BY <1>3
  <2> QED  BY <1>3, <2>1, EvmBlockMonotone, Zenon
<1>5. now <= a => EvmBlock(genesis_time, now) <= EvmBlock(genesis_time, a)
  BY <1>3, EvmBlockMonotone
<1>6. EvmBlock(genesis_time, a) + 1 <= EvmBlock(genesis_time, now)
  BY <1>2 DEF Block
<1>7. now > a
  BY <1>3, <1>4, <1>5, <1>6
<1> QED  BY <1>7 DEF a, G

\* enqueue keeps a queue well-formed and its front block right, and disturbs
\* neither for the other queue.
LEMMA EnqueueStep ==
    ASSUME now \in Nat, genesis_time \in Nat, queue_front_block \in Nat,
           queue_front_block <= Activation,
           NEW V, NEW p \in V, NEW q, RowsOK(q, V, genesis_time, now)
    PROVE  /\ RowsOK(Enqueued(q, p), V, genesis_time, now)
           /\ DOMAIN Enqueued(q, p) = DOMAIN q \cup {Activation}
           /\ FrontEnqueued(q) \in Nat /\ FrontEnqueued(q) <= Activation
           /\ FrontOK(q, queue_front_block) => FrontOK(Enqueued(q, p), FrontEnqueued(q))
           /\ \A r : FrontOK(r, queue_front_block) => FrontOK(r, FrontEnqueued(q))
<1>1. Activation \in Nat /\ Activation > 0
  BY ActivationLater
<1>2. Activation = EvmBlock(genesis_time, now + Grace * TicksPerSecond) + 1
  BY DEF Activation
<1>3. \A b \in DOMAIN q : b \in Nat /\ b <= Activation
  BY <1>1, RowsBeforeActivation DEF CanEnqueue, RowsOK
<1> HIDE DEF Activation
<1> DEFINE e == Enqueued(q, p)
           row == [price |-> p, at |-> now]
<1>4. /\ DOMAIN e = DOMAIN q \cup {Activation}
      /\ e[Activation] = row
      /\ \A b \in DOMAIN q : b # Activation => e[b] = q[b]
  BY DEF Enqueued
<1>5. row \in Rows(V) /\ row.at = now
  BY DEF Rows
<1> HIDE DEF e, row
<1>6. RowsOK(e, V, genesis_time, now)
  <2>1. DOMAIN e \subseteq Nat
    BY <1>1, <1>3, <1>4
  <2> SUFFICES ASSUME NEW b \in DOMAIN e
               PROVE  /\ e[b] \in Rows(V) /\ e[b].at <= now
                      /\ b = EvmBlock(genesis_time, e[b].at + Grace * TicksPerSecond) + 1
    BY <2>1 DEF RowsOK
  <2>2. CASE b = Activation
    BY <1>2, <1>4, <1>5, <2>2
  <2>3. CASE b # Activation
    BY <1>4, <2>3 DEF RowsOK
  <2> QED  BY <2>2, <2>3
<1>7. FrontEnqueued(q) \in Nat /\ FrontEnqueued(q) <= Activation
  BY <1>1 DEF FrontEnqueued
<1>8. ASSUME NEW r, FrontOK(r, queue_front_block)  PROVE FrontOK(r, FrontEnqueued(q))
  BY <1>8 DEF FrontOK, FrontEnqueued
<1>9. ASSUME FrontOK(q, queue_front_block)  PROVE FrontOK(e, FrontEnqueued(q))
  <2> SUFFICES ASSUME NEW b \in DOMAIN e
               PROVE  1 <= FrontEnqueued(q) /\ FrontEnqueued(q) <= b
    BY DEF FrontOK
  <2>1. CASE b \in DOMAIN q
    BY <1>8, <1>9, <2>1 DEF FrontOK
  <2>2. CASE b = Activation
    <3>1. 1 <= FrontEnqueued(q)
      BY <1>1, <1>9, <2>2 DEF FrontOK, FrontEnqueued
    <3> QED  BY <1>7, <2>2, <3>1
  <2> QED  BY <1>4, <2>1, <2>2
<1> QED  BY <1>4, <1>6, <1>7, <1>8, <1>9 DEF e

\* process_queue leaves a well-formed queue with no row that is due and the
\* right front block; the price is that of a row it erased.
LEMMA ProcessStep ==
    ASSUME now \in Nat, genesis_time \in Nat, queue_front_block \in Nat,
           queue_front_block <= Activation,
           NEW V, NEW q, RowsOK(q, V, genesis_time, now), FrontOK(q, queue_front_block),
           NEW price
    PROVE  /\ RowsOK(Remaining(q), V, genesis_time, now)
           /\ DOMAIN Remaining(q) \subseteq DOMAIN q
           /\ \A b \in DOMAIN Remaining(q) : b > Block
           /\ \A b \in DOMAIN q \ DOMAIN Remaining(q) : b <= Block
           /\ FrontAfter(q) \in Nat /\ FrontAfter(q) <= Activation
           /\ FrontOK(Remaining(q), FrontAfter(q))
           /\ \/ PriceAfter(q, price) = price
              \/ \E b \in DOMAIN q \ DOMAIN Remaining(q) :
                    q[b].price = PriceAfter(q, price) /\ q[b].price \in V
           /\ (\A b \in DOMAIN q : b > Block) => PriceAfter(q, price) = price
<1> DEFINE r == Remaining(q)
           L == DOMAIN q \ Due(q)
<1>1. Activation \in Nat /\ Block \in Nat
  BY ActivationLater
<1>2. \A b \in DOMAIN q : b \in Nat /\ b <= Activation
  BY RowsBeforeActivation DEF CanEnqueue, RowsOK
<1> HIDE DEF Activation, Block
<1>3. /\ DOMAIN r = L /\ \A b \in L : r[b] = q[b]
      /\ Due(q) \subseteq DOMAIN q
  BY DEF Remaining, Due
<1>4. \A b \in DOMAIN q : b \in Due(q) <=> b <= Block
  BY <1>1, <1>2 DEF Due, FrontOK
<1>5. DOMAIN q \ DOMAIN r = Due(q)
  BY <1>3
<1> HIDE DEF r
<1>6. RowsOK(r, V, genesis_time, now)
  BY <1>3 DEF RowsOK
<1>7. FrontAfter(q) \in Nat /\ FrontAfter(q) <= Activation /\ FrontOK(r, FrontAfter(q))
  <2>1. CASE Due(q) = {}
    BY <1>3, <2>1 DEF FrontAfter, FrontOK
  <2>2. CASE Due(q) # {} /\ L = {}
    BY <1>1, <1>3, <2>2 DEF FrontAfter, FrontOK
  <2>3. CASE Due(q) # {} /\ L # {}
    <3>1. L \in SUBSET Nat
      BY <1>2
    <3>2. Min(L) \in L /\ \A b \in L : Min(L) <= b
      BY <2>3, <3>1, LeastBlock
    <3>3. FrontAfter(q) = Min(L)
      BY <2>3 DEF FrontAfter
    <3>4. Min(L) \in Nat /\ Min(L) > Block /\ Min(L) <= Activation
      BY <1>1, <1>2, <1>4, <3>2
    <3> QED  BY <1>1, <1>3, <3>2, <3>3, <3>4 DEF FrontOK
  <2> QED  BY <2>1, <2>2, <2>3
<1>8. \A b \in DOMAIN r : b > Block
  BY <1>1, <1>2, <1>3, <1>4
<1>9. \/ PriceAfter(q, price) = price
      \/ \E b \in Due(q) : q[b].price = PriceAfter(q, price) /\ q[b].price \in V
  <2>1. CASE Due(q) = {}
    BY <2>1 DEF PriceAfter
  <2>2. CASE Due(q) # {}
    <3>1. Due(q) \in SUBSET Nat /\ \A b \in Due(q) : b <= Block
      BY <1>2, <1>3, <1>4
    <3>2. Max(Due(q)) \in Due(q)
      BY <1>1, <2>2, <3>1, GreatestBlock, Zenon
    <3>3. PriceAfter(q, price) = q[Max(Due(q))].price
      BY <2>2 DEF PriceAfter
    <3>4. q[Max(Due(q))].price \in V
      BY <1>3, <3>2 DEF RowsOK, Rows
    <3> QED  BY <3>2, <3>3, <3>4
  <2> QED  BY <2>1, <2>2
<1>10. (\A b \in DOMAIN q : b > Block) => PriceAfter(q, price) = price
  <2> SUFFICES ASSUME \A b \in DOMAIN q : b > Block PROVE Due(q) = {}
    BY DEF PriceAfter
  <2>1. \A b \in DOMAIN q : ~(b <= Block)
    BY <1>1, <1>2
  <2> QED  BY <1>3, <1>4, <2>1
<1>11. DOMAIN r \subseteq DOMAIN q /\ \A b \in DOMAIN q \ DOMAIN r : b <= Block
  BY <1>3, <1>4, <1>5
<1> QED  BY <1>5, <1>6, <1>7, <1>8, <1>9, <1>10, <1>11 DEF r

-----------------------------------------------------------------------------
\* The inductive invariant.  Before anything is stored nothing is set; this is
\* what lets init move the genesis time.
Fresh ==
    ~exists =>
        /\ ~evm_version.has_pending /\ evm_version.cached_value = 0
        /\ ~consensus_parameter.has_pending
        /\ DOMAIN price_queue = {} /\ DOMAIN prices_queue = {} /\ queue_front_block = 0
        /\ last.block = 0 /\ last.version = 0

\* What is pending was set by now, and is an increase of the version.
PendingOK ==
    /\ evm_version.time <= now /\ consensus_parameter.time <= now
    /\ evm_version.has_pending => evm_version.value > evm_version.cached_value
    /\ consensus_parameter.has_pending => Version >= 1
    /\ MinerCutRetired

QueuesOK ==
    /\ RowsOK(price_queue, Prices, genesis_time, now)
    /\ RowsOK(prices_queue, GasPrices, genesis_time, now)
    /\ queue_front_block <= Activation
    /\ Version < 3 => DOMAIN prices_queue = {}
    /\ FrontOK(QueueOf(Version, price_queue, prices_queue), queue_front_block)

\* What the latest transaction ran with is still in force in its block.
LastOK ==
    /\ last.block <= Block
    /\ DuePricesApplied
    /\ last.block # 0 /\ last.block = Block =>
          /\ last.version = Version
          /\ last.params = ActiveParams
          /\ last.base_fee = IF Version \in 1 .. 2 THEN gas_price ELSE None

ConfigInv == TypeOK /\ Fresh /\ PendingOK /\ QueuesOK /\ LastOK

-----------------------------------------------------------------------------
\* What an action other than Tick and init does to the two promoted values
\* and the miner's cut, ...
VersionStep ==
    \/ /\ evm_version' = evm_version
       /\ miner_cut' = miner_cut \/ (Version = 0 /\ miner_cut' \in 0 .. NinetyPercent)
    \/ /\ evm_version' = maybe_promote(evm_version, genesis_time, now)
       /\ miner_cut' = CutAfterPromotion
    \/ \E v \in 0 .. MaxVersion :
          /\ v > Version
          /\ evm_version' = update(evm_version, v, genesis_time, now)
          /\ miner_cut' = CutAfterPromotion

ParamsStep ==
    \/ consensus_parameter' = consensus_parameter
    \/ consensus_parameter' = maybe_promote(consensus_parameter, genesis_time, now)
    \/ \E params \in Params :
          /\ Version >= 1
          /\ consensus_parameter' = update(consensus_parameter, params, genesis_time, now)

InPlace == now' = now /\ genesis_time' = genesis_time /\ VersionStep /\ ParamsStep

\* ... to the prices and their queues, ...
NoQueueStep ==
    /\ UNCHANGED queues
    /\ gas_price' = gas_price \/ (Version = 0 /\ gas_price' \in Nat)
    /\ gas_prices' = gas_prices \/ (Version < 3 /\ gas_prices' \in GasPrices)

OldQueueStep == Version >= 1 /\ UNCHANGED prices /\ \E p \in Prices : enqueue_gas_price(p)

NewQueueStep == Version >= 3 /\ UNCHANGED prices /\ \E p \in GasPrices : enqueue_gas_prices(p)

QueueStep == NoQueueStep \/ OldQueueStep \/ NewQueueStep \/ process_price_queue

\* ... and to the history.
TxStep ==
    /\ process_price_queue
    /\ view' \in Params
    /\ last' = [block |-> Block, version |-> Version, params |-> ActiveParams,
                base_fee |-> IF Version \in 1 .. 2 THEN gas_price' ELSE None,
                seen |-> view']

OtherStep ==
    /\ exists' = TRUE /\ inited' = inited
    /\ InPlace /\ QueueStep
    /\ UNCHANGED history \/ TxStep

LEMMA Values ==
    ASSUME TypeOK, PendingOK
    PROVE  /\ Version \in 0 .. MaxVersion /\ ActiveParams \in Params
           /\ Version >= evm_version.cached_value
           /\ NextOf(evm_version) >= Version /\ NextOf(evm_version) \in 0 .. MaxVersion
           /\ NextOf(consensus_parameter) \in Params
<1>1. /\ evm_version \in Promoter(0 .. MaxVersion, Nat)
      /\ consensus_parameter \in Promoter(Params, Nat)
  BY DEF TypeOK
<1>2. /\ evm_version.cached_value \in 0 .. MaxVersion /\ evm_version.value \in 0 .. MaxVersion
      /\ consensus_parameter.cached_value \in Params /\ consensus_parameter.value \in Params
  BY <1>1 DEF Promoter
<1>3. evm_version.has_pending => evm_version.value > evm_version.cached_value
  BY DEF PendingOK
<1>4. NextOf(consensus_parameter) \in Params /\ ActiveParams \in Params
  BY <1>2 DEF NextOf, ActiveParams, get_value
<1> QED  BY <1>2, <1>3, <1>4 DEF NextOf, Version, get_value, promotes, MaxVersion

\* Every step is the passing of time, init, or one of the steps above.
LEMMA StepKinds ==
    ASSUME ConfigInv, Next
    PROVE  \/ Tick
           \/ \E price \in Prices, cut \in Cuts : init(price, cut)
           \/ OtherStep
<1>0. /\ Version \in 0 .. MaxVersion /\ ActiveParams \in Params /\ view \in Params
      /\ exists \in BOOLEAN /\ Prices \subseteq Nat /\ Cuts \subseteq Nat /\ NinetyPercent \in Nat
  BY Values, ConfigAssumption DEF ConfigInv, TypeOK
<1>1. ASSUME NEW price \in Prices \cup {None}, NEW cut \in Cuts \cup {None},
             setfeeparams(price, cut)
      PROVE  OtherStep
  <2>1. /\ exists' = TRUE /\ inited' = inited /\ now' = now /\ genesis_time' = genesis_time
        /\ ParamsStep /\ UNCHANGED history /\ gas_prices' = gas_prices
    BY <1>1 DEF setfeeparams, config, ParamsStep
  <2>2. VersionStep
    BY <1>0, <1>1 DEF setfeeparams, VersionStep, CutAllowed
  <2>3. QueueStep
    <3>1. CASE price = None
      BY <1>1, <2>1, <3>1 DEF setfeeparams, QueueStep, NoQueueStep
    <3>2. CASE price # None /\ Version >= 1
      BY <1>1, <2>1, <3>2 DEF setfeeparams, change_gas_price, QueueStep, OldQueueStep, prices
    <3>3. CASE price # None /\ ~(Version >= 1)
      <4>1. Version = 0
        BY <1>0, <3>3
      <4> QED  BY <1>0, <1>1, <2>1, <3>3, <4>1 DEF setfeeparams, change_gas_price, QueueStep, NoQueueStep
    <3> QED  BY <3>1, <3>2, <3>3
  <2> QED  BY <2>1, <2>2, <2>3 DEF OtherStep, InPlace
<1>2. ASSUME NEW v \in 0 .. MaxVersion, setversion(v)  PROVE OtherStep
  BY <1>2 DEF setversion, OtherStep, InPlace, VersionStep, VersionAllowed, ParamsStep,
              QueueStep, NoQueueStep, prices
<1>3. ASSUME NEW params \in Params, setgasparam(params)  PROVE OtherStep
  BY <1>3 DEF setgasparam, update_consensus_parameters2, ParamsMayChange, OtherStep, InPlace,
              VersionStep, ParamsStep, QueueStep, NoQueueStep, prices
<1>4. ASSUME NEW params \in Params, NEW price \in Prices, updtgasparam(params, price)
      PROVE  OtherStep
  <2>1. Version >= 1
    BY <1>4 DEF updtgasparam, update_consensus_parameters2, ParamsMayChange
  <2>2. OldQueueStep
    BY <1>4, <2>1 DEF updtgasparam, change_gas_price, OldQueueStep, prices
  <2> QED
    BY <1>4, <2>2 DEF updtgasparam, update_consensus_parameters2, ParamsMayChange, OtherStep,
                      InPlace, VersionStep, ParamsStep, QueueStep
<1>5. ASSUME NEW p \in GasPrices, setgasprices(p)  PROVE OtherStep
  <2>1. QueueStep
    <3>1. CASE Version >= 3
      BY <1>5, <3>1 DEF setgasprices, QueueStep, NewQueueStep, prices
    <3>2. CASE ~(Version >= 3)
      <4>1. Version < 3
        BY <1>0, <3>2 DEF MaxVersion
      <4> QED  BY <1>5, <3>2, <4>1 DEF setgasprices, QueueStep, NoQueueStep
    <3> QED  BY <3>1, <3>2
  <2> QED  BY <1>5, <2>1 DEF setgasprices, promote_version, OtherStep, InPlace, VersionStep, ParamsStep
<1>6. ASSUME NEW self_miner, NEW max_fee, NEW prio_fee, NEW min_inclusion_price, exists,
             process_price_queue,
             process_tx(self_miner, max_fee, prio_fee, min_inclusion_price)
      PROVE  OtherStep
  <2>1. /\ exists' = TRUE /\ inited' = inited /\ InPlace
    BY <1>0, <1>6 DEF process_tx, promote_version, config, InPlace, VersionStep, ParamsStep
  <2>2. TxStep
    BY <1>0, <1>6 DEF process_tx, TxStep
  <2> QED  BY <1>6, <2>1, <2>2 DEF OtherStep, QueueStep
<1>7. ASSUME handle_account_transfer  PROVE OtherStep
  BY <1>0, <1>7 DEF handle_account_transfer, config, OtherStep, InPlace, VersionStep, ParamsStep, QueueStep
<1>8. ASSUME NEW self_miner, NEW max_fee, NEW prio_fee, NEW min_inclusion_price,
             pushtx(self_miner, max_fee, prio_fee, min_inclusion_price)
      PROVE  OtherStep
  BY <1>6, <1>8 DEF pushtx
<1>9. ASSUME dispatch_tx  PROVE OtherStep
  BY <1>6, <1>9, Zenon DEF dispatch_tx
<1> QED  BY <1>1, <1>2, <1>3, <1>4, <1>5, <1>7, <1>8, <1>9 DEF Next

-----------------------------------------------------------------------------
\* Such steps leave in force what is in force.
LEMMA InPlaceKept ==
    ASSUME ConfigInv, InPlace
    PROVE  /\ Block' = Block /\ Activation' = Activation
           /\ Version' = Version /\ ActiveParams' = ActiveParams
           /\ evm_version' \in Promoter(0 .. MaxVersion, Nat)
           /\ consensus_parameter' \in Promoter(Params, Nat)
           /\ miner_cut' \in 0 .. NinetyPercent
           /\ PendingOK'
<1> USE DEF ConfigInv
<1> DEFINE e == evm_version
           c == consensus_parameter
           V == 0 .. MaxVersion
<1>1. /\ now \in Nat /\ genesis_time \in Nat /\ now' = now /\ genesis_time' = genesis_time
      /\ e \in Promoter(V, Nat) /\ c \in Promoter(Params, Nat)
      /\ e.time <= now /\ c.time <= now /\ miner_cut \in 0 .. NinetyPercent
  BY DEF TypeOK, PendingOK, InPlace
<1>2. Block' = Block /\ Activation' = Activation
  BY <1>1 DEF Block, Activation
<1>3. Version \in V /\ Version >= e.cached_value /\ ActiveParams \in Params
  BY Values
<1>4. /\ e.cached_value \in V /\ NinetyPercent \in Nat
      /\ e.has_pending => e.value > e.cached_value
      /\ c.has_pending => Version >= 1
      /\ e.cached_value >= 1 => miner_cut = 0
  BY <1>1, ConfigAssumption DEF PendingOK, MinerCutRetired, Promoter
<1>5. CutAfterPromotion \in 0 .. NinetyPercent
  BY <1>1, <1>4 DEF CutAfterPromotion
<1>6. Version >= 1 => CutAfterPromotion = 0
  <2>1. CASE promotes(e, genesis_time, now)
    BY <2>1 DEF CutAfterPromotion
  <2>2. CASE ~promotes(e, genesis_time, now)
    BY <1>4, <2>2 DEF CutAfterPromotion, Version, get_value
  <2> QED  BY <2>1, <2>2
<1>7. /\ e' \in Promoter(V, Nat) /\ e'.time <= now
      /\ get_value(e', genesis_time, now) = Version
      /\ e'.has_pending => e'.value > e'.cached_value
      /\ miner_cut' \in 0 .. NinetyPercent
      /\ e'.cached_value >= 1 => miner_cut' = 0
  <2>1. CASE /\ e' = e
             /\ miner_cut' = miner_cut \/ (Version = 0 /\ miner_cut' \in 0 .. NinetyPercent)
    BY <1>1, <1>3, <1>4, <2>1 DEF Version
  <2>2. CASE e' = maybe_promote(e, genesis_time, now) /\ miner_cut' = CutAfterPromotion
    <3>1. Promoted(maybe_promote(e, genesis_time, now), e, V, genesis_time, now)
      BY <1>1, PromoteStep, Zenon
    <3>2. Promoted(e', e, V, genesis_time, now)
      BY <2>2, <3>1
    <3> QED  BY <1>4, <1>5, <1>6, <2>2, <3>2 DEF Promoted, Version
  <2>3. ASSUME NEW v \in V, v > Version, e' = update(e, v, genesis_time, now),
               miner_cut' = CutAfterPromotion
        PROVE  /\ e' \in Promoter(V, Nat) /\ e'.time <= now
               /\ get_value(e', genesis_time, now) = Version
               /\ e'.has_pending => e'.value > e'.cached_value
               /\ miner_cut' \in 0 .. NinetyPercent
               /\ e'.cached_value >= 1 => miner_cut' = 0
    <3>1. Updated(update(e, v, genesis_time, now), e, v, V, genesis_time, now)
      BY <1>1, UpdateStep, Zenon
    <3>2. Updated(e', e, v, V, genesis_time, now)
      BY <2>3, <3>1
    <3> QED  BY <1>5, <1>6, <2>3, <3>2 DEF Updated, Version
  <2> QED  BY <2>1, <2>2, <2>3 DEF InPlace, VersionStep
<1>8. /\ c' \in Promoter(Params, Nat) /\ c'.time <= now
      /\ get_value(c', genesis_time, now) = ActiveParams
      /\ c'.has_pending => Version >= 1
  <2>1. CASE c' = c
    BY <1>1, <1>4, <2>1 DEF ActiveParams
  <2>2. CASE c' = maybe_promote(c, genesis_time, now)
    <3>1. Promoted(maybe_promote(c, genesis_time, now), c, Params, genesis_time, now)
      BY <1>1, PromoteStep, Zenon
    <3>2. Promoted(c', c, Params, genesis_time, now)
      BY <2>2, <3>1
    <3> QED  BY <1>4, <3>2 DEF Promoted, ActiveParams
  <2>3. ASSUME NEW params \in Params, Version >= 1, c' = update(c, params, genesis_time, now)
        PROVE  /\ c' \in Promoter(Params, Nat) /\ c'.time <= now
               /\ get_value(c', genesis_time, now) = ActiveParams
    <3>1. Updated(update(c, params, genesis_time, now), c, params, Params, genesis_time, now)
      BY <1>1, UpdateStep, Zenon
    <3>2. Updated(c', c, params, Params, genesis_time, now)
      BY <2>3, <3>1
    <3> QED  BY <3>2 DEF Updated, ActiveParams
  <2> QED  BY <2>1, <2>2, <2>3 DEF InPlace, ParamsStep
<1>9. Version' = Version /\ ActiveParams' = ActiveParams
  BY <1>1, <1>7, <1>8, Zenon DEF Version, ActiveParams
<1> QED  BY <1>1, <1>2, <1>7, <1>8, <1>9 DEF PendingOK, MinerCutRetired

\* The rows that such a step adds are for later blocks.
OnlyLaterRows ==
    /\ \A b \in DOMAIN price_queue' : b \in DOMAIN price_queue \/ b > Block
    /\ \A b \in DOMAIN prices_queue' : b \in DOMAIN prices_queue \/ b > Block

\* The queues stay right under such a step.
LEMMA QueuesKept ==
    ASSUME ConfigInv, InPlace, QueueStep
    PROVE  /\ gas_price' \in Nat /\ gas_prices' \in GasPrices /\ queue_front_block' \in Nat
           /\ QueuesOK'
           /\ OnlyLaterRows
<1> USE DEF ConfigInv
<1> DEFINE f == queue_front_block
           Q(old, new, front) ==
               /\ RowsOK(old, Prices, genesis_time, now)
               /\ RowsOK(new, GasPrices, genesis_time, now)
               /\ front <= Activation
               /\ Version < 3 => DOMAIN new = {}
               /\ FrontOK(QueueOf(Version, old, new), front)
<1>1. /\ now \in Nat /\ genesis_time \in Nat /\ f \in Nat
      /\ gas_price \in Nat /\ gas_prices \in GasPrices /\ Prices \subseteq Nat
  BY ConfigAssumption DEF TypeOK
<1>2. Q(price_queue, prices_queue, f)
  BY DEF QueuesOK
<1>3. Version \in 0 .. MaxVersion /\ Version' = Version /\ Activation' = Activation
      /\ now' = now /\ genesis_time' = genesis_time
  BY Values, InPlaceKept DEF InPlace
<1>4. Activation \in Nat /\ Block \in Nat /\ Activation > Block
  BY <1>1, ActivationLater
<1> SUFFICES /\ gas_price' \in Nat /\ gas_prices' \in GasPrices /\ f' \in Nat
             /\ Q(price_queue', prices_queue', f')
             /\ OnlyLaterRows
  BY <1>3 DEF QueuesOK
<1> HIDE DEF Q
<1>5. CASE NoQueueStep
  BY <1>1, <1>2, <1>5 DEF NoQueueStep, queues, OnlyLaterRows
<1>6. CASE OldQueueStep
  <2>1. PICK p \in Prices : enqueue_gas_price(p)
    BY <1>6 DEF OldQueueStep
  <2> DEFINE n == Enqueued(price_queue, p)
             h == FrontEnqueued(price_queue)
  <2>2. price_queue' = n /\ f' = h /\ prices_queue' = prices_queue /\ UNCHANGED prices
    BY <1>6, <2>1 DEF OldQueueStep, enqueue_gas_price
  <2>3. RowsOK(price_queue, Prices, genesis_time, now) /\ f <= Activation
    BY <1>2 DEF Q
  <2>4. /\ RowsOK(n, Prices, genesis_time, now)
        /\ DOMAIN n = DOMAIN price_queue \cup {Activation}
        /\ h \in Nat /\ h <= Activation
        /\ FrontOK(price_queue, f) => FrontOK(n, h)
        /\ \A r : FrontOK(r, f) => FrontOK(r, h)
    BY <1>1, <2>3, EnqueueStep, Zenon
  <2> HIDE DEF n, h
  <2>5. FrontOK(QueueOf(Version, n, prices_queue), h)
    BY <1>2, <2>4 DEF Q, QueueOf
  <2>6. Q(n, prices_queue, h)
    BY <1>2, <2>4, <2>5 DEF Q
  <2>7. OnlyLaterRows
    BY <1>4, <2>2, <2>4 DEF OnlyLaterRows
  <2> QED  BY <1>1, <2>2, <2>4, <2>6, <2>7 DEF prices
<1>7. CASE NewQueueStep
  <2>1. PICK p \in GasPrices : enqueue_gas_prices(p)
    BY <1>7 DEF NewQueueStep
  <2> DEFINE n == Enqueued(prices_queue, p)
             h == FrontEnqueued(prices_queue)
  <2>2. /\ prices_queue' = n /\ f' = h /\ price_queue' = price_queue /\ UNCHANGED prices
        /\ Version >= 3
    BY <1>7, <2>1 DEF NewQueueStep, enqueue_gas_prices
  <2>3. RowsOK(prices_queue, GasPrices, genesis_time, now) /\ f <= Activation
    BY <1>2 DEF Q
  <2>4. /\ RowsOK(n, GasPrices, genesis_time, now)
        /\ DOMAIN n = DOMAIN prices_queue \cup {Activation}
        /\ h \in Nat /\ h <= Activation
        /\ FrontOK(prices_queue, f) => FrontOK(n, h)
    BY <1>1, <2>3, EnqueueStep, ZenonT(40)
  <2> HIDE DEF n, h
  <2>5. FrontOK(QueueOf(Version, price_queue, n), h)
    BY <1>2, <2>2, <2>4 DEF Q, QueueOf
  <2>6. Q(price_queue, n, h)
    BY <1>2, <1>3, <2>2, <2>4, <2>5 DEF Q
  <2>7. OnlyLaterRows
    BY <1>4, <2>2, <2>4 DEF OnlyLaterRows
  <2> QED  BY <1>1, <2>2, <2>4, <2>6, <2>7 DEF prices
<1>8. CASE process_price_queue /\ Version = 0
  BY <1>1, <1>2, <1>8, SMTT(30) DEF process_price_queue, queues, prices, OnlyLaterRows
<1>9. CASE process_price_queue /\ Version \in 1 .. 2
  <2> DEFINE r == Remaining(price_queue)
             h == FrontAfter(price_queue)
             g == PriceAfter(price_queue, gas_price)
  <2>1. /\ price_queue' = r /\ f' = h /\ gas_price' = g
        /\ prices_queue' = prices_queue /\ gas_prices' = gas_prices
    BY <1>9 DEF process_price_queue
  <2>2. /\ RowsOK(price_queue, Prices, genesis_time, now) /\ FrontOK(price_queue, f)
        /\ f <= Activation
    BY <1>2, <1>9 DEF Q, QueueOf
  <2>3. /\ RowsOK(r, Prices, genesis_time, now) /\ DOMAIN r \subseteq DOMAIN price_queue
        /\ h \in Nat /\ h <= Activation /\ FrontOK(r, h)
        /\ g = gas_price \/ \E b \in DOMAIN price_queue \ DOMAIN r :
                                price_queue[b].price = g /\ price_queue[b].price \in Prices
    BY <1>1, <2>2, ProcessStep, Zenon
  <2> HIDE DEF r, h, g
  <2>4. Q(r, prices_queue, h)
    BY <1>2, <1>9, <2>3 DEF Q, QueueOf
  <2>5. OnlyLaterRows
    BY <2>1, <2>3 DEF OnlyLaterRows
  <2>6. g \in Nat
    BY <1>1, <2>3, Zenon
  <2> QED  BY <1>1, <2>1, <2>3, <2>4, <2>5, <2>6
<1>10. CASE process_price_queue /\ Version >= 3
  <2> DEFINE r == Remaining(prices_queue)
             h == FrontAfter(prices_queue)
             g == PriceAfter(prices_queue, gas_prices)
  <2>1. /\ prices_queue' = r /\ f' = h /\ gas_prices' = g
        /\ price_queue' = price_queue /\ gas_price' = gas_price
    BY <1>10 DEF process_price_queue
  <2>2. /\ RowsOK(prices_queue, GasPrices, genesis_time, now) /\ FrontOK(prices_queue, f)
        /\ f <= Activation
    BY <1>2, <1>10 DEF Q, QueueOf
  <2>3. /\ RowsOK(r, GasPrices, genesis_time, now) /\ DOMAIN r \subseteq DOMAIN prices_queue
        /\ h \in Nat /\ h <= Activation /\ FrontOK(r, h)
        /\ g = gas_prices \/ \E b \in DOMAIN prices_queue \ DOMAIN r :
                                prices_queue[b].price = g /\ prices_queue[b].price \in GasPrices
    BY <1>1, <2>2, ProcessStep, Zenon
  <2> HIDE DEF r, h, g
  <2>4. Q(price_queue, r, h)
    BY <1>2, <1>3, <1>10, <2>3 DEF Q, QueueOf
  <2>5. OnlyLaterRows
    BY <2>1, <2>3 DEF OnlyLaterRows
  <2>6. g \in GasPrices
    BY <1>1, <2>3
  <2> QED  BY <1>1, <2>1, <2>3, <2>4, <2>5, <2>6
<1> QED  BY <1>5, <1>6, <1>7, <1>8, <1>9, <1>10 DEF QueueStep, process_price_queue

\* A transaction leaves no row that is due, ...
LEMMA NoRowDue ==
    ASSUME ConfigInv, process_price_queue, Version >= 1
    PROVE  \A b \in DOMAIN QueueOf(Version, price_queue', prices_queue') : b > Block
<1> USE DEF ConfigInv
<1>1. /\ now \in Nat /\ genesis_time \in Nat /\ queue_front_block \in Nat
      /\ queue_front_block <= Activation /\ Version \in 0 .. MaxVersion
  BY Values DEF TypeOK, QueuesOK
<1>2. CASE Version >= 3
  <2>1. prices_queue' = Remaining(prices_queue)
    BY <1>2 DEF process_price_queue
  <2>2. /\ RowsOK(prices_queue, GasPrices, genesis_time, now)
        /\ FrontOK(prices_queue, queue_front_block)
    BY <1>2 DEF QueuesOK, QueueOf
  <2>3. \A b \in DOMAIN Remaining(prices_queue) : b > Block
    BY <1>1, <2>2, ProcessStep, Zenon
  <2> QED  BY <1>2, <2>1, <2>3 DEF QueueOf
<1>3. CASE Version \in 1 .. 2
  <2>1. price_queue' = Remaining(price_queue)
    BY <1>3 DEF process_price_queue
  <2>2. /\ RowsOK(price_queue, Prices, genesis_time, now)
        /\ FrontOK(price_queue, queue_front_block)
    BY <1>3 DEF QueuesOK, QueueOf
  <2>3. \A b \in DOMAIN Remaining(price_queue) : b > Block
    BY <1>1, <2>2, ProcessStep, Zenon
  <2> QED  BY <1>3, <2>1, <2>3 DEF QueueOf
<1> QED  BY <1>1, <1>2, <1>3 DEF MaxVersion

\* ... so the gas price stays what it was for the rest of the block.
LEMMA PriceKept ==
    ASSUME ConfigInv, QueueStep, Version \in 1 .. 2, last.block # 0, last.block = Block
    PROVE  gas_price' = gas_price
<1> USE DEF ConfigInv
<1>1. CASE NoQueueStep \/ OldQueueStep \/ NewQueueStep
  BY <1>1 DEF NoQueueStep, OldQueueStep, NewQueueStep, prices
<1>2. CASE process_price_queue
  <2>1. /\ now \in Nat /\ genesis_time \in Nat /\ queue_front_block \in Nat
        /\ queue_front_block <= Activation
    BY DEF TypeOK, QueuesOK
  <2>2. last.version = Version
    BY DEF LastOK
  <2>3. \A b \in DOMAIN price_queue : b > Block
    BY <2>2 DEF LastOK, DuePricesApplied
  <2>4. /\ RowsOK(price_queue, Prices, genesis_time, now)
        /\ FrontOK(price_queue, queue_front_block)
    BY DEF QueuesOK, QueueOf
  <2>5. PriceAfter(price_queue, gas_price) = gas_price
    BY <2>1, <2>3, <2>4, ProcessStep, Zenon
  <2> QED  BY <1>2, <2>5 DEF process_price_queue
<1> QED  BY <1>1, <1>2 DEF QueueStep

-----------------------------------------------------------------------------
\* The invariant is inductive.
LEMMA InitInv == Init => ConfigInv
<1> SUFFICES ASSUME Init PROVE ConfigInv
  OBVIOUS
<1> USE ConfigAssumption DEF Init
<1>1. /\ DOMAIN price_queue = {} /\ DOMAIN prices_queue = {}
  BY DEF NoRows
<1>2. /\ evm_version.cached_value = 0 /\ evm_version.has_pending = FALSE /\ evm_version.time = 0
      /\ consensus_parameter.cached_value = DefaultParams
      /\ consensus_parameter.has_pending = FALSE /\ consensus_parameter.time = 0
      /\ evm_version \in Promoter(0 .. MaxVersion, Nat)
      /\ consensus_parameter \in Promoter(Params, Nat)
  BY DEF NoPending, Promoter, MaxVersion
<1>3. last.block = 0 /\ last.version = 0
  OBVIOUS
<1>4. TypeOK
  <2>1. last \in [block : Nat, version : 0 .. MaxVersion, params : Params,
                  base_fee : Nat \cup {None}, seen : Params]
    BY DEF MaxVersion
  <2>2. /\ now \in Nat /\ genesis_time \in Nat
        /\ gas_price \in Nat /\ gas_prices \in GasPrices /\ queue_front_block \in Nat
        /\ miner_cut \in 0 .. NinetyPercent /\ view \in Params
    OBVIOUS
  <2>3. exists \in BOOLEAN /\ inited \in BOOLEAN
    BY Zenon
  <2> HIDE DEF Init
  <2> QED  BY <1>1, <1>2, <2>1, <2>2, <2>3 DEF TypeOK
<1>5. Activation \in Nat /\ Block \in Nat /\ Activation > 0
  BY <1>4, ActivationLater DEF TypeOK
<1>6. Fresh /\ PendingOK
  BY <1>1, <1>2, <1>3, SMTT(30) DEF Fresh, PendingOK, MinerCutRetired
<1>7. QueuesOK
  BY <1>1, <1>5 DEF QueuesOK, RowsOK, FrontOK, QueueOf
<1>8. LastOK
  BY <1>3, <1>5, SMTT(30) DEF LastOK, DuePricesApplied
<1> QED  BY <1>4, <1>6, <1>7, <1>8 DEF ConfigInv

\* What the passing of time does.
LEMMA TickFacts ==
    ASSUME ConfigInv, Tick
    PROVE  /\ now' \in Nat /\ now <= now' /\ genesis_time' = genesis_time
           /\ Block \in Nat /\ Block' \in Nat /\ Block <= Block'
           /\ Activation <= Activation' /\ Activation \in Nat /\ Activation' \in Nat
           /\ Version' >= Version /\ Version' \in 0 .. MaxVersion
           /\ Block' = Block => Version' = Version /\ ActiveParams' = ActiveParams
           /\ Block' > Block => /\ Version' = NextOf(evm_version)
                                /\ ActiveParams' = NextOf(consensus_parameter)
<1> USE DEF ConfigInv
<1> DEFINE G == Grace * TicksPerSecond
<1>1. /\ now \in Nat /\ genesis_time \in Nat /\ now' = now + 1 /\ genesis_time' = genesis_time
      /\ evm_version' = evm_version /\ consensus_parameter' = consensus_parameter
      /\ evm_version \in Promoter(0 .. MaxVersion, Nat)
      /\ consensus_parameter \in Promoter(Params, Nat)
      /\ evm_version.time <= now /\ consensus_parameter.time <= now
  BY DEF TypeOK, PendingOK, Tick, config
<1>2. G \in Nat
  BY GraceType
<1> HIDE DEF G
<1>3. now' \in Nat /\ now <= now' /\ now + G \in Nat /\ now' + G \in Nat /\ now + G <= now' + G
  BY <1>1, <1>2
<1>4. /\ EvmBlock(genesis_time, now) \in Nat /\ EvmBlock(genesis_time, now') \in Nat
      /\ EvmBlock(genesis_time, now) <= EvmBlock(genesis_time, now')
      /\ EvmBlock(genesis_time, now + G) \in Nat /\ EvmBlock(genesis_time, now' + G) \in Nat
      /\ EvmBlock(genesis_time, now + G) <= EvmBlock(genesis_time, now' + G)
  BY <1>1, <1>3, EvmBlockMonotone, Zenon
<1>5. /\ Block = EvmBlock(genesis_time, now) /\ Block' = EvmBlock(genesis_time, now')
      /\ Activation = EvmBlock(genesis_time, now + G) + 1
      /\ Activation' = EvmBlock(genesis_time, now' + G) + 1
  BY <1>1 DEF Block, Activation, G
<1>6. /\ Version = get_value(evm_version, genesis_time, now)
      /\ Version' = get_value(evm_version, genesis_time, now')
      /\ ActiveParams = get_value(consensus_parameter, genesis_time, now)
      /\ ActiveParams' = get_value(consensus_parameter, genesis_time, now')
  BY <1>1, SMTT(30) DEF Version, ActiveParams
<1>7. /\ Block' = Block => Version' = Version
      /\ Block' > Block => Version' = NextOf(evm_version)
      /\ Version' \in {Version, NextOf(evm_version)}
  BY <1>1, <1>3, <1>5, <1>6, PromoterTime, SMTT(30)
<1>8. /\ Block' = Block => ActiveParams' = ActiveParams
      /\ Block' > Block => ActiveParams' = NextOf(consensus_parameter)
  BY <1>1, <1>3, <1>5, <1>6, PromoterTime
<1>9. /\ Version \in 0 .. MaxVersion /\ NextOf(evm_version) \in 0 .. MaxVersion
      /\ NextOf(evm_version) >= Version
  BY Values
<1>10. Version' >= Version /\ Version' \in 0 .. MaxVersion
  BY <1>7, <1>9 DEF MaxVersion
<1> QED  BY <1>1, <1>3, <1>4, <1>5, <1>7, <1>8, <1>10, SMTT(30)

LEMMA TickKeeps == ASSUME ConfigInv, Tick PROVE ConfigInv'
<1> USE DEF ConfigInv
<1>1. /\ UNCHANGED <<config, prices, miner_cut, evm_version, consensus_parameter, queues, history>>
      /\ now \in Nat /\ genesis_time \in Nat
  BY DEF Tick, TypeOK
<1>2. /\ now' \in Nat /\ now <= now' /\ genesis_time' = genesis_time
      /\ Block \in Nat /\ Block' \in Nat /\ Block <= Block'
      /\ Activation <= Activation' /\ Activation \in Nat /\ Activation' \in Nat
      /\ Version' >= Version /\ Version' \in 0 .. MaxVersion
      /\ Block' = Block => Version' = Version /\ ActiveParams' = ActiveParams
  BY TickFacts
<1>3. Version \in 0 .. MaxVersion
  BY Values, SMTT(30)
<1>4. TypeOK'
  BY <1>1, <1>2 DEF TypeOK, config, prices, queues, history
<1>5. Fresh'
  BY <1>1 DEF Fresh, config, queues, history
<1>6. PendingOK'
  <2>1. evm_version.time \in Nat /\ consensus_parameter.time \in Nat
    BY DEF TypeOK, Promoter
  <2>2. evm_version.time <= now' /\ consensus_parameter.time <= now'
    BY <1>1, <1>2, <2>1 DEF PendingOK
  <2>3. consensus_parameter.has_pending => Version' >= 1
    BY <1>2, <1>3 DEF PendingOK
  <2> QED  BY <1>1, <2>2, <2>3 DEF PendingOK, MinerCutRetired
<1>7. QueuesOK'
  <2>1. /\ RowsOK(price_queue, Prices, genesis_time, now')
        /\ RowsOK(prices_queue, GasPrices, genesis_time, now')
    BY <1>1, <1>2, RowsLater DEF QueuesOK
  <2>2. queue_front_block <= Activation'
    BY <1>2 DEF QueuesOK, TypeOK
  <2>3. Version' < 3 => DOMAIN prices_queue = {}
    BY <1>2, <1>3 DEF QueuesOK
  <2>4. FrontOK(QueueOf(Version', price_queue, prices_queue), queue_front_block)
    BY <1>2, <1>3 DEF QueuesOK, QueueOf, FrontOK
  <2> QED  BY <1>1, <1>2, <2>1, <2>2, <2>3, <2>4, SMTT(30) DEF QueuesOK, queues
<1>8. LastOK'
  <2>1. last.block \in Nat /\ last.block <= Block
    BY DEF LastOK, TypeOK
  <2>2. last.block <= Block' /\ (last.block = Block' => Block' = Block)
    BY <1>2, <2>1
  <2>3. last' = last /\ gas_price' = gas_price /\ price_queue' = price_queue
        /\ prices_queue' = prices_queue
    BY <1>1, SMTT(30) DEF history, prices, queues
  <2> QED  BY <1>2, <2>2, <2>3 DEF LastOK, DuePricesApplied
<1> QED  BY <1>4, <1>5, <1>6, <1>7, <1>8, SMTT(30)

\* Before anything is stored, no value is pending: moving the genesis time
\* changes none.
LEMMA InitFacts ==
    ASSUME ConfigInv, NEW price \in Prices, NEW cut \in Cuts, init(price, cut)
    PROVE  /\ ~exists /\ now' = now /\ genesis_time' \in Nat
           /\ Block' \in Nat /\ Activation' \in Nat
           /\ Version = 0 /\ Version' = 0
           /\ ActiveParams' = ActiveParams /\ ActiveParams = NextOf(consensus_parameter)
           /\ NextOf(evm_version) = 0
<1> USE DEF ConfigInv
<1>1. /\ ~exists /\ now' = now /\ genesis_time' = Seconds(now)
      /\ evm_version' = evm_version /\ consensus_parameter' = consensus_parameter
      /\ now \in Nat
  BY DEF init, MayInit, TypeOK
<1>2. genesis_time' \in Nat
  BY <1>1, DivMonotone, MappingAssumption DEF Seconds
<1> DEFINE G == Grace * TicksPerSecond
<1>3. now + G \in Nat /\ now <= now /\ now + G <= now + G
  BY <1>1, GraceType
<1>4. EvmBlock(genesis_time', now) \in Nat /\ EvmBlock(genesis_time', now + G) \in Nat
  BY <1>1, <1>2, <1>3, EvmBlockMonotone, Zenon
<1>5. Block' \in Nat /\ Activation' \in Nat
  BY <1>1, <1>4 DEF Block, Activation
<1>6. ~evm_version.has_pending /\ evm_version.cached_value = 0 /\ ~consensus_parameter.has_pending
  BY <1>1 DEF Fresh
<1> QED  BY <1>1, <1>2, <1>5, <1>6, SMTT(30) DEF Version, ActiveParams, get_value, promotes, NextOf

LEMMA InitKeeps ==
    ASSUME ConfigInv, NEW price \in Prices, NEW cut \in Cuts, init(price, cut)
    PROVE  ConfigInv'
<1> USE DEF ConfigInv
<1>1. /\ exists' = TRUE /\ inited' = TRUE /\ cut <= NinetyPercent
      /\ gas_price' = price /\ miner_cut' = cut
      /\ UNCHANGED <<now, gas_prices, evm_version, consensus_parameter, queues, history>>
  BY DEF init, CutAllowed
<1>2. /\ ~exists /\ genesis_time' \in Nat /\ Block' \in Nat /\ Activation' \in Nat
      /\ Version' = 0
  BY InitFacts
<1>3. /\ ~evm_version.has_pending /\ evm_version.cached_value = 0
      /\ ~consensus_parameter.has_pending
      /\ DOMAIN price_queue = {} /\ DOMAIN prices_queue = {} /\ queue_front_block = 0
      /\ last.block = 0 /\ last.version = 0
  BY <1>2, SMTT(30) DEF Fresh
<1>4. TypeOK'
  <2>1. price \in Nat /\ cut \in 0 .. NinetyPercent
    BY <1>1, ConfigAssumption, SMTT(30)
  <2> QED  BY <1>1, <1>2, <2>1, SMTT(30) DEF TypeOK, queues, history
<1>5. Fresh' /\ PendingOK'
  BY <1>1, <1>3, SMTT(30) DEF Fresh, PendingOK, MinerCutRetired
<1>6. QueuesOK'
  BY <1>1, <1>2, <1>3, SMTT(30) DEF QueuesOK, RowsOK, FrontOK, QueueOf, queues
<1>7. LastOK'
  BY <1>1, <1>2, <1>3 DEF LastOK, DuePricesApplied, history, queues
<1> QED  BY <1>4, <1>5, <1>6, <1>7

LEMMA OtherKeeps == ASSUME ConfigInv, OtherStep PROVE ConfigInv'
<1> USE DEF ConfigInv
<1>1. /\ exists' = TRUE /\ inited' = inited /\ InPlace /\ QueueStep
      /\ now' = now /\ genesis_time' = genesis_time
      /\ UNCHANGED history \/ TxStep
  BY DEF OtherStep, InPlace
<1>2. /\ Block' = Block /\ Version' = Version /\ ActiveParams' = ActiveParams
      /\ evm_version' \in Promoter(0 .. MaxVersion, Nat)
      /\ consensus_parameter' \in Promoter(Params, Nat)
      /\ miner_cut' \in 0 .. NinetyPercent
      /\ PendingOK'
  BY <1>1, InPlaceKept
<1>3. /\ gas_price' \in Nat /\ gas_prices' \in GasPrices /\ queue_front_block' \in Nat
      /\ QueuesOK' /\ OnlyLaterRows
  BY <1>1, QueuesKept, SMTT(30)
<1>4. /\ Version \in 0 .. MaxVersion /\ ActiveParams \in Params
      /\ now \in Nat /\ genesis_time \in Nat /\ inited \in BOOLEAN /\ Block \in Nat
      /\ last.block \in Nat /\ last.block <= Block
  BY Values, ActivationLater DEF TypeOK, LastOK
<1>5. /\ last' \in [block : Nat, version : 0 .. MaxVersion, params : Params,
                    base_fee : Nat \cup {None}, seen : Params]
      /\ view' \in Params
  <2>1. CASE UNCHANGED history
    BY <2>1 DEF history, TypeOK
  <2>2. CASE TxStep
    <3>1. (IF Version \in 1 .. 2 THEN gas_price' ELSE None) \in Nat \cup {None}
      BY <1>3, Zenon
    <3> QED  BY <1>4, <2>2, <3>1 DEF TxStep
  <2> QED  BY <1>1, <2>1, <2>2, SMTT(30)
<1>6. TypeOK'
  <2>1. /\ DOMAIN price_queue' \subseteq Nat /\ DOMAIN prices_queue' \subseteq Nat
        /\ \A b \in DOMAIN price_queue' : price_queue'[b] \in Rows(Prices)
        /\ \A b \in DOMAIN prices_queue' : prices_queue'[b] \in Rows(GasPrices)
    BY <1>3, Zenon DEF QueuesOK, RowsOK
  <2> QED  BY <1>1, <1>2, <1>3, <1>4, <1>5, <2>1, SMTT(30) DEF TypeOK
<1>7. Fresh'
  BY <1>1 DEF Fresh
<1>8. LastOK'
  <2>1. CASE UNCHANGED history
    <3>1. last' = last
      BY <2>1 DEF history
    <3>2. DuePricesApplied'
      <4>1. /\ \A b \in DOMAIN price_queue' : b \in DOMAIN price_queue \/ b > last.block
            /\ \A b \in DOMAIN prices_queue' : b \in DOMAIN prices_queue \/ b > last.block
        <5>1. DOMAIN price_queue' \subseteq Nat /\ DOMAIN prices_queue' \subseteq Nat
          BY <1>6, Zenon DEF TypeOK
        <5> QED  BY <1>3, <1>4, <5>1, SMTT(30) DEF OnlyLaterRows
      <4> QED  BY <3>1, <4>1 DEF DuePricesApplied, LastOK
    <3>3. last.block # 0 /\ last.block = Block /\ Version \in 1 .. 2 => gas_price' = gas_price
      BY <1>1, PriceKept, SMTT(30)
    <3> QED  BY <1>2, <3>1, <3>2, <3>3 DEF LastOK
  <2>2. CASE TxStep
    <3>1. /\ last'.block = Block /\ last'.version = Version /\ last'.params = ActiveParams
          /\ last'.base_fee = IF Version \in 1 .. 2 THEN gas_price' ELSE None
      BY <2>2 DEF TxStep
    <3>2. Version >= 1 => \A b \in DOMAIN QueueOf(Version, price_queue', prices_queue') : b > Block
      BY <2>2, NoRowDue DEF TxStep
    <3>3. DuePricesApplied'
      BY <3>1, <3>2, SMTT(30) DEF DuePricesApplied, QueueOf
    <3> QED  BY <1>2, <1>4, <3>1, <3>3, SMTT(30) DEF LastOK
  <2> QED  BY <1>1, <2>1, <2>2
<1> QED  BY <1>2, <1>3, <1>6, <1>7, <1>8

\* Steps that leave every variable alone keep it too.
LEMMA StutterKeeps == ASSUME ConfigInv, UNCHANGED vars PROVE ConfigInv'
  BY ZenonT(40) DEF ConfigInv, vars, config, prices, queues, history, TypeOK, Fresh, PendingOK, QueuesOK,
         LastOK, MinerCutRetired, DuePricesApplied, Version, ActiveParams, Block, Activation

\* Over all behaviours of the configuration the inductive invariant holds.
THEOREM ConfigInvariant == Spec => []ConfigInv
<1>1. ConfigInv /\ [Next]_vars => ConfigInv'
  BY StepKinds, TickKeeps, InitKeeps, OtherKeeps, StutterKeeps
<1> QED  BY InitInv, <1>1, PTL DEF Spec

-----------------------------------------------------------------------------
\* The fields and the rows keep their types, the miner's cut its limit of 90%.
THEOREM ConfigTypeCorrect == Spec => []TypeOK
  BY ConfigInvariant, PTL DEF ConfigInv

\* The "internal error" check of enqueue never fails: every queued row is at
\* most the block a price queued now would get.
THEOREM EnqueueAlwaysWorks == Spec => []EnqueueNeverFails
<1>1. ConfigInv => EnqueueNeverFails
  <2> SUFFICES ASSUME ConfigInv PROVE EnqueueNeverFails
    OBVIOUS
  <2>1. /\ now \in Nat /\ genesis_time \in Nat
        /\ RowsOK(price_queue, Prices, genesis_time, now)
        /\ RowsOK(prices_queue, GasPrices, genesis_time, now)
    BY DEF ConfigInv, TypeOK, QueuesOK
  <2>2. CanEnqueue(price_queue) /\ CanEnqueue(prices_queue)
    BY <2>1, RowsBeforeActivation, Zenon
  <2> QED  BY <2>2 DEF EnqueueNeverFails
<1> QED  BY ConfigInvariant, <1>1, PTL

\* The early return of process_queue never skips a row of the queue in use.
THEOREM FrontNeverHides == Spec => []FrontCoversQueue
<1>1. ConfigInv => FrontCoversQueue
  <2> SUFFICES ASSUME ConfigInv PROVE FrontCoversQueue
    OBVIOUS
  <2> DEFINE q == IF Version >= 3 THEN prices_queue ELSE price_queue
  <2>1. FrontOK(q, queue_front_block) /\ queue_front_block \in Nat /\ DOMAIN q \in SUBSET Nat
    BY DEF ConfigInv, QueuesOK, QueueOf, TypeOK
  <2> HIDE DEF q
  <2>2. ASSUME DOMAIN q # {} PROVE queue_front_block \in 1 .. Min(DOMAIN q)
    <3>1. Min(DOMAIN q) \in DOMAIN q
      BY <2>1, <2>2, LeastBlock
    <3> QED  BY <2>1, <3>1 DEF FrontOK
  <2> QED  BY <2>2 DEF FrontCoversQueue, q
<1> QED  BY ConfigInvariant, <1>1, PTL

\* No transaction runs at an outdated price.
THEOREM PricesUpToDate == Spec => []DuePricesApplied
  BY ConfigInvariant, PTL DEF ConfigInv, LastOK

\* The check of process_tx on the version of a parameter change never fails.
THEOREM ParamsAlwaysVersioned == Spec => []ParamsNeedVersion
<1>1. ConfigInv => ParamsNeedVersion
  BY DEF ConfigInv, PendingOK, ParamsNeedVersion, promotes
<1> QED  BY ConfigInvariant, <1>1, PTL

\* Once version 1 is promoted there is no miner's cut.
THEOREM CutStaysRetired == Spec => []MinerCutRetired
  BY ConfigInvariant, PTL DEF ConfigInv, PendingOK

-----------------------------------------------------------------------------
\* No step lowers the version in force, however settings, promotions and the
\* passing of time interleave.
THEOREM VersionNeverFalls == Spec => VersionMonotone
<1>1. ConfigInv /\ [Next]_vars => [Version' >= Version]_vars
  <2> SUFFICES ASSUME ConfigInv, Next PROVE Version' >= Version
    OBVIOUS
  <2>1. Version \in 0 .. MaxVersion
    BY Values DEF ConfigInv
  <2>2. CASE Tick
    BY <2>2, TickFacts, SMTT(30)
  <2>3. CASE \E price \in Prices, cut \in Cuts : init(price, cut)
    BY <2>3, InitFacts
  <2>4. CASE OtherStep
    BY <2>1, <2>4, InPlaceKept DEF OtherStep
  <2> QED  BY <2>2, <2>3, <2>4, StepKinds
<1> QED  BY ConfigInvariant, <1>1, PTL DEF Spec, VersionMonotone

\* Two transactions of one EVM block run with the same version, parameters and
\* base fee.
THEOREM BlockHasOneRuleSet == Spec => OneRuleSetPerBlock
<1> DEFINE Same == last'.block = last.block /\ last.block # 0 =>
                      /\ last'.version = last.version
                      /\ last'.params = last.params
                      /\ last'.base_fee = last.base_fee
<1>1. ConfigInv /\ [Next]_vars => [Same]_vars
  <2> SUFFICES ASSUME ConfigInv, Next PROVE Same
    OBVIOUS
  <2>1. CASE last' = last
    BY <2>1
  <2>2. CASE OtherStep /\ TxStep
    <3> SUFFICES ASSUME last'.block = last.block, last.block # 0
                 PROVE  /\ last'.version = last.version
                        /\ last'.params = last.params
                        /\ last'.base_fee = last.base_fee
      OBVIOUS
    <3>1. /\ last'.block = Block /\ last'.version = Version /\ last'.params = ActiveParams
          /\ last'.base_fee = IF Version \in 1 .. 2 THEN gas_price' ELSE None
      BY <2>2 DEF TxStep
    <3>2. /\ last.version = Version /\ last.params = ActiveParams
          /\ last.base_fee = IF Version \in 1 .. 2 THEN gas_price ELSE None
      BY <3>1 DEF ConfigInv, LastOK
    <3>3. Version \in 1 .. 2 => gas_price' = gas_price
      BY <2>2, <3>1, PriceKept DEF OtherStep
    <3> QED  BY <3>1, <3>2, <3>3
  <2>3. Tick \/ (\E price \in Prices, cut \in Cuts : init(price, cut)) => last' = last
    BY DEF Tick, init, history
  <2>4. OtherStep => last' = last \/ TxStep
    BY SMTT(30) DEF OtherStep, history
  <2> QED  BY <2>1, <2>2, <2>3, <2>4, StepKinds
<1> QED  BY ConfigInvariant, <1>1, PTL DEF Spec, OneRuleSetPerBlock

\* Within a block only the rows that are due change what exec runs with.
ExecKept ==
    exists /\ Block' = Block =>
        /\ exec'.version = exec.version
        /\ exec'.params = exec.params
        /\ exec'.base_fee # exec.base_fee =>
              /\ ~BlockHasTx
              /\ \E b \in DOMAIN price_queue \ DOMAIN price_queue' :
                    b <= Block /\ exec'.base_fee = price_queue[b].price
              /\ \A b \in DOMAIN price_queue' : b > Block

LEMMA ExecStep ==
    ASSUME ConfigInv, Next
    PROVE  ExecKept
<1> USE DEF ConfigInv
<1> SUFFICES ASSUME exists, Block' = Block PROVE ExecKept
  BY DEF ExecKept
<1>1. /\ now \in Nat /\ genesis_time \in Nat /\ queue_front_block \in Nat
      /\ queue_front_block <= Activation
      /\ Version \in 0 .. MaxVersion
  BY Values DEF TypeOK, QueuesOK
<1>2. ~\E price \in Prices, cut \in Cuts : init(price, cut)
  BY DEF init, MayInit
<1>3. Version' = Version /\ ActiveParams' = ActiveParams
  <2>1. CASE Tick
    BY <2>1, TickFacts
  <2>2. CASE OtherStep
    BY <2>2, InPlaceKept DEF OtherStep
  <2> QED  BY <1>2, <2>1, <2>2, StepKinds, Zenon
<1>4. exec'.version = exec.version /\ exec'.params = exec.params
  BY <1>3 DEF exec
<1>5. CASE gas_price' = gas_price \/ Version = 0
  <2>1. exec'.base_fee = exec.base_fee
    BY <1>3, <1>5 DEF exec
  <2> QED  BY <1>4, <2>1 DEF ExecKept
<1>6. CASE process_price_queue /\ Version \in 1 .. 2 /\ gas_price' # gas_price
  <2> DEFINE r == Remaining(price_queue)
             g == PriceAfter(price_queue, gas_price)
  <2>1. price_queue' = r /\ gas_price' = g
    BY <1>6 DEF process_price_queue
  <2>2. RowsOK(price_queue, Prices, genesis_time, now) /\ FrontOK(price_queue, queue_front_block)
    BY <1>6 DEF QueuesOK, QueueOf
  <2>3. /\ \A b \in DOMAIN r : b > Block
        /\ \A b \in DOMAIN price_queue \ DOMAIN r : b <= Block
        /\ g = gas_price \/ \E b \in DOMAIN price_queue \ DOMAIN r :
                                price_queue[b].price = g /\ price_queue[b].price \in Prices
    BY <1>1, <2>2, ProcessStep, Zenon
  <2> HIDE DEF r, g
  <2>4. exec'.base_fee = g
    BY <1>3, <1>6, <2>1 DEF exec
  <2>5. ~BlockHasTx
    BY <1>6, PriceKept, Zenon DEF BlockHasTx, QueueStep
  <2>6. \E b \in DOMAIN price_queue \ DOMAIN price_queue' :
            b <= Block /\ exec'.base_fee = price_queue[b].price
    BY <1>6, <2>1, <2>3, <2>4, Zenon
  <2> QED  BY <1>4, <2>1, <2>3, <2>5, <2>6, Zenon DEF ExecKept
<1>7. \/ gas_price' = gas_price \/ Version = 0
      \/ process_price_queue /\ Version \in 1 .. 2
  <2>1. CASE Tick
    BY <2>1 DEF Tick, prices
  <2>2. CASE NoQueueStep
    BY <2>2 DEF NoQueueStep
  <2>3. CASE OldQueueStep \/ NewQueueStep
    BY <2>3 DEF OldQueueStep, NewQueueStep, prices
  <2>4. CASE process_price_queue
    BY <2>4 DEF process_price_queue, prices
  <2> QED  BY <1>2, <2>1, <2>2, <2>3, <2>4, StepKinds, Zenon DEF OtherStep, QueueStep
<1> QED  BY <1>5, <1>6, <1>7, Zenon

\* exec runs by the rules of the transactions of its block.  After one of them
\* it agrees in version, parameters and base fee; before, it differs at most in
\* the base fee, and only until the rows that are due are taken.
THEOREM ExecSeesTheRules == Spec => ExecAgrees
<1> DEFINE Agrees == BlockHasTx => /\ exec.version = last.version
                                   /\ exec.params = last.params
                                   /\ exec.version < 3 => exec.base_fee = last.base_fee
<1>1. ConfigInv => Agrees
  <2> SUFFICES ASSUME ConfigInv, BlockHasTx PROVE Agrees
    OBVIOUS
  <2>1. Version \in 0 .. 3
    BY Values, SMTT(30) DEF ConfigInv, MaxVersion
  <2> QED  BY <2>1, SMTT(30) DEF exec, ConfigInv, LastOK, BlockHasTx
<1>2. ConfigInv /\ [Next]_vars => [ExecKept]_vars
  BY ExecStep
<1>3. ExecAgrees <=> []Agrees /\ [][ExecKept]_vars
  BY DEF ExecAgrees, ExecKept
<1> QED  BY ConfigInvariant, <1>1, <1>2, <1>3, PTL DEF Spec

\* What GraceRespected asks of a step.
GraceKept ==
    /\ \A b \in DOMAIN price_queue \ DOMAIN price_queue' :
          now > price_queue[b].at + Grace * TicksPerSecond
    /\ \A b \in DOMAIN prices_queue \ DOMAIN prices_queue' :
          now > prices_queue[b].at + Grace * TicksPerSecond
    /\ Version >= 1 /\ gas_price' # gas_price =>
          \E b \in DOMAIN price_queue \ DOMAIN price_queue' : price_queue[b].price = gas_price'
    /\ Version >= 3 /\ gas_prices' # gas_prices =>
          \E b \in DOMAIN prices_queue \ DOMAIN prices_queue' : prices_queue[b].price = gas_prices'

\* A step that takes no row and changes no price that is in use.
LEMMA NoRowLeaves ==
    ASSUME DOMAIN price_queue \subseteq DOMAIN price_queue',
           DOMAIN prices_queue \subseteq DOMAIN prices_queue',
           Version >= 1 => gas_price' = gas_price,
           Version >= 3 => gas_prices' = gas_prices
    PROVE  GraceKept
  BY Zenon DEF GraceKept

\* enqueue takes no row away.
LEMMA EnqueuedKeeps ==
    ASSUME NEW q, NEW p
    PROVE  DOMAIN q \subseteq DOMAIN Enqueued(q, p)
<1>1. DOMAIN Enqueued(q, p) = DOMAIN q \cup {Activation}
  BY Zenon DEF Enqueued
<1> QED  BY <1>1

\* The rows that leave the queues have waited out the grace period, and only
\* they change a price.
LEMMA GraceStep ==
    ASSUME ConfigInv, Next
    PROVE  GraceKept
<1> USE DEF ConfigInv
<1> DEFINE f == queue_front_block
<1>1. /\ now \in Nat /\ genesis_time \in Nat /\ f \in Nat /\ f <= Activation
      /\ RowsOK(price_queue, Prices, genesis_time, now)
      /\ RowsOK(prices_queue, GasPrices, genesis_time, now)
      /\ Version \in 0 .. MaxVersion
  BY Values DEF TypeOK, QueuesOK
<1>2. CASE Tick
  <2>1. /\ price_queue' = price_queue /\ prices_queue' = prices_queue
        /\ gas_price' = gas_price /\ gas_prices' = gas_prices
    BY <1>2 DEF Tick, queues, prices
  <2> QED  BY <2>1, NoRowLeaves, Zenon
<1>3. CASE \E price \in Prices, cut \in Cuts : init(price, cut)
  <2>1. price_queue' = price_queue /\ prices_queue' = prices_queue /\ gas_prices' = gas_prices
    BY <1>3 DEF init, queues
  <2>2. Version = 0
    BY <1>3, InitFacts
  <2>3. ~(Version >= 1)
    BY <2>2
  <2> QED  BY <2>1, <2>3, NoRowLeaves, Zenon
<1>4. CASE NoQueueStep
  <2>1. price_queue' = price_queue /\ prices_queue' = prices_queue
    BY <1>4 DEF NoQueueStep, queues
  <2>2. (Version >= 1 => gas_price' = gas_price) /\ (Version >= 3 => gas_prices' = gas_prices)
    BY <1>1, <1>4 DEF NoQueueStep, MaxVersion
  <2> QED  BY <2>1, <2>2, NoRowLeaves, Zenon
<1>5. CASE OldQueueStep
  <2>1. PICK p \in Prices : enqueue_gas_price(p)
    BY <1>5, Zenon DEF OldQueueStep
  <2>2. price_queue' = Enqueued(price_queue, p) /\ prices_queue' = prices_queue
    BY <2>1, Zenon DEF enqueue_gas_price
  <2>3. gas_price' = gas_price /\ gas_prices' = gas_prices
    BY <1>5 DEF OldQueueStep, prices
  <2> QED  BY <2>2, <2>3, EnqueuedKeeps, NoRowLeaves, Zenon
<1>6. CASE NewQueueStep
  <2>1. PICK p \in GasPrices : enqueue_gas_prices(p)
    BY <1>6, Zenon DEF NewQueueStep
  <2>2. prices_queue' = Enqueued(prices_queue, p) /\ price_queue' = price_queue
    BY <2>1, Zenon DEF enqueue_gas_prices
  <2>3. gas_price' = gas_price /\ gas_prices' = gas_prices
    BY <1>6 DEF NewQueueStep, prices
  <2> QED  BY <2>2, <2>3, EnqueuedKeeps, NoRowLeaves, Zenon
<1>7. CASE process_price_queue /\ Version = 0
  <2>1. /\ price_queue' = price_queue /\ prices_queue' = prices_queue
        /\ gas_price' = gas_price /\ gas_prices' = gas_prices
    BY <1>7 DEF process_price_queue, queues, prices
  <2> QED  BY <2>1, NoRowLeaves, Zenon
<1>8. CASE process_price_queue /\ Version \in 1 .. 2
  <2> DEFINE r == Remaining(price_queue)
             g == PriceAfter(price_queue, gas_price)
  <2>1. /\ price_queue' = r /\ gas_price' = g
        /\ prices_queue' = prices_queue /\ gas_prices' = gas_prices
    BY <1>8 DEF process_price_queue
  <2>2. FrontOK(price_queue, f)
    BY <1>8 DEF QueuesOK, QueueOf
  <2>3. /\ \A b \in DOMAIN price_queue \ DOMAIN r : b <= Block
        /\ g = gas_price \/ \E b \in DOMAIN price_queue \ DOMAIN r :
                                price_queue[b].price = g /\ price_queue[b].price \in Prices
    BY <1>1, <2>2, ProcessStep, Zenon
  <2> HIDE DEF r, g
  <2>4. \A b \in DOMAIN price_queue \ DOMAIN r :
            now > price_queue[b].at + Grace * TicksPerSecond
    BY <1>1, <2>3, DueAfterGrace, Zenon
  <2> QED  BY <2>1, <2>3, <2>4, Zenon DEF GraceKept
<1>9. CASE process_price_queue /\ Version >= 3
  <2> DEFINE r == Remaining(prices_queue)
             g == PriceAfter(prices_queue, gas_prices)
  <2>1. /\ prices_queue' = r /\ gas_prices' = g
        /\ price_queue' = price_queue /\ gas_price' = gas_price
    BY <1>9 DEF process_price_queue
  <2>2. FrontOK(prices_queue, f)
    BY <1>9 DEF QueuesOK, QueueOf
  <2>3. /\ \A b \in DOMAIN prices_queue \ DOMAIN r : b <= Block
        /\ g = gas_prices \/ \E b \in DOMAIN prices_queue \ DOMAIN r :
                                prices_queue[b].price = g /\ prices_queue[b].price \in GasPrices
    BY <1>1, <2>2, ProcessStep, Zenon
  <2> HIDE DEF r, g
  <2>4. \A b \in DOMAIN prices_queue \ DOMAIN r :
            now > prices_queue[b].at + Grace * TicksPerSecond
    BY <1>1, <2>3, DueAfterGrace, Zenon
  <2> QED  BY <2>1, <2>3, <2>4, Zenon DEF GraceKept
<1>10. process_price_queue => Version = 0 \/ Version \in 1 .. 2 \/ Version >= 3
  BY DEF process_price_queue
<1>11. Tick \/ (\E price \in Prices, cut \in Cuts : init(price, cut)) \/ QueueStep
  BY StepKinds, ZenonT(40) DEF OtherStep
<1> QED  BY <1>2, <1>3, <1>4, <1>5, <1>6, <1>7, <1>8, <1>9, <1>10, <1>11, ZenonT(40) DEF QueueStep

\* A price is in force only after the grace period.
THEOREM GraceAlwaysRespected == Spec => GraceRespected
<1>1. ConfigInv /\ [Next]_vars => [GraceKept]_vars
  BY GraceStep
<1>2. GraceRespected <=> [][GraceKept]_vars
  BY DEF GraceRespected, GraceKept
<1> QED  BY ConfigInvariant, <1>1, <1>2, PTL DEF Spec

\* A row for a later block was asked for later.
LEMMA RowsOrdered ==
    ASSUME now \in Nat, genesis_time \in Nat,
           NEW V, NEW q, RowsOK(q, V, genesis_time, now),
           NEW b \in DOMAIN q, NEW c \in DOMAIN q, b < c
    PROVE  q[b].at < q[c].at
<1> DEFINE G == Grace * TicksPerSecond
           s == q[b].at + G
           t == q[c].at + G
<1>1. G \in Nat
  BY GraceType
<1>2. /\ q[b].at \in Nat /\ b = EvmBlock(genesis_time, s) + 1
      /\ q[c].at \in Nat /\ c = EvmBlock(genesis_time, t) + 1
  BY DEF RowsOK, Rows
<1> HIDE DEF G
<1>3. s \in Nat /\ t \in Nat /\ (q[c].at <= q[b].at => t <= s)
  BY <1>1, <1>2
<1> HIDE DEF s, t
<1>4. /\ EvmBlock(genesis_time, s) \in Nat /\ EvmBlock(genesis_time, t) \in Nat
      /\ t <= s => EvmBlock(genesis_time, t) <= EvmBlock(genesis_time, s)
  <2>1. s <= s /\ t <= t
    BY <1>3
  <2> QED  BY <1>3, <2>1, EvmBlockMonotone, Zenon
<1>5. ~(t <= s)
  BY <1>2, <1>4
<1> QED  BY <1>2, <1>3, <1>5

\* A step that takes no row has nothing to put in order, ...
LEMMA NoneTaken ==
    ASSUME NEW q, NEW r, NEW price, DOMAIN q \subseteq DOMAIN r
    PROVE  InOrder(q, r, price)
<1>1. DOMAIN q \ DOMAIN r = {}
  OBVIOUS
<1> QED  BY <1>1, Zenon DEF InOrder

\* ... and process_queue takes the rows from the front, the last of them last.
LEMMA TakenInOrder ==
    ASSUME now \in Nat, genesis_time \in Nat, queue_front_block \in Nat,
           queue_front_block <= Activation,
           NEW V, NEW q, RowsOK(q, V, genesis_time, now), FrontOK(q, queue_front_block),
           NEW price
    PROVE  InOrder(q, Remaining(q), PriceAfter(q, price))
<1> DEFINE r == Remaining(q)
           T == DOMAIN q \ DOMAIN r
           g == PriceAfter(q, price)
<1>1. /\ DOMAIN r \subseteq DOMAIN q
      /\ \A b \in DOMAIN r : b > Block
      /\ \A b \in T : b <= Block
  BY ProcessStep, Zenon
<1>2. Block \in Nat /\ DOMAIN q \subseteq Nat
  BY ActivationLater DEF RowsOK
<1>3. T = Due(q)
  BY Zenon DEF Remaining, Due
<1>4. T # {} => g = q[Max(T)].price
  BY <1>3, Zenon DEF PriceAfter
<1> HIDE DEF r, g
<1>5. T \in SUBSET Nat /\ DOMAIN q \ T \subseteq DOMAIN r
  BY <1>2
<1> HIDE DEF T, Block
<1>6. \A b \in T, c \in DOMAIN q \ T : q[b].at < q[c].at
  <2> SUFFICES ASSUME NEW b \in T, NEW c \in DOMAIN q \ T PROVE q[b].at < q[c].at
    OBVIOUS
  <2>1. b \in DOMAIN q /\ c \in DOMAIN q /\ b < c
    BY <1>1, <1>2, <1>5 DEF T
  <2> QED  BY <2>1, RowsOrdered, Zenon
<1>7. ASSUME T # {}
      PROVE  \E b \in T : g = q[b].price /\ \A c \in T : q[c].at <= q[b].at
  <2>1. Max(T) \in T /\ \A c \in T : c <= Max(T)
    BY <1>1, <1>2, <1>5, <1>7, GreatestBlock, Zenon
  <2>2. \A c \in T : q[c].at <= q[Max(T)].at
    <3> DEFINE m == Max(T)
    <3> SUFFICES ASSUME NEW c \in T PROVE q[c].at <= q[m].at
      OBVIOUS
    <3>1. m \in DOMAIN q /\ c \in DOMAIN q /\ c <= m
      BY <2>1 DEF T
    <3> HIDE DEF m
    <3>2. q[c].at \in Nat /\ m \in Nat /\ c \in Nat
      BY <1>2, <3>1 DEF RowsOK, Rows
    <3>3. c < m => q[c].at < q[m].at
      BY <3>1, RowsOrdered, Zenon
    <3>4. q[m].at \in Nat
      BY <3>1 DEF RowsOK, Rows
    <3> QED  BY <3>1, <3>2, <3>3, <3>4
  <2> QED  BY <1>4, <1>7, <2>1, <2>2, Zenon
<1>8. InOrder(q, r, g)
  BY <1>6, <1>7, Zenon DEF InOrder, T
<1> QED  BY <1>8 DEF r, g

\* Prices come into force in the order they were asked for.
THEOREM PricesChangeInOrder == Spec => PricesInOrder
<1> DEFINE Ordered == /\ InOrder(price_queue, price_queue', gas_price')
                      /\ InOrder(prices_queue, prices_queue', gas_prices')
<1>1. ASSUME ConfigInv, Next PROVE Ordered
  <2> USE <1>1 DEF ConfigInv
  <2>1. /\ now \in Nat /\ genesis_time \in Nat /\ queue_front_block \in Nat
        /\ queue_front_block <= Activation
        /\ RowsOK(price_queue, Prices, genesis_time, now)
        /\ RowsOK(prices_queue, GasPrices, genesis_time, now)
    BY DEF TypeOK, QueuesOK
  <2>2. CASE DOMAIN price_queue \subseteq DOMAIN price_queue'
             /\ DOMAIN prices_queue \subseteq DOMAIN prices_queue'
    BY <2>2, NoneTaken, Zenon
  <2>3. CASE process_price_queue /\ Version \in 1 .. 2
    <3>1. /\ price_queue' = Remaining(price_queue) /\ gas_price' = PriceAfter(price_queue, gas_price)
          /\ prices_queue' = prices_queue
      BY <2>3 DEF process_price_queue
    <3>2. FrontOK(price_queue, queue_front_block)
      BY <2>3 DEF QueuesOK, QueueOf
    <3> QED  BY <2>1, <3>1, <3>2, TakenInOrder, NoneTaken, Zenon
  <2>4. CASE process_price_queue /\ Version >= 3
    <3>1. /\ prices_queue' = Remaining(prices_queue)
          /\ gas_prices' = PriceAfter(prices_queue, gas_prices)
          /\ price_queue' = price_queue
      BY <2>4 DEF process_price_queue
    <3>2. FrontOK(prices_queue, queue_front_block)
      BY <2>4 DEF QueuesOK, QueueOf
    <3> QED  BY <2>1, <3>1, <3>2, TakenInOrder, NoneTaken, Zenon
  <2>5. CASE Tick \/ (\E price \in Prices, cut \in Cuts : init(price, cut)) \/ NoQueueStep
    <3>1. price_queue' = price_queue /\ prices_queue' = prices_queue
      BY <2>5 DEF Tick, init, NoQueueStep, queues
    <3> QED  BY <2>2, <3>1, Zenon
  <2>6. CASE OldQueueStep \/ NewQueueStep
    <3>1. \/ prices_queue' = prices_queue /\ \E p \in Prices : price_queue' = Enqueued(price_queue, p)
          \/ price_queue' = price_queue /\ \E p \in GasPrices : prices_queue' = Enqueued(prices_queue, p)
      BY <2>6, Zenon DEF OldQueueStep, NewQueueStep, enqueue_gas_price, enqueue_gas_prices
    <3> QED  BY <2>2, <3>1, EnqueuedKeeps, Zenon
  <2>7. process_price_queue =>
            \/ price_queue' = price_queue /\ prices_queue' = prices_queue
            \/ Version \in 1 .. 2 \/ Version >= 3
    BY DEF process_price_queue, queues
  <2>8. \/ Tick \/ (\E price \in Prices, cut \in Cuts : init(price, cut))
        \/ NoQueueStep \/ OldQueueStep \/ NewQueueStep \/ process_price_queue
    BY StepKinds, ZenonT(40) DEF OtherStep, QueueStep
  <2> QED  BY <2>2, <2>3, <2>4, <2>5, <2>6, <2>7, <2>8, Zenon
<1>2. ConfigInv /\ [Next]_vars => [Ordered]_vars
  BY <1>1
<1> QED  BY ConfigInvariant, <1>2, PTL DEF Spec, PricesInOrder

-----------------------------------------------------------------------------
\* What a step does to a promoted value as NextBlockValue sees it.
NextBlockStep(block, next_block, current, next_current, next) ==
    /\ next_block >= block
    /\ next_current = IF next_block > block THEN next ELSE current

LEMMA RefinementStep ==
    ASSUME ConfigInv, Next
    PROVE  /\ NextBlockStep(ReportedBlock, ReportedBlock', Version, Version', NextOf(evm_version))
           /\ NextBlockStep(ReportedBlock, ReportedBlock', ActiveParams, ActiveParams',
                            NextOf(consensus_parameter))
<1>1. Block \in Nat /\ Version \in 0 .. MaxVersion /\ exists \in BOOLEAN
  BY ActivationLater, Values DEF ConfigInv, TypeOK
<1>2. CASE Tick
  <2>1. /\ exists' = exists /\ Block' \in Nat /\ Block <= Block'
        /\ Block' = Block => Version' = Version /\ ActiveParams' = ActiveParams
        /\ Block' > Block => /\ Version' = NextOf(evm_version)
                             /\ ActiveParams' = NextOf(consensus_parameter)
    BY <1>2, TickFacts DEF Tick, config
  <2>2. CASE exists
    BY <1>1, <2>1, <2>2 DEF ReportedBlock, NextBlockStep
  <2>3. CASE ~exists
    <3>1. ~evm_version.has_pending /\ ~consensus_parameter.has_pending
      BY <2>3, SMTT(30) DEF ConfigInv, Fresh
    <3>2. Version' = Version /\ ActiveParams' = ActiveParams
      BY <1>2, <3>1 DEF Tick, Version, ActiveParams, get_value, promotes
    <3>3. ReportedBlock = 0 /\ ReportedBlock' = 0
      BY <2>1, <2>3 DEF ReportedBlock
    <3> QED  BY <3>2, <3>3 DEF NextBlockStep
  <2> QED  BY <2>2, <2>3
<1>3. CASE \E price \in Prices, cut \in Cuts : init(price, cut)
  <2>1. /\ ~exists /\ Block' \in Nat /\ Version = 0 /\ Version' = 0
        /\ ActiveParams' = ActiveParams /\ ActiveParams = NextOf(consensus_parameter)
        /\ NextOf(evm_version) = 0
    BY <1>3, InitFacts
  <2>2. exists' = TRUE
    BY <1>3 DEF init
  <2>3. ReportedBlock = 0 /\ ReportedBlock' \in Nat
    BY <2>1, <2>2 DEF ReportedBlock
  <2> QED  BY <2>1, <2>3 DEF NextBlockStep
<1>4. CASE OtherStep
  <2>1. Block' = Block /\ Version' = Version /\ ActiveParams' = ActiveParams /\ exists' = TRUE
    BY <1>4, InPlaceKept DEF OtherStep
  <2>2. CASE exists
    <3>1. ReportedBlock' = ReportedBlock /\ ReportedBlock \in Nat
      BY <1>1, <2>1, <2>2 DEF ReportedBlock
    <3> QED  BY <2>1, <3>1 DEF NextBlockStep
  <2>3. CASE ~exists
    <3>1. ~evm_version.has_pending /\ ~consensus_parameter.has_pending
      BY <2>3 DEF ConfigInv, Fresh
    <3>2. Version = NextOf(evm_version) /\ ActiveParams = NextOf(consensus_parameter)
      BY <3>1 DEF Version, ActiveParams, get_value, promotes, NextOf
    <3>3. ReportedBlock = 0 /\ ReportedBlock' \in Nat
      BY <1>1, <2>1, <2>3 DEF ReportedBlock
    <3> QED  BY <2>1, <3>2, <3>3, SMTT(30) DEF NextBlockStep
  <2> QED  BY <2>2, <2>3
<1> QED  BY <1>2, <1>3, <1>4, StepKinds, Zenon

\* The EVM version implements NextBlockValue: the version in force changes at
\* block boundaries only, to the last one set before.
THEOREM VersionChangesByBlock == Spec => VersionRefinement
<1>1. Init => VersionByBlock!Init
  BY DEF Init, VersionByBlock!Init, ReportedBlock, Version, get_value, promotes, NoPending
<1>2. ConfigInv /\ ConfigInv' /\ [Next]_vars => [VersionByBlock!Next]_(VersionByBlock!vars)
  <2>1. ASSUME ConfigInv, ConfigInv', Next PROVE VersionByBlock!Next
    <3>1. NextOf(evm_version)' \in 0 .. MaxVersion
      <4>1. evm_version' \in Promoter(0 .. MaxVersion, Nat)
        BY <2>1 DEF ConfigInv, TypeOK
      <4> QED  BY <4>1, Zenon DEF Promoter, NextOf
    <3>2. NextBlockStep(ReportedBlock, ReportedBlock', Version, Version', NextOf(evm_version))
      BY <2>1, RefinementStep, Zenon
    <3> QED  BY <3>1, <3>2 DEF VersionByBlock!Next, NextBlockStep, NextOf
  <2>2. ASSUME UNCHANGED vars PROVE UNCHANGED VersionByBlock!vars
    BY <2>2, Zenon DEF vars, config, VersionByBlock!vars, ReportedBlock, Block, Version
  <2> QED  BY <2>1, <2>2
<1> QED  BY ConfigInvariant, <1>1, <1>2, PTL DEF Spec, VersionRefinement, VersionByBlock!Spec

\* The gas parameters implement NextBlockValue.
THEOREM ParamsChangeByBlock == Spec => ParamsRefinement
<1>1. Init => ParamsByBlock!Init
  BY DEF Init, ParamsByBlock!Init, ReportedBlock, ActiveParams, get_value, promotes, NoPending
<1>2. ConfigInv /\ ConfigInv' /\ [Next]_vars => [ParamsByBlock!Next]_(ParamsByBlock!vars)
  <2>1. ASSUME ConfigInv, ConfigInv', Next PROVE ParamsByBlock!Next
    <3>1. NextOf(consensus_parameter)' \in Params
      <4>1. consensus_parameter' \in Promoter(Params, Nat)
        BY <2>1 DEF ConfigInv, TypeOK
      <4> QED  BY <4>1, Zenon DEF Promoter, NextOf
    <3>2. NextBlockStep(ReportedBlock, ReportedBlock', ActiveParams, ActiveParams',
                        NextOf(consensus_parameter))
      BY <2>1, RefinementStep, SMTT(30)
    <3> QED  BY <3>1, <3>2 DEF ParamsByBlock!Next, NextBlockStep, NextOf
  <2>2. ASSUME UNCHANGED vars PROVE UNCHANGED ParamsByBlock!vars
    BY <2>2, Zenon DEF vars, config, ParamsByBlock!vars, ReportedBlock, Block, ActiveParams
  <2> QED  BY <2>1, <2>2
<1> QED  BY ConfigInvariant, <1>1, <1>2, PTL DEF Spec, ParamsRefinement, ParamsByBlock!Spec

=============================================================================
