---------------------------- MODULE ConfigWrapper ----------------------------
(***************************************************************************)
(* The configuration singleton behind config_wrapper, the two price queues *)
(* and the actions that read and write them.  Each action is one Antelope  *)
(* action of the contract: it starts from what the constructor loads and   *)
(* ends with the flush of the destructor.  A failed check aborts it, which *)
(* leaves no trace, so every check is a conjunct.                          *)
(***************************************************************************)
EXTENDS ValuePromoter, FiniteSetsExt

CONSTANTS
    Grace,              \* grace_period_seconds, 180
    StartTime,          \* the time the model starts at, in ticks
    MaxTime,            \* bound: the last tick explored
    Prices,             \* gas prices offered by the administrator
    Fees,               \* fees per gas offered in transactions
    FeeWord,            \* 2^256, the width of a fee per gas
    GasPrices,          \* the pairs of gas_prices_type
    DefaultGasPrices,   \* gas_prices_type{}
    Params,             \* the gas parameters of consensus_parameter_data_type
    DefaultParams,      \* consensus_parameter_data_type{}
    Cuts,               \* values offered for miner_cut
    NinetyPercent       \* ninety_percent, 90000

MaxVersion == 3         \* eosevm::max_eos_evm_version

ASSUME ConfigAssumption ==
    /\ Grace \in Nat /\ StartTime \in Nat /\ MaxTime \in Nat
    /\ StartTime <= MaxTime
    /\ Prices \subseteq Nat /\ Fees \subseteq Nat /\ Cuts \subseteq Nat /\ NinetyPercent \in Nat
    /\ FeeWord \in Nat \ {0}
    /\ DefaultGasPrices \in GasPrices /\ DefaultParams \in Params

None == -1              \* an absent optional or binary_extension

VARIABLES
    now,                    \* current_time_point(), in ticks
    exists,                 \* whether the config singleton is stored
    inited,                 \* whether init has run: chainid is a known chain
    genesis_time, gas_price, gas_prices, miner_cut,
    evm_version, consensus_parameter,       \* value promoters
    queue_front_block,
    price_queue,            \* rows by block: the price, and (history) when
                            \* it was asked for
    prices_queue,
    last,                   \* history: what the latest EVM transaction ran with
    view                    \* history: gas parameters told by configchange events

config == <<exists, inited, genesis_time>>
queues == <<queue_front_block, price_queue, prices_queue>>
prices == <<gas_price, gas_prices>>
history == <<last, view>>
vars == <<now, config, prices, miner_cut, evm_version, consensus_parameter,
          queues, history>>

-----------------------------------------------------------------------------
\* get_current_time mapped to its EVM block, get_evm_version,
\* get_consensus_param.
Block == EvmBlock(genesis_time, now)
Version == get_value(evm_version, genesis_time, now)
ActiveParams == get_value(consensus_parameter, genesis_time, now)

NoRows == [b \in {} |-> 0]

Init ==
    /\ now = StartTime
    /\ exists = FALSE /\ inited = FALSE /\ genesis_time = 0
    /\ gas_price = 0 /\ gas_prices = DefaultGasPrices /\ miner_cut = 0
    /\ evm_version = NoPending(0)
    /\ consensus_parameter = NoPending(DefaultParams)
    /\ queue_front_block = 0 /\ price_queue = NoRows /\ prices_queue = NoRows
    /\ last = [block |-> 0, version |-> 0, params |-> DefaultParams,
               base_fee |-> None, seen |-> DefaultParams]
    /\ view = DefaultParams

\* Time passes between two actions.
Tick ==
    /\ now < MaxTime
    /\ now' = now + 1
    /\ UNCHANGED <<config, prices, miner_cut, evm_version, consensus_parameter,
                   queues, history>>

-----------------------------------------------------------------------------
\* The price queues.

ActivationNoGrace == Block + 1               \* mutant: takes effect at once

\* The block from which a price asked for now is in force.
Activation == EvmBlock(genesis_time, now + Grace * TicksPerSecond) + 1

\* enqueue on queue q: a row at the end, or a new price in the last row.
CanEnqueue(q) == \A b \in DOMAIN q : Activation >= b

Enqueued(q, p) ==
    LET row == [price |-> p, at |-> now]
    IN  [b \in DOMAIN q \cup {Activation} |-> IF b = Activation THEN row ELSE q[b]]

FrontAlwaysSet(q) == IF Activation \in DOMAIN q THEN queue_front_block ELSE Activation   \* mutant

FrontEnqueued(q) ==
    IF Activation \in DOMAIN q \/ queue_front_block # 0
    THEN queue_front_block ELSE Activation

enqueue_gas_price(p) ==
    /\ CanEnqueue(price_queue)
    /\ price_queue' = Enqueued(price_queue, p)
    /\ queue_front_block' = FrontEnqueued(price_queue)
    /\ UNCHANGED prices_queue

enqueue_gas_prices(p) ==
    /\ CanEnqueue(prices_queue)
    /\ prices_queue' = Enqueued(prices_queue, p)
    /\ queue_front_block' = FrontEnqueued(prices_queue)
    /\ UNCHANGED price_queue

DueLate(q) ==                                \* mutant: due one block late
    IF queue_front_block = 0 \/ Block < queue_front_block THEN {}
    ELSE {b \in DOMAIN q : Block > b}

\* process_queue on queue q: the rows it erases, the value the last of them
\* leaves, what remains and the front block of that.
Due(q) ==
    IF queue_front_block = 0 \/ Block < queue_front_block THEN {}
    ELSE {b \in DOMAIN q : Block >= b}

PriceOfFirst(q, price) ==                    \* mutant: the first row due wins
    IF Due(q) = {} THEN price ELSE q[Min(Due(q))].price

PriceAfter(q, price) == IF Due(q) = {} THEN price ELSE q[Max(Due(q))].price

Remaining(q) == [b \in DOMAIN q \ Due(q) |-> q[b]]

FrontAfter(q) ==
    IF Due(q) = {} THEN queue_front_block
    ELSE IF DOMAIN q \ Due(q) = {} THEN 0
    ELSE Min(DOMAIN q \ Due(q))

\* process_price_queue, with the test of its callers that evm_version >= 1.
process_price_queue ==
    \/ /\ Version = 0
       /\ UNCHANGED <<prices, queues>>
    \/ /\ Version \in 1 .. 2
       /\ gas_price' = PriceAfter(price_queue, gas_price)
       /\ price_queue' = Remaining(price_queue)
       /\ queue_front_block' = FrontAfter(price_queue)
       /\ UNCHANGED <<gas_prices, prices_queue>>
    \/ /\ Version >= 3
       /\ gas_prices' = PriceAfter(prices_queue, gas_prices)
       /\ prices_queue' = Remaining(prices_queue)
       /\ queue_front_block' = FrontAfter(prices_queue)
       /\ UNCHANGED <<gas_price, price_queue>>

-----------------------------------------------------------------------------
\* get_evm_version_and_maybe_promote: promotion to version 1 or later retires
\* the miner's cut.
CutKept == miner_cut                         \* mutant: the cut survives

CutAfterPromotion ==
    IF promotes(evm_version, genesis_time, now) /\ Version >= 1 THEN 0 ELSE miner_cut

promote_version ==
    /\ evm_version' = maybe_promote(evm_version, genesis_time, now)
    /\ miner_cut' = CutAfterPromotion

AnyCut(cut) == TRUE                          \* mutant: no limit

\* "miner_cut must <= 90%"
CutAllowed(cut) == cut <= NinetyPercent

MayInitAgain == TRUE                         \* mutant: init runs a second time

\* "contract already initialized"
MayInit == ~exists

\* init: the fee parameters are all required; at version 0 the price and the
\* cut take effect at once.
init(price, cut) ==
    /\ MayInit
    /\ exists' = TRUE /\ inited' = TRUE
    /\ genesis_time' = Seconds(now)
    /\ CutAllowed(cut)
    /\ gas_price' = price /\ miner_cut' = cut
    /\ UNCHANGED <<now, gas_prices, evm_version, consensus_parameter, queues, history>>

ChangedAtOnce(price) == gas_price' = price /\ UNCHANGED queues    \* mutant: no queue

\* set_gas_price, or from version 1 on enqueue_gas_price.
change_gas_price(price) ==
    IF Version >= 1
    THEN enqueue_gas_price(price) /\ UNCHANGED gas_price
    ELSE gas_price' = price /\ UNCHANGED queues

\* setfeeparams: price and cut may be left out.
setfeeparams(price, cut) ==
    /\ exists
    /\ IF price = None THEN UNCHANGED <<gas_price, queues>> ELSE change_gas_price(price)
    /\ IF cut = None THEN UNCHANGED miner_cut
       ELSE Version = 0 /\ CutAllowed(cut) /\ miner_cut' = cut
    /\ UNCHANGED <<now, config, gas_prices, evm_version, consensus_parameter, history>>

VersionAfterCached(v) == v > evm_version.cached_value   \* mutant: active one not seen

\* "new version must be greater than the active one"
VersionAllowed(v) == v > Version

\* setversion; the singleton is stored even if init has not run.
setversion(v) ==
    /\ v <= MaxVersion
    /\ v # 3 \/ queue_front_block = 0
    /\ VersionAllowed(v)
    /\ evm_version' = update(evm_version, v, genesis_time, now)
    /\ miner_cut' = CutAfterPromotion
    /\ exists' = TRUE
    /\ UNCHANGED <<now, inited, genesis_time, prices, consensus_parameter, queues, history>>

ParamsAnyTime == TRUE                        \* mutant: at any version

\* "evm_version must >= 1"
ParamsMayChange == Version >= 1

\* update_consensus_parameters2
update_consensus_parameters2(params) ==
    /\ ParamsMayChange
    /\ consensus_parameter' = update(consensus_parameter, params, genesis_time, now)
    /\ exists' = TRUE

setgasparam(params) ==
    /\ update_consensus_parameters2(params)
    /\ UNCHANGED <<now, inited, genesis_time, prices, miner_cut, evm_version, queues, history>>

\* updtgasparam: the parameters computed from a RAM price, with the gas price.
updtgasparam(params, price) ==
    /\ Version < 3
    /\ price > 0
    /\ update_consensus_parameters2(params)
    /\ change_gas_price(price)
    /\ UNCHANGED <<now, inited, genesis_time, gas_prices, miner_cut, evm_version, history>>

setgasprices(p) ==
    /\ promote_version
    /\ IF Version >= 3 THEN enqueue_gas_prices(p) /\ UNCHANGED gas_prices
       ELSE gas_prices' = p /\ UNCHANGED queues
    /\ exists' = TRUE
    /\ UNCHANGED <<now, inited, genesis_time, gas_price, consensus_parameter, history>>

-----------------------------------------------------------------------------
\* What process_tx takes as the base fee, price being the gas price after the
\* queue was processed.  At version 3 the optional is read while empty: any
\* value can come out.
BaseFees(price) == IF Version >= 3 THEN Prices ELSE {price}

\* The checks of process_tx, and of the validation after it, on the fees of a
\* transaction.  The inclusion price is computed modulo 2^256.
FeesAccepted(price, base, self_miner, max_fee, prio_fee, min_inclusion_price) ==
    IF Version >= 1
    THEN LET spread    == (max_fee - base) % FeeWord
             inclusion == IF prio_fee < spread THEN prio_fee ELSE spread
         IN  /\ inclusion >= (IF min_inclusion_price = None THEN 0 ELSE min_inclusion_price)
             /\ Version < 3 => max_fee >= base           \* pre_validate_transaction
             /\ Version >= 3 => self_miner               \* "no base fee"
    ELSE prio_fee = max_fee /\ max_fee >= price

\* process_tx, after process_price_queue has determined gas_price'.
process_tx(self_miner, max_fee, prio_fee, min_inclusion_price) ==
    /\ inited                                            \* lookup_known_chain
    /\ promote_version
    /\ consensus_parameter' = maybe_promote(consensus_parameter, genesis_time, now)
    /\ promotes(consensus_parameter, genesis_time, now) => Version >= 1
    /\ \E base \in BaseFees(gas_price') :
          FeesAccepted(gas_price', base, self_miner, max_fee, prio_fee, min_inclusion_price)
    /\ view' = IF promotes(consensus_parameter, genesis_time, now)
               THEN ActiveParams ELSE view                \* configchange
    /\ last' = [block |-> Block, version |-> Version, params |-> ActiveParams,
                base_fee |-> IF Version \in 1 .. 2 THEN gas_price' ELSE None,
                seen |-> view']
    /\ UNCHANGED <<now, config>>

\* pushtx from outside.
pushtx(self_miner, max_fee, prio_fee, min_inclusion_price) ==
    /\ exists
    /\ process_price_queue
    /\ min_inclusion_price # None => Version >= 1
    /\ process_tx(self_miner, max_fee, prio_fee, min_inclusion_price)

\* call, admincall and handle_evm_transfer: the contract's own transactions,
\* priced at the gas price in force.
dispatch_tx ==
    /\ exists
    /\ process_price_queue
    /\ process_tx(TRUE, gas_price', gas_price', None)

\* What exec runs with.  It only reads: nothing is promoted, no price is taken
\* off a queue.
exec == [version |-> Version, params |-> ActiveParams,
         base_fee |-> IF Version >= 1 THEN gas_price ELSE None]

\* handle_account_transfer runs the queue and no transaction.
handle_account_transfer ==
    /\ exists
    /\ process_price_queue
    /\ UNCHANGED <<now, config, miner_cut, evm_version, consensus_parameter, history>>

Next ==
    \/ Tick
    \/ \E price \in Prices, cut \in Cuts : init(price, cut)
    \/ \E price \in Prices \cup {None}, cut \in Cuts \cup {None} : setfeeparams(price, cut)
    \/ \E v \in 0 .. MaxVersion : setversion(v)
    \/ \E params \in Params : setgasparam(params)
    \/ \E params \in Params, price \in Prices : updtgasparam(params, price)
    \/ \E p \in GasPrices : setgasprices(p)
    \/ \E self_miner \in BOOLEAN, max_fee, prio_fee \in Fees,
          min_inclusion_price \in Fees \cup {None} :
            pushtx(self_miner, max_fee, prio_fee, min_inclusion_price)
    \/ dispatch_tx
    \/ handle_account_transfer

Spec == Init /\ [][Next]_vars

-----------------------------------------------------------------------------
\* Properties.

Rows(Values) == [price : Values, at : Nat]

\* Every field of the singleton, every row of the queues is of its type.
TypeOK ==
    /\ now \in Nat /\ genesis_time \in Nat
    /\ exists \in BOOLEAN /\ inited \in BOOLEAN
    /\ gas_price \in Nat /\ gas_prices \in GasPrices /\ miner_cut \in 0 .. NinetyPercent
    /\ evm_version \in Promoter(0 .. MaxVersion, Nat)
    /\ consensus_parameter \in Promoter(Params, Nat)
    /\ queue_front_block \in Nat
    /\ DOMAIN price_queue \subseteq Nat /\ DOMAIN prices_queue \subseteq Nat
    /\ \A b \in DOMAIN price_queue : price_queue[b] \in Rows(Prices)
    /\ \A b \in DOMAIN prices_queue : prices_queue[b] \in Rows(GasPrices)
    /\ last \in [block : Nat, version : 0 .. MaxVersion, params : Params,
                 base_fee : Nat \cup {None}, seen : Params]
    /\ view \in Params

\* The version in force never goes back, whatever is set, replaced while still
\* pending, or promoted in between ("new version must be greater than the
\* active one").
VersionMonotone == [][Version' >= Version]_vars

\* All the transactions of one EVM block run with the same version, the same
\* gas parameters and, where the block header has one, the same base fee:
\* an EVM node replays the block under a single header.
OneRuleSetPerBlock ==
    [][last'.block = last.block /\ last.block # 0 =>
          /\ last'.version = last.version
          /\ last'.params = last.params
          /\ last'.base_fee = last.base_fee]_vars

\* A transaction has run in the current EVM block.
BlockHasTx == last.block # 0 /\ last.block = Block

\* Though it only reads, exec runs by the rules of the transactions of its EVM
\* block.  After one of them it has the same version, gas parameters and base
\* fee; from version 3 on its base fee is the former gas price, where the
\* transaction has none.  Before the first of them it has them already, but for
\* the base fee while a row that is due is still queued: within a block, what
\* exec runs with changes at most when such rows are taken, which happens before
\* any transaction of the block has run and leaves no row due.
ExecAgrees ==
    /\ [](BlockHasTx =>
              /\ exec.version = last.version
              /\ exec.params = last.params
              /\ exec.version < 3 => exec.base_fee = last.base_fee)
    /\ [][exists /\ Block' = Block =>
              /\ exec'.version = exec.version
              /\ exec'.params = exec.params
              /\ exec'.base_fee # exec.base_fee =>
                    /\ ~BlockHasTx
                    /\ \E b \in DOMAIN price_queue \ DOMAIN price_queue' :
                          b <= Block /\ exec'.base_fee = price_queue[b].price
                    /\ \A b \in DOMAIN price_queue' : b > Block]_vars

\* The "internal error" check of enqueue never fires: a new row never belongs
\* before one that is already queued.
EnqueueNeverFails == CanEnqueue(price_queue) /\ CanEnqueue(prices_queue)

\* queue_front_block, the cheap test that lets process_queue return early,
\* never hides a row of the queue the version in force works on.
FrontCoversQueue ==
    LET q == IF Version >= 3 THEN prices_queue ELSE price_queue
    IN  DOMAIN q # {} => queue_front_block \in 1 .. Min(DOMAIN q)

\* A transaction never runs at an outdated price: once it has run, no row that
\* was due by its block is left in the queue of its version.
DuePricesApplied ==
    LET q == IF last.version >= 3 THEN prices_queue ELSE price_queue
    IN  last.version >= 1 => \A b \in DOMAIN q : b > last.block

\* A price takes effect only after the grace period: a row leaves a queue only
\* more than Grace seconds after its price was last set, and from version 1
\* on the gas price (from version 3 on the pair of gas prices) changes only to
\* that of a row leaving the queue.
GraceRespected ==
    [][/\ \A b \in DOMAIN price_queue \ DOMAIN price_queue' :
             now > price_queue[b].at + Grace * TicksPerSecond
       /\ \A b \in DOMAIN prices_queue \ DOMAIN prices_queue' :
             now > prices_queue[b].at + Grace * TicksPerSecond
       /\ Version >= 1 /\ gas_price' # gas_price =>
             \E b \in DOMAIN price_queue \ DOMAIN price_queue' :
                 price_queue[b].price = gas_price'
       /\ Version >= 3 /\ gas_prices' # gas_prices =>
             \E b \in DOMAIN prices_queue \ DOMAIN prices_queue' :
                 prices_queue[b].price = gas_prices']_vars

\* Of a queue: the rows that leave it were all asked for before those that stay,
\* and the price then in force is that of the latest request among them.
InOrder(q, next_q, next_price) ==
    LET taken == DOMAIN q \ DOMAIN next_q
    IN  /\ \A b \in taken, c \in DOMAIN q \ taken : q[b].at < q[c].at
        /\ taken # {} =>
              \E b \in taken : next_price = q[b].price /\ \A c \in taken : q[c].at <= q[b].at

\* Prices come into force in the order they were asked for, in both queues: when
\* process_queue takes several rows that are due, the last of them counts, and no
\* price in force is ever followed by an older one.
PricesInOrder ==
    [][InOrder(price_queue, price_queue', gas_price')
       /\ InOrder(prices_queue, prices_queue', gas_prices')]_vars

\* The check "gas param change requires evm_version >= 1" of process_tx, marked
\* as one that should not happen, never fails a transaction.
ParamsNeedVersion ==
    promotes(consensus_parameter, genesis_time, now) => Version >= 1

\* No miner's cut is left once a version from 1 on has been promoted, so no
\* later reader of the stored configuration can apply one.
MinerCutRetired == evm_version.cached_value >= 1 => miner_cut = 0

ReportedBlock == IF exists THEN Block ELSE 0

\* The EVM version is a value that changes at block boundaries only.
VersionByBlock == INSTANCE NextBlockValue WITH
    Values <- 0 .. MaxVersion, Default <- 0,
    block <- ReportedBlock, current <- Version,
    next <- IF evm_version.has_pending THEN evm_version.value ELSE evm_version.cached_value

VersionRefinement == VersionByBlock!Spec

\* So are the gas parameters.
ParamsByBlock == INSTANCE NextBlockValue WITH
    Values <- Params, Default <- DefaultParams,
    block <- ReportedBlock, current <- ActiveParams,
    next <- IF consensus_parameter.has_pending
            THEN consensus_parameter.value ELSE consensus_parameter.cached_value

ParamsRefinement == ParamsByBlock!Spec

=============================================================================
