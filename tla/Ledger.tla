------------------------------- MODULE Ledger -------------------------------
(***************************************************************************)
(* The money in the contract's custody: the tokens it holds, the open      *)
(* balances, the amount inside the EVM, the bridge between them, and the   *)
(* nonces of the transactions the bridge makes.                            *)
(*                                                                         *)
(* One step is one Antelope action: a handler of the contract, run to its  *)
(* end.  The inline actions a handler sends are run depth first after it;  *)
(* the ones still to run are on the stack, the next one last.  A failed    *)
(* check aborts the whole transaction and leaves no trace, so a check is a *)
(* conjunct, and a transaction that aborts is a behaviour that stops.      *)
(***************************************************************************)
EXTENDS BalanceWithDust, WeiSums, Sequences

CONSTANTS
    Accounts,       \* Antelope accounts, each with its reserved EVM address
    Self,           \* the account of the EVM contract
    Contracts,      \* the other accounts that have code
    Receivers,      \* the accounts the administrator registers for messages
    Addrs,          \* EVM addresses that are not reserved
    Supply,         \* tokens in existence, in token units
    Amounts,        \* inputs: EVM amounts, in units of 10^-18
    Quantities,     \* inputs: token quantities and fees, in token units
    MaxNonce,       \* bound on the bridge nonces
    MaxDepth        \* bound on the pending inline actions

ASSUME LedgerAssumption ==
    /\ IsFiniteSet(Accounts) /\ Self \in Accounts /\ Contracts \subseteq Accounts \ {Self}
    /\ Receivers \subseteq Accounts
    /\ IsFiniteSet(Addrs)
    /\ Supply \in Nat /\ Amounts \subseteq Nat /\ Quantities \subseteq Nat
    /\ MaxNonce \in Nat /\ MaxDepth \in Nat

NoRow == -1

VARIABLES
    inited, frozen,     \* config: init has run, status_flags::frozen
    bridging,           \* config: evm_version >= 1, bridge transactions run at once
    open,               \* owners of the rows of the balances table
    balances,           \* their balances; zero for the others
    nextnonces,         \* next_nonce by owner, or NoRow
    inevm,              \* the inevm singleton
    egresslist,
    receivers,          \* min_fee of the message receivers, or NoRow
    evm,                \* balances of the addresses, as the EVM keeps them
    held,               \* tokens of the contract, as the token contract has it
    stack,              \* inline actions that are still to run
    used, replayed      \* history: the bridge transactions that ran; one ran twice

tables == <<open, balances, nextnonces, inevm, egresslist, receivers>>
vars == <<inited, frozen, bridging, tables, evm, held, stack, used, replayed>>

-----------------------------------------------------------------------------
\* The inline actions: a token transfer out of the contract, a pushtx of the
\* contract to itself, and a call of foreign code that may do anything.
Item == [kind : {"transfer", "pushtx", "foreign"}, who : Accounts, amount : Nat, nonce : Nat]

Transfer(to, q) == [kind |-> "transfer", who |-> to, amount |-> q, nonce |-> 0]
PushTx(from, n, x) == [kind |-> "pushtx", who |-> from, amount |-> x, nonce |-> n]
Foreign == [kind |-> "foreign", who |-> Self, amount |-> 0, nonce |-> 0]

Top == stack[Len(stack)]
Popped == SubSeq(stack, 1, Len(stack) - 1)

\* Whoever acts between two transactions, or in foreign code, may call the
\* contract next.
Calling == stack # <<>> => Top.kind = "foreign"

\* Foreign code on top of foreign code, or of nothing, adds no behaviour.
ThenForeign(s, runs) ==
    IF runs /\ s # <<>> /\ s[Len(s)].kind # "foreign" THEN Append(s, Foreign) ELSE s

\* What an inline action takes out of the contract's tokens, and what all the
\* pending ones will.
TakenBy(item) == IF item.kind = "transfer" THEN item.amount ELSE 0
OwedIn(s) == Total([i \in DOMAIN s |-> TakenBy(s[i])])

\* The value of a table of balances.
Holdings(b) == Total([a \in Accounts |-> Value(b[a])])

assert_inited == inited                      \* mutant: the flag is not looked at

assert_unfrozen == inited /\ ~frozen

-----------------------------------------------------------------------------
Init ==
    /\ inited = FALSE /\ frozen = FALSE /\ bridging = FALSE
    /\ open = {}
    /\ balances = [a \in Accounts |-> ZeroBalance]
    /\ nextnonces = [a \in Accounts |-> NoRow]
    /\ inevm = ZeroBalance
    /\ egresslist = {}
    /\ receivers = [a \in Accounts |-> NoRow]
    /\ evm = [x \in Addrs |-> 0]
    /\ held = 0
    /\ stack = <<>>
    /\ used = {} /\ replayed = FALSE

\* open_internal_balance: the two rows of an account, where missing.
open_internal_balance(owner) ==
    /\ open' = open \cup {owner}
    /\ nextnonces' = [nextnonces EXCEPT ![owner] = IF @ = NoRow THEN 0 ELSE @]
    /\ UNCHANGED balances

init ==
    /\ Calling
    /\ ~inited
    /\ inited' = TRUE
    /\ inevm' = ZeroBalance
    /\ open_internal_balance(Self)
    /\ UNCHANGED <<frozen, bridging, egresslist, receivers, evm, held, stack, used, replayed>>

freeze(value) ==
    /\ Calling
    /\ inited
    /\ frozen' = value
    /\ UNCHANGED <<inited, bridging, tables, evm, held, stack, used, replayed>>

\* A later EVM version comes into force; never within a transaction.
NewVersion ==
    /\ stack = <<>>
    /\ inited
    /\ bridging' = TRUE
    /\ UNCHANGED <<inited, frozen, tables, evm, held, stack, used, replayed>>

addegress(accounts) ==
    /\ Calling
    /\ inited
    /\ egresslist' = egresslist \cup accounts
    /\ UNCHANGED <<inited, frozen, bridging, open, balances, nextnonces, inevm, receivers,
                   evm, held, stack, used, replayed>>

removeegress(accounts) ==
    /\ Calling
    /\ inited
    /\ egresslist' = egresslist \ accounts
    /\ UNCHANGED <<inited, frozen, bridging, open, balances, nextnonces, inevm, receivers,
                   evm, held, stack, used, replayed>>

open_account(owner) ==
    /\ Calling
    /\ assert_unfrozen
    /\ open_internal_balance(owner)
    /\ UNCHANGED <<inited, frozen, bridging, inevm, egresslist, receivers, evm, held, stack,
                   used, replayed>>

NonceDropped(n) == NoRow                     \* mutant: it starts again at 0

\* The nonce outlives the balance once the account has used it.
NonceAfterClose(n) == IF n = 0 THEN NoRow ELSE n

MayCloseAny(owner) == owner \in open /\ is_zero(balances[owner])      \* mutant

MayClose(owner) == owner # Self /\ owner \in open /\ is_zero(balances[owner])

close(owner) ==
    /\ Calling
    /\ assert_unfrozen
    /\ MayClose(owner)
    /\ open' = open \ {owner}
    /\ balances' = [balances EXCEPT ![owner] = ZeroBalance]
    /\ nextnonces' = [nextnonces EXCEPT ![owner] = NonceAfterClose(@)]
    /\ UNCHANGED <<inited, frozen, bridging, inevm, egresslist, receivers, evm, held, stack,
                   used, replayed>>

\* bridgereg inserts or changes the receiver's row and opens its balance.
bridgereg(receiver, min_fee) ==
    /\ Calling
    /\ assert_unfrozen
    /\ receivers' = [receivers EXCEPT ![receiver] = min_fee]
    /\ open_internal_balance(receiver)
    /\ UNCHANGED <<inited, frozen, bridging, inevm, egresslist, evm, held, stack, used, replayed>>

bridgeunreg(receiver) ==
    /\ Calling
    /\ assert_unfrozen
    /\ receivers[receiver] # NoRow
    /\ receivers' = [receivers EXCEPT ![receiver] = NoRow]
    /\ UNCHANGED <<inited, frozen, bridging, open, balances, nextnonces, inevm, egresslist,
                   evm, held, stack, used, replayed>>

\* asset::operator+= and -= on the amount of a balance.
AddTokens(b, q) == [amount |-> b.amount + q, dust |-> b.dust]
CanAddTokens(b, q) == b.amount + q <= MaxAmount

\* withdraw; the token contract, which runs next, refuses a quantity that is
\* not positive and a transfer of the contract to itself.
withdraw(owner, q, to) ==
    /\ Calling
    /\ assert_unfrozen
    /\ owner \in open
    /\ q > 0 /\ to # Self
    /\ balances[owner].amount >= q
    /\ balances' = [balances EXCEPT ![owner] = AddTokens(@, -q)]
    /\ stack' = Append(stack, Transfer(to, q))
    /\ Len(stack') <= MaxDepth
    /\ UNCHANGED <<inited, frozen, bridging, open, nextnonces, inevm, egresslist, receivers,
                   evm, held, used, replayed>>

-----------------------------------------------------------------------------
\* Running an EVM transaction.

\* The accounts of the reserved addresses that end up with funds and have no
\* open balance.
NonOpen(reserved) == {a \in Accounts \ open : reserved[a] # 0}

\* What execute_tx asks of them.
EgressAllowed(reserved) ==
    /\ \A a, c \in NonOpen(reserved) : a = c
    /\ \A a \in NonOpen(reserved) :
          /\ a \in Contracts => a \in egresslist
          /\ reserved[a] % MinAsset = 0
          /\ reserved[a] \div MinAsset <= MaxAmount

\* execute_tx credits the open ones and takes the miner's portion of the gas
\* fee out of the contract's share.
EgressCredited(b, reserved) ==
    [a \in Accounts |-> IF a \in open THEN Accumulate(b[a], reserved[a]) ELSE b[a]]

CanEgress(b, reserved, portion) ==
    /\ \A a \in open : CanAccumulate(b[a], reserved[a])
    /\ CanDeduct(EgressCredited(b, reserved)[Self], portion)

MinerPaidTwice(b, miner, portion) ==         \* mutant: not taken from the contract
    [b EXCEPT ![miner] = Accumulate(@, portion)]

MinerPaid(b, miner, portion) ==
    [[b EXCEPT ![Self] = Deduct(@, portion)] EXCEPT ![miner] = Accumulate(@, portion)]

\* process_filtered_messages: a message with a value to each of the receivers
\* in pay, paid out of the contract's balance at the end.  The messages of
\* one receiver are taken together.
MessageTargets == {r \in open : receivers[r] # NoRow}

FeesCovered(pay) == \A r \in DOMAIN pay : pay[r] >= receivers[r] * MinAsset

Paid(pay) == [a \in Accounts |-> IF a \in DOMAIN pay THEN pay[a] ELSE 0]

MessagesCredited(b, pay) ==
    [a \in Accounts |-> IF a \in DOMAIN pay THEN Accumulate(b[a], pay[a]) ELSE b[a]]

CanPayMessages(b, pay) ==
    /\ \A a \in DOMAIN pay : CanAccumulate(b[a], pay[a])
    /\ CanDeduct(MessagesCredited(b, pay)[Self], Total(Paid(pay)))

MessagesPaid(b, pay) == [MessagesCredited(b, pay) EXCEPT ![Self] = Deduct(@, Total(Paid(pay)))]

InevmWithoutIngress(x, reserved) == Deduct(inevm, Total(reserved))    \* mutant

\* The inevm singleton after x came in and what is reserved went out.
InevmAfter(x, reserved) == Deduct(Accumulate(inevm, x), Total(reserved))

TxInlineUnits(s, reserved, pay) ==           \* mutant: units of 10^-18, not tokens
    IF NonOpen(reserved) = {} THEN ThenForeign(s, DOMAIN pay # {})
    ELSE LET a == CHOOSE a \in NonOpen(reserved) : TRUE
         IN  Append(ThenForeign(s, DOMAIN pay # {}), Transfer(a, reserved[a]))

\* The inline actions of a transaction: the transfer to the account that is
\* not open, then the handlers of the messages.
TxInline(s, reserved, pay) ==
    LET calls == ThenForeign(s, DOMAIN pay # {})
    IN  IF NonOpen(reserved) = {} THEN calls
        ELSE LET a == CHOOSE a \in NonOpen(reserved) : TRUE
             IN  Append(calls, Transfer(a, reserved[a] \div MinAsset))

\* process_tx on balances b, with x entering the EVM and s the stack below the
\* inline actions.  What the EVM makes of the balances is external to the
\* contract: any that creates no funds and leaves the gas fee and the values
\* of the messages at the contract's reserved address.
process_tx(b, x, miner, s, notified) ==
    LET funds == Total(evm) + x
    IN  \E e \in [Addrs -> 0 .. funds], reserved \in [Accounts -> 0 .. funds] :
        /\ Total(e) + Total(reserved) <= funds
        /\ evm' = e
        /\ EgressAllowed(reserved)
        /\ CanAccumulate(inevm, x)
        /\ CanDeduct(Accumulate(inevm, x), Total(reserved))
        /\ inevm' = InevmAfter(x, reserved)
        /\ \E portion \in 0 .. reserved[Self], to \in SUBSET MessageTargets :
           \E pay \in [to -> 0 .. reserved[Self]] :
              LET credited == EgressCredited(b, reserved)
                  shared   == MinerPaid(credited, miner, portion)
              IN  /\ Total(pay) + portion <= reserved[Self]
                  /\ miner = Self => portion = 0
                  /\ CanEgress(b, reserved, portion)
                  /\ CanAccumulate([credited EXCEPT ![Self] = Deduct(@, portion)][miner], portion)
                  /\ FeesCovered(pay) /\ CanPayMessages(shared, pay)
                  /\ balances' = MessagesPaid(shared, pay)
                  /\ stack' = ThenForeign(TxInline(s, reserved, pay), notified)
                  /\ Len(stack') <= MaxDepth
        /\ UNCHANGED <<inited, frozen, bridging, open, egresslist, receivers>>

\* pushtx from outside, signed with a regular signature: miner is any account
\* with an open balance, or the contract.
pushtx(miner) ==
    /\ Calling
    /\ assert_unfrozen
    /\ miner \in open
    /\ process_tx(balances, 0, miner, stack, FALSE)
    /\ UNCHANGED <<nextnonces, held, used, replayed>>

\* A transaction the contract makes for an account, with a special signature
\* and a reserved sender: execute_tx first moves the value and the most the
\* gas can cost from the account's balance into the EVM.
bridge_tx(b, from, nonce, x, s, notified) ==
    /\ from \in open
    /\ CanDeduct(b[from], x)
    /\ process_tx([b EXCEPT ![from] = Deduct(@, x)], x, Self, s, notified)
    /\ used' = used \cup {<<from, nonce>>}
    /\ replayed' = (replayed \/ <<from, nonce>> \in used)

\* get_and_increment_nonce, then dispatch_tx: from version 1 on the transaction
\* runs at once, before that through an inline pushtx.
dispatch_tx(b, from, x, notified) ==
    /\ nextnonces[from] # NoRow
    /\ nextnonces[from] < MaxNonce
    /\ nextnonces' = [nextnonces EXCEPT ![from] = @ + 1]
    /\ IF bridging
       THEN bridge_tx(b, from, nextnonces[from], x, stack, notified)
       ELSE /\ balances' = b
            /\ stack' = ThenForeign(Append(stack, PushTx(from, nextnonces[from], x)), notified)
            /\ Len(stack') <= MaxDepth
            /\ UNCHANGED <<inited, frozen, bridging, open, inevm, egresslist, receivers,
                           evm, used, replayed>>

\* call, or admincall on behalf of a reserved address; x is the value with the
\* most the gas can cost.
call(from, x) ==
    /\ Calling
    /\ assert_unfrozen
    /\ dispatch_tx(balances, from, x, FALSE)
    /\ UNCHANGED held

\* admincall on behalf of any other address: nothing enters the EVM, the nonce
\* is the EVM's, and the inline pushtx, where there is one, comes right after.
admincall ==
    /\ Calling
    /\ assert_unfrozen
    /\ process_tx(balances, 0, Self, stack, FALSE)
    /\ UNCHANGED <<nextnonces, held, used, replayed>>

\* The inline pushtx.
pushtx_inline ==
    /\ stack # <<>> /\ Top.kind = "pushtx"
    /\ assert_unfrozen
    /\ bridge_tx(balances, Top.who, Top.nonce, Top.amount, Popped, FALSE)
    /\ UNCHANGED <<nextnonces, held>>

-----------------------------------------------------------------------------
\* Tokens coming in and going out.  The balance of the contract and the rest
\* of the supply are all that matters of the token contract (external).

Incoming(q) ==
    /\ q > 0 /\ q <= Supply - held
    /\ held' = held + q

\* transfer with the name of an open account as its memo.
handle_account_transfer(q, receiver) ==
    /\ Calling
    /\ assert_unfrozen
    /\ Incoming(q)
    /\ receiver \in open
    /\ CanAddTokens(balances[receiver], q)
    /\ balances' = [balances EXCEPT ![receiver] = AddTokens(@, q)]
    /\ UNCHANGED <<inited, frozen, bridging, open, nextnonces, inevm, egresslist, receivers,
                   evm, stack, used, replayed>>

\* transfer with an EVM address as its memo: the contract is credited with the
\* tokens and makes a transaction with what the ingress fee leaves of them.
\* The sender is notified before the contract: inline actions of its own code
\* run before those of the contract.
handle_evm_transfer(q, ingress_bridge_fee, gas, notified) ==
    /\ Calling
    /\ assert_unfrozen
    /\ Incoming(q)
    /\ CanAddTokens(balances[Self], q)
    /\ q - ingress_bridge_fee > 0
    /\ dispatch_tx([balances EXCEPT ![Self] = AddTokens(@, q)], Self,
                   (q - ingress_bridge_fee) * MinAsset + gas, notified)

\* A token transfer the contract sent.  Both sides are notified: the contract,
\* whose handler only checks that it is not frozen, and the recipient.
transfer_out ==
    /\ stack # <<>> /\ Top.kind = "transfer"
    /\ Top.amount <= held
    /\ assert_unfrozen
    /\ held' = held - Top.amount
    /\ stack' = ThenForeign(Popped, Top.who \in Contracts)
    /\ UNCHANGED <<inited, frozen, bridging, tables, evm, used, replayed>>

\* Foreign code ends.
Return ==
    /\ stack # <<>> /\ Top.kind = "foreign"
    /\ stack' = Popped
    /\ UNCHANGED <<inited, frozen, bridging, tables, evm, held, used, replayed>>

Next ==
    \/ init
    \/ \E value \in BOOLEAN : freeze(value)
    \/ NewVersion
    \/ \E accounts \in SUBSET Contracts : addegress(accounts) \/ removeegress(accounts)
    \/ \E owner \in Accounts : open_account(owner) \/ close(owner)
    \/ \E r \in Receivers, q \in Quantities : bridgereg(r, q)
    \/ \E r \in Receivers : bridgeunreg(r)
    \/ \E owner, to \in Accounts, q \in Quantities : withdraw(owner, q, to)
    \/ \E miner \in Accounts : pushtx(miner)
    \/ \E from \in Accounts, x \in Amounts : call(from, x)
    \/ admincall
    \/ pushtx_inline
    \/ \E q \in Quantities, r \in Accounts : handle_account_transfer(q, r)
    \/ \E q, fee \in Quantities, gas \in Amounts, notified \in BOOLEAN :
          handle_evm_transfer(q, fee, gas, notified)
    \/ transfer_out
    \/ Return

Spec == Init /\ [][Next]_vars

-----------------------------------------------------------------------------
\* Properties.

\* Every table holds what its type allows.
TypeOK ==
    /\ inited \in BOOLEAN /\ frozen \in BOOLEAN /\ bridging \in BOOLEAN
    /\ open \subseteq Accounts
    /\ balances \in [Accounts -> Balance]
    /\ nextnonces \in [Accounts -> Nat \cup {NoRow}]
    /\ inevm \in Balance
    /\ egresslist \subseteq Accounts
    /\ receivers \in [Accounts -> Nat \cup {NoRow}]
    /\ evm \in [Addrs -> Nat]
    /\ held \in 0 .. Supply
    /\ stack \in Seq(Item)
    /\ used \subseteq Accounts \X Nat /\ replayed \in BOOLEAN

\* Not a unit of 10^-18 is created or lost: after every action, between the
\* inline actions of a transaction as well, the tokens the contract holds are
\* exactly what the open balances, the amount inside the EVM and the transfers
\* on their way out add up to.
Conservation ==
    held * MinAsset = Holdings(balances) + Value(inevm) + OwedIn(stack) * MinAsset

\* The EVM side never owns more than the inevm singleton accounts for, so the
\* funds of an EVM address can always leave through the bridge.
Solvency == Total(evm) <= Value(inevm)

\* A transfer the contract has sent never fails for want of tokens.
TransfersCovered == stack # <<>> /\ Top.kind = "transfer" => Top.amount <= held

\* Only open accounts hold a balance, every open account has its nonce, and
\* the contract's own rows, which bridge and gas fees rely on, stay.
RowsConsistent ==
    /\ \A a \in Accounts \ open : balances[a] = ZeroBalance
    /\ \A a \in open : nextnonces[a] # NoRow
    /\ inited => Self \in open

\* No two bridge transactions of an account run with the same nonce, however
\* calls nest and though the account is closed and opened again in between.
NonceFresh == ~replayed

\* While the contract is frozen no money moves in, out or inside, the inline
\* actions still pending when it was frozen included.
FrozenStandsStill ==
    [][frozen /\ frozen' => UNCHANGED <<balances, inevm, evm, held, used>>]_vars

=============================================================================
