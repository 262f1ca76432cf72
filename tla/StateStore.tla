------------------------------ MODULE StateStore ------------------------------
(***************************************************************************)
(* The tables in which state.cpp keeps the EVM's state: accounts and code  *)
(* by ids of their own, storage in one scope per account id, the queue of  *)
(* scopes that are still to be emptied, and the next account id.           *)
(*                                                                         *)
(* A transaction of the EVM is a sequence of calls on one state object,    *)
(* from Execute, when all it reads has been read, to the destructor; gc is *)
(* a sequence of erasures; an action of the administrator is one step.     *)
(* These do not interleave: the phase says which of them is running.  A    *)
(* failed check aborts a transaction and leaves no trace of it, so checks  *)
(* are conjuncts.  That the contract as a whole is initialised and not     *)
(* frozen, and runs no transaction or gc before that, is in Ledger.        *)
(***************************************************************************)
EXTENDS Integers, FiniteSets, FiniteSetsExt

CONSTANTS
    Addrs, Hashes, Keys, Values, Datas,     \* as in EvmState
    Ids,                    \* bound: the account ids that may be handed out
    Budgets                 \* inputs: the argument of gc

ASSUME StoreAssumption ==
    /\ Hashes \subseteq Nat /\ Values \subseteq Nat /\ Datas \subseteq Nat
    /\ 0 \in Values /\ 0 \in Datas
    /\ Ids \subseteq Nat /\ Budgets \subseteq Nat

None == -1              \* an optional without a value, a slot without a row

VARIABLES
    account,            \* rows by id: address, nonce and balance, code, flag
    codes,              \* accountcode, rows by id: hash and reference count
    storage,            \* the slots of every scope
    gcstore,            \* rows by id: a scope to be emptied
    config2,            \* next_account_id as stored, or None
    phase,              \* what is running: "idle", "tx" or "gc"
    stage,              \* how far a transaction is with each address
    _config2,           \* next_account_id in the state object, or None
    max                 \* what gc may still erase

tables == <<account, codes, storage, gcstore, config2>>
running == <<phase, stage, _config2, max>>
vars == <<tables, running>>

-----------------------------------------------------------------------------
\* multi_index

Emplace(t, id, row) == [i \in DOMAIN t \cup {id} |-> IF i = id THEN row ELSE t[i]]
Erase(t, id) == [i \in DOMAIN t \ {id} |-> t[i]]
available_primary_key(t) == IF DOMAIN t = {} THEN 0 ELSE Max(DOMAIN t) + 1
NoRows == [i \in {} |-> 0]

\* The by.address and by.codehash indices.
HasRow(a) == \E i \in DOMAIN account : account[i].eth_address = a
IdOf(a) == CHOOSE i \in DOMAIN account : account[i].eth_address = a
HasCode(h) == \E c \in DOMAIN codes : codes[c].code_hash = h
CodeOf(h) == CHOOSE c \in DOMAIN codes : codes[c].code_hash = h

-----------------------------------------------------------------------------
Unread == [a \in Addrs |-> "unread"]

Init ==
    /\ account = NoRows /\ codes = NoRows /\ gcstore = NoRows /\ config2 = None
    /\ storage = [i \in Ids |-> [k \in Keys |-> None]]
    /\ phase = "idle" /\ stage = Unread /\ _config2 = None /\ max = 0

ReadAnyway(a) == TRUE                        \* mutant: the flag is not looked at

\* read_account refuses a frozen account.
MayRead(a) == HasRow(a) => ~account[IdOf(a)].frozen

\* The EVM runs and reads the accounts of S; each of them is then known to be
\* there or not.
Execute(S) ==
    /\ phase = "idle"
    /\ \A a \in S : MayRead(a)
    /\ phase' = "tx"
    /\ stage' = [a \in Addrs |-> IF a \notin S THEN "unread"
                                 ELSE IF HasRow(a) THEN "present" ELSE "missing"]
    /\ UNCHANGED <<tables, _config2, max>>

KeyOfTable(t) == available_primary_key(t)    \* mutant: as if there were no config2

\* The next account id, t being the account table at that point.
get_next_account_id(t) ==
    IF _config2 # None THEN _config2
    ELSE IF config2 # None THEN config2
    ELSE available_primary_key(t)

\* emplace on table t, of an account with the next id.
CreateIn(t, a, data, code_id) ==
    LET id == get_next_account_id(t)
    IN  /\ id \in Ids
        /\ id \notin DOMAIN t
        /\ account' = Emplace(t, id, [eth_address |-> a, data |-> data,
                                      code_id |-> code_id, frozen |-> FALSE])
        /\ _config2' = id + 1

ReleasedKept(c) ==                           \* mutant: the last reference stays
    IF c = None THEN codes ELSE [codes EXCEPT ![c].ref_count = @ - 1]

ReleasedEarly(c) ==                          \* mutant: gone with the last but one
    IF c = None THEN codes
    ELSE IF codes[c].ref_count > 2 THEN [codes EXCEPT ![c].ref_count = @ - 1]
    ELSE Erase(codes, c)

\* Code c loses a reference, and goes with the last one.
Released(c) ==
    IF c = None THEN codes
    ELSE IF codes[c].ref_count - 1 # 0 THEN [codes EXCEPT ![c].ref_count = @ - 1]
    ELSE Erase(codes, c)

NotQueued(i) == gcstore                      \* mutant: the scope is forgotten

\* The scope of account i is queued for gc.
Queued(i) == Emplace(gcstore, available_primary_key(gcstore), i)

StillThere(i) == account                     \* mutant: the old row stays

Without(i) == Erase(account, i)

\* remove_account, but for the erasure of the row itself; "code not found".
remove_account(i) ==
    /\ account[i].code_id # None => account[i].code_id \in DOMAIN codes
    /\ gcstore' = Queued(i)
    /\ codes' = Released(account[i].code_id)

NextStage(a, s) == stage' = [stage EXCEPT ![a] = s]

\* update_account where the account goes on to exist, with data as its nonce
\* and balance.
update_account(a, data) ==
    /\ phase = "tx" /\ stage[a] \in {"present", "missing", "coded"}
    /\ IF HasRow(a)
       THEN account' = [account EXCEPT ![IdOf(a)].data = data] /\ UNCHANGED _config2
       ELSE CreateIn(account, a, data, None)
    /\ NextStage(a, IF stage[a] = "missing" THEN "new" ELSE "done")
    /\ UNCHANGED <<codes, storage, gcstore, config2, phase, max>>

\* update_account where the transaction made a new incarnation of it.
update_account_incarnation(a, data) ==
    /\ phase = "tx" /\ stage[a] = "present"
    /\ remove_account(IdOf(a))
    /\ CreateIn(Without(IdOf(a)), a, data, None)
    /\ NextStage(a, "new")
    /\ UNCHANGED <<storage, config2, phase, max>>

\* update_account where the account ceases to exist.
update_account_removed(a) ==
    /\ phase = "tx" /\ stage[a] = "present"
    /\ remove_account(IdOf(a))
    /\ account' = Without(IdOf(a))
    /\ NextStage(a, "removed")
    /\ UNCHANGED <<storage, config2, phase, _config2, max>>

\* The id of the code with hash h, and the table with one more reference to it.
SharedId(h) == IF HasCode(h) THEN CodeOf(h) ELSE available_primary_key(codes)

UncountedShare(h) ==                         \* mutant: ref_count stays
    IF HasCode(h) THEN codes
    ELSE Emplace(codes, SharedId(h), [code_hash |-> h, ref_count |-> 1])

Shared(h) ==
    IF HasCode(h) THEN [codes EXCEPT ![CodeOf(h)].ref_count = @ + 1]
    ELSE Emplace(codes, SharedId(h), [code_hash |-> h, ref_count |-> 1])

\* The account of a has no code yet, or is not there.
update_account_code(a, h) ==
    /\ phase = "tx" /\ stage[a] \in {"missing", "new"}
    /\ codes' = Shared(h)
    /\ IF HasRow(a)
       THEN account' = [account EXCEPT ![IdOf(a)].code_id = SharedId(h)] /\ UNCHANGED _config2
       ELSE CreateIn(account, a, 0, SharedId(h))
    /\ NextStage(a, IF stage[a] = "missing" THEN "coded" ELSE "done")
    /\ UNCHANGED <<storage, gcstore, config2, phase, max>>

\* update_storage: a zero erases the slot, if there is one; anything else goes
\* into the scope of the account, which is made if it is not there.
update_storage(a, k, v) ==
    /\ phase = "tx" /\ stage[a] \notin {"unread", "removed"}
    /\ IF HasRow(a)
       THEN /\ storage' = [storage EXCEPT ![IdOf(a)][k] = IF v = 0 THEN None ELSE v]
            /\ UNCHANGED <<account, _config2>>
       ELSE /\ v # 0
            /\ CreateIn(account, a, 0, None)
            /\ storage' = [storage EXCEPT ![get_next_account_id(account)][k] = v]
    /\ UNCHANGED <<codes, gcstore, config2, phase, stage, max>>

ConfigForgotten == config2                   \* mutant: the destructor does nothing

\* The destructor stores the next account id if it was used.
ConfigStored == IF _config2 = None THEN config2 ELSE _config2

EndTx ==
    /\ phase = "tx"
    /\ config2' = ConfigStored
    /\ phase' = "idle" /\ stage' = Unread /\ _config2' = None
    /\ UNCHANGED <<account, codes, storage, gcstore, max>>

-----------------------------------------------------------------------------
\* gc: the slots of the first scope of the queue one by one, then its row, and
\* on with the next, until the queue or the budget is exhausted.

IsEmpty(i) == \A k \in Keys : storage[i][k] = None
First == Min(DOMAIN gcstore)

gc(budget) ==
    /\ phase = "idle"
    /\ phase' = "gc" /\ max' = budget
    /\ UNCHANGED <<tables, stage, _config2>>

gc_slot ==
    /\ phase = "gc" /\ max # 0 /\ DOMAIN gcstore # {}
    /\ \E k \in Keys :
          /\ storage[gcstore[First]][k] # None
          /\ storage' = [storage EXCEPT ![gcstore[First]][k] = None]
    /\ max' = max - 1
    /\ UNCHANGED <<account, codes, gcstore, config2, phase, stage, _config2>>

RowDoneEarly == TRUE                         \* mutant: with slots left

RowDone == IsEmpty(gcstore[First])

gc_row ==
    /\ phase = "gc" /\ max # 0 /\ DOMAIN gcstore # {}
    /\ RowDone
    /\ gcstore' = Erase(gcstore, First)
    /\ max' = max - 1
    /\ UNCHANGED <<account, codes, storage, config2, phase, stage, _config2>>

gc_end ==
    /\ phase = "gc"
    /\ max = 0 \/ DOMAIN gcstore = {}
    /\ phase' = "idle" /\ max' = 0
    /\ UNCHANGED <<tables, stage, _config2>>

-----------------------------------------------------------------------------
\* The actions of the administrator.

freezeaccnt(id, value) ==
    /\ phase = "idle"
    /\ id \in DOMAIN account
    /\ account' = [account EXCEPT ![id].frozen = value]
    /\ UNCHANGED <<codes, storage, gcstore, config2, running>>

\* addevmbal, as far as it concerns the account; what it does to inevm is in
\* LedgerRepairs.
addevmbal(id, data) ==
    /\ phase = "idle"
    /\ id \in DOMAIN account
    /\ account' = [account EXCEPT ![id].data = data]
    /\ UNCHANGED <<codes, storage, gcstore, config2, running>>

rmaccount(id) ==
    /\ phase = "idle"
    /\ id \in DOMAIN account
    /\ remove_account(id)
    /\ account' = Without(id)
    /\ UNCHANGED <<storage, config2, running>>

\* setkvstore: v is None to erase the row, which must be there.  A zero is
\* stored as it is.
setkvstore(id, k, v) ==
    /\ phase = "idle"
    /\ v = None => storage[id][k] # None
    /\ storage' = [storage EXCEPT ![id][k] = v]
    /\ UNCHANGED <<account, codes, gcstore, config2, running>>

rmgcstore(g) ==
    /\ phase = "idle"
    /\ g \in DOMAIN gcstore
    /\ gcstore' = Erase(gcstore, g)
    /\ UNCHANGED <<account, codes, storage, config2, running>>

\* rmgcstore where there is nothing left to collect.
DropEmptyRow == \E g \in DOMAIN gcstore : IsEmpty(gcstore[g]) /\ rmgcstore(g)

-----------------------------------------------------------------------------
TxCall(a) ==
    \/ \E d \in Datas : update_account(a, d) \/ update_account_incarnation(a, d)
    \/ update_account_removed(a)
    \/ \E h \in Hashes : update_account_code(a, h)
    \/ \E k \in Keys, v \in Values : update_storage(a, k, v)

GcCall == gc_slot \/ gc_row \/ gc_end

Next ==
    \/ \E S \in SUBSET Addrs : Execute(S)
    \/ \E a \in Addrs : TxCall(a)
    \/ EndTx
    \/ \E b \in Budgets : gc(b)
    \/ GcCall
    \/ \E id \in DOMAIN account :
          \/ \E value \in BOOLEAN : freezeaccnt(id, value)
          \/ \E d \in Datas : addevmbal(id, d)
          \/ rmaccount(id)
          \/ \E k \in Keys, v \in Values \cup {None} : setkvstore(id, k, v)
    \/ DropEmptyRow

Spec == Init /\ [][Next]_vars

\* The administrator also drops any garbage from the queue, or writes to a scope
\* that is not that of an account.
RepairNext ==
    \/ Next
    \/ \E g \in DOMAIN gcstore : rmgcstore(g)
    \/ \E id \in Ids, k \in Keys, v \in Values \cup {None} : setkvstore(id, k, v)

RepairSpec == Init /\ [][RepairNext]_vars

-----------------------------------------------------------------------------
\* Properties.

\* Every row of every table is of its type.
TypeOK ==
    /\ DOMAIN account \subseteq Ids
    /\ \A i \in DOMAIN account :
          account[i] \in [eth_address : Addrs, data : Datas, code_id : Nat \cup {None},
                         frozen : BOOLEAN]
    /\ DOMAIN codes \subseteq Nat
    /\ \A c \in DOMAIN codes : codes[c] \in [code_hash : Hashes, ref_count : Nat \ {0}]
    /\ storage \in [Ids -> [Keys -> Values \cup {None}]]
    /\ DOMAIN gcstore \subseteq Nat /\ \A g \in DOMAIN gcstore : gcstore[g] \in Ids
    /\ config2 \in Nat \cup {None} /\ _config2 \in Nat \cup {None}
    /\ phase \in {"idle", "tx", "gc"} /\ max \in Nat
    /\ stage \in [Addrs -> {"unread", "present", "missing", "new", "coded", "done", "removed"}]

\* An address has at most one account, though three calls create accounts and
\* one replaces them.
OneRowPerAddress ==
    \A i, j \in DOMAIN account : account[i].eth_address = account[j].eth_address => i = j

Users(c) == {i \in DOMAIN account : account[i].code_id = c}

\* The reference count of a code is the number of accounts that have it, so it
\* goes with the last of them and not before; no code is stored twice.  The
\* ids of erased code are used again: a reference left over would come to
\* name other code.
RefCountsExact ==
    /\ \A i \in DOMAIN account : account[i].code_id \in DOMAIN codes \cup {None}
    /\ \A c \in DOMAIN codes : codes[c].ref_count = Cardinality(Users(c))
    /\ \A c, d \in DOMAIN codes : codes[c].code_hash = codes[d].code_hash => c = d

\* Garbage collection never works on the scope of a live account, nor twice on
\* the same one.
GarbageIsDead ==
    /\ \A g \in DOMAIN gcstore : gcstore[g] \notin DOMAIN account
    /\ \A g, h \in DOMAIN gcstore : gcstore[g] = gcstore[h] => g = h

\* No storage is forgotten, wherever gc stops for want of budget: what is
\* stored belongs to an account or is queued.  gc returns "true if all garbage
\* has been collected" on the strength of the queue alone.
ScopesAccounted ==
    \A i \in Ids : IsEmpty(i) \/ i \in DOMAIN account
                  \/ \E g \in DOMAIN gcstore : gcstore[g] = i

\* A new account starts with nothing in its scope and nothing pending against
\* it: it inherits no storage, and gc will not take its own away.
NewAccountsStartEmpty ==
    [][\A i \in DOMAIN account' \ DOMAIN account :
          IsEmpty(i) /\ \A g \in DOMAIN gcstore' : gcstore'[g] # i]_vars

\* A transaction or gc leaves frozen accounts alone, their data, code and
\* storage included, though only reading an account looks at the flag.
FrozenUntouched ==
    [][phase # "idle" =>
          \A i \in DOMAIN account : account[i].frozen =>
             i \in DOMAIN account' /\ account'[i] = account[i] /\ storage'[i] = storage[i]]_vars

\* read_account and read_storage: what the EVM sees of an address.
read_storage(a, k) ==
    IF HasRow(a) /\ storage[IdOf(a)][k] # None THEN storage[IdOf(a)][k] ELSE 0

code_hash(a) ==
    LET c == account[IdOf(a)].code_id IN IF c \in DOMAIN codes THEN codes[c].code_hash ELSE None

read_account(a) ==
    [live   |-> HasRow(a),
     data   |-> IF HasRow(a) THEN account[IdOf(a)].data ELSE 0,
     code   |-> IF HasRow(a) THEN code_hash(a) ELSE None,
     frozen |-> HasRow(a) /\ account[IdOf(a)].frozen,
     slots  |-> [k \in Keys |-> read_storage(a, k)]]

EVM == INSTANCE EvmState WITH world <- [a \in Addrs |-> read_account(a)]

\* What the EVM sees is the map from addresses to accounts of EvmState: ids,
\* scopes, shared code, zeros that are stored and garbage that is not collected
\* yet never show, and no call on one address shows at another.
StateRefinement == EVM!Spec

\* gc is called again and again with a budget that is not zero, by
\* whoever operates the contract, and actions come to an end.
Fairness ==
    /\ SF_vars(\E b \in Budgets \ {0} : gc(b))
    /\ WF_vars(GcCall)
    /\ WF_vars(EndTx)

FairSpec == Spec /\ Fairness

\* Under this, the storage of a removed account is gone some day, however small
\* the budgets and whatever is removed in the meantime.
GarbageCollected ==
    \A i \in Ids :
        (\E g \in DOMAIN gcstore : gcstore[g] = i)
            ~> (IsEmpty(i) /\ \A g \in DOMAIN gcstore : gcstore[g] # i)

=============================================================================
