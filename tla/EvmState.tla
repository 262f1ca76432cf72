------------------------------- MODULE EvmState -------------------------------
(***************************************************************************)
(* What the tables of state.cpp stand for: the accounts of the EVM by      *)
(* address, each with its data (nonce and balance), its code and its       *)
(* storage.  There are no ids, scopes, reference counts or garbage here: a *)
(* removed account is gone at once with all it had, and a step changes one *)
(* address only.                                                           *)
(***************************************************************************)
EXTENDS Integers

CONSTANTS
    Addrs,      \* addresses
    Hashes,     \* hashes of code
    Keys,       \* locations in the storage of an account
    Values,     \* what they hold, 0 for nothing
    Datas       \* nonces with balances, 0 for those of a new account

NoCode == -1            \* kEmptyHash

VARIABLE world

Nobody == [live |-> FALSE, data |-> 0, code |-> NoCode, frozen |-> FALSE,
           slots |-> [k \in Keys |-> 0]]

Live(data, code, frozen, slots) ==
    [live |-> TRUE, data |-> data, code |-> code, frozen |-> frozen, slots |-> slots]

Newborn(d) == Live(d, NoCode, FALSE, [k \in Keys |-> 0])

\* A change of what is not there makes an empty account first.
AsLive(w) == IF w.live THEN w ELSE Newborn(0)

Put(slots, k, v) == [slots EXCEPT ![k] = v]

WithData(w) == {Live(d, w.code, w.frozen, w.slots) : d \in Datas}
WithSlot(w) == {Live(w.data, w.code, w.frozen, Put(w.slots, k, v)) : k \in Keys, v \in Values}
WithCode(w) == {Live(w.data, h, w.frozen, w.slots) : h \in Hashes}
WithFlag(w) == {Live(w.data, w.code, b, w.slots) : b \in BOOLEAN}

Init == world = [a \in Addrs |-> Nobody]

\* What a transaction may make of account w.  Code, once set, stays for the
\* lifetime of the account.
TxChanges(w) ==
    {Nobody} \cup {Newborn(d) : d \in Datas}
    \cup WithData(AsLive(w)) \cup WithSlot(AsLive(w))
    \cup (IF w.code = NoCode THEN WithCode(AsLive(w)) ELSE {})

\* What the administrator may.
Repairs(w) == {Nobody} \cup WithFlag(w) \cup WithData(w) \cup WithSlot(w)

Becomes(a, w) == world' = [world EXCEPT ![a] = w]

Next ==
    \E a \in Addrs :
        \/ ~world[a].frozen /\ \E w \in TxChanges(world[a]) : Becomes(a, w)
        \/ world[a].live /\ \E w \in Repairs(world[a]) : Becomes(a, w)

Spec == Init /\ [][Next]_world

=============================================================================
