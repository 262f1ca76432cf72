---------------------------- MODULE LedgerRepairs ----------------------------
(***************************************************************************)
(* The repairs of the administrator that concern money (admin_actions.cpp),*)
(* beside all the operations of Ledger.  None of them asks whether the     *)
(* contract is frozen.  They move no tokens, so each of them changes by    *)
(* how much what is owed differs from what is held: drift is the sum.      *)
(***************************************************************************)
EXTENDS Ledger

CONSTANTS
    Deltas,             \* inputs: the amounts of repairs, in units of 10^-18
    MaxEvm,             \* the largest balance of an EVM address, 2^256 - 1
    MaxDrift            \* bound on the sum of the repairs, either way

ASSUME RepairAssumption ==
    Deltas \subseteq Nat /\ MaxEvm \in Nat /\ MaxDrift \in Nat

VARIABLE drift          \* history: added without tokens, less taken away

rvars == <<vars, drift>>

RepairInit == Init /\ drift = 0

Drifts(delta) ==
    /\ drift' = drift + delta
    /\ drift' \in -MaxDrift .. MaxDrift

OneSided(x, d) == evm                        \* mutant: the row of the account stays

BalanceLowered(x, d) == [evm EXCEPT ![x] = @ - d]

\* addevmbal; inevm is there once the contract has been initialised, and a
\* failed check takes its change back.
addevmbal_subtract(x, d) ==
    /\ Calling /\ inited
    /\ CanDeduct(inevm, d)
    /\ inevm' = Deduct(inevm, d)
    /\ evm[x] >= d
    /\ evm' = BalanceLowered(x, d)
    /\ Drifts(-d)
    /\ UNCHANGED <<inited, frozen, bridging, open, balances, nextnonces, egresslist, receivers,
                   held, stack, used, replayed>>

InevmKept(d) == inevm                        \* mutant: the singleton is forgotten

InevmRaised(d) == Accumulate(inevm, d)

addevmbal_add(x, d) ==
    /\ Calling /\ inited
    /\ evm[x] + d <= MaxEvm
    /\ evm' = [evm EXCEPT ![x] = @ + d]
    /\ CanAccumulate(inevm, d)
    /\ inevm' = InevmRaised(d)
    /\ Drifts(d)
    /\ UNCHANGED <<inited, frozen, bridging, open, balances, nextnonces, egresslist, receivers,
                   held, stack, used, replayed>>

addopenbal(a, d, subtract) ==
    /\ Calling
    /\ a \in open
    /\ IF subtract THEN CanDeduct(balances[a], d) ELSE CanAccumulate(balances[a], d)
    /\ balances' = [balances EXCEPT ![a] = IF subtract THEN Deduct(@, d) ELSE Accumulate(@, d)]
    /\ Drifts(IF subtract THEN -d ELSE d)
    /\ UNCHANGED <<inited, frozen, bridging, open, nextnonces, inevm, egresslist, receivers,
                   evm, held, stack, used, replayed>>

\* rmaccount: what the account had stays in inevm, though nobody owns it now.
rmaccount(x) ==
    /\ Calling
    /\ evm' = [evm EXCEPT ![x] = 0]
    /\ UNCHANGED <<inited, frozen, bridging, tables, held, stack, used, replayed, drift>>

Repair ==
    \/ \E x \in Addrs, d \in Deltas : addevmbal_subtract(x, d) \/ addevmbal_add(x, d)
    \/ \E a \in Accounts, d \in Deltas, subtract \in BOOLEAN : addopenbal(a, d, subtract)
    \/ \E x \in Addrs : rmaccount(x)

RepairNext ==
    \/ Next /\ UNCHANGED drift
    \/ Repair

RepairSpec == RepairInit /\ [][RepairNext]_rvars

-----------------------------------------------------------------------------
\* Properties.

\* What the contract owes differs from what it holds by the repairs and by
\* nothing else: once they add up to zero, the tables are as good as if there
\* had been none, whatever ran in between.
BackingExact ==
    held * MinAsset + drift = Holdings(balances) + Value(inevm) + OwedIn(stack) * MinAsset

\* A transfer that was sent is still covered unless the administrator has added
\* more than was taken away.
CoveredUnlessAdded ==
    drift <= 0 /\ stack # <<>> /\ Top.kind = "transfer" => Top.amount <= held

=============================================================================
