---------------------------- MODULE BalanceCell ----------------------------
(***************************************************************************)
(* One balance_with_dust under any sequence of += and -=, beside the plain *)
(* integer it is meant to stand for.  An operation whose check fails       *)
(* aborts the transaction and leaves no trace, so it is no step.           *)
(***************************************************************************)
EXTENDS BalanceWithDust

CONSTANT Operands   \* the uint256 amounts the operations are applied to

ASSUME OperandsAssumption == Operands \subseteq Nat

VARIABLES
    cell,   \* the balance_with_dust
    wei     \* reference: the sum of what was added less what was deducted

vars == <<cell, wei>>

Init == cell = ZeroBalance /\ wei = 0

PlusAssign(x) ==
    /\ CanAccumulate(cell, x)
    /\ cell' = Accumulate(cell, x)
    /\ wei' = wei + x

MinusAssign(x) ==
    /\ CanDeduct(cell, x)
    /\ cell' = Deduct(cell, x)
    /\ wei' = wei - x

Next == \E x \in Operands : PlusAssign(x) \/ MinusAssign(x)

Spec == Init /\ [][Next]_vars

-----------------------------------------------------------------------------
\* The members stay in range: the amount never leaves 0..max_amount (so never
\* overflows int64_t) and the dust is always less than one token unit.
TypeOK == cell \in Balance /\ wei \in Nat

\* No sequence of carries and borrows creates or loses a unit of 10^-18:
\* amount and dust together are exactly what went in less what went out.
ValueExact == Value(cell) = wei

\* The checks of += and -= refuse exactly the operations whose result does
\* not fit: += refuses what exceeds the largest balance, -= what exceeds the
\* balance; neither refuses anything else.
ChecksExact ==
    \A x \in Operands :
        /\ CanAccumulate(cell, x) <=> wei + x <= MaxValue
        /\ CanDeduct(cell, x) <=> x <= wei

=============================================================================
